------------------------------ MODULE Datasets ------------------------------
(***************************************************************************)
(* `tc data prepare`, `tc data fingerprint` and the backtest engine on the *)
(* prepared candles (data/prepare.py, data/fingerprint.py,                 *)
(* engines/nautilus/backtest.py and its demo strategy), as commands that   *)
(* share data/ without locks.  There is one data set with one file.        *)
(*                                                                         *)
(* A candles file is the number of its rows, which also tells its content  *)
(* and its size; Empty is what copy2 leaves between opening and writing.   *)
(***************************************************************************)
EXTENDS Naturals, FiniteSets, Files

CONSTANTS
    Proc,           \* command invocations
    FixtureRows,    \* rows of the committed fixture
    Earlier,        \* what an earlier checkout may have prepared, or Absent
    MaxCrashes      \* bound: how many commands may crash

ActionBar == 5      \* OpsSmokeDemoStrategyConfig.action_bar_index

ASSUME RowAssumption ==
    /\ FixtureRows \in Nat \ {0}
    /\ Earlier \subseteq Nat \cup {Absent}
    /\ NoFile \cap Nat = {}

DataOps == {"prepare", "fingerprint", "backtest"}
NoCommand == "none"

VARIABLES
    candles,    \* data/datasets/btcusdt-sample/candles_1m.csv
    dataDir,    \* does its directory exist?
    output,     \* data/fingerprints/btcusdt-sample.fingerprint.json
    pc, op,     \* per invocation: the next step, the command
    taken,      \* per invocation: what it read of the candles, and their size
    strategy,   \* per invocation: the counters of OpsSmokeDemoStrategy
    before      \* history: the invocations that had ended when it began

dataVars == <<candles, dataDir, output, pc, op, taken, strategy, before>>

Fingerprint == [sha : Nat \cup {Empty}, size : Nat \cup {Empty}]
NothingTaken == [sha |-> Empty, size |-> Empty]
NewStrategy == [bars_seen |-> 0, triggered |-> FALSE]

DataInit ==
    /\ candles \in Earlier
    /\ dataDir = (candles # Absent)
    /\ output = Absent
    /\ pc = [p \in Proc |-> "idle"] /\ op = [p \in Proc |-> NoCommand]
    /\ taken = [p \in Proc |-> NothingTaken]
    /\ strategy = [p \in Proc |-> NewStrategy]
    /\ before = [p \in Proc |-> {}]

Ended(p) == pc[p] \in {"done", "failed", "crashed"}
Goto(p, from, to) == pc[p] = from /\ pc' = [pc EXCEPT ![p] = to]

FirstStep(o) ==
    CASE o = "prepare"     -> "make_dir"
      [] o = "fingerprint" -> "list"
      [] o = "backtest"    -> "load"

BeginData(p) ==
    /\ \E o \in DataOps : Goto(p, "idle", FirstStep(o)) /\ op' = [op EXCEPT ![p] = o]
    /\ before' = [before EXCEPT ![p] = {q \in Proc : Ended(q)}]
    /\ UNCHANGED <<candles, dataDir, output, taken, strategy>>

-----------------------------------------------------------------------------
(* Mutated forms: slips that the code could contain. *)

\* A fingerprint that is already there is kept.
OpenFingerprintOnce(p) ==
    /\ Goto(p, "open_output", IF output = Absent THEN "flush_output" ELSE "done")
    /\ output' = IF output = Absent THEN Empty ELSE output
    /\ UNCHANGED <<candles, dataDir, op, taken, strategy, before>>

\* The action bar is compared before the bar is counted.
OnBarLate(p) ==
    /\ pc[p] = "bars" /\ strategy[p].bars_seen < taken[p].sha
    /\ strategy' = [strategy EXCEPT ![p] =
          [bars_seen |-> @.bars_seen + 1,
           triggered |-> @.triggered \/ @.bars_seen = ActionBar]]
    /\ UNCHANGED <<candles, dataDir, output, pc, op, taken, before>>

-----------------------------------------------------------------------------
(* prepare_dataset: mkdir, then copy2 opens (and truncates) and writes *)

MakeDataDir(p) ==
    /\ Goto(p, "make_dir", "open_copy")
    /\ dataDir' = TRUE
    /\ UNCHANGED <<candles, output, op, taken, strategy, before>>

OpenCopy(p) ==
    /\ Goto(p, "open_copy", "flush_copy")
    /\ candles' = Empty
    /\ UNCHANGED <<dataDir, output, op, taken, strategy, before>>

\* Whoever else copies at the same time writes the same bytes.
FlushCopy(p) ==
    /\ Goto(p, "flush_copy", "done")
    /\ candles' \in Flush(candles, FixtureRows)
    /\ UNCHANGED <<dataDir, output, op, taken, strategy, before>>

-----------------------------------------------------------------------------
(* fingerprint_dataset, write_fingerprint *)

\* PreparedDatasetNotFoundError without the directory or any file in it.
ListFiles(p) ==
    /\ Goto(p, "list", IF dataDir /\ candles # Absent THEN "hash" ELSE "failed")
    /\ UNCHANGED <<candles, dataDir, output, op, taken, strategy, before>>

HashFile(p) ==
    /\ Goto(p, "hash", "stat")
    /\ taken' = [taken EXCEPT ![p].sha = candles]
    /\ UNCHANGED <<candles, dataDir, output, op, strategy, before>>

\* The size is asked of the file again.
StatFile(p) ==
    /\ Goto(p, "stat", "open_output")
    /\ taken' = [taken EXCEPT ![p].size = candles]
    /\ UNCHANGED <<candles, dataDir, output, op, strategy, before>>

OpenFingerprint(p) ==
    /\ Goto(p, "open_output", "flush_output")
    /\ output' = Empty
    /\ UNCHANGED <<candles, dataDir, op, taken, strategy, before>>

FlushFingerprint(p) ==
    /\ Goto(p, "flush_output", "done")
    /\ output' \in Flush(output, taken[p])
    /\ UNCHANGED <<candles, dataDir, op, taken, strategy, before>>

-----------------------------------------------------------------------------
(* run_nautilus_backtest_smoke *)

\* A missing file, one without a header line and one without rows raise.
LoadCandles(p) ==
    /\ Goto(p, "load", IF candles \in Nat \ {0} THEN "bars" ELSE "failed")
    /\ taken' = IF candles \in Nat THEN [taken EXCEPT ![p].sha = candles] ELSE taken
    /\ UNCHANGED <<candles, dataDir, output, op, strategy, before>>

OnBar(p) ==
    /\ pc[p] = "bars" /\ strategy[p].bars_seen < taken[p].sha
    /\ strategy' = [strategy EXCEPT ![p] =
          [bars_seen |-> @.bars_seen + 1,
           triggered |-> @.triggered \/ @.bars_seen + 1 = ActionBar]]
    /\ UNCHANGED <<candles, dataDir, output, pc, op, taken, before>>

\* engine.run() returns, and the counters are read.
EngineDone(p) ==
    /\ pc[p] = "bars" /\ strategy[p].bars_seen = taken[p].sha
    /\ Goto(p, "bars", "done")
    /\ UNCHANGED <<candles, dataDir, output, op, taken, strategy, before>>

-----------------------------------------------------------------------------
CrashData(p) ==
    /\ pc[p] # "idle" /\ ~Ended(p)
    /\ Cardinality({q \in Proc : pc[q] = "crashed"}) < MaxCrashes
    /\ pc' = [pc EXCEPT ![p] = "crashed"]
    /\ UNCHANGED <<candles, dataDir, output, op, taken, strategy, before>>

DataStep(p) ==
    \/ BeginData(p)
    \/ MakeDataDir(p) \/ OpenCopy(p) \/ FlushCopy(p)
    \/ ListFiles(p) \/ HashFile(p) \/ StatFile(p)
    \/ OpenFingerprint(p) \/ FlushFingerprint(p)
    \/ LoadCandles(p) \/ OnBar(p) \/ EngineDone(p)
    \/ CrashData(p)

DataNext == \E p \in Proc : DataStep(p)
DataSpec == DataInit /\ [][DataNext]_dataVars

-----------------------------------------------------------------------------
(* Properties *)

\* p completed o, and whichever other command of that kind was started had ended
\* when p began.
LastOf(o, p) ==
    /\ op[p] = o /\ pc[p] = "done"
    /\ \A q \in Proc \ {p} : op[q] = o => q \in before[p]

\* A prepare that overlaps no other one leaves the fixture, whatever an earlier
\* checkout had prepared and wherever an earlier prepare had crashed; and the
\* fingerprint file tells of the fixture, digest and size alike, once one
\* fingerprint has run alone after such a prepare.
FingerprintOfFixture ==
    \A q \in Proc : LastOf("prepare", q) =>
        /\ candles = FixtureRows
        /\ \A p \in Proc : LastOf("fingerprint", p) /\ q \in before[p] =>
              output = [sha |-> FixtureRows, size |-> FixtureRows]

\* The engine never reports on a file that was being copied: a backtest that
\* completes saw every row of one content, at least one, and its strategy acted
\* exactly when there were five; after such a prepare no backtest fails.
BacktestSeesAll ==
    \A p \in Proc : op[p] = "backtest" =>
        /\ pc[p] = "done" =>
              /\ taken[p].sha \in (Earlier \cup {FixtureRows}) \ {Absent, 0}
              /\ strategy[p] = [bars_seen |-> taken[p].sha,
                                triggered |-> taken[p].sha >= ActionBar]
        /\ pc[p] = "failed" => \A q \in before[p] : ~LastOf("prepare", q)
=============================================================================
