----------------------------- MODULE Lifecycle -----------------------------
(***************************************************************************)
(* `tc run init`, `tc run backtest` and `tc run paper` (cli.py,            *)
(* runs/artifacts.py, runs/backtest.py, runs/paper.py) for one run_id.     *)
(* The spec file is valid and its mode fits the command: a bad one exits   *)
(* before anything is touched.                                             *)
(*                                                                         *)
(* held[p] is the metadata dict that the lifecycle builds once and writes  *)
(* over the file again at every status change.                             *)
(***************************************************************************)
EXTENDS Workspace

VARIABLE beat   \* per invocation: heartbeats appended so far

HeartbeatCount == 3

BeatInit == beat = [p \in Proc |-> 0]

Log(p, event) == journal' = Append(journal, [event |-> event, by |-> p])

\* Mutated form: only a cleared switch lets the outcome say "continue".
OutcomeOfStrict(state) ==
    IF state = "cleared" THEN "checked_continue" ELSE "blocked_kill_switch"

\* The lifecycle_outcome a paper run derives from the status it read.
OutcomeOf(state) ==
    IF state = "active" THEN "blocked_kill_switch" ELSE "checked_continue"

\* Mutated form: only an activation that was never cleared before blocks.
BlockedFirstTime(p) ==
    op[p] = "paper" /\ seen[p].state = "active" /\ Len(events) < 2

Blocked(p) == op[p] = "paper" /\ seen[p].state = "active"

-----------------------------------------------------------------------------
(* Mutated forms: slips that the code could contain. *)

\* The gate waits for a state file that parses.
GateWaits(p) ==
    /\ ~StatusUnreadable
    /\ Goto(p, "gate", "check_dir")
    /\ seen' = [seen EXCEPT ![p] = StatusRead]
    /\ UNCHANGED <<files, op, held, before, beat>>

\* run_dir.mkdir(exist_ok=True)
MakeDirExistOk(p) ==
    /\ Goto(p, "make_dir", "copy_spec")
    /\ runDir' = TRUE
    /\ UNCHANGED <<stateFile, events, runSpec, metadata, journal, metrics, report,
                   op, seen, held, before, beat>>

\* range(1, _HEARTBEAT_COUNT)
HeartbeatsDoneEarly(p) ==
    /\ beat[p] >= HeartbeatCount - 1
    /\ Goto(p, "heartbeat", "paper_completed")
    /\ UNCHANGED <<files, op, seen, held, before, beat>>

\* range(_HEARTBEAT_COUNT + 1)
HeartbeatOneMore(p) ==
    /\ beat[p] <= HeartbeatCount
    /\ Goto(p, "heartbeat", "heartbeat")
    /\ beat' = [beat EXCEPT ![p] = @ + 1]
    /\ journal' = Append(journal, [event |-> "paper_heartbeat", by |-> p])
    /\ UNCHANGED <<stateFile, events, runDir, runSpec, metadata, metrics, report,
                   op, seen, held, before>>

\* The blocked branch returns without the closing journal line.
SafetyBlockedReturns(p) ==
    /\ Goto(p, "safety_blocked", "open_metrics")
    /\ Log(p, "paper_safety_blocked")
    /\ UNCHANGED <<stateFile, events, runDir, runSpec, metadata, metrics, report,
                   op, seen, held, before, beat>>

\* The final status is saved before metrics and report are written.
PaperCompletedEarly(p) ==
    /\ Goto(p, "paper_completed", "open_metadata")
    /\ Log(p, "paper_completed")
    /\ held' = [held EXCEPT ![p].status = "completed"]
    /\ UNCHANGED <<stateFile, events, runDir, runSpec, metadata, metrics, report,
                   op, seen, before, beat>>

-----------------------------------------------------------------------------
(* Up to the first journal entry *)

RunBegin(p) ==
    /\ \E o \in RunOps :
          Begin(p, o, IF o = "paper" THEN "gate" ELSE "check_dir")
    /\ UNCHANGED <<files, seen, held, beat>>

\* build_safety_snapshot, before the run directory is made.
Gate(p) ==
    /\ IF StatusUnreadable
       THEN Goto(p, "gate", "failed") /\ UNCHANGED seen
       ELSE /\ Goto(p, "gate", "check_dir")
            /\ seen' = [seen EXCEPT ![p] = StatusRead]
    /\ UNCHANGED <<files, op, held, before, beat>>

CheckDir(p) ==
    /\ Goto(p, "check_dir", IF runDir THEN "refused" ELSE "make_dir")
    /\ UNCHANGED <<files, op, seen, held, before, beat>>

\* Path.mkdir fails when another command made the directory in between.
MakeDir(p) ==
    /\ Goto(p, "make_dir", IF runDir THEN "refused" ELSE "copy_spec")
    /\ runDir' = TRUE
    /\ UNCHANGED <<stateFile, events, runSpec, metadata, journal, metrics, report,
                   op, seen, held, before, beat>>

BacktestMetadata == [InitialMetadata EXCEPT !.status = "running"]

PaperMetadata(p) ==
    [InitialMetadata EXCEPT !.status = "running",
                            !.safety = seen[p].state,
                            !.outcome = OutcomeOf(seen[p].state)]

\* The spec is copied; then the command builds its metadata dict.
CopySpec(p) ==
    /\ Goto(p, "copy_spec", "open_metadata")
    /\ runSpec' = TRUE
    /\ held' = [held EXCEPT ![p] =
          CASE op[p] = "init"     -> InitialMetadata
            [] op[p] = "backtest" -> BacktestMetadata
            [] op[p] = "paper"    -> PaperMetadata(p)]
    /\ UNCHANGED <<stateFile, events, runDir, metadata, journal, metrics, report,
                   op, seen, before, beat>>

OpenMetadata(p) ==
    /\ Goto(p, "open_metadata", "flush_metadata")
    /\ metadata' = Empty
    /\ UNCHANGED <<stateFile, events, runDir, runSpec, journal, metrics, report,
                   op, seen, held, before, beat>>

\* What follows each write_metadata call.
AfterMetadata(p) ==
    CASE held[p].status \in {"initialized", "running"} -> "create_journal"
      [] held[p].status = "safety_blocked" -> "safety_blocked"
      [] held[p].status = "failed"    -> "run_failed"
      [] held[p].status = "completed" -> "run_completed"

FlushMetadata(p) ==
    /\ Goto(p, "flush_metadata", AfterMetadata(p))
    /\ metadata' \in Flush(metadata, held[p])
    /\ UNCHANGED <<stateFile, events, runDir, runSpec, journal, metrics, report,
                   op, seen, held, before, beat>>

\* open("a") creates the journal before its first line is written.
CreateJournal(p) ==
    /\ Goto(p, "create_journal", "first_entry")
    /\ journal' = IF journal = Absent THEN <<>> ELSE journal
    /\ UNCHANGED <<stateFile, events, runDir, runSpec, metadata, metrics, report,
                   op, seen, held, before, beat>>

\* A journal line that leaves everything but the program counter alone.
LogStep(p, from, event, to) ==
    /\ Goto(p, from, to)
    /\ Log(p, event)
    /\ UNCHANGED <<stateFile, events, runDir, runSpec, metadata, metrics, report,
                   op, seen, held, before, beat>>

RunInitialized(p) ==
    op[p] = "init" /\ LogStep(p, "first_entry", "run_initialized", "done")

RunStarted(p) ==
    /\ op[p] \in {"backtest", "paper"}
    /\ LogStep(p, "first_entry", "run_started",
               IF op[p] = "paper" THEN "safety_checked" ELSE "backtest_started")

-----------------------------------------------------------------------------
(* run_paper_lifecycle *)

\* The kill switch branch, decided by the status read at the gate.
SafetyChecked(p) ==
    /\ Goto(p, "safety_checked", IF Blocked(p) THEN "open_metadata" ELSE "paper_started")
    /\ Log(p, "paper_safety_checked")
    /\ held' = IF Blocked(p) THEN [held EXCEPT ![p].status = "safety_blocked"] ELSE held
    /\ UNCHANGED <<stateFile, events, runDir, runSpec, metadata, metrics, report,
                   op, seen, before, beat>>

SafetyBlocked(p) == LogStep(p, "safety_blocked", "paper_safety_blocked", "blocked_completed")
BlockedCompleted(p) == LogStep(p, "blocked_completed", "run_completed", "open_metrics")

PaperStarted(p) == LogStep(p, "paper_started", "paper_started", "heartbeat")

Heartbeat(p) ==
    /\ beat[p] < HeartbeatCount
    /\ Goto(p, "heartbeat", "heartbeat")
    /\ beat' = [beat EXCEPT ![p] = @ + 1]
    /\ Log(p, "paper_heartbeat")
    /\ UNCHANGED <<stateFile, events, runDir, runSpec, metadata, metrics, report,
                   op, seen, held, before>>

HeartbeatsDone(p) ==
    /\ beat[p] >= HeartbeatCount
    /\ Goto(p, "heartbeat", "paper_completed")
    /\ UNCHANGED <<files, op, seen, held, before, beat>>

PaperCompleted(p) == LogStep(p, "paper_completed", "paper_completed", "open_metrics")

-----------------------------------------------------------------------------
(* run_backtest_lifecycle *)

BacktestStarted(p) == LogStep(p, "backtest_started", "backtest_started", "engine")

EngineRun(p) ==
    /\ Goto(p, "engine", "backtest_completed")
    /\ UNCHANGED <<files, op, seen, held, before, beat>>

BacktestCompleted(p) ==
    LogStep(p, "backtest_completed", "backtest_completed", "open_metrics")

-----------------------------------------------------------------------------
(* Endings *)

\* An exception in the heartbeats or in the engine is recorded, then re-raised.
Raise(p) ==
    /\ \/ pc[p] = "heartbeat" /\ beat[p] < HeartbeatCount
       \/ pc[p] = "engine"
    /\ pc' = [pc EXCEPT ![p] = "open_metadata"]
    /\ held' = [held EXCEPT ![p].status = "failed"]
    /\ UNCHANGED <<files, op, seen, before, beat>>

RunFailed(p) == LogStep(p, "run_failed", "run_failed", "failed")

OpenMetrics(p) ==
    /\ Goto(p, "open_metrics", "flush_metrics")
    /\ metrics' = Empty
    /\ UNCHANGED <<stateFile, events, runDir, runSpec, metadata, journal, report,
                   op, seen, held, before, beat>>

MetricsOf(p) ==
    CASE op[p] = "backtest" -> "smoke"
      [] Blocked(p)         -> "blocked"
      [] OTHER              -> "placeholder"

FlushMetrics(p) ==
    /\ Goto(p, "flush_metrics", "open_report")
    /\ metrics' \in Flush(metrics, MetricsOf(p))
    /\ UNCHANGED <<stateFile, events, runDir, runSpec, metadata, journal, report,
                   op, seen, held, before, beat>>

OpenReport(p) ==
    /\ Goto(p, "open_report", "flush_report")
    /\ report' = EmptyReport
    /\ UNCHANGED <<stateFile, events, runDir, runSpec, metadata, journal, metrics,
                   op, seen, held, before, beat>>

\* A blocked run ends with its report; the others still save their status.
FlushReport(p) ==
    /\ Goto(p, "flush_report", IF Blocked(p) THEN "done" ELSE "open_metadata")
    /\ report' \in FlushText(report,
          [EmptyReport EXCEPT !.body = IF Blocked(p) THEN "safety_blocked" ELSE "completed"])
    /\ held' = IF Blocked(p) THEN held ELSE [held EXCEPT ![p].status = "completed"]
    /\ UNCHANGED <<stateFile, events, runDir, runSpec, metadata, journal, metrics,
                   op, seen, before, beat>>

RunCompleted(p) == LogStep(p, "run_completed", "run_completed", "done")

RunStep(p) ==
    \/ Gate(p) \/ CheckDir(p) \/ MakeDir(p) \/ CopySpec(p)
    \/ OpenMetadata(p) \/ FlushMetadata(p)
    \/ CreateJournal(p) \/ RunInitialized(p) \/ RunStarted(p)
    \/ SafetyChecked(p) \/ SafetyBlocked(p) \/ BlockedCompleted(p)
    \/ PaperStarted(p) \/ Heartbeat(p) \/ HeartbeatsDone(p) \/ PaperCompleted(p)
    \/ BacktestStarted(p) \/ EngineRun(p) \/ BacktestCompleted(p)
    \/ Raise(p) \/ RunFailed(p)
    \/ OpenMetrics(p) \/ FlushMetrics(p) \/ OpenReport(p) \/ FlushReport(p)
    \/ RunCompleted(p)
=============================================================================
