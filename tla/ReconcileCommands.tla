------------------------- MODULE ReconcileCommands --------------------------
(***************************************************************************)
(* `tc reconcile check` and the three `tc drill` commands on one run       *)
(* directory.  Two of the drills run a reconciliation of their own, into   *)
(* the same reconciliation_result.json as the check.                       *)
(***************************************************************************)
EXTENDS Reconciliation, FiniteSets, Files

CONSTANTS
    Proc,       \* command invocations
    Scenarios,  \* bound: which commands may meet, as a plan per invocation
    Now         \* the time of the checks, in seconds since 2020-01-01

FixtureDrills == {"stale_market_data", "reconciliation_mismatch"}
Drills == FixtureDrills \cup {"restart_recovery"}
ReconcileOps == {"check"} \cup Drills

\* The artifacts of a run, in the order in which its lifecycle creates them.
Artifacts == <<"run_dir", "run_spec", "metadata", "journal", "metrics">>

ASSUME PlanAssumption ==
    \A s \in Scenarios : s.plan \in [Proc -> SUBSET ReconcileOps]

\* The JSON texts of these commands, of which none is "no file".
Results == [status : ToSet(Severities), by : Proc]
Reports == [pass : BOOLEAN, found : SUBSET ToSet(Artifacts), by : Proc]

ASSUME TextAssumption == Absent \notin {Empty, Garbled} \cup Results \cup Reports

VARIABLES
    artifacts,      \* the run's artifacts that exist
    lines,          \* what these commands appended to journal.jsonl
    resultFile,     \* reconciliation_result.json
    drillFiles,     \* drills/<drill>.json
    pc, op,
    verdict,        \* per invocation: the status of the result in its memory
    found,          \* per invocation: the artifacts the restart drill saw
    before          \* history: the invocations that had ended when it began

vars == <<artifacts, lines, resultFile, drillFiles, pc, op, verdict, found, before>>

EndPCs == {"done", "exit_1", "failed", "crashed"}
Started(p) == pc[p] # "idle"
Ended(p) == pc[p] \in EndPCs
Goto(p, from, to) == pc[p] = from /\ pc' = [pc EXCEPT ![p] = to]

-----------------------------------------------------------------------------
(* examples/reconciliation: the fixtures of the drills and the docs *)

Payload(side, qty, avg, freshness) ==
    [position |-> [symbol |-> "BTCUSDT", side |-> side, qty |-> qty, avg |-> avg],
     orders |-> <<>>, freshness |-> freshness]
FreshAt(t, limit) == [position |-> t, orders |-> t, maxAge |-> limit]

MayOf2026 == 2332 * 86400       \* 2026-05-21T00:00:00Z
Zero   == [neg |-> FALSE, coef |-> 0, exp |-> 0]
Match  == Payload("flat", Zero, Null, FreshAt(MayOf2026, 999999999))
StaleObserved == Payload("flat", Zero, Null, FreshAt(0, 60))
LongObserved  == Payload("long", [neg |-> FALSE, coef |-> 1, exp |-> -1],
                         [neg |-> FALSE, coef |-> 1000000, exp |-> -1],
                         FreshAt(MayOf2026, 999999999))
NoFreshness == Payload("flat", Zero, Null, Null)

\* The observed payloads that a command may be given.
Observed(o) ==
    CASE o = "check" -> {Match, StaleObserved, LongObserved, NoFreshness}
      [] o = "stale_market_data" -> {StaleObserved}
      [] o = "reconciliation_mismatch" -> {LongObserved}

\* The clock is past the minute in which the stale fixture was fresh; null and a
\* string that does not parse are none of the values that do.
ASSUME FixtureAssumption ==
    /\ Now \in Nat /\ Now >= 61 * TicksPerSecond
    /\ Null # Bad
    /\ {Zero, LongObserved.position.qty, LongObserved.position.avg}
         \cap {Null, Bad} = {}
    /\ FreshAt(0, 60) # Null
    /\ 0 \notin {Null, Bad} /\ 60 # Null

ExpectedStatus(o) == IF o = "stale_market_data" THEN "warning" ELSE "mismatch"

-----------------------------------------------------------------------------
(* Mutated forms: slips that the code could contain. *)

\* The drill reads its reconciliation back from the shared result file.
PassReread(p) ==
    \/ op[p] = "restart_recovery"
    \/ Readable(resultFile) /\ resultFile.status = ExpectedStatus(op[p])

\* A result that is already there is kept.
OpenResultOnce(p) ==
    /\ pc[p] = "open_result"
    /\ IF resultFile = Absent
       THEN Goto(p, "open_result", "flush_result") /\ resultFile' = Empty
       ELSE Goto(p, "open_result", "journal_result") /\ UNCHANGED resultFile
    /\ UNCHANGED <<artifacts, lines, drillFiles, op, verdict, found, before>>

\* The drill's journal line is appended before its report is written.
OpenDrillLate(p) ==
    /\ Goto(p, "open_drill", "flush_drill")
    /\ lines' = IF "journal" \notin artifacts THEN lines
                ELSE Append(lines, [event |-> "failure_drill_executed", by |-> p, status |-> op[p]])
    /\ UNCHANGED <<artifacts, resultFile, drillFiles, op, verdict, found, before>>

-----------------------------------------------------------------------------
(* run_reconciliation_check *)

\* Every command fails on a run directory that does not exist.
BeginReconcile(p, o) ==
    /\ Goto(p, "idle", IF "run_dir" \notin artifacts THEN "failed"
                       ELSE IF o = "restart_recovery" THEN "see_metadata" ELSE "compare")
    /\ op' = [op EXCEPT ![p] = o]
    /\ before' = [before EXCEPT ![p] = {q \in Proc : Ended(q)}]
    /\ UNCHANGED <<artifacts, lines, resultFile, drillFiles, verdict, found>>

\* The inputs of a check may be missing, malformed, or of another run.
InvalidInputs(p) ==
    /\ op[p] = "check"
    /\ Goto(p, "compare", "failed")
    /\ UNCHANGED <<artifacts, lines, resultFile, drillFiles, op, verdict, found, before>>

Compare(p) ==
    /\ Goto(p, "compare", "open_result")
    /\ \E observed \in Observed(op[p]) :
          verdict' = [verdict EXCEPT ![p] = Status(Checks(Match, observed, Now))]
    /\ UNCHANGED <<artifacts, lines, resultFile, drillFiles, op, found, before>>

OpenResult(p) ==
    /\ Goto(p, "open_result", "flush_result")
    /\ resultFile' = Empty
    /\ UNCHANGED <<artifacts, lines, drillFiles, op, verdict, found, before>>

ResultOf(p) == [status |-> verdict[p], by |-> p]

FlushResult(p) ==
    /\ Goto(p, "flush_result", "journal_result")
    /\ resultFile' \in Flush(resultFile, ResultOf(p))
    /\ UNCHANGED <<artifacts, lines, drillFiles, op, verdict, found, before>>

\* The line goes out when there is a journal.  A check exits by its status, a
\* drill goes on to its report.
JournalResult(p) ==
    /\ Goto(p, "journal_result",
            IF op[p] \in Drills THEN "open_drill"
            ELSE IF ExitCode(verdict[p]) = 0 THEN "done" ELSE "exit_1")
    /\ lines' = IF "journal" \notin artifacts THEN lines
                ELSE Append(lines, [event |-> "reconciliation_checked", by |-> p,
                                    status |-> verdict[p]])
    /\ UNCHANGED <<artifacts, resultFile, drillFiles, op, verdict, found, before>>

-----------------------------------------------------------------------------
(* execute_restart_recovery_drill: the artifacts are looked for one by one *)

SeeOrder == <<"metadata", "run_spec", "journal", "metrics">>
SeePC == <<"see_metadata", "see_run_spec", "see_journal", "see_metrics", "open_drill">>

See(p) ==
    /\ \E i \in DOMAIN SeeOrder :
          /\ Goto(p, SeePC[i], SeePC[i+1])
          /\ found' = [found EXCEPT ![p] = @ \cup ({SeeOrder[i]} \cap artifacts)]
    /\ UNCHANGED <<artifacts, lines, resultFile, drillFiles, op, verdict, before>>

-----------------------------------------------------------------------------
(* The drill's own report *)

\* The restart drill passes whatever it found.
DrillPass(p) ==
    \/ op[p] = "restart_recovery"
    \/ verdict[p] = ExpectedStatus(op[p])

DrillReport(p) == [pass |-> DrillPass(p), found |-> found[p], by |-> p]

OpenDrill(p) ==
    /\ Goto(p, "open_drill", "flush_drill")
    /\ drillFiles' = [drillFiles EXCEPT ![op[p]] = Empty]
    /\ UNCHANGED <<artifacts, lines, resultFile, op, verdict, found, before>>

FlushDrill(p) ==
    /\ Goto(p, "flush_drill", "journal_drill")
    /\ \E f \in Flush(drillFiles[op[p]], DrillReport(p)) :
          drillFiles' = [drillFiles EXCEPT ![op[p]] = f]
    /\ UNCHANGED <<artifacts, lines, resultFile, op, verdict, found, before>>

\* `tc drill reconciliation-mismatch` exits 1 by design.
JournalDrill(p) ==
    /\ Goto(p, "journal_drill", IF op[p] = "reconciliation_mismatch" THEN "exit_1" ELSE "done")
    /\ lines' = IF "journal" \notin artifacts THEN lines
                ELSE Append(lines, [event |-> "failure_drill_executed", by |-> p,
                                    status |-> op[p]])
    /\ UNCHANGED <<artifacts, resultFile, drillFiles, op, verdict, found, before>>

-----------------------------------------------------------------------------
\* The run's own lifecycle creates its next artifact.
LifecycleCreates ==
    /\ \E i \in DOMAIN Artifacts :
          /\ Artifacts[i] \notin artifacts
          /\ \A j \in 1..(i-1) : Artifacts[j] \in artifacts
          /\ artifacts' = artifacts \cup {Artifacts[i]}
    /\ UNCHANGED <<lines, resultFile, drillFiles, pc, op, verdict, found, before>>

CrashReconcile(p) ==
    /\ Started(p) /\ ~Ended(p)
    /\ pc' = [pc EXCEPT ![p] = "crashed"]
    /\ UNCHANGED <<artifacts, lines, resultFile, drillFiles, op, verdict, found, before>>

ReconcileInit ==
    /\ artifacts = {} /\ lines = <<>>
    /\ resultFile = Absent
    /\ drillFiles = [d \in Drills |-> Absent]
    /\ pc = [p \in Proc |-> "idle"]
    /\ op = [p \in Proc |-> "none"]
    /\ verdict = [p \in Proc |-> "none"]
    /\ found = [p \in Proc |-> {}]
    /\ before = [p \in Proc |-> {}]

Within(s) == \A p \in Proc : op[p] \in s.plan[p] \cup {"none"}

ReconcileStep(p) ==
    \/ \E o \in ReconcileOps : BeginReconcile(p, o) /\ \E s \in Scenarios : Within(s)'
    \/ InvalidInputs(p) \/ Compare(p) \/ OpenResult(p) \/ FlushResult(p)
    \/ JournalResult(p) \/ See(p) \/ OpenDrill(p) \/ FlushDrill(p) \/ JournalDrill(p)
    \/ CrashReconcile(p)

ReconcileNext == LifecycleCreates \/ \E p \in Proc : ReconcileStep(p)

ReconcileSpec == ReconcileInit /\ [][ReconcileNext]_vars

-----------------------------------------------------------------------------
(* Properties *)

\* A drill that injects a fault always reports that the fault was detected: its
\* pass flag is about its own reconciliation, even while checks and other drills
\* rewrite the result file they all share.
DrillsPass ==
    \A d \in FixtureDrills : Readable(drillFiles[d]) => drillFiles[d].pass

Flushed(p) == pc[p] \notin {"idle", "compare", "open_result", "flush_result",
                            "see_metadata", "see_run_spec", "see_journal", "see_metrics",
                            "failed", "crashed"}
Reconciles(p) == op[p] # "restart_recovery" /\ pc[p] # "failed"

\* p began after every other command that reconciles had ended or crashed, and
\* none began since.
LastToReconcile(p) ==
    /\ Reconciles(p) /\ Flushed(p)
    /\ \A q \in Proc \ {p} : Started(q) /\ Reconciles(q) => q \in before[p]

\* No result file stays torn or outdated: a reconciliation that starts when the
\* others are over leaves its own verdict, whatever they left behind when they
\* crashed, and the newest journal line about it, if it has one.
RerunRepairs ==
    \A p \in Proc : LastToReconcile(p) =>
        /\ resultFile = ResultOf(p)
        /\ LET checked == {i \in DOMAIN lines : lines[i].event = "reconciliation_checked"}
           IN  \A i \in checked : lines[i].by = p =>
                  i = Max(checked) /\ lines[i].status = resultFile.status

\* The journal never runs ahead of the artifacts it points to: a drill line means
\* that the drill's report was opened, and with a fixture that the result was;
\* a command's reconciliation line comes before its drill line.
LinesBacked ==
    \A i \in DOMAIN lines :
        IF lines[i].event = "reconciliation_checked" THEN resultFile # Absent
        ELSE /\ drillFiles[lines[i].status] # Absent
             /\ lines[i].status \in FixtureDrills => resultFile # Absent
             /\ \A j \in (i+1)..Len(lines) : lines[j].by # lines[i].by

\* The comment on the gauge of drill outcomes (observability/metrics.py) reads
\* simulated_recovery_ok as "restart_recovery drill artifact check passes".
\* The drill writes that outcome, and pass, with required artifacts missing.
RecoveryOkMeansArtifacts ==
    LET report == drillFiles["restart_recovery"]
    IN  Readable(report) /\ report.pass => {"metadata", "run_spec"} \subseteq report.found
=============================================================================
