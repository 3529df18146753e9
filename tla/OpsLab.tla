------------------------------- MODULE OpsLab -------------------------------
(***************************************************************************)
(* All commands that write the workspace of one run_id, running            *)
(* concurrently as separate processes: the lifecycles, the kill switch and *)
(* the connectivity commands.                                              *)
(***************************************************************************)
EXTENDS KillSwitch, Lifecycle, Connectivity

\* bound: which commands may meet, and how many of them may crash.  A scenario's plan
\* has, per invocation, the commands that it may turn out to be; the invocations in
\* `first` have ended before another begins.
CONSTANT Scenarios

ASSUME ScenarioAssumption ==
    \A s \in Scenarios :
        s.plan \in [Proc -> SUBSET Ops] /\ s.first \subseteq Proc /\ s.crashes \in Nat

vars == <<workspace, beat, connVars>>

Init == FreshInit /\ BeatInit /\ ConnInit

Within(s) ==
    /\ \A p \in Proc : op[p] \in s.plan[p] \cup {"none"}
    /\ \A p \in Proc \ s.first : Started(p) => s.first \subseteq before[p]
    /\ Cardinality({p \in Proc : pc[p] = "crashed"}) <= s.crashes
Allowed == \E s \in Scenarios : Within(s)

BeginCommand(p) ==
    /\ \/ KillBegin(p) /\ UNCHANGED <<beat, connVars>>
       \/ RunBegin(p) /\ UNCHANGED connVars
       \/ PatchBegin(p) /\ UNCHANGED beat
    /\ Allowed'

Step(p) ==
    \/ KillStep(p) /\ UNCHANGED <<beat, connVars>>
    \/ RunStep(p) /\ UNCHANGED connVars
    \/ PatchStep(p) /\ UNCHANGED beat

CrashCommand(p) ==
    /\ Crash(p)
    /\ UNCHANGED <<beat, connVars>>
    /\ Allowed'

Next == \E p \in Proc : BeginCommand(p) \/ Step(p) \/ CrashCommand(p)

\* The scheduler runs every started process; nobody has to start one, and
\* nothing has to crash.
Fairness == \A p \in Proc : WF_vars(Step(p))

Spec == Init /\ [][Next]_vars /\ Fairness

-----------------------------------------------------------------------------
(* Views of the journal *)

Entries == IF journal = Absent THEN {} ELSE ToSet(journal)
Logged(event) == \E e \in Entries : e.event = event
\* The positions of the lifecycle's lines.
RunLines == IF journal = Absent THEN {}
            ELSE {i \in DOMAIN journal : journal[i].event \in RunEntries}
Terminal == {"run_initialized", "run_completed", "run_failed"}

OpsTypeOK == TypeOK /\ ConnTypeOK /\ beat \in [Proc -> 0..HeartbeatCount]

-----------------------------------------------------------------------------
(* Safety *)

\* The gate holds: a paper run that begins after an activation has ended
\* never starts its paper session, whatever other commands do meanwhile, as long
\* as no clear ran after the activation began and before the paper run ended.
GateHonoured ==
    \A a, r \in Proc :
        /\ op[a] = "activate" /\ pc[a] = "done"
        /\ op[r] = "paper" /\ Precedes(a, r)
        /\ \A c \in Proc : op[c] = "clear" => Precedes(c, a) \/ Precedes(r, c)
        => \A e \in Entries : e.by = r =>
              e.event \notin {"paper_started", "paper_heartbeat", "paper_completed"}

\* One lifecycle owns the run: every lifecycle line of the journal has the same
\* author, whose mkdir succeeded, however many lifecycles race for the run_id.
OneOwner ==
    \A e, f \in Entries :
        e.event \in RunEntries /\ f.event \in RunEntries => e.by = f.by

\* metadata.json never claims more than the run's other files back, even when
\* another command writes an old copy over it: a completed run has finished its
\* execution in the journal, all its heartbeats, its metrics and its report; a
\* blocked run announced the check; a failed one had started executing.
StatusBacked ==
    Readable(metadata) =>
        CASE metadata.status = "completed" ->
               /\ metrics \in {"smoke", "placeholder"} /\ report # Absent
               /\ \/ Logged("backtest_completed")
                  \/ /\ Logged("paper_completed")
                     /\ \E r \in Proc : beat[r] = HeartbeatCount
          [] metadata.status = "safety_blocked" ->
               Logged("paper_safety_checked") /\ ~Logged("paper_started")
          [] metadata.status = "failed" ->
               Logged("paper_started") \/ Logged("backtest_started")
          [] OTHER -> TRUE

\* A lifecycle_outcome in metadata.json tells which way the paper run went.
OutcomeTellsBranch ==
    Readable(metadata) =>
        /\ metadata.outcome = "blocked_kill_switch" => ~Logged("paper_started")
        /\ metadata.outcome = "checked_continue" => ~Logged("paper_safety_blocked")

\* Connectivity evidence is written strictly behind its artifact: a report
\* section has its journal line, a journal line or a metadata key its artifact.
SectionsBacked ==
    \A o \in PatchOps :
        /\ report # Absent /\ o \in report.sections => Logged(PatchEntryName(o))
        /\ Logged(PatchEntryName(o)) => connFile[o] # Absent
        /\ Readable(metadata) /\ o \in metadata.sections => connFile[o] # Absent

\* Commands that do not overlap and do not fail lose none of each other's
\* updates to metadata.json: it has the lifecycle's last status, every
\* connectivity key and the kill switch state last written.
SerialKeepsUpdates ==
    SerialHistory /\ (\A p \in Proc : Started(p) => Ended(p)) =>
        \A p \in Proc : pc[p] = "done" =>
            /\ op[p] \in PatchOps =>
                  op[p] \in metadata.sections
            /\ op[p] \in {"backtest", "paper"} =>
                  metadata.status = IF Blocked(p) THEN "safety_blocked" ELSE "completed"
            /\ op[p] = "init" => metadata.status = "initialized"
            /\ op[p] \in RunOps =>
                  \A k \in Proc : op[k] \in KillOps /\ Precedes(p, k) =>
                      metadata.safety = stateFile.state

-----------------------------------------------------------------------------
(* The journal implements the abstract lifecycle. *)

PhaseAfter(event) ==
    CASE event = "run_initialized"      -> "initialized"
      [] event = "run_started"          -> "started"
      [] event = "paper_safety_checked" -> "checked"
      [] event = "paper_safety_blocked" -> "blocked"
      [] event \in {"paper_started", "paper_heartbeat"} -> "executing"
      [] event = "backtest_started"     -> "backtesting"
      [] event \in {"paper_completed", "backtest_completed"} -> "executed"
      [] event = "run_completed"        -> "completed"
      [] event = "run_failed"           -> "failed"

JournalPhase ==
    IF RunLines = {} THEN "none" ELSE PhaseAfter(journal[Max(RunLines)].event)

JournalBeats == Cardinality({i \in RunLines : journal[i].event = "paper_heartbeat"})

Abstract == INSTANCE RunPhases
    WITH MaxBeats <- HeartbeatCount, phase <- JournalPhase, beats <- JournalBeats

\* The lifecycle lines of journal.jsonl, read in order, are a behaviour of
\* RunPhases, also under crashes, races for the directory and foreign lines.
JournalImplementsPhases == Abstract!PhaseSpec

-----------------------------------------------------------------------------
(* Liveness *)

\* Every command that starts comes to an end.
CommandsEnd == \A p \in Proc : Started(p) ~> Ended(p)

\* The lifecycle that made the run directory closes the journal, unless the
\* process itself dies.
OwnerClosesJournal ==
    \A p \in Proc :
        pc[p] = "copy_spec" ~>
            \/ pc[p] = "crashed"
            \/ \E e \in Entries : e.by = p /\ e.event \in Terminal

-----------------------------------------------------------------------------
\* "Re-running a lifecycle command overwrites the local artifact directory and
\* is always safe" (docs/runbooks/artifact-health.md): a lifecycle command that
\* begins when every other command has ended is never turned away.
RerunOverwrites ==
    \A p \in Proc :
        pc[p] = "refused" => \E q \in Proc \ {p} : Started(q) /\ ~Precedes(q, p)
=============================================================================
