----------------------------- MODULE Workspace -----------------------------
(***************************************************************************)
(* The files that the `tc` commands of one run_id share, and the command   *)
(* invocations (operating-system processes) that work on them.  There is   *)
(* no lock, no rename and no deletion anywhere in the program: commands    *)
(* meet only through these files.                                          *)
(***************************************************************************)
EXTENDS Naturals, FiniteSets, SequencesExt, Files

CONSTANTS
    Proc,       \* command invocations
    NoProc      \* no invocation: a null timestamp or an earlier author

KillOps == {"activate", "clear"}
RunOps  == {"init", "backtest", "paper"}
PatchOps == {"readiness", "probe"}
Ops     == KillOps \cup RunOps \cup PatchOps

SwitchStates == {"active", "cleared"}
SafetyStates == SwitchStates \cup {"absent"}

\* Timestamps and event ids are named by the invocation that took them.
StateContent ==
    [state : SwitchStates, last : Proc,
     since : Proc \cup {NoProc}, cleared : Proc \cup {NoProc}]

KillEvent ==
    [id : Proc, op : KillOps, prev : SafetyStates, new : SwitchStates]

RunStatuses == {"initialized", "running", "completed", "failed", "safety_blocked"}
Outcomes    == {"none", "checked_continue", "blocked_kill_switch"}

\* safety is the recorded kill switch state ("none": no safety key), sections
\* the connectivity keys that readiness and probe add.
MetaContent ==
    [status : RunStatuses, safety : SafetyStates \cup {"none"},
     outcome : Outcomes, sections : SUBSET PatchOps]

MetricsContent == {"smoke", "placeholder", "blocked"}

\* body is the status the lifecycle rendered, sections what was patched in,
\* junk the end of a longer text left behind.  Nothing parses the report.
ReportContent ==
    [body : {"none", "completed", "safety_blocked"}, sections : SUBSET PatchOps,
     junk : BOOLEAN]
EmptyReport == [body |-> "none", sections |-> {}, junk |-> FALSE]

KillEntries == {"kill_activated", "kill_cleared"}
RunEntries ==
    {"run_initialized", "run_started", "paper_safety_checked",
     "paper_safety_blocked", "paper_started", "paper_heartbeat",
     "paper_completed", "backtest_started", "backtest_completed",
     "run_completed", "run_failed"}
PatchEntries == {"connectivity_readiness_evaluated", "connectivity_probe_evaluated"}
Entry == [event : KillEntries \cup RunEntries \cup PatchEntries,
          by : Proc \cup {NoProc}]

ASSUME ProcAssumption == NoProc \notin Proc

ASSUME FileAssumption ==
    /\ Absent # Empty /\ Absent # Garbled /\ Empty # Garbled
    /\ \A f \in NoFile :
          /\ f \notin StateContent
          /\ f \notin MetaContent
          /\ f \notin MetricsContent
          /\ f \notin ReportContent
          /\ f \notin Seq(Entry)
          /\ f \notin Proc

-----------------------------------------------------------------------------
VARIABLES
    stateFile,  \* runtime/kill_switch/<run_id>.state.json
    events,     \* runtime/kill_switch/<run_id>.events.jsonl
    runDir,     \* does artifacts/runs/<run_id> exist?
    runSpec,    \* does <run_dir>/run_spec.yaml exist?
    metadata,   \* <run_dir>/metadata.json
    journal,    \* <run_dir>/journal.jsonl
    metrics,    \* <run_dir>/metrics.json
    report,     \* <run_dir>/report.md
    pc,         \* per invocation: the next step
    op,         \* per invocation: the command it runs
    seen,       \* per invocation: the kill switch status it read
    held,       \* per invocation: the metadata dict in its memory
    before      \* history: the invocations that had ended when it began

files == <<stateFile, events, runDir, runSpec, metadata, journal, metrics, report>>
procs == <<pc, op, seen, held, before>>
workspace == <<files, procs>>

\* done: exit 0.  failed: exit 1 on a reported error.  refused: exit 1 since
\* the run directory exists.  crashed: killed, or an OSError nobody handles.
EndPCs == {"done", "failed", "refused", "crashed"}

KillPCs == {"append_event", "append_kill_entry", "open_state", "flush_state",
            "patch_read", "patch_status", "patch_open", "patch_flush"}
RunPCs == {"gate", "check_dir", "make_dir", "copy_spec", "open_metadata",
           "flush_metadata", "create_journal", "first_entry", "safety_checked",
           "safety_blocked", "blocked_completed", "paper_started", "heartbeat",
           "paper_completed", "backtest_started", "engine", "backtest_completed",
           "open_metrics", "flush_metrics", "open_report", "flush_report",
           "run_completed", "run_failed"}
PatchPCs == {"check_files", "artifact_open", "artifact_flush",
             "section_read", "section_open", "section_flush", "section_entry",
             "report_read", "report_open", "report_flush"}
PCs == {"idle"} \cup KillPCs \cup RunPCs \cup PatchPCs \cup EndPCs

Status == [state : SafetyStates, since : Proc \cup {NoProc}]
NoStatus == [state |-> "absent", since |-> NoProc]

InitialMetadata ==
    [status |-> "initialized", safety |-> "none", outcome |-> "none", sections |-> {}]

TypeOK ==
    /\ stateFile \in StateContent \cup NoFile
    /\ events \in Seq(KillEvent)
    /\ runDir \in BOOLEAN
    /\ runSpec \in BOOLEAN
    /\ metadata \in MetaContent \cup NoFile
    /\ journal \in Seq(Entry) \cup {Absent}
    /\ metrics \in MetricsContent \cup NoFile
    /\ report \in ReportContent \cup {Absent}
    /\ pc \in [Proc -> PCs]
    /\ op \in [Proc -> Ops \cup {"none"}]
    /\ seen \in [Proc -> Status]
    /\ held \in [Proc -> MetaContent]
    /\ before \in [Proc -> SUBSET Proc]

ProcInit ==
    /\ pc = [p \in Proc |-> "idle"]
    /\ op = [p \in Proc |-> "none"]
    /\ seen = [p \in Proc |-> NoStatus]
    /\ held = [p \in Proc |-> InitialMetadata]
    /\ before = [p \in Proc |-> {}]

\* A fresh checkout: nothing has ever run.
FreshInit ==
    /\ stateFile = Absent /\ events = <<>>
    /\ runDir = FALSE /\ runSpec = FALSE
    /\ metadata = Absent /\ journal = Absent
    /\ metrics = Absent /\ report = Absent
    /\ ProcInit

-----------------------------------------------------------------------------
\* Flush for the report: nothing parses it, so the end of a longer text that
\* arrived in between is only junk at the bottom.
FlushText(f, text) ==
    IF f \in {EmptyReport, text} THEN {text} ELSE {text, [text EXCEPT !.junk = TRUE]}

-----------------------------------------------------------------------------
(* Invocations. *)

Started(p) == pc[p] # "idle"
Ended(p) == pc[p] \in EndPCs
Precedes(p, q) == p \in before[q]

Goto(p, from, to) == pc[p] = from /\ pc' = [pc EXCEPT ![p] = to]

Begin(p, o, to) ==
    /\ Goto(p, "idle", to)
    /\ op' = [op EXCEPT ![p] = o]
    /\ before' = [before EXCEPT ![p] = {q \in Proc : Ended(q)}]

\* A kill -9, a power cut or an OSError that ends the command where it is: the
\* files stay as the steps done so far left them.
Crash(p) ==
    /\ Started(p) /\ ~Ended(p)
    /\ pc' = [pc EXCEPT ![p] = "crashed"]
    /\ UNCHANGED <<files, op, seen, held, before>>

\* What _read_state and _parse_state_payload reject with KillSwitchReadError.
StatusUnreadable == Malformed(stateFile)

\* get_kill_switch_status: "absent" without a state file.  Callers have
\* already ruled out a file that does not parse.
StatusRead ==
    IF stateFile = Absent THEN NoStatus
    ELSE [state |-> stateFile.state, since |-> stateFile.since]
=============================================================================
