---------------------------- MODULE KillSwitch -----------------------------
(***************************************************************************)
(* `tc kill activate` and `tc kill clear` (safety/kill_switch.py and the   *)
(* two commands of cli.py): read the status, append the audit event,       *)
(* mirror it in the run journal, rewrite the state file, then patch the    *)
(* safety key of metadata.json.  `tc kill status` only reads.              *)
(***************************************************************************)
EXTENDS Workspace


\* Mutated form: clear goes back to having no switch at all.
NewStateNone(o) == IF o = "activate" THEN "active" ELSE "absent"

NewState(o) == IF o = "activate" THEN "active" ELSE "cleared"
EntryName(o) == IF o = "activate" THEN "kill_activated" ELSE "kill_cleared"

\* Mutated form: clear forgets when the switch was last activated.
StateOfForgetful(p) ==
    [state |-> NewState(op[p]), last |-> p,
     since |-> IF op[p] = "activate" THEN p ELSE NoProc,
     cleared |-> IF op[p] = "activate" THEN NoProc ELSE p]

\* The KillSwitchState that activate / clear persists: activate restarts
\* active_since_utc, clear keeps the one of the status it read.
StateOf(p) ==
    [state   |-> NewState(op[p]),
     last    |-> p,
     since   |-> IF op[p] = "activate" THEN p ELSE seen[p].since,
     cleared |-> IF op[p] = "activate" THEN NoProc ELSE p]

KillEventOf(p) ==
    [id |-> p, op |-> op[p], prev |-> seen[p].state, new |-> NewState(op[p])]

-----------------------------------------------------------------------------
(* Mutated forms: slips that the code could contain. *)

\* A state file that does not parse counts as no state file.
ReadStatusLenient(p, o) ==
    /\ o \in KillOps
    /\ Begin(p, o, "append_event")
    /\ seen' = [seen EXCEPT ![p] = IF StatusUnreadable THEN NoStatus ELSE StatusRead]
    /\ UNCHANGED <<files, held>>

\* An audit log that cannot be written does not stop the command.
AppendEventOptional(p) ==
    /\ Goto(p, "append_event", "append_kill_entry")
    /\ events' \in {events, Append(events, KillEventOf(p))}
    /\ UNCHANGED <<stateFile, runDir, runSpec, metadata, journal, metrics, report,
                   op, seen, held, before>>

\* A write that is tried again leaves its line twice.
AppendKillEntryRetried(p) ==
    /\ pc[p] = "append_kill_entry"
    /\ pc' \in {pc, [pc EXCEPT ![p] = "open_state"]}
    /\ journal' = IF journal = Absent \/ Len(journal) > 3 THEN journal
                  ELSE Append(journal, [event |-> EntryName(op[p]), by |-> p])
    /\ UNCHANGED <<stateFile, events, runDir, runSpec, metadata, metrics, report,
                   op, seen, held, before>>

\* Without a run journal the command returns before it writes the state.
AppendKillEntryReturns(p) ==
    /\ Goto(p, "append_kill_entry", IF journal = Absent THEN "patch_read" ELSE "open_state")
    /\ journal' = IF journal = Absent THEN Absent
                  ELSE Append(journal, [event |-> EntryName(op[p]), by |-> p])
    /\ UNCHANGED <<stateFile, events, runDir, runSpec, metadata, metrics, report,
                   op, seen, held, before>>

-----------------------------------------------------------------------------
(* activate_kill_switch, clear_kill_switch *)

ReadStatus(p, o) ==
    /\ o \in KillOps
    /\ IF StatusUnreadable
       THEN Begin(p, o, "failed") /\ UNCHANGED seen
       ELSE /\ Begin(p, o, "append_event")
            /\ seen' = [seen EXCEPT ![p] = StatusRead]
    /\ UNCHANGED <<files, held>>

AppendEvent(p) ==
    /\ Goto(p, "append_event", "append_kill_entry")
    /\ events' = Append(events, KillEventOf(p))
    /\ UNCHANGED <<stateFile, runDir, runSpec, metadata, journal, metrics, report,
                   op, seen, held, before>>

\* _append_optional_artifact_journal_event: silent when there is no journal.
AppendKillEntry(p) ==
    /\ Goto(p, "append_kill_entry", "open_state")
    /\ journal' = IF journal = Absent THEN Absent
                  ELSE Append(journal, [event |-> EntryName(op[p]), by |-> p])
    /\ UNCHANGED <<stateFile, events, runDir, runSpec, metadata, metrics, report,
                   op, seen, held, before>>

OpenState(p) ==
    /\ Goto(p, "open_state", "flush_state")
    /\ stateFile' = Empty
    /\ UNCHANGED <<events, runDir, runSpec, metadata, journal, metrics, report,
                   op, seen, held, before>>

FlushState(p) ==
    /\ Goto(p, "flush_state", "patch_read")
    /\ stateFile' \in Flush(stateFile, StateOf(p))
    /\ UNCHANGED <<events, runDir, runSpec, metadata, journal, metrics, report,
                   op, seen, held, before>>

-----------------------------------------------------------------------------
(* update_artifact_metadata_safety_snapshot *)

PatchRead(p) ==
    /\ \/ metadata = Absent /\ Goto(p, "patch_read", "done") /\ UNCHANGED held
       \/ Malformed(metadata) /\ Goto(p, "patch_read", "failed") /\ UNCHANGED held
       \/ /\ Readable(metadata)
          /\ Goto(p, "patch_read", "patch_status")
          /\ held' = [held EXCEPT ![p] = metadata]
    /\ UNCHANGED <<files, op, seen, before>>

\* The safety dict is replaced as a whole: a lifecycle_outcome in it is gone.
PatchStatus(p) ==
    /\ IF StatusUnreadable
       THEN Goto(p, "patch_status", "failed") /\ UNCHANGED held
       ELSE /\ Goto(p, "patch_status", "patch_open")
            /\ held' = [held EXCEPT ![p].safety = StatusRead.state,
                                    ![p].outcome = "none"]
    /\ UNCHANGED <<files, op, seen, before>>

PatchOpen(p) ==
    /\ Goto(p, "patch_open", "patch_flush")
    /\ metadata' = Empty
    /\ UNCHANGED <<stateFile, events, runDir, runSpec, journal, metrics, report,
                   op, seen, held, before>>

PatchFlush(p) ==
    /\ Goto(p, "patch_flush", "done")
    /\ metadata' \in Flush(metadata, held[p])
    /\ UNCHANGED <<stateFile, events, runDir, runSpec, journal, metrics, report,
                   op, seen, held, before>>

-----------------------------------------------------------------------------
KillStep(p) ==
    \/ AppendEvent(p) \/ AppendKillEntry(p)
    \/ OpenState(p) \/ FlushState(p)
    \/ PatchRead(p) \/ PatchStatus(p) \/ PatchOpen(p) \/ PatchFlush(p)

KillBegin(p) == \E o \in KillOps : ReadStatus(p, o)

\* The run either does not exist yet or was initialised before.
KillInit ==
    /\ stateFile = Absent /\ events = <<>>
    /\ metrics = Absent /\ report = Absent
    /\ \/ /\ runDir = FALSE /\ runSpec = FALSE
          /\ metadata = Absent /\ journal = Absent
       \/ /\ runDir = TRUE /\ runSpec = TRUE
          /\ metadata = InitialMetadata
          /\ journal = <<[event |-> "run_initialized", by |-> NoProc]>>
    /\ ProcInit

KillNext == \E p \in Proc : KillBegin(p) \/ KillStep(p) \/ Crash(p)

KillSpec == KillInit /\ [][KillNext]_workspace

-----------------------------------------------------------------------------
(* Properties *)

LoggedIds(new) == {events[i].id : i \in {j \in DOMAIN events : events[j].new = new}}

\* Audit before effect: whatever state file can be read was announced in
\* events.jsonl first.  last_event_id names a logged event with the same state,
\* and active_since_utc, when set, is the time of a logged activation, however
\* commands interleave, tear each other's writes or crash.
AuditBeforeState ==
    Readable(stateFile) =>
        /\ stateFile.last \in LoggedIds(stateFile.state)
        /\ stateFile.since # NoProc => stateFile.since \in LoggedIds("active")
        /\ stateFile.state = "active" =>
              stateFile.since = stateFile.last /\ stateFile.cleared = NoProc

\* Every kill event in the run's journal is also in the audit log, and no
\* command writes two.
JournalMirrorsAudit ==
    journal # Absent =>
        \A i \in DOMAIN journal : journal[i].event \in KillEntries =>
            /\ \E e \in ToSet(events) :
                  e.id = journal[i].by /\ EntryName(e.op) = journal[i].event
            /\ \A j \in DOMAIN journal :
                  journal[j].event \in KillEntries /\ journal[j].by = journal[i].by => i = j

\* a is a completed activation (its state write is through) that no clear
\* overlapped or followed.
StandingActivation(a) ==
    /\ op[a] = "activate"
    /\ pc[a] \in {"patch_read", "patch_status", "patch_open", "patch_flush", "done"}
    /\ \A c \in Proc : op[c] = "clear" => Precedes(c, a)

\* No lost activation: once an activation is through, the switch reads active,
\* or does not parse and blocks the gate, until some clear command begins that
\* had not ended before the activation began.
NoLostActivation ==
    (\E a \in Proc : StandingActivation(a)) =>
        /\ stateFile # Absent
        /\ Readable(stateFile) => stateFile.state = "active"

\* No two invocations overlapped and none of them failed or crashed.
SerialHistory ==
    \A p, q \in Proc :
        Started(p) /\ Started(q) =>
            /\ pc[p] \notin {"failed", "refused", "crashed"}
            /\ p # q => Precedes(p, q) \/ Precedes(q, p)

\* Commands that do not overlap leave an unbroken audit chain: each event's
\* previous_state is the new_state of the event before it, and at rest the
\* state file carries the last event, the start of the most recent active
\* period, and metadata.json the same state.
SerialAuditChain ==
    SerialHistory =>
        /\ \A i \in DOMAIN events :
              events[i].prev = IF i = 1 THEN "absent" ELSE events[i-1].new
        /\ (\A p \in Proc : Started(p) => Ended(p)) /\ events # <<>> =>
              /\ Readable(stateFile)
              /\ stateFile.last = Last(events).id
              /\ stateFile.state = Last(events).new
              /\ LET acts == {i \in DOMAIN events : events[i].op = "activate"}
                 IN  stateFile.since =
                       IF acts = {} THEN NoProc ELSE events[Max(acts)].id
              /\ metadata # Absent => metadata.safety = stateFile.state

\* The state file does not parse and no command is about to rewrite it.
Wedged ==
    /\ Malformed(stateFile)
    /\ \A p \in Proc : pc[p] \notin {"append_event", "append_kill_entry",
                                     "open_state", "flush_state"}

\* A switch torn by a crash stays torn: no kill command repairs a state file
\* that does not parse, since each reads it first.  (It fails closed, and only an
\* operator who deletes the file gets the switch back.)
WedgeIsPermanent == [][Wedged => Wedged']_workspace
=============================================================================
