-------------------------- MODULE KillSwitchProofs --------------------------
(***************************************************************************)
(* Proofs about the kill switch commands: type correctness and audit       *)
(* before effect, for any number of concurrent and crashing invocations.   *)
(* The step lemmas are stated for the actions alone, so that compositions  *)
(* can use them too.                                                       *)
(***************************************************************************)
EXTENDS KillSwitch, TLAPS

\* A kill program counter belongs to a kill command.
KillOpsFit == \A p \in Proc : pc[p] \in KillPCs => op[p] \in KillOps

KillTypeInv == TypeOK /\ KillOpsFit

\* What AuditBeforeState rests on: between its audit event and its state write
\* an invocation is logged with the state it will write, and the active_since it
\* carries along names a logged activation.
AnnouncedInv ==
    \A p \in Proc :
        /\ pc[p] \in {"append_kill_entry", "open_state", "flush_state"} =>
              p \in LoggedIds(NewState(op[p]))
        /\ pc[p] \in {"append_event", "append_kill_entry", "open_state", "flush_state"} =>
              (seen[p].since # NoProc => seen[p].since \in LoggedIds("active"))

AuditInv == AuditBeforeState /\ AnnouncedInv

-----------------------------------------------------------------------------
\* A line that is appended is one more, behind the others.
LEMMA AppendLine ==
    ASSUME NEW S, NEW s \in Seq(S), NEW e \in S, NEW t, t = Append(s, e)
    PROVE  /\ t \in Seq(S)
           /\ Len(s) \in Nat /\ DOMAIN s = 1..Len(s)
           /\ DOMAIN t = DOMAIN s \cup {Len(s) + 1}
           /\ \A i \in DOMAIN s : t[i] = s[i] /\ i < Len(s) + 1
           /\ t[Len(s) + 1] = e
           /\ ToSet(t) = ToSet(s) \cup {e}
<1>1. /\ t \in Seq(S) /\ Len(s) \in Nat /\ DOMAIN s = 1..Len(s)
      /\ Len(t) = Len(s) + 1 /\ DOMAIN t = 1..Len(t)
  OBVIOUS
<1>2. DOMAIN t = DOMAIN s \cup {Len(s) + 1}
  BY <1>1
<1>3. /\ \A i \in DOMAIN s : t[i] = s[i] /\ i < Len(s) + 1
      /\ t[Len(s) + 1] = e
  BY <1>1
<1>4. ToSet(t) = ToSet(s) \cup {e}
  <2>1. ASSUME NEW x \in ToSet(t) PROVE x \in ToSet(s) \cup {e}
    <3>1. PICK i \in DOMAIN t : x = t[i]
      BY <2>1 DEF ToSet
    <3> QED BY <3>1, <1>2, <1>3 DEF ToSet
  <2>2. ASSUME NEW x \in ToSet(s) \cup {e} PROVE x \in ToSet(t)
    <3>1. CASE x = e
      BY <3>1, <1>2, <1>3 DEF ToSet
    <3>2. CASE x \in ToSet(s)
      <4>1. PICK i \in DOMAIN s : x = s[i]
        BY <3>2 DEF ToSet
      <4> QED BY <4>1, <1>2, <1>3 DEF ToSet
    <3> QED BY <3>1, <3>2, <2>2
  <2> QED BY <2>1, <2>2
<1> QED BY <1>1, <1>2, <1>3, <1>4

\* The log only grows: an id that is logged stays logged.
LEMMA LoggedGrows ==
    ASSUME events \in Seq(KillEvent),
           NEW e \in KillEvent, events' = Append(events, e)
    PROVE  /\ \A new : LoggedIds(new) \subseteq LoggedIds(new)'
           /\ e.id \in LoggedIds(e.new)'
<1>1. /\ DOMAIN events = 1..Len(events)
      /\ DOMAIN events' = 1..(Len(events) + 1)
      /\ Len(events) \in Nat
      /\ \A i \in DOMAIN events : events'[i] = events[i]
      /\ events'[Len(events) + 1] = e
  OBVIOUS
<1>2. DOMAIN events \subseteq DOMAIN events' /\ Len(events) + 1 \in DOMAIN events'
  BY <1>1
<1>3. ASSUME NEW new, NEW x \in LoggedIds(new) PROVE x \in LoggedIds(new)'
  BY <1>1, <1>2 DEF LoggedIds
<1>4. e.id \in LoggedIds(e.new)'
  BY <1>1, <1>2 DEF LoggedIds
<1> QED BY <1>3, <1>4

\* The result of a write_text is its own text or a tear, and never one of the
\* other file states.
LEMMA FlushResult ==
    ASSUME NEW f, NEW text, NEW g \in Flush(f, text)
    PROVE  g = text \/ g = Garbled
  BY DEF Flush

\* The status a command reads from a file that parses is well formed.
LEMMA StatusReadType ==
    ASSUME TypeOK, ~StatusUnreadable
    PROVE  StatusRead \in Status
  BY DEF TypeOK, StatusRead, StatusUnreadable, Malformed, NoFile, Status, NoStatus, StateContent,
         SafetyStates, SwitchStates

LEMMA BeginType ==
    ASSUME TypeOK, KillOpsFit, NEW p \in Proc, NEW o \in Ops, NEW to \in PCs,
           Begin(p, o, to), to \in KillPCs => o \in KillOps
    PROVE  /\ pc' \in [Proc -> PCs] /\ op' \in [Proc -> Ops \cup {"none"}]
           /\ before' \in [Proc -> SUBSET Proc]
           /\ KillOpsFit'
  BY DEF TypeOK, KillOpsFit, Begin, Goto

\* Every kill action keeps the types.
LEMMA KillStepType ==
    ASSUME KillTypeInv, NEW p \in Proc, KillBegin(p) \/ KillStep(p) \/ Crash(p)
    PROVE  KillTypeInv'
<1> USE DEF KillTypeInv
<1>0. KillPCs \subseteq PCs /\ EndPCs \subseteq PCs /\ KillPCs \cap EndPCs = {}
  BY DEF PCs, KillPCs, EndPCs
<1>1. ASSUME NEW o \in KillOps, ReadStatus(p, o) PROVE KillTypeInv'
  <2>1. o \in Ops /\ "failed" \in PCs \ KillPCs /\ "append_event" \in PCs
    BY <1>1 DEF Ops, PCs, KillPCs, EndPCs, RunPCs, PatchPCs
  <2>2. seen' \in [Proc -> Status]
    BY <1>1, StatusReadType DEF ReadStatus, TypeOK
  <2>3. \/ Begin(p, o, "failed") \/ Begin(p, o, "append_event")
    BY <1>1 DEF ReadStatus
  <2>4. /\ pc' \in [Proc -> PCs] /\ op' \in [Proc -> Ops \cup {"none"}]
        /\ before' \in [Proc -> SUBSET Proc]
        /\ KillOpsFit'
    BY <2>1, <2>3, BeginType, <1>1
  <2> QED BY <1>1, <2>2, <2>4 DEF ReadStatus, TypeOK, files
<1>2. CASE AppendEvent(p)
  <2>1. KillEventOf(p) \in KillEvent
    BY <1>2 DEF AppendEvent, Goto, KillEventOf, KillEvent, KillOpsFit, KillPCs, TypeOK,
                NewState, SwitchStates, Status
  <2> QED BY <1>2, <2>1 DEF AppendEvent, Goto, TypeOK, KillOpsFit, KillPCs, PCs
<1>3. CASE AppendKillEntry(p)
  <2>1. [event |-> EntryName(op[p]), by |-> p] \in Entry
    BY DEF Entry, EntryName, KillEntries
  <2> QED BY <1>3, <2>1 DEF AppendKillEntry, Goto, TypeOK, KillOpsFit, KillPCs, PCs
<1>4. CASE OpenState(p)
  BY <1>4 DEF OpenState, Goto, TypeOK, KillOpsFit, KillPCs, PCs, NoFile
<1>5. CASE FlushState(p)
  <2>a. seen[p].since \in Proc \cup {NoProc}
    BY DEF TypeOK, Status
  <2>b. NewState(op[p]) \in SwitchStates
    BY DEF NewState, SwitchStates
  <2>1. StateOf(p) \in StateContent
    <3> HIDE DEF KillTypeInv
    <3> QED BY <2>a, <2>b DEF StateOf, StateContent
  <2>2. stateFile' = StateOf(p) \/ stateFile' = Garbled
    BY <1>5, FlushResult DEF FlushState
  <2> QED BY <1>5, <2>1, <2>2 DEF FlushState, Goto, TypeOK, KillOpsFit, KillPCs, PCs, NoFile
<1>6. CASE PatchRead(p)
  BY <1>6 DEF PatchRead, Goto, TypeOK, KillOpsFit, KillPCs, EndPCs, PCs, Readable, files
<1>7. CASE PatchStatus(p)
  <2>1. ~StatusUnreadable => StatusRead.state \in SafetyStates
    BY StatusReadType DEF Status
  <2>2. ~StatusUnreadable =>
           [held[p] EXCEPT !.safety = StatusRead.state, !.outcome = "none"] \in MetaContent
    BY <2>1 DEF TypeOK, MetaContent, Outcomes
  <2> QED BY <1>7, <2>2 DEF PatchStatus, Goto, TypeOK, KillOpsFit, KillPCs, EndPCs, PCs, files
<1>8. CASE PatchOpen(p)
  BY <1>8 DEF PatchOpen, Goto, TypeOK, KillOpsFit, KillPCs, PCs, NoFile
<1>9. CASE PatchFlush(p)
  <2>1. metadata' = held[p] \/ metadata' = Garbled
    BY <1>9, FlushResult DEF PatchFlush
  <2> QED BY <1>9, <2>1 DEF PatchFlush, Goto, TypeOK, KillOpsFit, KillPCs, EndPCs, PCs, NoFile
<1>10. CASE Crash(p)
  BY <1>10 DEF Crash, TypeOK, KillOpsFit, KillPCs, EndPCs, PCs, files
<1> QED BY <1>1, <1>2, <1>3, <1>4, <1>5, <1>6, <1>7, <1>8, <1>9, <1>10
       DEF KillBegin, KillStep

-----------------------------------------------------------------------------
\* The states in which an announcement matters.
AnnouncedPCs == {"append_event", "append_kill_entry", "open_state", "flush_state"}

\* A step that leaves the log, the state file and this invocation's memory alone,
\* and takes no other invocation into the announced states, keeps the audit.
LEMMA AuditFrame ==
    ASSUME TypeOK, AuditInv, NEW p \in Proc,
           UNCHANGED <<stateFile, events>>,
           pc' \in [Proc -> PCs], seen' \in [Proc -> Status],
           \A q \in Proc : pc'[q] \in AnnouncedPCs =>
              pc'[q] = pc[q] /\ op'[q] = op[q] /\ seen'[q] = seen[q]
    PROVE  AuditInv'
<1>1. \A new : LoggedIds(new)' = LoggedIds(new)
  BY DEF LoggedIds
<1>2. AuditBeforeState'
  BY <1>1 DEF AuditInv, AuditBeforeState, Readable
<1>3. AnnouncedInv'
  BY <1>1 DEF AuditInv, AnnouncedInv, AnnouncedPCs
<1> QED BY <1>2, <1>3 DEF AuditInv

\* Every kill action keeps audit before effect.
LEMMA KillStepAudit ==
    ASSUME KillTypeInv, AuditInv, NEW p \in Proc,
           KillBegin(p) \/ KillStep(p) \/ Crash(p)
    PROVE  AuditInv'
<1>0. KillTypeInv' BY KillStepType
<1> USE DEF KillTypeInv, AnnouncedPCs
<1>1. ASSUME NEW o \in KillOps, ReadStatus(p, o) PROVE AuditInv'
  <2>1. /\ UNCHANGED <<stateFile, events>>
        /\ \A new : LoggedIds(new)' = LoggedIds(new)
    BY <1>1 DEF ReadStatus, files, LoggedIds
  <2>2. AuditBeforeState'
    BY <2>1 DEF AuditInv, AuditBeforeState, Readable
  <2>3. \A q \in Proc : q # p => pc'[q] = pc[q] /\ op'[q] = op[q] /\ seen'[q] = seen[q]
    BY <1>1 DEF ReadStatus, Begin, Goto, TypeOK
  <2>4. pc'[p] \in {"failed", "append_event"}
    BY <1>1 DEF ReadStatus, Begin, Goto, TypeOK
  <2>5. ASSUME pc'[p] = "append_event", seen'[p].since # NoProc
        PROVE  seen'[p].since \in LoggedIds("active")
    <3>1. ~StatusUnreadable /\ seen'[p] = StatusRead
      BY <1>1, <2>5 DEF ReadStatus, Begin, Goto, TypeOK
    <3>2. Readable(stateFile) /\ StatusRead.since = stateFile.since
      BY <3>1, <2>5 DEF StatusUnreadable, Malformed, Readable, NoFile, StatusRead, NoStatus
    <3> QED BY <3>1, <3>2, <2>5 DEF AuditInv, AuditBeforeState
  <2>6. AnnouncedInv'
    BY <2>1, <2>3, <2>4, <2>5 DEF AuditInv, AnnouncedInv
  <2> QED BY <2>2, <2>6 DEF AuditInv
<1>2. CASE AppendEvent(p)
  <2>1. KillEventOf(p) \in KillEvent /\ events' = Append(events, KillEventOf(p))
    BY <1>2 DEF AppendEvent, Goto, KillEventOf, KillEvent, KillOpsFit, KillPCs, TypeOK,
                NewState, SwitchStates, Status
  <2>a. PICK e \in KillEvent : e = KillEventOf(p)
    BY <2>1
  <2>b. events \in Seq(KillEvent) /\ events' = Append(events, e)
    BY <2>1, <2>a DEF TypeOK
  <2>2. /\ \A new : LoggedIds(new) \subseteq LoggedIds(new)'
        /\ e.id \in LoggedIds(e.new)'
    BY <2>b, LoggedGrows
  <2>c. op' = op /\ NewState(op[p])' = NewState(op[p])
    BY <1>2 DEF AppendEvent, NewState
  <2>d. e.id = p /\ e.new = NewState(op[p])
    BY <2>a DEF KillEventOf
  <2>3. p \in LoggedIds(NewState(op[p]))'
    BY <2>2, <2>c, <2>d DEF LoggedIds
  <2>4. AuditBeforeState'
    BY <1>2, <2>2 DEF AppendEvent, AuditInv, AuditBeforeState, Readable
  <2>5. op' = op /\ seen' = seen /\ pc[p] = "append_event" /\ pc' = [pc EXCEPT ![p] = "append_kill_entry"]
    BY <1>2 DEF AppendEvent, Goto
  <2>6. AnnouncedInv'
    BY <2>2, <2>3, <2>5 DEF AuditInv, AnnouncedInv, TypeOK
  <2> QED BY <2>4, <2>6 DEF AuditInv
<1>3. CASE AppendKillEntry(p) \/ OpenState(p)
  <2>1. /\ events' = events /\ op' = op /\ seen' = seen
        /\ stateFile' = stateFile \/ stateFile' = Empty
    BY <1>3 DEF AppendKillEntry, OpenState
  <2>2. \A new : LoggedIds(new)' = LoggedIds(new)
    BY <2>1 DEF LoggedIds
  <2>3. AuditBeforeState'
    BY <2>1, <2>2 DEF AuditInv, AuditBeforeState, Readable, NoFile
  <2>4. /\ pc[p] \in {"append_kill_entry", "open_state"}
        /\ \A q \in Proc : pc'[q] = pc[q] \/ q = p
    BY <1>3 DEF AppendKillEntry, OpenState, Goto, TypeOK
  <2>5. AnnouncedInv'
    BY <2>1, <2>2, <2>4 DEF AuditInv, AnnouncedInv
  <2> QED BY <2>3, <2>5 DEF AuditInv
<1>4. CASE FlushState(p)
  <2>1. /\ events' = events /\ op' = op /\ seen' = seen
        /\ stateFile' = StateOf(p) \/ stateFile' = Garbled
        /\ pc[p] = "flush_state" /\ pc' = [pc EXCEPT ![p] = "patch_read"]
    BY <1>4, FlushResult DEF FlushState, Goto
  <2>2. \A new : LoggedIds(new)' = LoggedIds(new)
    BY <2>1 DEF LoggedIds
  <2>3. /\ p \in LoggedIds(NewState(op[p]))
        /\ seen[p].since # NoProc => seen[p].since \in LoggedIds("active")
    BY <2>1 DEF AuditInv, AnnouncedInv
  <2>4. /\ StateOf(p).last \in LoggedIds(StateOf(p).state)
        /\ StateOf(p).since # NoProc => StateOf(p).since \in LoggedIds("active")
        /\ StateOf(p).state = "active" =>
              StateOf(p).since = StateOf(p).last /\ StateOf(p).cleared = NoProc
    BY <2>3 DEF StateOf, NewState
  <2>5. AuditBeforeState'
    BY <2>1, <2>2, <2>4 DEF AuditBeforeState, Readable, NoFile
  <2>6. AnnouncedInv'
    BY <2>1, <2>2 DEF AuditInv, AnnouncedInv, TypeOK
  <2> QED BY <2>5, <2>6 DEF AuditInv
<1>5. CASE PatchRead(p) \/ PatchStatus(p) \/ PatchOpen(p) \/ PatchFlush(p)
  <2>1. /\ UNCHANGED <<stateFile, events, op, seen>>
        /\ \E to \in {"done", "failed", "patch_status", "patch_open", "patch_flush"} :
              pc' = [pc EXCEPT ![p] = to]
    BY <1>5 DEF PatchRead, PatchStatus, PatchOpen, PatchFlush, Goto, files
  <2>2. \A q \in Proc : pc'[q] \in AnnouncedPCs => pc'[q] = pc[q]
    BY <2>1 DEF TypeOK
  <2> QED BY <1>0, <2>1, <2>2, AuditFrame DEF TypeOK
<1>6. CASE Crash(p)
  <2>1. /\ UNCHANGED <<stateFile, events, op, seen>>
        /\ pc' = [pc EXCEPT ![p] = "crashed"]
    BY <1>6 DEF Crash, files
  <2>2. \A q \in Proc : pc'[q] \in AnnouncedPCs => pc'[q] = pc[q]
    BY <2>1 DEF TypeOK
  <2> QED BY <1>0, <2>1, <2>2, AuditFrame DEF TypeOK
<1> QED BY <1>1, <1>2, <1>3, <1>4, <1>5, <1>6 DEF KillBegin, KillStep

-----------------------------------------------------------------------------
\* Idle invocations are well typed, whatever the files hold.
LEMMA ProcInitType ==
    ASSUME ProcInit
    PROVE  /\ pc \in [Proc -> PCs] /\ op \in [Proc -> Ops \cup {"none"}]
           /\ seen \in [Proc -> Status] /\ held \in [Proc -> MetaContent]
           /\ before \in [Proc -> SUBSET Proc] /\ KillOpsFit
<1>1. "idle" \in PCs /\ "idle" \notin KillPCs
  BY DEF PCs, KillPCs
<1>2. NoStatus \in Status
  BY DEF NoStatus, Status, SafetyStates
<1>3. InitialMetadata \in MetaContent
  BY DEF InitialMetadata, MetaContent, RunStatuses, Outcomes
<1> QED BY <1>1, <1>2, <1>3 DEF ProcInit, KillOpsFit

LEMMA KillInitType == KillInit => KillTypeInv
<1> SUFFICES ASSUME KillInit PROVE KillTypeInv
  OBVIOUS
<1>1. InitialMetadata \in MetaContent
  BY DEF InitialMetadata, MetaContent, RunStatuses, Outcomes
<1>2. [event |-> "run_initialized", by |-> NoProc] \in Entry
  BY DEF Entry, RunEntries
<1>a. <<[event |-> "run_initialized", by |-> NoProc]>> \in Seq(Entry) /\ <<>> \in Seq(KillEvent)
  BY <1>2
<1>3. journal \in Seq(Entry) \cup {Absent}
  BY <1>a DEF KillInit
<1>4. metadata \in MetaContent \cup NoFile
  BY <1>1 DEF KillInit, NoFile
<1>5. /\ stateFile \in NoFile /\ metrics \in NoFile /\ report \in {Absent}
      /\ events \in Seq(KillEvent) /\ runDir \in BOOLEAN /\ runSpec \in BOOLEAN
  BY <1>a DEF KillInit, NoFile
<1> QED BY <1>3, <1>4, <1>5, ProcInitType DEF KillInit, KillTypeInv, TypeOK

\* The kill switch commands keep every file and every memory well typed.
THEOREM KillTypeCorrect == KillSpec => []TypeOK
<1>1. KillInit => KillTypeInv
  BY KillInitType
<1>2. KillTypeInv /\ [KillNext]_workspace => KillTypeInv'
  <2> SUFFICES ASSUME KillTypeInv, [KillNext]_workspace PROVE KillTypeInv'
    OBVIOUS
  <2>1. CASE KillNext
    BY <2>1, KillStepType DEF KillNext
  <2>2. CASE UNCHANGED workspace
    BY <2>2 DEF workspace, files, procs, KillTypeInv, TypeOK, KillOpsFit
  <2> QED BY <2>1, <2>2
<1>3. KillTypeInv => TypeOK
  BY DEF KillTypeInv
<1> QED BY <1>1, <1>2, <1>3, PTL DEF KillSpec

\* No readable state file without its audit event: for any number of invocations
\* of activate and clear, overlapping and crashing anywhere.
THEOREM AuditComesFirst == KillSpec => []AuditBeforeState
<1>1. KillInit => KillTypeInv /\ AuditInv
  <2>1. KillInit => KillTypeInv
    BY KillInitType
  <2>2. KillInit => AuditInv
    BY DEF KillInit, ProcInit, AuditInv, AuditBeforeState, AnnouncedInv, Readable, NoFile
  <2> QED BY <2>1, <2>2
<1>2. KillTypeInv /\ AuditInv /\ [KillNext]_workspace => KillTypeInv' /\ AuditInv'
  <2> SUFFICES ASSUME KillTypeInv, AuditInv, [KillNext]_workspace
               PROVE  KillTypeInv' /\ AuditInv'
    OBVIOUS
  <2>1. CASE KillNext
    BY <2>1, KillStepType, KillStepAudit DEF KillNext
  <2>2. CASE UNCHANGED workspace
    BY <2>2 DEF workspace, files, procs, KillTypeInv, TypeOK, KillOpsFit, AuditInv,
                AuditBeforeState, AnnouncedInv, LoggedIds, Readable
  <2> QED BY <2>1, <2>2
<1>3. AuditInv => AuditBeforeState
  BY DEF AuditInv
<1> QED BY <1>1, <1>2, <1>3, PTL DEF KillSpec

-----------------------------------------------------------------------------
(* No lost activation *)

\* The state write of a command is through.
WrittenPCs == {"patch_read", "patch_status", "patch_open", "patch_flush", "done"}

\* The history is sound: what had ended before a command began is ended still, and
\* a command that has not begun is none yet.
HistoryInv ==
    /\ \A p, q \in Proc : Precedes(q, p) => Ended(q)
    /\ \A p \in Proc : pc[p] = "idle" => op[p] = "none"

DurableInv == NoLostActivation /\ HistoryInv

\* A command begins: it stands for nothing yet, and if it is a clear, fewer
\* activations stand.
LEMMA DurableBegin ==
    ASSUME TypeOK, DurableInv, NEW p \in Proc, NEW o \in Ops, NEW to, Begin(p, o, to),
           to \notin WrittenPCs \cup {"idle"}, stateFile' = stateFile
    PROVE  DurableInv'
<1>1. /\ pc[p] = "idle" /\ pc'[p] = to /\ op'[p] = o /\ before'[p] = {q \in Proc : Ended(q)}
      /\ \A q \in Proc : q # p => pc'[q] = pc[q] /\ op'[q] = op[q] /\ before'[q] = before[q]
  BY DEF Begin, Goto, TypeOK
<1>2. ~Ended(p) /\ op[p] = "none"
  BY <1>1 DEF Ended, EndPCs, DurableInv, HistoryInv
<1>3. HistoryInv'
  <2>1. ASSUME NEW q \in Proc, NEW r \in Proc, Precedes(r, q)' PROVE Ended(r)'
    <3>1. Ended(r) /\ r # p
      BY <1>1, <1>2, <2>1 DEF Precedes, DurableInv, HistoryInv
    <3> QED BY <1>1, <3>1 DEF Ended
  <2>2. ASSUME NEW q \in Proc, pc'[q] = "idle" PROVE op'[q] = "none"
    BY <1>1, <2>2 DEF DurableInv, HistoryInv
  <2> QED BY <2>1, <2>2 DEF HistoryInv
<1>4. ASSUME NEW a \in Proc, StandingActivation(a)' PROVE StandingActivation(a)
  <2>1. a # p
    BY <1>1, <1>4 DEF StandingActivation, WrittenPCs
  <2>2. ASSUME NEW c \in Proc, op[c] = "clear" PROVE Precedes(c, a)
    <3>1. c # p
      BY <1>2, <2>2
    <3> QED BY <1>1, <1>4, <2>1, <2>2, <3>1 DEF StandingActivation, Precedes
  <2> QED BY <1>1, <1>4, <2>1, <2>2 DEF StandingActivation
<1>5. NoLostActivation'
  BY <1>4 DEF DurableInv, NoLostActivation, Readable
<1> QED BY <1>3, <1>5 DEF DurableInv

\* A step that leaves the switch alone and does not take an activation past its
\* state write.
LEMMA DurableFrame ==
    ASSUME TypeOK, DurableInv, NEW p \in Proc, NEW to, pc' = [pc EXCEPT ![p] = to],
           UNCHANGED <<op, before, stateFile>>,
           Started(p), ~Ended(p), to # "idle",
           op[p] = "activate" /\ to \in WrittenPCs => pc[p] \in WrittenPCs
    PROVE  DurableInv'
<1>1. pc'[p] = to /\ \A q \in Proc : q # p => pc'[q] = pc[q]
  BY DEF TypeOK
<1>2. HistoryInv'
  <2>1. ASSUME NEW q \in Proc, NEW r \in Proc, Precedes(r, q)' PROVE Ended(r)'
    <3>1. Ended(r) /\ r # p
      BY <2>1 DEF Precedes, DurableInv, HistoryInv
    <3> QED BY <1>1, <3>1 DEF Ended
  <2>2. ASSUME NEW q \in Proc, pc'[q] = "idle" PROVE op'[q] = "none"
    BY <1>1, <2>2 DEF DurableInv, HistoryInv
  <2> QED BY <2>1, <2>2 DEF HistoryInv
<1>3. ASSUME NEW a \in Proc, StandingActivation(a)' PROVE StandingActivation(a)
  BY <1>1, <1>3 DEF StandingActivation, Precedes, WrittenPCs
<1>4. NoLostActivation'
  BY <1>3 DEF DurableInv, NoLostActivation, Readable
<1> QED BY <1>2, <1>4 DEF DurableInv

\* Every kill action keeps a standing activation in force.
LEMMA KillStepDurable ==
    ASSUME KillTypeInv, DurableInv, NEW p \in Proc,
           KillBegin(p) \/ KillStep(p) \/ Crash(p)
    PROVE  DurableInv'
<1>t. TypeOK
  BY DEF KillTypeInv
<1>1. CASE KillBegin(p)
  <2>1. PICK o \in KillOps, to \in {"failed", "append_event"} : Begin(p, o, to)
    BY <1>1 DEF KillBegin, ReadStatus
  <2>2. stateFile' = stateFile /\ o \in Ops /\ to \notin WrittenPCs \cup {"idle"}
    BY <1>1, <2>1 DEF KillBegin, ReadStatus, files, Ops, WrittenPCs
  <2> QED BY <1>t, <2>1, <2>2, DurableBegin
<1>2. CASE AppendEvent(p) \/ AppendKillEntry(p)
  <2>1. PICK to \in {"append_kill_entry", "open_state"} : pc' = [pc EXCEPT ![p] = to]
    BY <1>2 DEF AppendEvent, AppendKillEntry, Goto
  <2>2. UNCHANGED <<op, before, stateFile>> /\ Started(p) /\ ~Ended(p)
    BY <1>2 DEF AppendEvent, AppendKillEntry, Goto, Started, Ended, EndPCs
  <2> QED BY <1>t, <2>1, <2>2, DurableFrame DEF WrittenPCs
<1>3. CASE PatchRead(p) \/ PatchStatus(p) \/ PatchOpen(p) \/ PatchFlush(p)
  <2>1. PICK to \in {"done", "failed", "patch_status", "patch_open", "patch_flush"} :
           pc' = [pc EXCEPT ![p] = to]
    BY <1>3 DEF PatchRead, PatchStatus, PatchOpen, PatchFlush, Goto
  <2>2. UNCHANGED <<op, before, stateFile>> /\ pc[p] \in WrittenPCs \ {"done"}
    BY <1>3 DEF PatchRead, PatchStatus, PatchOpen, PatchFlush, Goto, files, WrittenPCs
  <2>3. Started(p) /\ ~Ended(p)
    BY <2>2 DEF Started, Ended, EndPCs, WrittenPCs
  <2> QED BY <1>t, <2>1, <2>2, <2>3, DurableFrame
<1>4. CASE Crash(p)
  BY <1>t, <1>4, DurableFrame DEF Crash, files, WrittenPCs
<1>5. CASE OpenState(p) \/ FlushState(p)
  <2>1. PICK to \in {"flush_state", "patch_read"} :
           /\ pc' = [pc EXCEPT ![p] = to]
           /\ pc[p] \in {"open_state", "flush_state"}
           /\ to = "patch_read" <=> FlushState(p)
    BY <1>5 DEF OpenState, FlushState, Goto
  <2>2. UNCHANGED <<op, before>> /\ Started(p) /\ ~Ended(p)
    BY <1>5, <2>1 DEF OpenState, FlushState, Started, Ended, EndPCs
  <2>3. pc'[p] = to /\ \A q \in Proc : q # p => pc'[q] = pc[q]
    BY <1>t, <2>1 DEF TypeOK
  <2>4. HistoryInv'
    BY <2>1, <2>2, <2>3 DEF DurableInv, HistoryInv, Precedes, Ended
  <2>5. NoLostActivation'
    <3>1. CASE OpenState(p)
      <4>1. stateFile' = Empty /\ Empty # Absent
        BY <3>1, FileAssumption DEF OpenState
      <4> QED BY <4>1 DEF NoLostActivation, Readable, NoFile
    <3>2. CASE FlushState(p)
      <4>1. (stateFile' = StateOf(p) \/ stateFile' = Garbled) /\ Garbled # Absent
        BY <3>2, FlushResult, FileAssumption DEF FlushState
      <4>2. StateOf(p) # Absent
        <5>1. StateOf(p) \in StateContent
          <6>1. seen[p].since \in Proc \cup {NoProc} /\ NewState(op[p]) \in SwitchStates
            BY <1>t DEF TypeOK, Status, NewState, SwitchStates
          <6> QED BY <6>1 DEF StateOf, StateContent
        <5> QED BY <5>1, FileAssumption DEF NoFile
      <4>3. ASSUME NEW a \in Proc, StandingActivation(a)' PROVE op[p] = "activate"
        <5>1. CASE a = p
          BY <5>1, <4>3, <2>2 DEF StandingActivation
        <5>2. op[p] # "clear"
          BY <4>3, <2>2 DEF StandingActivation, Precedes, DurableInv, HistoryInv
        <5> QED BY <5>2, <2>1, <3>2 DEF KillTypeInv, KillOpsFit, KillOps, KillPCs, FlushState, Goto
      <4>4. op[p] = "activate" => StateOf(p).state = "active"
        BY DEF StateOf, NewState
      <4> QED BY <4>1, <4>2, <4>3, <4>4 DEF NoLostActivation, Readable, NoFile
    <3> QED BY <1>5, <3>1, <3>2
  <2> QED BY <2>4, <2>5 DEF DurableInv
<1> QED BY <1>1, <1>2, <1>3, <1>4, <1>5 DEF KillStep

LEMMA ProcInitDurable ==
    ASSUME ProcInit
    PROVE  DurableInv
  BY DEF ProcInit, DurableInv, HistoryInv, NoLostActivation, StandingActivation, Precedes

\* An activation whose state write is through stays in force, or leaves a file that
\* blocks, until a clear begins that it does not precede: for any number of
\* invocations, each of which may overwrite, tear or crash on the same file.
THEOREM NoActivationLost == KillSpec => []NoLostActivation
<1>1. KillInit => KillTypeInv /\ DurableInv
  BY KillInitType, ProcInitDurable DEF KillInit
<1>2. KillTypeInv /\ DurableInv /\ [KillNext]_workspace => KillTypeInv' /\ DurableInv'
  <2> SUFFICES ASSUME KillTypeInv, DurableInv, [KillNext]_workspace
               PROVE  KillTypeInv' /\ DurableInv'
    OBVIOUS
  <2>1. CASE KillNext
    BY <2>1, KillStepType, KillStepDurable DEF KillNext
  <2>2. CASE UNCHANGED workspace
    BY <2>2 DEF workspace, files, procs, KillTypeInv, TypeOK, KillOpsFit, DurableInv,
                HistoryInv, NoLostActivation, StandingActivation, Precedes, Ended, Readable
  <2> QED BY <2>1, <2>2
<1>3. DurableInv => NoLostActivation
  BY DEF DurableInv
<1> QED BY <1>1, <1>2, <1>3, PTL DEF KillSpec

-----------------------------------------------------------------------------
(* A torn switch stays torn *)

\* Once the state file does not parse and nobody is about to write it, no kill
\* command ever writes it again: each one reads it first, and fails.
THEOREM WedgesLast == KillSpec => WedgeIsPermanent
<1> DEFINE Writers == {"append_event", "append_kill_entry", "open_state", "flush_state"}
<1>1. ASSUME TypeOK, Wedged, NEW p \in Proc, KillBegin(p) \/ KillStep(p) \/ Crash(p)
      PROVE  Wedged'
  <2>1. pc[p] \notin Writers /\ StatusUnreadable
    BY <1>1 DEF Wedged, StatusUnreadable
  <2>2. /\ stateFile' = stateFile
        /\ \E to \in {"done", "failed", "crashed", "patch_status", "patch_open", "patch_flush"} :
              pc' = [pc EXCEPT ![p] = to]
    BY <1>1, <2>1 DEF KillBegin, KillStep, ReadStatus, Begin, AppendEvent, AppendKillEntry,
       OpenState, FlushState, PatchRead, PatchStatus, PatchOpen, PatchFlush, Crash, Goto, files
  <2>3. \A q \in Proc : pc'[q] \notin Writers
    BY <1>1, <2>2 DEF Wedged, TypeOK
  <2> QED BY <1>1, <2>2, <2>3 DEF Wedged, Malformed
<1>2. TypeOK /\ [KillNext]_workspace => [Wedged => Wedged']_workspace
  BY <1>1 DEF KillNext
<1>3. KillSpec => []TypeOK
  BY KillTypeCorrect
<1> QED BY <1>2, <1>3, PTL DEF KillSpec, WedgeIsPermanent

-----------------------------------------------------------------------------
(* The journal mirrors the audit log *)

\* An invocation that has written no journal line yet.
UnmirroredPCs == {"idle", "append_event", "append_kill_entry"}

InAudit(id, o) == \E e \in ToSet(events) : e.id = id /\ e.op = o

\* What JournalMirrorsAudit rests on: a command is in the audit log when it comes to
\* its journal line, and only commands past that line have one.
MirrorInv ==
    /\ \A p \in Proc : pc[p] = "append_kill_entry" => InAudit(p, op[p])
    /\ journal # Absent =>
          \A i \in DOMAIN journal :
              journal[i].event \in KillEntries /\ journal[i].by \in Proc =>
                  pc[journal[i].by] \notin UnmirroredPCs

JournalInv == JournalMirrorsAudit /\ MirrorInv

\* A step that leaves both logs alone and takes nobody back before its line.
LEMMA MirrorFrame ==
    ASSUME JournalInv, UNCHANGED <<events, journal>>,
           \A q \in Proc : pc'[q] \in UnmirroredPCs => pc[q] \in UnmirroredPCs,
           \A q \in Proc : pc'[q] = "append_kill_entry" =>
              pc[q] = "append_kill_entry" /\ op'[q] = op[q]
    PROVE  JournalInv'
<1>1. \A id, o : InAudit(id, o)' <=> InAudit(id, o)
  BY DEF InAudit
<1>2. MirrorInv'
  BY <1>1 DEF JournalInv, MirrorInv
<1>3. JournalMirrorsAudit'
  BY DEF JournalInv, JournalMirrorsAudit
<1> QED BY <1>2, <1>3 DEF JournalInv

\* Every kill action keeps the journal in step with the audit log.
LEMMA KillStepMirror ==
    ASSUME KillTypeInv, JournalInv, NEW p \in Proc,
           KillBegin(p) \/ KillStep(p) \/ Crash(p)
    PROVE  JournalInv'
<1>t. TypeOK
  BY DEF KillTypeInv
<1>1. CASE KillBegin(p)
  <2>1. PICK o \in KillOps, to \in {"failed", "append_event"} : Begin(p, o, to)
    BY <1>1 DEF KillBegin, ReadStatus
  <2>2. UNCHANGED <<events, journal>>
    BY <1>1 DEF KillBegin, ReadStatus, files
  <2>3. pc[p] = "idle" /\ pc'[p] = to /\ \A q \in Proc : q # p => pc'[q] = pc[q] /\ op'[q] = op[q]
    BY <1>t, <2>1 DEF Begin, Goto, TypeOK
  <2> QED BY <2>2, <2>3, MirrorFrame DEF UnmirroredPCs
<1>2. CASE AppendEvent(p)
  <2>1. KillEventOf(p) \in KillEvent /\ events' = Append(events, KillEventOf(p))
    BY <1>2 DEF AppendEvent, Goto, KillEventOf, KillEvent, KillTypeInv, KillOpsFit, KillPCs,
                TypeOK, NewState, SwitchStates, Status
  <2>a. PICK e \in KillEvent : e = KillEventOf(p)
    BY <2>1
  <2>b. events \in Seq(KillEvent) /\ events' = Append(events, e)
    BY <1>t, <2>1, <2>a DEF TypeOK
  <2>2. ToSet(events') = ToSet(events) \cup {KillEventOf(p)}
    <3>1. ToSet(events') = ToSet(events) \cup {e}
      BY <2>b, AppendLine DEF ToSet
    <3> QED BY <3>1, <2>a
  <2>3. \A id, o : InAudit(id, o) => InAudit(id, o)'
    BY <2>2 DEF InAudit
  <2>4. InAudit(p, op[p])'
    BY <1>2, <2>2 DEF InAudit, KillEventOf, AppendEvent
  <2>5. /\ pc[p] = "append_event" /\ pc'[p] = "append_kill_entry" /\ op' = op
        /\ journal' = journal
        /\ \A q \in Proc : q # p => pc'[q] = pc[q]
    BY <1>t, <1>2 DEF AppendEvent, Goto, TypeOK
  <2>6. MirrorInv'
    BY <2>3, <2>4, <2>5 DEF JournalInv, MirrorInv, UnmirroredPCs
  <2>7. JournalMirrorsAudit'
    BY <2>2, <2>5 DEF JournalInv, JournalMirrorsAudit
  <2> QED BY <2>6, <2>7 DEF JournalInv
<1>3. CASE AppendKillEntry(p)
  <2>1. /\ pc[p] = "append_kill_entry" /\ pc'[p] = "open_state" /\ UNCHANGED <<op, events>>
        /\ \A q \in Proc : q # p => pc'[q] = pc[q]
    BY <1>t, <1>3 DEF AppendKillEntry, Goto, TypeOK
  <2>2. CASE journal = Absent
    <3>1. journal' = journal
      BY <1>3, <2>2 DEF AppendKillEntry
    <3> QED BY <2>1, <3>1, MirrorFrame DEF UnmirroredPCs
  <2>3. CASE journal # Absent
    <3> DEFINE line == [event |-> EntryName(op[p]), by |-> p]
    <3>1. line \in Entry /\ journal \in Seq(Entry) /\ journal' = Append(journal, line)
      BY <1>t, <1>3, <2>3 DEF AppendKillEntry, TypeOK, Entry, EntryName, KillEntries
    <3>2. /\ DOMAIN journal' = DOMAIN journal \cup {Len(journal) + 1}
          /\ \A i \in DOMAIN journal : journal'[i] = journal[i] /\ i < Len(journal) + 1
          /\ journal'[Len(journal) + 1] = line
      <4> HIDE DEF line
      <4> QED BY <3>1, AppendLine
    <3>3. InAudit(p, op[p])
      BY <2>1 DEF JournalInv, MirrorInv
    <3>4. \A i \in DOMAIN journal : journal[i].event \in KillEntries => journal[i].by # p
      BY <2>1, <2>3 DEF JournalInv, MirrorInv, UnmirroredPCs
    <3>5. MirrorInv'
      BY <2>1, <2>3, <3>2 DEF JournalInv, MirrorInv, UnmirroredPCs, InAudit
    <3>6. \A i \in DOMAIN journal' : journal'[i].event \in KillEntries =>
             \E e \in ToSet(events) : e.id = journal'[i].by /\ EntryName(e.op) = journal'[i].event
      BY <2>3, <3>2, <3>3 DEF JournalInv, JournalMirrorsAudit, InAudit
    <3>7. \A i, j \in DOMAIN journal' :
             /\ journal'[i].event \in KillEntries /\ journal'[j].event \in KillEntries
             /\ journal'[j].by = journal'[i].by
             => i = j
      BY <2>3, <3>2, <3>4 DEF JournalInv, JournalMirrorsAudit
    <3>8. JournalMirrorsAudit'
      BY <2>1, <3>6, <3>7 DEF JournalMirrorsAudit
    <3> QED BY <3>5, <3>8 DEF JournalInv
  <2> QED BY <2>2, <2>3
<1>4. CASE OpenState(p) \/ FlushState(p) \/ PatchRead(p) \/ PatchStatus(p) \/ PatchOpen(p)
           \/ PatchFlush(p) \/ Crash(p)
  <2>1. UNCHANGED <<events, journal, op>>
    BY <1>4 DEF OpenState, FlushState, PatchRead, PatchStatus, PatchOpen, PatchFlush, Crash, files
  <2>2. PICK to \in {"flush_state", "patch_read", "done", "failed", "patch_status", "patch_open",
                     "patch_flush", "crashed"} : pc' = [pc EXCEPT ![p] = to]
    BY <1>4 DEF OpenState, FlushState, PatchRead, PatchStatus, PatchOpen, PatchFlush, Crash, Goto
  <2>3. pc'[p] = to /\ \A q \in Proc : q # p => pc'[q] = pc[q]
    BY <1>t, <2>2 DEF TypeOK
  <2> QED BY <2>1, <2>3, MirrorFrame DEF UnmirroredPCs
<1> QED BY <1>1, <1>2, <1>3, <1>4 DEF KillStep

\* Every kill entry of the run's journal is in the audit log, under the command it
\* names, and no command has two: whatever it meets, and wherever it crashes.
THEOREM JournalIsMirror == KillSpec => []JournalMirrorsAudit
<1>1. KillInit => KillTypeInv /\ JournalInv
  <2>1. KillInit => JournalInv
    <3> SUFFICES ASSUME KillInit PROVE JournalInv
      OBVIOUS
    <3>1. \A p \in Proc : pc[p] = "idle"
      BY DEF KillInit, ProcInit
    <3>2. journal # Absent => \A i \in DOMAIN journal : journal[i].event \notin KillEntries
      BY DEF KillInit, KillEntries
    <3> QED BY <3>1, <3>2 DEF JournalInv, JournalMirrorsAudit, MirrorInv
  <2> QED BY <2>1, KillInitType
<1>2. KillTypeInv /\ JournalInv /\ [KillNext]_workspace => KillTypeInv' /\ JournalInv'
  <2> SUFFICES ASSUME KillTypeInv, JournalInv, [KillNext]_workspace
               PROVE  KillTypeInv' /\ JournalInv'
    OBVIOUS
  <2>1. CASE KillNext
    BY <2>1, KillStepType, KillStepMirror DEF KillNext
  <2>2. CASE UNCHANGED workspace
    BY <2>2, MirrorFrame DEF workspace, files, procs, KillTypeInv, TypeOK, KillOpsFit
  <2> QED BY <2>1, <2>2
<1>3. JournalInv => JournalMirrorsAudit
  BY DEF JournalInv
<1> QED BY <1>1, <1>2, <1>3, PTL DEF KillSpec

-----------------------------------------------------------------------------
(* The audit chain of commands that do not overlap *)

Activations == {i \in DOMAIN events : events[i].op = "activate"}

\* The activation that began the most recent active period.
PeriodStart == IF Activations = {} THEN NoProc ELSE events[Max(Activations)].id

Chained ==
    \A i \in DOMAIN events : events[i].prev = IF i = 1 THEN "absent" ELSE events[i-1].new

\* The state file carries what the last audit event says.
Carries ==
    IF events = <<>> THEN stateFile = Absent
    ELSE /\ Readable(stateFile)
         /\ stateFile.last = Last(events).id /\ stateFile.state = Last(events).new
         /\ stateFile.since = PeriodStart

\* It is about to, once p has written it.
Announced(p) ==
    /\ events # <<>>
    /\ Last(events).id = p /\ Last(events).new = NewState(op[p])
    /\ StateOf(p).since = PeriodStart

\* What the one command that is under way relies on at each of its steps.
ChainStep(p) ==
    /\ pc[p] = "append_event" => Carries /\ seen[p] = StatusRead
    /\ pc[p] \in {"append_kill_entry", "open_state", "flush_state"} => Announced(p)
    /\ pc[p] = "flush_state" => stateFile = Empty
    /\ pc[p] \in {"patch_read", "patch_status", "patch_open", "patch_flush"} =>
          Carries /\ events # <<>>
    /\ pc[p] \in {"patch_open", "patch_flush"} => held[p].safety = stateFile.state
    /\ IF pc[p] = "patch_flush" THEN metadata = Empty
       ELSE pc[p] \in KillPCs => metadata = Absent \/ Readable(metadata)

\* What the files say between two commands.
RestOK ==
    /\ Carries
    /\ metadata = Absent \/ Readable(metadata)
    /\ metadata # Absent /\ events # <<>> => metadata.safety = stateFile.state

AtRest == \A p \in Proc : Started(p) => Ended(p)

ChainInv ==
    /\ Activations # {} => Max(Activations) \in Activations
    /\ SerialHistory => Chained /\ (AtRest => RestOK) /\ \A p \in Proc : ChainStep(p)

\* In a serial history, the command that moves is the only one under way; it can have
\* ended well only.
LEMMA SerialAlone ==
    ASSUME TypeOK, HistoryInv, NEW p \in Proc, Started(p), ~Ended(p), NEW to,
           pc' = [pc EXCEPT ![p] = to], before' = before, to # "idle", SerialHistory'
    PROVE  /\ SerialHistory /\ to \notin {"failed", "refused", "crashed"}
           /\ \A q \in Proc : q # p => pc'[q] = pc[q] /\ (Started(q) => Ended(q))
<1>1. pc'[p] = to /\ \A q \in Proc : q # p => pc'[q] = pc[q]
  BY DEF TypeOK
<1>2. \A q \in Proc : Started(q)' <=> Started(q)
  BY <1>1 DEF Started
<1>3. pc[p] \notin {"failed", "refused", "crashed"}
  BY DEF Ended, EndPCs
<1>4. SerialHistory
  BY <1>1, <1>2, <1>3 DEF SerialHistory, Precedes
<1>5. ASSUME NEW q \in Proc, q # p, Started(q) PROVE Ended(q)
  <2>1. Precedes(p, q) \/ Precedes(q, p)
    BY <1>4, <1>5 DEF SerialHistory
  <2> QED BY <2>1 DEF HistoryInv
<1>6. to \notin {"failed", "refused", "crashed"}
  BY <1>1, <1>2 DEF SerialHistory
<1> QED BY <1>1, <1>4, <1>5, <1>6

\* A command that begins in a serial history begins at rest.
LEMMA SerialBegin ==
    ASSUME TypeOK, HistoryInv, NEW p \in Proc, NEW o, NEW to, Begin(p, o, to), to # "idle",
           SerialHistory'
    PROVE  /\ SerialHistory /\ AtRest /\ to \notin {"failed", "refused", "crashed"}
           /\ pc'[p] = to /\ \A q \in Proc : q # p => pc'[q] = pc[q]
<1>1. /\ pc[p] = "idle" /\ pc'[p] = to /\ before'[p] = {q \in Proc : Ended(q)}
      /\ \A q \in Proc : q # p => pc'[q] = pc[q] /\ before'[q] = before[q]
  BY DEF Begin, Goto, TypeOK
<1>2. ~Started(p) /\ ~Ended(p) /\ Started(p)' /\ \A q \in Proc : q # p => (Started(q)' <=> Started(q))
  BY <1>1 DEF Started, Ended, EndPCs
<1>3. SerialHistory
  BY <1>1, <1>2 DEF SerialHistory, Precedes
<1>4. ASSUME NEW q \in Proc, Started(q) PROVE Ended(q)
  <2>1. q # p
    BY <1>2, <1>4
  <2>2. Precedes(p, q)' \/ Precedes(q, p)'
    BY <1>2, <1>4, <2>1 DEF SerialHistory
  <2>3. ~Precedes(p, q)
    BY <1>2 DEF HistoryInv
  <2> QED BY <1>1, <2>1, <2>2, <2>3 DEF Precedes
<1>5. to \notin {"failed", "refused", "crashed"}
  BY <1>1, <1>2 DEF SerialHistory
<1> QED BY <1>1, <1>3, <1>4, <1>5 DEF AtRest

\* The audit event of a command becomes the last one.
LEMMA EventAdds ==
    ASSUME KillTypeInv, NEW p \in Proc, AppendEvent(p),
           Activations # {} => Max(Activations) \in Activations
    PROVE  /\ events' # <<>> /\ Last(events)' = KillEventOf(p)
           /\ Activations' # {} => Max(Activations') \in Activations'
           /\ PeriodStart' = IF op[p] = "activate" THEN p ELSE PeriodStart
           /\ Chained /\ (seen[p].state = IF events = <<>> THEN "absent" ELSE Last(events).new) =>
                 Chained'
<1> DEFINE e == KillEventOf(p)
           n == Len(events) + 1
<1>1. e \in KillEvent /\ e.id = p /\ e.op = op[p] /\ e.prev = seen[p].state
  BY DEF AppendEvent, Goto, KillEventOf, KillEvent, KillTypeInv, KillOpsFit, KillPCs, TypeOK,
     NewState, SwitchStates, Status
<1>2. events \in Seq(KillEvent) /\ events' = Append(events, e)
  BY DEF AppendEvent, KillTypeInv, TypeOK
<1> HIDE DEF e
<1>3. /\ events' # <<>> /\ Last(events)' = e
      /\ n \in Nat /\ DOMAIN events = 1..Len(events) /\ Len(events) \in Nat
      /\ DOMAIN events' = DOMAIN events \cup {n} /\ events'[n] = e
      /\ \A i \in DOMAIN events : events'[i] = events[i] /\ i \in Nat /\ i < n
  BY <1>1, <1>2 DEF Last
<1>4. ASSUME op[p] = "activate"
      PROVE  /\ Activations' # {} => Max(Activations') \in Activations'
             /\ PeriodStart' = IF op[p] = "activate" THEN p ELSE PeriodStart
  <2>1. /\ Activations' = Activations \cup {n} /\ \A i \in Activations : i \in Nat /\ i < n
    BY <1>1, <1>3, <1>4 DEF Activations
  <2>2. Max(Activations') = n
    <3> HIDE DEF n
    <3>1. \A i \in Activations' : n >= i
      BY <1>3, <2>1
    <3>2. \A m \in Activations' : (\A i \in Activations' : m >= i) => m = n
      BY <1>3, <2>1
    <3> QED BY <2>1, <3>1, <3>2 DEF Max
  <2> QED BY <1>1, <1>3, <1>4, <2>1, <2>2 DEF PeriodStart
<1>5. ASSUME op[p] # "activate"
      PROVE  /\ Activations' # {} => Max(Activations') \in Activations'
             /\ PeriodStart' = IF op[p] = "activate" THEN p ELSE PeriodStart
  <2>1. Activations' = Activations
    BY <1>1, <1>3, <1>5 DEF Activations
  <2>2. Activations # {} => events'[Max(Activations)] = events[Max(Activations)]
    BY <1>3 DEF Activations
  <2> QED BY <1>5, <2>1, <2>2 DEF PeriodStart
<1>6. ASSUME Chained, seen[p].state = IF events = <<>> THEN "absent" ELSE Last(events).new
      PROVE  Chained'
  <2>1. ASSUME NEW i \in DOMAIN events'
        PROVE  events'[i].prev = IF i = 1 THEN "absent" ELSE events'[i-1].new
    <3>1. CASE i \in DOMAIN events
      <4>1. i # 1 => i-1 \in DOMAIN events
        BY <1>3, <3>1
      <4> QED BY <1>3, <1>6, <3>1, <4>1 DEF Chained
    <3>2. CASE i = n
      <4>1. events = <<>> <=> n = 1
        BY <1>2, <1>3
      <4>2. n # 1 => Len(events) \in DOMAIN events /\ n - 1 = Len(events)
        BY <1>3
      <4>3. n # 1 => events'[n-1] = Last(events)
        BY <1>3, <4>2 DEF Last
      <4>4. n # 1 => events'[i-1].new = seen[p].state
        BY <1>6, <3>2, <4>1, <4>3
      <4>5. n = 1 => seen[p].state = "absent"
        BY <1>6, <4>1
      <4>6. events'[i].prev = seen[p].state
        BY <1>1, <1>3, <3>2
      <4> HIDE DEF n
      <4> QED BY <3>2, <4>4, <4>5, <4>6
    <3> QED BY <1>3, <3>1, <3>2
  <2> QED BY <2>1 DEF Chained
<1> QED BY <1>3, <1>4, <1>5, <1>6 DEF e

\* The command under way goes on, or ends well.
LEMMA ChainMoves ==
    ASSUME KillTypeInv, HistoryInv, ChainInv, NEW p \in Proc, Started(p), ~Ended(p), NEW to,
           pc' = [pc EXCEPT ![p] = to], before' = before, to # "idle",
           Activations' # {} => Max(Activations') \in Activations',
           SerialHistory /\ Chained /\ ChainStep(p) /\ to \notin {"failed", "refused", "crashed"} =>
              Chained' /\ ChainStep(p)' /\ (to = "done" => RestOK')
    PROVE  ChainInv'
<1> SUFFICES ASSUME SerialHistory'
             PROVE  Chained' /\ (AtRest' => RestOK') /\ \A q \in Proc : ChainStep(q)'
  BY DEF ChainInv
<1>1. /\ SerialHistory /\ to \notin {"failed", "refused", "crashed"} /\ pc'[p] = to
      /\ \A q \in Proc : q # p => pc'[q] = pc[q] /\ (Started(q) => Ended(q))
  BY SerialAlone DEF KillTypeInv, TypeOK
<1>2. Chained' /\ ChainStep(p)' /\ (to = "done" => RestOK')
  BY <1>1 DEF ChainInv
<1>3. ASSUME AtRest' PROVE RestOK'
  <2>1. to \in EndPCs
    BY <1>1, <1>3 DEF AtRest, Started, Ended
  <2> QED BY <1>1, <1>2, <2>1 DEF EndPCs
<1>4. ASSUME NEW q \in Proc, q # p PROVE ChainStep(q)'
  <2>1. pc'[q] \in EndPCs \cup {"idle"}
    BY <1>1, <1>4 DEF Started, Ended
  <2> QED BY <2>1 DEF ChainStep, EndPCs, KillPCs
<1> QED BY <1>2, <1>3, <1>4

\* A command begins.
LEMMA ChainBegins ==
    ASSUME KillTypeInv, HistoryInv, ChainInv, NEW p \in Proc, KillBegin(p)
    PROVE  ChainInv'
<1>1. PICK o \in KillOps, to \in {"failed", "append_event"} : Begin(p, o, to)
  BY DEF KillBegin, ReadStatus
<1>2. /\ UNCHANGED <<events, stateFile, metadata>>
      /\ to = "append_event" => seen' = [seen EXCEPT ![p] = StatusRead]
  BY <1>1 DEF KillBegin, ReadStatus, files, Begin, Goto, KillTypeInv, TypeOK
<1>3. Activations' = Activations /\ (PeriodStart' = PeriodStart) /\ (Chained' <=> Chained)
  BY <1>2 DEF Activations, PeriodStart, Chained
<1>4. (Carries' <=> Carries) /\ StatusRead' = StatusRead
  BY <1>2, <1>3 DEF Carries, StatusRead
<1> SUFFICES ASSUME SerialHistory'
             PROVE  Chained' /\ (AtRest' => RestOK') /\ \A q \in Proc : ChainStep(q)'
  BY <1>3 DEF ChainInv
<1>5. /\ SerialHistory /\ AtRest /\ to = "append_event"
      /\ pc'[p] = to /\ \A q \in Proc : q # p => pc'[q] = pc[q]
  BY <1>1, SerialBegin DEF KillTypeInv
<1>6. Chained /\ RestOK
  BY <1>5 DEF ChainInv
<1>7. ~AtRest'
  BY <1>5 DEF AtRest, Started, Ended, EndPCs
<1>8. ChainStep(p)'
  <2>1. seen'[p] = StatusRead'
    BY <1>2, <1>4, <1>5 DEF KillTypeInv, TypeOK
  <2> QED BY <1>2, <1>4, <1>5, <1>6, <2>1 DEF ChainStep, RestOK, Readable
<1>9. ASSUME NEW q \in Proc, q # p PROVE ChainStep(q)'
  <2>1. pc'[q] \in EndPCs \cup {"idle"}
    BY <1>5, <1>9 DEF AtRest, Started, Ended
  <2> QED BY <2>1 DEF ChainStep, EndPCs, KillPCs
<1> QED BY <1>3, <1>6, <1>7, <1>8, <1>9

\* Its event is announced.
LEMMA ChainAnnounces ==
    ASSUME KillTypeInv, NEW p \in Proc, ChainStep(p), AppendEvent(p), Chained,
           Activations # {} => Max(Activations) \in Activations
    PROVE  Chained' /\ ChainStep(p)'
<1>1. /\ pc[p] = "append_event" /\ pc'[p] = "append_kill_entry"
      /\ UNCHANGED <<op, seen, stateFile, metadata>>
  BY DEF AppendEvent, Goto, KillTypeInv, TypeOK
<1>2. Carries /\ seen[p] = StatusRead /\ (metadata = Absent \/ Readable(metadata))
  BY <1>1 DEF ChainStep, KillPCs
<1>3. /\ seen[p].state = IF events = <<>> THEN "absent" ELSE Last(events).new
      /\ seen[p].since = PeriodStart
  <2>1. CASE events = <<>>
    <3>1. Activations = {}
      BY <2>1 DEF Activations
    <3> QED BY <1>2, <2>1, <3>1 DEF Carries, StatusRead, NoStatus, PeriodStart
  <2>2. CASE events # <<>>
    BY <1>2, <2>2 DEF Carries, StatusRead, Readable, NoFile
  <2> QED BY <2>1, <2>2
<1>4. /\ events' # <<>> /\ Last(events)' = KillEventOf(p)
      /\ PeriodStart' = IF op[p] = "activate" THEN p ELSE PeriodStart
      /\ Chained'
  BY <1>3, EventAdds
<1>5. KillEventOf(p).id = p /\ KillEventOf(p).new = NewState(op[p])
  BY DEF KillEventOf
<1>6. StateOf(p)'.since = PeriodStart'
  BY <1>1, <1>3, <1>4 DEF StateOf
<1>7. Announced(p)'
  BY <1>1, <1>4, <1>5, <1>6 DEF Announced
<1> QED BY <1>1, <1>2, <1>4, <1>7 DEF ChainStep, Readable

\* The journal line and the state write.
LEMMA ChainWrites ==
    ASSUME KillTypeInv, NEW p \in Proc, ChainStep(p), Chained,
           AppendKillEntry(p) \/ OpenState(p) \/ FlushState(p)
    PROVE  Chained' /\ ChainStep(p)'
<1>1. /\ pc[p] \in {"append_kill_entry", "open_state", "flush_state"}
      /\ UNCHANGED <<op, seen, events, metadata>>
  BY DEF AppendKillEntry, OpenState, FlushState, Goto
<1>2. /\ Chained' /\ PeriodStart' = PeriodStart /\ StateOf(p)' = StateOf(p)
      /\ (Announced(p)' <=> Announced(p))
  BY <1>1 DEF Chained, PeriodStart, Activations, StateOf, Announced
<1>3. Announced(p) /\ (metadata = Absent \/ Readable(metadata))
  BY <1>1 DEF ChainStep, KillPCs
<1>4. CASE AppendKillEntry(p)
  <2>1. pc'[p] = "open_state"
    BY <1>4 DEF AppendKillEntry, Goto, KillTypeInv, TypeOK
  <2> QED BY <1>1, <1>2, <1>3, <2>1 DEF ChainStep, Readable
<1>5. CASE OpenState(p)
  <2>1. pc'[p] = "flush_state" /\ stateFile' = Empty
    BY <1>5 DEF OpenState, Goto, KillTypeInv, TypeOK
  <2> QED BY <1>1, <1>2, <1>3, <2>1 DEF ChainStep, Readable
<1>6. CASE FlushState(p)
  <2>1. pc[p] = "flush_state" /\ pc'[p] = "patch_read" /\ stateFile' = StateOf(p)
    BY <1>6 DEF FlushState, Goto, KillTypeInv, TypeOK, ChainStep, Flush
  <2>2. Readable(StateOf(p))
    <3>1. seen[p].since \in Proc \cup {NoProc} /\ NewState(op[p]) \in SwitchStates
      BY DEF KillTypeInv, TypeOK, Status, NewState, SwitchStates
    <3>2. StateOf(p) \in StateContent
      BY <3>1 DEF StateOf, StateContent
    <3> QED BY <3>2, FileAssumption DEF Readable
  <2>3. StateOf(p).last = p /\ StateOf(p).state = NewState(op[p])
    BY DEF StateOf
  <2>4. Carries' /\ events' # <<>>
    BY <1>1, <1>2, <1>3, <2>1, <2>2, <2>3 DEF Carries, Announced, Readable
  <2> QED BY <1>1, <1>2, <1>3, <2>1, <2>4 DEF ChainStep, Readable
<1> QED BY <1>4, <1>5, <1>6

\* The metadata patch.
LEMMA ChainPatches ==
    ASSUME KillTypeInv, NEW p \in Proc, ChainStep(p), Chained,
           PatchRead(p) \/ PatchStatus(p) \/ PatchOpen(p) \/ PatchFlush(p),
           pc'[p] # "failed"
    PROVE  Chained' /\ ChainStep(p)' /\ (pc'[p] = "done" => RestOK')
<1>1. /\ pc[p] \in {"patch_read", "patch_status", "patch_open", "patch_flush"}
      /\ UNCHANGED <<events, stateFile>>
  BY DEF PatchRead, PatchStatus, PatchOpen, PatchFlush, Goto, files
<1>2. Carries /\ events # <<>>
  BY <1>1 DEF ChainStep
<1>3. /\ Chained' /\ Carries' /\ events' # <<>>
  BY <1>1, <1>2 DEF Chained, Carries, PeriodStart, Activations
<1>4. CASE PatchRead(p)
  <2>1. metadata' = metadata /\ (metadata = Absent \/ Readable(metadata))
    BY <1>4 DEF PatchRead, files, Goto, ChainStep, KillPCs
  <2>2. pc'[p] = IF metadata = Absent THEN "done" ELSE "patch_status"
    BY <1>4, <2>1 DEF PatchRead, Goto, KillTypeInv, TypeOK, Readable, Malformed, NoFile
  <2> QED BY <1>3, <2>1, <2>2 DEF ChainStep, RestOK, Readable
<1>5. CASE PatchStatus(p)
  <2>1. /\ metadata' = metadata /\ (metadata = Absent \/ Readable(metadata))
        /\ pc'[p] = "patch_open" /\ held'[p].safety = StatusRead.state
    BY <1>5 DEF PatchStatus, files, Goto, ChainStep, KillPCs, KillTypeInv, TypeOK, MetaContent
  <2>2. StatusRead.state = stateFile.state
    BY <1>2 DEF Carries, StatusRead, Readable, NoFile
  <2> QED BY <1>1, <1>3, <2>1, <2>2 DEF ChainStep, Readable
<1>6. CASE PatchOpen(p)
  <2>1. pc[p] = "patch_open" /\ pc'[p] = "patch_flush" /\ metadata' = Empty /\ held' = held
    BY <1>6 DEF PatchOpen, Goto, KillTypeInv, TypeOK
  <2> QED BY <1>1, <1>3, <2>1 DEF ChainStep
<1>7. CASE PatchFlush(p)
  <2>1. pc[p] = "patch_flush" /\ pc'[p] = "done" /\ metadata' = held[p]
    BY <1>7 DEF PatchFlush, Goto, KillTypeInv, TypeOK, ChainStep, Flush
  <2>2. held[p].safety = stateFile.state
    BY <2>1 DEF ChainStep
  <2>3. Readable(held[p])
    BY FileAssumption DEF KillTypeInv, TypeOK, Readable
  <2>4. RestOK'
    BY <1>1, <1>3, <2>1, <2>2, <2>3 DEF RestOK, Readable
  <2> QED BY <1>3, <2>1, <2>4 DEF ChainStep, KillPCs
<1> QED BY <1>4, <1>5, <1>6, <1>7

LEMMA KillStepChain ==
    ASSUME KillTypeInv, HistoryInv, ChainInv, NEW p \in Proc,
           KillBegin(p) \/ KillStep(p) \/ Crash(p)
    PROVE  ChainInv'
<1>1. CASE KillBegin(p)
  BY <1>1, ChainBegins
<1>2. CASE KillStep(p) \/ Crash(p)
  <2>1. PICK to \in PCs \ {"idle"} :
           /\ pc' = [pc EXCEPT ![p] = to] /\ pc'[p] = to
           /\ to \in EndPCs => to \in {"done", "failed", "crashed"}
    BY <1>2 DEF KillStep, AppendEvent, AppendKillEntry, OpenState, FlushState, PatchRead,
       PatchStatus, PatchOpen, PatchFlush, Crash, Goto, PCs, EndPCs, KillPCs, KillTypeInv, TypeOK
  <2>2. Started(p) /\ ~Ended(p) /\ before' = before
    BY <1>2 DEF KillStep, AppendEvent, AppendKillEntry, OpenState, FlushState, PatchRead,
       PatchStatus, PatchOpen, PatchFlush, Crash, Goto, Started, Ended, EndPCs
  <2>3. Activations' # {} => Max(Activations') \in Activations'
    <3>1. CASE AppendEvent(p)
      BY <3>1, EventAdds DEF ChainInv
    <3>2. CASE ~AppendEvent(p)
      <4>1. events' = events
        BY <1>2, <3>2 DEF KillStep, AppendKillEntry, OpenState, FlushState, PatchRead,
           PatchStatus, PatchOpen, PatchFlush, Crash, files
      <4> QED BY <4>1 DEF ChainInv, Activations
    <3> QED BY <3>1, <3>2
  <2>4. ASSUME Chained, ChainStep(p), to \notin {"failed", "refused", "crashed"}
        PROVE  Chained' /\ ChainStep(p)' /\ (to = "done" => RestOK')
    <3>1. CASE AppendEvent(p)
      <4>1. to # "done"
        BY <2>1, <3>1 DEF AppendEvent, Goto, KillTypeInv, TypeOK
      <4> QED BY <2>4, <3>1, <4>1, ChainAnnounces DEF ChainInv
    <3>2. CASE AppendKillEntry(p) \/ OpenState(p) \/ FlushState(p)
      <4>1. to # "done"
        BY <2>1, <3>2 DEF AppendKillEntry, OpenState, FlushState, Goto, KillTypeInv, TypeOK
      <4> QED BY <2>4, <3>2, <4>1, ChainWrites
    <3>3. CASE PatchRead(p) \/ PatchStatus(p) \/ PatchOpen(p) \/ PatchFlush(p)
      BY <2>1, <2>4, <3>3, ChainPatches
    <3>4. ~Crash(p)
      BY <2>1, <2>4 DEF Crash, KillTypeInv, TypeOK
    <3> QED BY <1>2, <3>1, <3>2, <3>3, <3>4 DEF KillStep
  <2> QED BY <2>1, <2>2, <2>3, <2>4, ChainMoves
<1> QED BY <1>1, <1>2

\* Commands that do not overlap leave an unbroken audit chain, a state file that carries
\* its last event and the start of the active period, and metadata.json in step: for
\* any number of activations and clears, in any order.
THEOREM ChainUnbroken == KillSpec => []SerialAuditChain
<1> DEFINE Inv == KillTypeInv /\ DurableInv /\ ChainInv
<1>1. KillInit => Inv
  <2>1. KillInit => ChainInv
    <3> SUFFICES ASSUME KillInit PROVE ChainInv
      OBVIOUS
    <3>1. events = <<>> /\ stateFile = Absent /\ \A p \in Proc : pc[p] = "idle"
      BY DEF KillInit, ProcInit
    <3>2. Activations = {} /\ Chained /\ Carries
      BY <3>1 DEF Activations, Chained, Carries
    <3>3. metadata = Absent \/ Readable(metadata)
      <4>1. InitialMetadata \in MetaContent
        BY DEF InitialMetadata, MetaContent, RunStatuses, Outcomes
      <4> QED BY <4>1, FileAssumption DEF KillInit, Readable
    <3>4. \A p \in Proc : ChainStep(p)
      BY <3>1 DEF ChainStep, KillPCs
    <3> QED BY <3>1, <3>2, <3>3, <3>4 DEF ChainInv, RestOK
  <2> QED BY <2>1, KillInitType, ProcInitDurable DEF KillInit
<1>2. Inv /\ [KillNext]_workspace => Inv'
  <2> SUFFICES ASSUME Inv, [KillNext]_workspace PROVE Inv'
    OBVIOUS
  <2>1. CASE KillNext
    BY <2>1, KillStepType, KillStepDurable, KillStepChain DEF KillNext, DurableInv
  <2>2. CASE UNCHANGED workspace
    <3>1. KillTypeInv' /\ DurableInv'
      BY <2>2 DEF workspace, files, procs, KillTypeInv, TypeOK, KillOpsFit, DurableInv,
                  HistoryInv, NoLostActivation, StandingActivation, Precedes, Ended, Readable
    <3>2. /\ Activations' = Activations /\ PeriodStart' = PeriodStart /\ StatusRead' = StatusRead
          /\ (SerialHistory' <=> SerialHistory) /\ (AtRest' <=> AtRest)
      BY <2>2 DEF workspace, files, procs, Activations, PeriodStart, StatusRead, SerialHistory,
                  AtRest, Started, Ended, Precedes
    <3>3. (Carries' <=> Carries) /\ (Chained' <=> Chained)
      BY <2>2, <3>2 DEF workspace, files, Carries, Chained, Readable
    <3>4. RestOK' <=> RestOK
      BY <2>2, <3>3 DEF workspace, files, RestOK, Readable
    <3>5. \A p \in Proc : ChainStep(p)' <=> ChainStep(p)
      BY <2>2, <3>2, <3>3 DEF workspace, files, procs, ChainStep, Announced, StateOf, Readable
    <3> QED BY <3>1, <3>2, <3>3, <3>4, <3>5 DEF ChainInv
  <2> QED BY <2>1, <2>2
<1>3. Inv => SerialAuditChain
  BY DEF ChainInv, SerialAuditChain, Chained, RestOK, AtRest, Carries, PeriodStart, Activations
<1> QED BY <1>1, <1>2, <1>3, PTL DEF KillSpec
=============================================================================
