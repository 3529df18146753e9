---------------------------- MODULE OpsLabProofs ----------------------------
(***************************************************************************)
(* Proofs about the commands of one run_id running concurrently, for any   *)
(* set of invocations and any scenarios.                                   *)
(***************************************************************************)
EXTENDS OpsLab, KillSwitchProofs

\* A program counter belongs to a command of its kind.
OpsFit ==
    \A p \in Proc :
        /\ pc[p] \in KillPCs  => op[p] \in KillOps
        /\ pc[p] \in RunPCs   => op[p] \in RunOps
        /\ pc[p] \in PatchPCs => op[p] \in PatchOps

\* Nothing is deleted: what a command found, or made, is there when it goes on.
BeforeJournalPCs == {"gate", "check_dir", "make_dir", "copy_spec", "open_metadata",
                     "flush_metadata", "create_journal"}
Saves == {"open_metadata", "flush_metadata"}
PresentInv ==
    \A p \in Proc :
        /\ pc[p] \in PatchPCs \ {"check_files"} => metadata # Absent /\ journal # Absent
        /\ pc[p] \in RunPCs \ BeforeJournalPCs => journal # Absent
        /\ pc[p] \in Saves /\ held[p].status \notin {"initialized", "running"} =>
              journal # Absent

OpsTypeInv == OpsTypeOK /\ OpsFit /\ PresentInv

-----------------------------------------------------------------------------
\* A jump changes one program counter.
LEMMA GotoOne ==
    ASSUME NEW p \in Proc, NEW from, NEW to \in PCs, pc \in [Proc -> PCs], Goto(p, from, to)
    PROVE  /\ pc' \in [Proc -> PCs] /\ pc[p] = from /\ pc'[p] = to
           /\ \A q \in Proc : q # p => pc'[q] = pc[q]
  BY DEF Goto

\* A journal is not the mark of a missing one.
LEMMA JournalExists ==
    /\ <<>> \in Seq(Entry)
    /\ \A s \in Seq(Entry) : s # Absent
<1>1. Absent \in NoFile
  BY DEF NoFile
<1>2. Absent \notin Seq(Entry)
  BY <1>1, FileAssumption
<1> QED BY <1>2

\* Every line a lifecycle or a connectivity command appends is an entry.
LEMMA EntryType ==
    ASSUME NEW p \in Proc, NEW event \in RunEntries \cup KillEntries \cup PatchEntries
    PROVE  [event |-> event, by |-> p] \in Entry
  BY DEF Entry

-----------------------------------------------------------------------------
(* Type correctness *)

\* The four kinds of program counters do not overlap.
LEMMA KindsApart ==
    /\ KillPCs \subseteq PCs /\ RunPCs \subseteq PCs /\ PatchPCs \subseteq PCs
    /\ EndPCs \subseteq PCs /\ "idle" \in PCs
    /\ "idle" \notin KillPCs \cup RunPCs \cup PatchPCs \cup EndPCs
    /\ KillPCs \cap RunPCs = {} /\ KillPCs \cap PatchPCs = {} /\ KillPCs \cap EndPCs = {}
    /\ RunPCs \cap PatchPCs = {} /\ RunPCs \cap EndPCs = {} /\ PatchPCs \cap EndPCs = {}
<1>1. /\ KillPCs \cap RunPCs = {} /\ KillPCs \cap PatchPCs = {} /\ KillPCs \cap EndPCs = {}
      /\ "idle" \notin KillPCs
  BY DEF KillPCs, RunPCs, PatchPCs, EndPCs
<1>2. /\ RunPCs \cap PatchPCs = {} /\ RunPCs \cap EndPCs = {} /\ PatchPCs \cap EndPCs = {}
      /\ "idle" \notin RunPCs \cup PatchPCs \cup EndPCs
  BY DEF RunPCs, PatchPCs, EndPCs
<1> QED BY <1>1, <1>2 DEF PCs

\* What a step of p has to show for itself: the other commands still fit.
LEMMA FitFrame ==
    ASSUME OpsTypeInv, NEW p \in Proc,
           pc' \in [Proc -> PCs],
           \A q \in Proc : q # p => pc'[q] = pc[q] /\ op'[q] = op[q] /\ held'[q] = held[q],
           metadata # Absent => metadata' # Absent,
           journal # Absent => journal' # Absent,
           /\ pc'[p] \in KillPCs  => op'[p] \in KillOps
           /\ pc'[p] \in RunPCs   => op'[p] \in RunOps
           /\ pc'[p] \in PatchPCs => op'[p] \in PatchOps,
           /\ pc'[p] \in PatchPCs \ {"check_files"} => metadata' # Absent /\ journal' # Absent
           /\ pc'[p] \in RunPCs \ BeforeJournalPCs => journal' # Absent
           /\ pc'[p] \in Saves /\ held'[p].status \notin {"initialized", "running"} =>
                 journal' # Absent
    PROVE  OpsFit' /\ PresentInv'
<1>1. OpsFit'
  BY DEF OpsTypeInv, OpsFit
<1>2. PresentInv'
  BY DEF OpsTypeInv, PresentInv
<1> QED BY <1>1, <1>2

\* A lifecycle step that goes on in the lifecycle, or ends it.
LEMMA RunFrame ==
    ASSUME OpsTypeInv, NEW p \in Proc, NEW to \in RunPCs \cup EndPCs,
           pc[p] \in RunPCs, pc' = [pc EXCEPT ![p] = to],
           op' = op,
           \A q \in Proc : q # p => held'[q] = held[q],
           metadata # Absent => metadata' # Absent,
           journal # Absent => journal' # Absent,
           to \in RunPCs \ BeforeJournalPCs => journal' # Absent,
           to \in Saves /\ held'[p].status \notin {"initialized", "running"} =>
              journal' # Absent
    PROVE  pc' \in [Proc -> PCs] /\ OpsFit' /\ PresentInv'
<1>1. pc \in [Proc -> PCs] /\ to \in PCs
  BY KindsApart DEF OpsTypeInv, OpsTypeOK, TypeOK
<1>2. pc' \in [Proc -> PCs] /\ pc'[p] = to /\ \A q \in Proc : q # p => pc'[q] = pc[q]
  BY <1>1
<1>3. op'[p] \in RunOps /\ to \notin KillPCs \cup PatchPCs
  BY KindsApart DEF OpsTypeInv, OpsFit
<1> QED BY <1>2, <1>3, FitFrame

\* The metadata dict a lifecycle begins with is well formed.
LEMMA FirstMetadataType ==
    ASSUME TypeOK, NEW p \in Proc
    PROVE  InitialMetadata \in MetaContent /\ BacktestMetadata \in MetaContent
           /\ PaperMetadata(p) \in MetaContent
<1>1. seen[p].state \in SafetyStates /\ OutcomeOf(seen[p].state) \in Outcomes
  BY DEF TypeOK, Status, OutcomeOf, Outcomes
<1> QED BY <1>1 DEF InitialMetadata, BacktestMetadata, PaperMetadata, MetaContent, RunStatuses,
                    Outcomes

\* Lifecycle steps keep the types: the steps before the journal.
LEMMA RunOpeningType ==
    ASSUME OpsTypeInv, NEW p \in Proc,
           \/ Gate(p) \/ CheckDir(p) \/ MakeDir(p) \/ CopySpec(p)
           \/ OpenMetadata(p) \/ FlushMetadata(p) \/ CreateJournal(p),
           UNCHANGED connVars
    PROVE  OpsTypeInv'
<1> USE DEF OpsTypeInv
<1>0. /\ TypeOK /\ ConnTypeOK' /\ beat \in [Proc -> 0..HeartbeatCount]
      /\ pc \in [Proc -> PCs] /\ op[p] \in Ops \cup {"none"}
  BY DEF OpsTypeInv, OpsTypeOK, ConnTypeOK, connVars, TypeOK
<1>1. CASE Gate(p)
  <2>1. PICK to \in {"failed", "check_dir"} : Goto(p, "gate", to)
    BY <1>1 DEF Gate
  <2>2. seen' \in [Proc -> Status]
    BY <1>1, <1>0, StatusReadType DEF Gate, TypeOK
  <2>3. pc' \in [Proc -> PCs] /\ OpsFit' /\ PresentInv'
    BY <1>1, <2>1, RunFrame DEF Gate, Goto, files, RunPCs, EndPCs, BeforeJournalPCs, Saves
  <2> QED BY <1>1, <1>0, <2>2, <2>3 DEF Gate, files, TypeOK, OpsTypeOK
<1>2. CASE CheckDir(p)
  <2>1. PICK to \in {"refused", "make_dir"} : Goto(p, "check_dir", to)
    BY <1>2 DEF CheckDir
  <2>3. pc' \in [Proc -> PCs] /\ OpsFit' /\ PresentInv'
    BY <1>2, <2>1, RunFrame DEF CheckDir, Goto, files, RunPCs, EndPCs, BeforeJournalPCs, Saves
  <2> QED BY <1>2, <1>0, <2>3 DEF CheckDir, files, TypeOK, OpsTypeOK
<1>3. CASE MakeDir(p)
  <2>1. PICK to \in {"refused", "copy_spec"} : Goto(p, "make_dir", to)
    BY <1>3 DEF MakeDir
  <2>3. pc' \in [Proc -> PCs] /\ OpsFit' /\ PresentInv'
    BY <1>3, <2>1, RunFrame DEF MakeDir, Goto, files, RunPCs, EndPCs, BeforeJournalPCs, Saves
  <2> QED BY <1>3, <1>0, <2>3 DEF MakeDir, files, TypeOK, OpsTypeOK
<1>4. CASE CopySpec(p)
  <2>0. op[p] \in RunOps
    BY <1>4 DEF CopySpec, Goto, OpsTypeInv, OpsFit, RunPCs
  <2>1. PICK m \in MetaContent : held' = [held EXCEPT ![p] = m] /\ m.status \in {"initialized", "running"}
    BY <1>4, <1>0, <2>0, FirstMetadataType
       DEF CopySpec, RunOps, InitialMetadata, BacktestMetadata, PaperMetadata
  <2>2. held' \in [Proc -> MetaContent] /\ held'[p] = m
        /\ \A q \in Proc : q # p => held'[q] = held[q]
    BY <2>1, <1>0 DEF TypeOK
  <2>3. pc' \in [Proc -> PCs] /\ OpsFit' /\ PresentInv'
    BY <1>4, <2>1, <2>2, RunFrame DEF CopySpec, Goto, RunPCs, EndPCs, BeforeJournalPCs, Saves
  <2> QED BY <1>4, <1>0, <2>2, <2>3 DEF CopySpec, TypeOK, OpsTypeOK
<1>5. CASE OpenMetadata(p)
  <2>1. Empty # Absent /\ Empty \in NoFile
    BY FileAssumption DEF NoFile
  <2>3. pc' \in [Proc -> PCs] /\ OpsFit' /\ PresentInv'
    BY <1>5, <2>1, RunFrame DEF OpenMetadata, Goto, RunPCs, EndPCs, BeforeJournalPCs, Saves,
       OpsTypeInv, PresentInv
  <2> QED BY <1>5, <1>0, <2>1, <2>3 DEF OpenMetadata, TypeOK, OpsTypeOK
<1>6. CASE FlushMetadata(p)
  <2>1. held[p] \in MetaContent /\ (metadata' = held[p] \/ metadata' = Garbled)
    BY <1>6, <1>0, FlushResult DEF FlushMetadata, TypeOK
  <2>2. metadata' \in MetaContent \cup NoFile /\ metadata' # Absent
    BY <2>1, FileAssumption DEF NoFile
  <2>a. AfterMetadata(p) \in {"create_journal", "safety_blocked", "run_failed", "run_completed"}
        /\ (held[p].status \in {"initialized", "running"} => AfterMetadata(p) = "create_journal")
    BY <2>1 DEF AfterMetadata, MetaContent, RunStatuses
  <2>3. pc' \in [Proc -> PCs] /\ OpsFit' /\ PresentInv'
    BY <1>6, <2>a, <2>2, RunFrame DEF FlushMetadata, Goto, RunPCs, EndPCs, BeforeJournalPCs, Saves,
       OpsTypeInv, PresentInv
  <2> QED BY <1>6, <1>0, <2>2, <2>3 DEF FlushMetadata, TypeOK, OpsTypeOK
<1>7. CASE CreateJournal(p)
  <2>1. <<>> \in Seq(Entry) /\ Absent # <<>>
    BY JournalExists
  <2>2. journal' \in Seq(Entry) \cup {Absent} /\ journal' # Absent
    BY <1>7, <1>0, <2>1 DEF CreateJournal, TypeOK
  <2>3. pc' \in [Proc -> PCs] /\ OpsFit' /\ PresentInv'
    BY <1>7, <2>2, RunFrame DEF CreateJournal, Goto, RunPCs, EndPCs, BeforeJournalPCs, Saves
  <2> QED BY <1>7, <1>0, <2>2, <2>3 DEF CreateJournal, TypeOK, OpsTypeOK
<1> QED BY <1>1, <1>2, <1>3, <1>4, <1>5, <1>6, <1>7

\* A line of the lifecycle's own.
LEMMA LogType ==
    ASSUME OpsTypeInv, NEW p \in Proc, NEW event \in RunEntries, Log(p, event),
           pc[p] \in RunPCs \ BeforeJournalPCs
    PROVE  journal' \in Seq(Entry) /\ journal' # Absent
<1>1. journal \in Seq(Entry)
  BY DEF OpsTypeInv, OpsTypeOK, TypeOK, PresentInv
<1>2. [event |-> event, by |-> p] \in Entry
  BY EntryType
<1> QED BY <1>1, <1>2, JournalExists DEF Log

LEMMA LogStepType ==
    ASSUME OpsTypeInv, NEW p \in Proc, NEW event \in RunEntries, NEW from, NEW to,
           LogStep(p, from, event, to),
           from \in RunPCs \ BeforeJournalPCs, to \in (RunPCs \cup EndPCs) \ Saves,
           UNCHANGED connVars
    PROVE  OpsTypeInv'
<1>1. journal' \in Seq(Entry) /\ journal' # Absent
  BY LogType DEF LogStep, Goto
<1>2. pc' \in [Proc -> PCs] /\ OpsFit' /\ PresentInv'
  BY <1>1, RunFrame DEF LogStep, Goto
<1> QED BY <1>1, <1>2 DEF LogStep, OpsTypeInv, OpsTypeOK, TypeOK, ConnTypeOK, connVars

\* Lifecycle steps keep the types: the steps that only write a line.
LEMMA RunLinesType ==
    ASSUME OpsTypeInv, NEW p \in Proc,
           \/ RunInitialized(p) \/ RunStarted(p) \/ SafetyBlocked(p) \/ BlockedCompleted(p)
           \/ PaperStarted(p) \/ PaperCompleted(p) \/ BacktestStarted(p) \/ BacktestCompleted(p)
           \/ RunFailed(p) \/ RunCompleted(p),
           UNCHANGED connVars
    PROVE  OpsTypeInv'
<1>1. PICK from, event, to : LogStep(p, from, event, to)
         /\ from \in {"first_entry", "safety_blocked", "blocked_completed", "paper_started",
                      "paper_completed", "backtest_started", "backtest_completed",
                      "run_failed", "run_completed"}
         /\ event \in {"run_initialized", "run_started", "paper_safety_blocked",
                       "run_completed", "paper_started", "paper_completed",
                       "backtest_started", "backtest_completed", "run_failed"}
         /\ to \in {"done", "safety_checked", "backtest_started", "blocked_completed",
                    "open_metrics", "heartbeat", "engine", "failed"}
  BY DEF RunInitialized, RunStarted, SafetyBlocked, BlockedCompleted, PaperStarted,
         PaperCompleted, BacktestStarted, BacktestCompleted, RunFailed, RunCompleted
<1>2. /\ from \in RunPCs \ BeforeJournalPCs /\ event \in RunEntries
      /\ to \in (RunPCs \cup EndPCs) \ Saves
  BY <1>1 DEF RunPCs, BeforeJournalPCs, RunEntries, EndPCs, Saves
<1> QED BY <1>1, <1>2, LogStepType

\* Lifecycle steps keep the types: the branches and the artifacts.
LEMMA RunClosingType ==
    ASSUME OpsTypeInv, NEW p \in Proc,
           \/ SafetyChecked(p) \/ Heartbeat(p) \/ HeartbeatsDone(p) \/ EngineRun(p) \/ Raise(p)
           \/ OpenMetrics(p) \/ FlushMetrics(p) \/ OpenReport(p) \/ FlushReport(p),
           UNCHANGED connVars
    PROVE  OpsTypeInv'
<1>0. /\ OpsTypeOK /\ TypeOK /\ ConnTypeOK' /\ OpsFit /\ PresentInv
      /\ pc \in [Proc -> PCs] /\ held \in [Proc -> MetaContent]
  BY DEF OpsTypeInv, OpsTypeOK, ConnTypeOK, connVars, TypeOK
<1>j. pc[p] \in RunPCs \ BeforeJournalPCs /\ journal # Absent
  <2>1. pc[p] \in RunPCs \ BeforeJournalPCs
    BY DEF SafetyChecked, Heartbeat, HeartbeatsDone, EngineRun, Raise, OpenMetrics, FlushMetrics,
           OpenReport, FlushReport, Goto, RunPCs, BeforeJournalPCs
  <2> QED BY <2>1, <1>0 DEF PresentInv
<1>h. ASSUME NEW status \in RunStatuses, held' = [held EXCEPT ![p].status = status]
      PROVE  held' \in [Proc -> MetaContent] /\ \A q \in Proc : q # p => held'[q] = held[q]
  BY <1>h, <1>0 DEF MetaContent
<1>1. CASE SafetyChecked(p)
  <2>1. journal' \in Seq(Entry) /\ journal' # Absent
    BY <1>1, <1>j, LogType DEF SafetyChecked, RunEntries, OpsTypeInv
  <2>2. held' \in [Proc -> MetaContent] /\ \A q \in Proc : q # p => held'[q] = held[q]
    BY <1>1, <1>0, <1>h DEF SafetyChecked, RunStatuses
  <2>3. PICK to \in {"open_metadata", "paper_started"} : Goto(p, "safety_checked", to)
    BY <1>1 DEF SafetyChecked
  <2>4. pc' \in [Proc -> PCs] /\ OpsFit' /\ PresentInv'
    BY <1>1, <1>j, <2>1, <2>2, <2>3, RunFrame DEF SafetyChecked, Goto, RunPCs, EndPCs
  <2> QED BY <1>1, <1>0, <2>1, <2>2, <2>4 DEF SafetyChecked, OpsTypeInv, OpsTypeOK, TypeOK
<1>2. CASE Heartbeat(p)
  <2>1. journal' \in Seq(Entry) /\ journal' # Absent
    BY <1>2, <1>j, LogType DEF Heartbeat, RunEntries, OpsTypeInv
  <2>2. beat' \in [Proc -> 0..HeartbeatCount]
    BY <1>2, <1>0 DEF Heartbeat, OpsTypeOK, HeartbeatCount
  <2>4. pc' \in [Proc -> PCs] /\ OpsFit' /\ PresentInv'
    BY <1>2, <1>j, <2>1, RunFrame DEF Heartbeat, Goto, RunPCs, EndPCs, Saves
  <2> QED BY <1>2, <1>0, <2>1, <2>2, <2>4 DEF Heartbeat, OpsTypeInv, OpsTypeOK, TypeOK
<1>3. CASE HeartbeatsDone(p) \/ EngineRun(p)
  <2>1. PICK to \in {"paper_completed", "backtest_completed"} : pc' = [pc EXCEPT ![p] = to]
    BY <1>3 DEF HeartbeatsDone, EngineRun, Goto
  <2>2. UNCHANGED <<files, op, seen, held, before, beat>>
    BY <1>3 DEF HeartbeatsDone, EngineRun
  <2>4. pc' \in [Proc -> PCs] /\ OpsFit' /\ PresentInv'
    BY <1>j, <2>1, <2>2, RunFrame DEF files, RunPCs, EndPCs, Saves
  <2> QED BY <1>0, <2>2, <2>4 DEF files, OpsTypeInv, OpsTypeOK, TypeOK
<1>4. CASE Raise(p)
  <2>2. held' \in [Proc -> MetaContent] /\ \A q \in Proc : q # p => held'[q] = held[q]
    BY <1>4, <1>h DEF Raise, RunStatuses
  <2>4. pc' \in [Proc -> PCs] /\ OpsFit' /\ PresentInv'
    BY <1>4, <1>j, <2>2, RunFrame DEF Raise, files, RunPCs, EndPCs
  <2> QED BY <1>4, <1>0, <2>2, <2>4 DEF Raise, files, OpsTypeInv, OpsTypeOK, TypeOK
<1>5. CASE OpenMetrics(p)
  <2>4. pc' \in [Proc -> PCs] /\ OpsFit' /\ PresentInv'
    BY <1>5, <1>j, RunFrame DEF OpenMetrics, Goto, RunPCs, EndPCs, Saves
  <2> QED BY <1>5, <1>0, <2>4 DEF OpenMetrics, OpsTypeInv, OpsTypeOK, TypeOK, NoFile
<1>6. CASE FlushMetrics(p)
  <2>1. MetricsOf(p) \in MetricsContent /\ (metrics' = MetricsOf(p) \/ metrics' = Garbled)
    BY <1>6, FlushResult DEF FlushMetrics, MetricsOf, MetricsContent
  <2>4. pc' \in [Proc -> PCs] /\ OpsFit' /\ PresentInv'
    BY <1>6, <1>j, RunFrame DEF FlushMetrics, Goto, RunPCs, EndPCs, Saves
  <2> QED BY <1>6, <1>0, <2>1, <2>4 DEF FlushMetrics, OpsTypeInv, OpsTypeOK, TypeOK, NoFile
<1>7. CASE OpenReport(p)
  <2>1. EmptyReport \in ReportContent
    BY DEF EmptyReport, ReportContent
  <2>4. pc' \in [Proc -> PCs] /\ OpsFit' /\ PresentInv'
    BY <1>7, <1>j, RunFrame DEF OpenReport, Goto, RunPCs, EndPCs, Saves
  <2> QED BY <1>7, <1>0, <2>1, <2>4 DEF OpenReport, OpsTypeInv, OpsTypeOK, TypeOK
<1>8. CASE FlushReport(p)
  <2>1. report' \in ReportContent
    <3>1. PICK body \in {"completed", "safety_blocked"} :
             report' \in FlushText(report, [EmptyReport EXCEPT !.body = body])
      BY <1>8 DEF FlushReport
    <3> QED BY <3>1 DEF FlushText, EmptyReport, ReportContent
  <2>2. held' \in [Proc -> MetaContent] /\ \A q \in Proc : q # p => held'[q] = held[q]
    BY <1>8, <1>0, <1>h DEF FlushReport, RunStatuses
  <2>3. PICK to \in {"done", "open_metadata"} : Goto(p, "flush_report", to)
    BY <1>8 DEF FlushReport
  <2>4. pc' \in [Proc -> PCs] /\ OpsFit' /\ PresentInv'
    BY <1>8, <1>j, <2>2, <2>3, RunFrame DEF FlushReport, Goto, RunPCs, EndPCs
  <2> QED BY <1>8, <1>0, <2>1, <2>2, <2>4 DEF FlushReport, OpsTypeInv, OpsTypeOK, TypeOK
<1> QED BY <1>1, <1>2, <1>3, <1>4, <1>5, <1>6, <1>7, <1>8

\* A connectivity step that goes on, or ends the command.
LEMMA PatchFrame ==
    ASSUME OpsTypeInv, NEW p \in Proc, NEW to \in PatchPCs \cup EndPCs,
           pc[p] \in PatchPCs, pc' = [pc EXCEPT ![p] = to],
           op' = op,
           \A q \in Proc : q # p => held'[q] = held[q],
           metadata # Absent => metadata' # Absent,
           journal # Absent => journal' # Absent,
           to \in PatchPCs \ {"check_files"} => metadata' # Absent /\ journal' # Absent
    PROVE  pc' \in [Proc -> PCs] /\ OpsFit' /\ PresentInv'
<1>1. pc \in [Proc -> PCs] /\ to \in PCs
  BY KindsApart DEF OpsTypeInv, OpsTypeOK, TypeOK
<1>2. pc' \in [Proc -> PCs] /\ pc'[p] = to /\ \A q \in Proc : q # p => pc'[q] = pc[q]
  BY <1>1
<1>3. op'[p] \in PatchOps /\ to \notin KillPCs \cup RunPCs
  BY KindsApart DEF OpsTypeInv, OpsFit
<1>4. to \notin Saves
  BY <1>3 DEF Saves, RunPCs
<1> QED BY <1>2, <1>3, <1>4, FitFrame

LEMMA FlushTextType ==
    ASSUME NEW f, NEW t \in ReportContent, NEW r \in FlushText(f, t)
    PROVE  r \in ReportContent /\ r.sections = t.sections /\ r.body = t.body
  BY DEF FlushText, ReportContent

\* Connectivity steps keep the types.
LEMMA PatchStepType ==
    ASSUME OpsTypeInv, NEW p \in Proc, PatchStep(p), UNCHANGED beat
    PROVE  OpsTypeInv'
<1>0. /\ OpsTypeOK /\ TypeOK /\ ConnTypeOK /\ OpsFit /\ PresentInv
      /\ held \in [Proc -> MetaContent]
  BY DEF OpsTypeInv, OpsTypeOK, TypeOK
<1>p. pc[p] \in PatchPCs /\ op[p] \in PatchOps
  <2>1. pc[p] \in PatchPCs
    BY DEF PatchStep, CheckFiles, InvalidTarget, ArtifactOpen, ArtifactFlush, SectionRead,
           SectionOpen, SectionFlush, SectionEntry, ReportRead, ReportOpen, ReportFlush,
           Goto, PatchPCs
  <2> QED BY <2>1, <1>0 DEF OpsFit
<1>j. pc[p] # "check_files" => metadata # Absent /\ journal # Absent
  BY <1>p, <1>0 DEF PresentInv
<1>1. CASE CheckFiles(p)
  <2>1. PICK to \in {"artifact_open", "failed"} : Goto(p, "check_files", to)
           /\ (to = "artifact_open" => metadata # Absent /\ journal # Absent)
    BY <1>1 DEF CheckFiles
  <2>2. pc' \in [Proc -> PCs] /\ OpsFit' /\ PresentInv'
    BY <1>1, <1>p, <2>1, PatchFrame DEF CheckFiles, files, Goto, PatchPCs, EndPCs
  <2> QED BY <1>1, <1>0, <2>2 DEF CheckFiles, files, connVars, OpsTypeInv, OpsTypeOK, TypeOK,
                                  ConnTypeOK
<1>2. CASE InvalidTarget(p)
  <2>2. pc' \in [Proc -> PCs] /\ OpsFit' /\ PresentInv'
    BY <1>2, <1>p, PatchFrame, KindsApart DEF InvalidTarget, files, Goto, PatchPCs, EndPCs
  <2> QED BY <1>2, <1>0, <2>2 DEF InvalidTarget, files, connVars, OpsTypeInv, OpsTypeOK, TypeOK,
                                  ConnTypeOK
<1>3. CASE ArtifactOpen(p)
  <2>1. connFile' \in [PatchOps -> Proc \cup NoFile]
    BY <1>3, <1>0, <1>p DEF ArtifactOpen, ConnTypeOK, NoFile
  <2>2. pc' \in [Proc -> PCs] /\ OpsFit' /\ PresentInv'
    BY <1>3, <1>p, <1>j, PatchFrame DEF ArtifactOpen, files, Goto, PatchPCs
  <2> QED BY <1>3, <1>0, <2>1, <2>2 DEF ArtifactOpen, files, OpsTypeInv, OpsTypeOK, TypeOK,
                                        ConnTypeOK
<1>4. CASE ArtifactFlush(p)
  <2>1. connFile' \in [PatchOps -> Proc \cup NoFile]
    BY <1>4, <1>0, <1>p, FlushResult DEF ArtifactFlush, ConnTypeOK, NoFile
  <2>2. pc' \in [Proc -> PCs] /\ OpsFit' /\ PresentInv'
    BY <1>4, <1>p, <1>j, PatchFrame DEF ArtifactFlush, files, Goto, PatchPCs
  <2> QED BY <1>4, <1>0, <2>1, <2>2 DEF ArtifactFlush, files, OpsTypeInv, OpsTypeOK, TypeOK,
                                        ConnTypeOK
<1>5. CASE SectionRead(p)
  <2>1. PICK to \in {"failed", "section_open"} : Goto(p, "section_read", to)
    BY <1>5 DEF SectionRead
  <2>2. held' \in [Proc -> MetaContent] /\ \A q \in Proc : q # p => held'[q] = held[q]
    <3>1. ~Malformed(metadata) => metadata \in MetaContent
      BY <1>j, <2>1, <1>0 DEF Goto, TypeOK, Malformed, NoFile
    <3>2. ~Malformed(metadata) =>
             [metadata EXCEPT !.sections = @ \cup {op[p]}] \in MetaContent
      BY <3>1, <1>p DEF MetaContent
    <3> QED BY <1>5, <1>0, <3>2 DEF SectionRead
  <2>3. pc' \in [Proc -> PCs] /\ OpsFit' /\ PresentInv'
    BY <1>5, <1>p, <1>j, <2>1, <2>2, PatchFrame DEF SectionRead, files, Goto, PatchPCs, EndPCs
  <2> QED BY <1>5, <1>0, <2>2, <2>3 DEF SectionRead, files, connVars, OpsTypeInv, OpsTypeOK,
                                        TypeOK, ConnTypeOK
<1>6. CASE SectionOpen(p)
  <2>1. Empty # Absent /\ Empty \in NoFile
    BY FileAssumption DEF NoFile
  <2>2. pc' \in [Proc -> PCs] /\ OpsFit' /\ PresentInv'
    BY <1>6, <1>p, <1>j, <2>1, PatchFrame DEF SectionOpen, Goto, PatchPCs
  <2> QED BY <1>6, <1>0, <2>1, <2>2 DEF SectionOpen, connVars, OpsTypeInv, OpsTypeOK, TypeOK,
                                        ConnTypeOK
<1>7. CASE SectionFlush(p)
  <2>1. held[p] \in MetaContent /\ (metadata' = held[p] \/ metadata' = Garbled)
    BY <1>7, <1>0, FlushResult DEF SectionFlush
  <2>2. metadata' \in MetaContent \cup NoFile /\ metadata' # Absent
    BY <2>1, FileAssumption DEF NoFile
  <2>3. pc' \in [Proc -> PCs] /\ OpsFit' /\ PresentInv'
    BY <1>7, <1>p, <1>j, <2>2, PatchFrame DEF SectionFlush, Goto, PatchPCs
  <2> QED BY <1>7, <1>0, <2>2, <2>3 DEF SectionFlush, connVars, OpsTypeInv, OpsTypeOK, TypeOK,
                                        ConnTypeOK
<1>8. CASE SectionEntry(p)
  <2>1. journal' \in Seq(Entry) /\ journal' # Absent
    <3>1. journal \in Seq(Entry)
      BY <1>8, <1>j, <1>0 DEF SectionEntry, Goto, TypeOK
    <3>2. [event |-> PatchEntryName(op[p]), by |-> p] \in Entry
      BY EntryType DEF PatchEntryName, PatchEntries
    <3> QED BY <1>8, <3>1, <3>2, JournalExists DEF SectionEntry
  <2>2. pc' \in [Proc -> PCs] /\ OpsFit' /\ PresentInv'
    BY <1>8, <1>p, <1>j, <2>1, PatchFrame DEF SectionEntry, Goto, PatchPCs
  <2> QED BY <1>8, <1>0, <2>1, <2>2 DEF SectionEntry, connVars, OpsTypeInv, OpsTypeOK, TypeOK,
                                        ConnTypeOK
<1>9. CASE ReportRead(p)
  <2>1. PICK to \in {"done", "report_open"} : Goto(p, "report_read", to)
    BY <1>9 DEF ReportRead
  <2>2. text' \in [Proc -> ReportContent]
    <3>1. report # Absent => [report EXCEPT !.sections = @ \cup {op[p]}] \in ReportContent
      BY <1>p, <1>0 DEF TypeOK, ReportContent
    <3> QED BY <1>9, <1>0, <3>1 DEF ReportRead, ConnTypeOK
  <2>3. pc' \in [Proc -> PCs] /\ OpsFit' /\ PresentInv'
    BY <1>9, <1>p, <1>j, <2>1, PatchFrame DEF ReportRead, files, Goto, PatchPCs, EndPCs
  <2> QED BY <1>9, <1>0, <2>2, <2>3 DEF ReportRead, files, OpsTypeInv, OpsTypeOK, TypeOK,
                                        ConnTypeOK
<1>10. CASE ReportOpen(p)
  <2>1. EmptyReport \in ReportContent
    BY DEF EmptyReport, ReportContent
  <2>2. pc' \in [Proc -> PCs] /\ OpsFit' /\ PresentInv'
    BY <1>10, <1>p, <1>j, PatchFrame DEF ReportOpen, Goto, PatchPCs
  <2> QED BY <1>10, <1>0, <2>1, <2>2 DEF ReportOpen, connVars, OpsTypeInv, OpsTypeOK, TypeOK,
                                         ConnTypeOK
<1>11. CASE ReportFlush(p)
  <2>1. report' \in ReportContent
    BY <1>11, <1>0, FlushTextType DEF ReportFlush, ConnTypeOK
  <2>2. pc' \in [Proc -> PCs] /\ OpsFit' /\ PresentInv'
    BY <1>11, <1>p, <1>j, PatchFrame DEF ReportFlush, Goto, PatchPCs, EndPCs
  <2> QED BY <1>11, <1>0, <2>1, <2>2 DEF ReportFlush, connVars, OpsTypeInv, OpsTypeOK, TypeOK,
                                         ConnTypeOK
<1> QED BY <1>1, <1>2, <1>3, <1>4, <1>5, <1>6, <1>7, <1>8, <1>9, <1>10, <1>11 DEF PatchStep

\* Kill switch steps and crashes, next to the other commands.
LEMMA KillCrashType ==
    ASSUME OpsTypeInv, NEW p \in Proc, KillBegin(p) \/ KillStep(p) \/ Crash(p),
           UNCHANGED <<beat, connVars>>
    PROVE  OpsTypeInv'
<1>0. /\ OpsTypeOK /\ TypeOK /\ ConnTypeOK /\ OpsFit /\ PresentInv
      /\ KillTypeInv
  BY DEF OpsTypeInv, OpsTypeOK, KillTypeInv, KillOpsFit, OpsFit
<1>1. TypeOK' /\ KillOpsFit'
  BY <1>0, KillStepType DEF KillTypeInv
<1>2. OpsTypeOK'
  BY <1>0, <1>1 DEF OpsTypeOK, ConnTypeOK, connVars
<1>3. /\ \A q \in Proc : q # p => pc'[q] = pc[q] /\ op'[q] = op[q] /\ held'[q] = held[q]
      /\ pc'[p] \in KillPCs \cup EndPCs
      /\ metadata # Absent => metadata' # Absent
      /\ journal # Absent => journal' # Absent
  <2>1. CASE KillBegin(p)
    BY <2>1, <1>0 DEF KillBegin, ReadStatus, Begin, Goto, files, TypeOK, KillPCs, EndPCs
  <2>2. CASE AppendEvent(p) \/ OpenState(p) \/ FlushState(p)
    BY <2>2, <1>0 DEF AppendEvent, OpenState, FlushState, Goto, TypeOK, KillPCs
  <2>3. CASE AppendKillEntry(p)
    <3>1. journal # Absent => journal' # Absent
      <4>1. [event |-> EntryName(op[p]), by |-> p] \in Entry
        BY EntryType DEF EntryName, KillEntries
      <4>2. journal # Absent => journal \in Seq(Entry)
        BY <1>0 DEF TypeOK
      <4> QED BY <2>3, <4>1, <4>2, JournalExists DEF AppendKillEntry
    <3> QED BY <2>3, <3>1, <1>0 DEF AppendKillEntry, Goto, TypeOK, KillPCs
  <2>4. CASE PatchRead(p)
    BY <2>4, <1>0 DEF PatchRead, Goto, files, TypeOK, KillPCs, EndPCs
  <2>5. CASE PatchStatus(p)
    BY <2>5, <1>0 DEF PatchStatus, Goto, files, TypeOK, KillPCs, EndPCs
  <2>6. CASE PatchOpen(p)
    <3>1. Empty # Absent
      BY FileAssumption
    <3> QED BY <2>6, <3>1, <1>0 DEF PatchOpen, Goto, TypeOK, KillPCs
  <2>7. CASE PatchFlush(p)
    <3>1. held[p] \in MetaContent /\ (metadata' = held[p] \/ metadata' = Garbled)
      BY <2>7, <1>0, FlushResult DEF PatchFlush, TypeOK
    <3>2. metadata' # Absent
      BY <3>1, FileAssumption DEF NoFile
    <3> QED BY <2>7, <3>2, <1>0 DEF PatchFlush, Goto, TypeOK, EndPCs
  <2>8. CASE Crash(p)
    BY <2>8, <1>0 DEF Crash, files, TypeOK, EndPCs
  <2> QED BY <2>1, <2>2, <2>3, <2>4, <2>5, <2>6, <2>7, <2>8 DEF KillStep
<1>4. pc' \in [Proc -> PCs] /\ pc'[p] \notin RunPCs \cup PatchPCs \cup Saves
  BY <1>1, <1>3, KindsApart DEF TypeOK, Saves, RunPCs
<1>5. OpsFit' /\ PresentInv'
  BY <1>1, <1>3, <1>4, FitFrame DEF KillOpsFit
<1> QED BY <1>2, <1>5 DEF OpsTypeInv

\* A lifecycle or connectivity command begins.
LEMMA BeginOpsType ==
    ASSUME OpsTypeInv, NEW p \in Proc,
           RunBegin(p) \/ PatchBegin(p), UNCHANGED <<files, seen, held, beat, connVars>>
    PROVE  OpsTypeInv'
<1>1. PICK o \in RunOps \cup PatchOps, to \in {"gate", "check_dir", "check_files"} :
         /\ Begin(p, o, to)
         /\ o \in RunOps <=> to \in {"gate", "check_dir"}
  <2>1. CASE RunBegin(p)
    BY <2>1 DEF RunBegin, RunOps
  <2>2. CASE PatchBegin(p)
    BY <2>2 DEF PatchBegin, PatchOps, RunOps
  <2> QED BY <2>1, <2>2
<1>3. /\ OpsTypeOK /\ TypeOK /\ ConnTypeOK /\ o \in Ops /\ to \in PCs
      /\ to \in RunPCs \cup PatchPCs /\ to \notin KillPCs \cup EndPCs
  BY KindsApart DEF OpsTypeInv, OpsTypeOK, Ops, RunPCs, PatchPCs
<1>4. /\ pc' \in [Proc -> PCs] /\ op' \in [Proc -> Ops \cup {"none"}]
      /\ before' \in [Proc -> SUBSET Proc]
      /\ pc'[p] = to /\ op'[p] = o
      /\ \A q \in Proc : q # p => pc'[q] = pc[q] /\ op'[q] = op[q]
  BY <1>1, <1>3 DEF Begin, Goto, TypeOK
<1>5. OpsTypeOK'
  BY <1>3, <1>4 DEF files, connVars, OpsTypeOK, TypeOK, ConnTypeOK
<1>6. /\ to \in RunPCs => o \in RunOps
      /\ to \in PatchPCs => o \in PatchOps
      /\ to \in PatchPCs => to = "check_files"
      /\ to \in RunPCs => to \in BeforeJournalPCs \ Saves
  BY <1>1 DEF RunPCs, PatchPCs, BeforeJournalPCs, Saves, RunOps, PatchOps
<1>7. OpsFit' /\ PresentInv'
  BY <1>3, <1>4, <1>6, KindsApart, FitFrame DEF files, Saves, RunPCs
<1> QED BY <1>5, <1>7 DEF OpsTypeInv

\* What a step of the composition can be.
LEMMA NextCases ==
    ASSUME Next
    PROVE  \E p \in Proc :
              \/ (KillBegin(p) \/ KillStep(p) \/ Crash(p)) /\ UNCHANGED <<beat, connVars>>
              \/ /\ RunBegin(p) \/ PatchBegin(p)
                 /\ UNCHANGED <<files, seen, held, beat, connVars>>
              \/ RunStep(p) /\ UNCHANGED connVars
              \/ PatchStep(p) /\ UNCHANGED beat
  BY DEF Next, BeginCommand, Step, CrashCommand, RunBegin, PatchBegin

LEMMA OpsInitType == Init => OpsTypeInv
<1> SUFFICES ASSUME Init PROVE OpsTypeInv
  OBVIOUS
<1>1. Absent \in NoFile /\ <<>> \in Seq(KillEvent) /\ EmptyReport \in ReportContent
  BY DEF NoFile, EmptyReport, ReportContent
<1>2. TypeOK
  <2>1. /\ stateFile \in NoFile /\ metadata \in NoFile /\ metrics \in NoFile
        /\ report \in {Absent} /\ journal \in {Absent}
        /\ events \in Seq(KillEvent) /\ runDir \in BOOLEAN /\ runSpec \in BOOLEAN
    BY <1>1 DEF Init, FreshInit
  <2> QED BY <2>1, ProcInitType DEF Init, FreshInit, TypeOK
<1>3. ConnTypeOK /\ beat \in [Proc -> 0..HeartbeatCount]
  BY <1>1 DEF Init, ConnInit, BeatInit, ConnTypeOK, HeartbeatCount
<1>4. OpsFit /\ PresentInv
  <2>1. \A p \in Proc : pc[p] \notin KillPCs \cup RunPCs \cup PatchPCs
    BY KindsApart DEF Init, FreshInit, ProcInit
  <2> QED BY <2>1 DEF OpsFit, PresentInv, Saves, RunPCs
<1> QED BY <1>2, <1>3, <1>4 DEF OpsTypeInv, OpsTypeOK

LEMMA OpsNextType ==
    ASSUME OpsTypeInv, [Next]_vars
    PROVE  OpsTypeInv'
<1>1. CASE Next
  <2>1. PICK p \in Proc :
              \/ (KillBegin(p) \/ KillStep(p) \/ Crash(p)) /\ UNCHANGED <<beat, connVars>>
              \/ /\ RunBegin(p) \/ PatchBegin(p)
                 /\ UNCHANGED <<files, seen, held, beat, connVars>>
              \/ RunStep(p) /\ UNCHANGED connVars
              \/ PatchStep(p) /\ UNCHANGED beat
    BY <1>1, NextCases
  <2>2. CASE (KillBegin(p) \/ KillStep(p) \/ Crash(p)) /\ UNCHANGED <<beat, connVars>>
    BY <2>2, KillCrashType
  <2>3. CASE /\ RunBegin(p) \/ PatchBegin(p)
             /\ UNCHANGED <<files, seen, held, beat, connVars>>
    BY <2>3, BeginOpsType
  <2>4. CASE RunStep(p) /\ UNCHANGED connVars
    BY <2>4, RunOpeningType, RunLinesType, RunClosingType DEF RunStep
  <2>5. CASE PatchStep(p) /\ UNCHANGED beat
    BY <2>5, PatchStepType
  <2> QED BY <2>1, <2>2, <2>3, <2>4, <2>5
<1>2. CASE UNCHANGED vars
  BY <1>2 DEF vars, workspace, files, procs, connVars, OpsTypeInv, OpsTypeOK, TypeOK, ConnTypeOK,
              OpsFit, PresentInv
<1> QED BY <1>1, <1>2

\* All commands together keep every file, memory and counter well typed.
THEOREM OpsTypeCorrect == Spec => []OpsTypeOK
<1>1. OpsTypeInv => OpsTypeOK
  BY DEF OpsTypeInv
<1>2. OpsTypeInv /\ [Next]_vars => OpsTypeInv'
  BY OpsNextType
<1> QED BY <1>1, <1>2, OpsInitType, PTL DEF Spec

-----------------------------------------------------------------------------
(* What one step does, whoever makes it *)

\* A step of p, as NextCases finds it.
Moves(p) ==
    \/ (KillBegin(p) \/ KillStep(p) \/ Crash(p)) /\ UNCHANGED <<beat, connVars>>
    \/ /\ RunBegin(p) \/ PatchBegin(p)
       /\ UNCHANGED <<files, seen, held, beat, connVars>>
    \/ RunStep(p) /\ UNCHANGED connVars
    \/ PatchStep(p) /\ UNCHANGED beat

\* The journal line that p writes next.
Writes(p, event) ==
    \/ pc[p] = "append_kill_entry" /\ event \in KillEntries
    \/ pc[p] = "section_entry" /\ event = PatchEntryName(op[p])
    \/ pc[p] = "first_entry" /\ event = IF op[p] = "init" THEN "run_initialized" ELSE "run_started"
    \/ pc[p] = "safety_checked" /\ event = "paper_safety_checked"
    \/ pc[p] = "safety_blocked" /\ event = "paper_safety_blocked"
    \/ pc[p] \in {"blocked_completed", "run_completed"} /\ event = "run_completed"
    \/ pc[p] = "heartbeat" /\ event = "paper_heartbeat"
    \/ /\ pc[p] \in {"paper_started", "paper_completed", "backtest_started",
                     "backtest_completed", "run_failed"}
       /\ event = pc[p]

Line(p, event) == [event |-> event, by |-> p]

\* A line at the end of the journal is one more entry.
LEMMA EntriesGrow ==
    ASSUME OpsTypeInv, NEW p \in Proc, NEW event \in RunEntries \cup KillEntries \cup PatchEntries,
           journal # Absent, journal' = Append(journal, Line(p, event))
    PROVE  Entries' = Entries \cup {Line(p, event)}
<1>1. Line(p, event) \in Entry /\ journal \in Seq(Entry)
  BY EntryType DEF Line, OpsTypeInv, OpsTypeOK, TypeOK
<1>2. PICK e \in Entry : e = Line(p, event)
  BY <1>1
<1>3. Append(journal, e) \in Seq(Entry)
  BY <1>1
<1>4. journal' # Absent
  BY <1>2, <1>3, JournalExists
<1>5. ToSet(journal') = ToSet(journal) \cup {e}
  BY <1>1, <1>2, AppendLine DEF ToSet
<1> QED BY <1>2, <1>4, <1>5 DEF Entries

\* A lifecycle step of p goes on in the lifecycle, or ends it; what it writes to the
\* journal is its own next line, or no line.
LEMMA RunStepJournal ==
    ASSUME OpsTypeInv, NEW p \in Proc, RunStep(p)
    PROVE  \/ journal' = journal
           \/ journal = Absent /\ journal' = <<>>
           \/ \E event \in RunEntries :
                 Writes(p, event) /\ journal # Absent /\ journal' = Append(journal, Line(p, event))
<1>1. CASE \/ RunInitialized(p) \/ RunStarted(p) \/ SafetyChecked(p) \/ SafetyBlocked(p)
           \/ BlockedCompleted(p) \/ PaperStarted(p) \/ Heartbeat(p) \/ PaperCompleted(p)
           \/ BacktestStarted(p) \/ BacktestCompleted(p) \/ RunFailed(p) \/ RunCompleted(p)
  <2>1. PICK event \in RunEntries : Writes(p, event) /\ Log(p, event)
    BY <1>1 DEF RunInitialized, RunStarted, SafetyChecked, SafetyBlocked, BlockedCompleted,
       PaperStarted, Heartbeat, PaperCompleted, BacktestStarted, BacktestCompleted, RunFailed,
       RunCompleted, LogStep, Goto, Writes, RunEntries
  <2>2. pc[p] \in RunPCs \ BeforeJournalPCs
    BY <1>1 DEF RunInitialized, RunStarted, SafetyChecked, SafetyBlocked, BlockedCompleted,
       PaperStarted, Heartbeat, PaperCompleted, BacktestStarted, BacktestCompleted, RunFailed,
       RunCompleted, LogStep, Goto, RunPCs, BeforeJournalPCs
  <2> QED BY <2>1, <2>2 DEF Log, Line, OpsTypeInv, PresentInv
<1>2. CASE CreateJournal(p)
  BY <1>2 DEF CreateJournal
<1>3. CASE \/ Gate(p) \/ CheckDir(p) \/ MakeDir(p) \/ CopySpec(p) \/ OpenMetadata(p)
           \/ FlushMetadata(p) \/ HeartbeatsDone(p) \/ EngineRun(p) \/ Raise(p) \/ OpenMetrics(p)
           \/ FlushMetrics(p) \/ OpenReport(p) \/ FlushReport(p)
  BY <1>3 DEF Gate, CheckDir, MakeDir, CopySpec, OpenMetadata, FlushMetadata, HeartbeatsDone,
     EngineRun, Raise, OpenMetrics, FlushMetrics, OpenReport, FlushReport, files
<1> QED BY <1>1, <1>2, <1>3 DEF RunStep

\* So is what any command writes.
LEMMA StepJournal ==
    ASSUME OpsTypeInv, NEW p \in Proc, Moves(p)
    PROVE  \/ journal' = journal
           \/ journal = Absent /\ journal' = <<>>
           \/ \E event \in RunEntries \cup KillEntries \cup PatchEntries :
                 Writes(p, event) /\ journal # Absent /\ journal' = Append(journal, Line(p, event))
<1>1. CASE RunStep(p)
  BY <1>1, RunStepJournal
<1>2. CASE AppendKillEntry(p)
  <2>1. EntryName(op[p]) \in KillEntries
    BY DEF EntryName, KillEntries
  <2>2. pc[p] = "append_kill_entry"
    BY <1>2 DEF AppendKillEntry, Goto
  <2>3. Writes(p, EntryName(op[p]))
    BY <2>1, <2>2 DEF Writes
  <2> QED BY <1>2, <2>1, <2>3 DEF AppendKillEntry, Line
<1>3. CASE SectionEntry(p)
  <2>1. PatchEntryName(op[p]) \in PatchEntries
    BY DEF PatchEntryName, PatchEntries
  <2>2. pc[p] = "section_entry" /\ journal # Absent
    BY <1>3 DEF SectionEntry, Goto, OpsTypeInv, PresentInv, PatchPCs
  <2>3. Writes(p, PatchEntryName(op[p]))
    BY <2>2 DEF Writes
  <2> QED BY <1>3, <2>1, <2>2, <2>3 DEF SectionEntry, Line
<1>4. CASE \/ KillBegin(p) \/ AppendEvent(p) \/ OpenState(p) \/ FlushState(p) \/ PatchRead(p)
           \/ PatchStatus(p) \/ PatchOpen(p) \/ PatchFlush(p) \/ Crash(p)
  BY <1>4 DEF KillBegin, ReadStatus, AppendEvent, OpenState, FlushState, PatchRead, PatchStatus,
     PatchOpen, PatchFlush, Crash, files
<1>5. CASE \/ RunBegin(p) \/ PatchBegin(p) \/ CheckFiles(p) \/ InvalidTarget(p) \/ ArtifactOpen(p)
           \/ ArtifactFlush(p) \/ SectionRead(p) \/ SectionOpen(p) \/ SectionFlush(p)
           \/ ReportRead(p) \/ ReportOpen(p) \/ ReportFlush(p)
  BY <1>5 DEF RunBegin, PatchBegin, CheckFiles, InvalidTarget, ArtifactOpen, ArtifactFlush,
     SectionRead, SectionOpen, SectionFlush, ReportRead, ReportOpen, ReportFlush, files
<1> QED BY <1>1, <1>2, <1>3, <1>4, <1>5 DEF Moves, KillStep, PatchStep

\* As a set of entries, the journal grows by that line.
LEMMA StepEntries ==
    ASSUME OpsTypeInv, NEW p \in Proc, Moves(p)
    PROVE  \/ Entries' = Entries
           \/ \E event : Writes(p, event) /\ Entries' = Entries \cup {Line(p, event)}
<1>1. CASE journal' = journal
  BY <1>1 DEF Entries
<1>2. CASE journal = Absent /\ journal' = <<>>
  BY <1>2, JournalExists DEF Entries, ToSet
<1>3. CASE \E event \in RunEntries \cup KillEntries \cup PatchEntries :
              Writes(p, event) /\ journal # Absent /\ journal' = Append(journal, Line(p, event))
  BY <1>3, EntriesGrow
<1> QED BY <1>1, <1>2, <1>3, StepJournal

\* The other invocations keep their place and their memory.
LEMMA OthersKeep ==
    ASSUME OpsTypeInv, NEW p \in Proc, Moves(p)
    PROVE  \A q \in Proc : q # p =>
              /\ pc'[q] = pc[q] /\ op'[q] = op[q] /\ seen'[q] = seen[q] /\ held'[q] = held[q]
              /\ before'[q] = before[q] /\ beat'[q] = beat[q] /\ text'[q] = text[q]
<1> USE DEF connVars, files
<1>0. /\ pc \in [Proc -> PCs] /\ op \in [Proc -> Ops \cup {"none"}] /\ seen \in [Proc -> Status]
      /\ held \in [Proc -> MetaContent] /\ before \in [Proc -> SUBSET Proc]
      /\ beat \in [Proc -> 0..HeartbeatCount] /\ text \in [Proc -> ReportContent]
  BY DEF OpsTypeInv, OpsTypeOK, TypeOK, ConnTypeOK
<1>1. CASE (KillBegin(p) \/ KillStep(p) \/ Crash(p)) /\ UNCHANGED <<beat, connVars>>
  BY <1>0, <1>1 DEF KillBegin, ReadStatus, KillStep, AppendEvent, AppendKillEntry, OpenState,
     FlushState, PatchRead, PatchStatus, PatchOpen, PatchFlush, Crash, Begin, Goto
<1>2. CASE /\ RunBegin(p) \/ PatchBegin(p)
           /\ UNCHANGED <<files, seen, held, beat, connVars>>
  BY <1>0, <1>2 DEF RunBegin, PatchBegin, Begin, Goto
<1>3. CASE RunStep(p) /\ UNCHANGED connVars
  <2>1. CASE \/ Gate(p) \/ CheckDir(p) \/ MakeDir(p) \/ CopySpec(p) \/ OpenMetadata(p)
             \/ FlushMetadata(p) \/ CreateJournal(p) \/ SafetyChecked(p) \/ Heartbeat(p)
             \/ HeartbeatsDone(p) \/ EngineRun(p) \/ Raise(p)
    BY <1>0, <1>3, <2>1 DEF Gate, CheckDir, MakeDir, CopySpec, OpenMetadata, FlushMetadata,
       CreateJournal, SafetyChecked, Heartbeat, HeartbeatsDone, EngineRun, Raise, Goto
  <2>2. CASE \/ RunInitialized(p) \/ RunStarted(p) \/ SafetyBlocked(p) \/ BlockedCompleted(p)
             \/ PaperStarted(p) \/ PaperCompleted(p) \/ BacktestStarted(p)
             \/ BacktestCompleted(p) \/ RunFailed(p) \/ RunCompleted(p)
    BY <1>0, <1>3, <2>2 DEF RunInitialized, RunStarted, SafetyBlocked, BlockedCompleted,
       PaperStarted, PaperCompleted, BacktestStarted, BacktestCompleted, RunFailed, RunCompleted,
       LogStep, Goto
  <2>3. CASE OpenMetrics(p) \/ FlushMetrics(p) \/ OpenReport(p) \/ FlushReport(p)
    BY <1>0, <1>3, <2>3 DEF OpenMetrics, FlushMetrics, OpenReport, FlushReport, Goto
  <2> QED BY <1>3, <2>1, <2>2, <2>3 DEF RunStep
<1>4. CASE PatchStep(p) /\ UNCHANGED beat
  BY <1>0, <1>4 DEF PatchStep, CheckFiles, InvalidTarget, ArtifactOpen, ArtifactFlush,
     SectionRead, SectionOpen, SectionFlush, SectionEntry, ReportRead, ReportOpen, ReportFlush, Goto
<1> QED BY <1>1, <1>2, <1>3, <1>4 DEF Moves

-----------------------------------------------------------------------------
(* One owner *)

\* The lifecycle is past its mkdir.
OwnerPCs == RunPCs \ {"gate", "check_dir", "make_dir"}

\* One lifecycle at most is past its mkdir, and the lifecycle lines are its own.
OwnerInv ==
    /\ \A p, q \in Proc : pc[p] \in OwnerPCs /\ pc[q] \in OwnerPCs => p = q
    /\ \A p \in Proc : pc[p] \in OwnerPCs => runDir
    /\ \A e \in Entries : e.event \in RunEntries =>
          /\ runDir
          /\ \A p \in Proc : pc[p] \in OwnerPCs => e.by = p
    /\ OneOwner

\* Only a lifecycle past its mkdir writes a lifecycle line.
LEMMA OwnerWrites ==
    ASSUME NEW p \in Proc, NEW event \in RunEntries, Writes(p, event)
    PROVE  pc[p] \in OwnerPCs
<1>1. event \notin KillEntries /\ event # PatchEntryName(op[p])
  BY DEF RunEntries, KillEntries, PatchEntryName
<1> QED BY <1>1 DEF Writes, OwnerPCs, RunPCs

\* The way past mkdir goes through a mkdir that made the directory.
LEMMA OwnerEnters ==
    ASSUME OpsTypeInv, NEW p \in Proc, Moves(p)
    PROVE  /\ runDir => runDir'
           /\ pc'[p] \in OwnerPCs => pc[p] \in OwnerPCs \/ (~runDir /\ runDir' /\ pc'[p] = "copy_spec")
<1>0. pc \in [Proc -> PCs] /\ OpsTypeInv
  BY DEF OpsTypeInv, OpsTypeOK, TypeOK
<1>1. CASE RunStep(p)
  <2>1. CASE MakeDir(p)
    BY <1>0, <2>1 DEF MakeDir, Goto, OwnerPCs, RunPCs
  <2>2. CASE Gate(p) \/ CheckDir(p)
    BY <1>0, <2>2 DEF Gate, CheckDir, Goto, files, OwnerPCs, RunPCs
  <2>3. CASE ~(MakeDir(p) \/ Gate(p) \/ CheckDir(p))
    <3>1. runDir' = runDir /\ pc[p] \in OwnerPCs
      BY <1>1, <2>3 DEF RunStep, CopySpec, OpenMetadata, FlushMetadata, CreateJournal,
         RunInitialized, RunStarted, SafetyChecked, SafetyBlocked, BlockedCompleted, PaperStarted,
         Heartbeat, HeartbeatsDone, PaperCompleted, BacktestStarted, EngineRun, BacktestCompleted,
         Raise, RunFailed, OpenMetrics, FlushMetrics, OpenReport, FlushReport, RunCompleted,
         LogStep, Goto, files, OwnerPCs, RunPCs
    <3> QED BY <3>1
  <2> QED BY <2>1, <2>2, <2>3
<1>2. CASE KillBegin(p) \/ KillStep(p) \/ Crash(p)
  BY <1>0, <1>2 DEF KillBegin, ReadStatus, Begin, KillStep, AppendEvent, AppendKillEntry,
     OpenState, FlushState, PatchRead, PatchStatus, PatchOpen, PatchFlush, Crash, Goto, files,
     OwnerPCs, RunPCs
<1>3. CASE (RunBegin(p) \/ PatchBegin(p)) /\ UNCHANGED files
  BY <1>0, <1>3 DEF RunBegin, PatchBegin, Begin, Goto, files, OwnerPCs, RunPCs
<1>4. CASE PatchStep(p)
  BY <1>0, <1>4 DEF PatchStep, CheckFiles, InvalidTarget, ArtifactOpen, ArtifactFlush,
     SectionRead, SectionOpen, SectionFlush, SectionEntry, ReportRead, ReportOpen, ReportFlush,
     Goto, files, OwnerPCs, RunPCs
<1> QED BY <1>1, <1>2, <1>3, <1>4 DEF Moves

LEMMA StepOwner ==
    ASSUME OpsTypeInv, OwnerInv, NEW p \in Proc, Moves(p)
    PROVE  OwnerInv'
<1>1. /\ runDir => runDir'
      /\ pc'[p] \in OwnerPCs => pc[p] \in OwnerPCs \/ (~runDir /\ runDir')
      /\ \A q \in Proc : q # p => pc'[q] = pc[q]
  BY OwnerEnters, OthersKeep
<1>2. /\ \A r, q \in Proc : pc'[r] \in OwnerPCs /\ pc'[q] \in OwnerPCs => r = q
      /\ \A q \in Proc : pc'[q] \in OwnerPCs => runDir'
  BY <1>1 DEF OwnerInv
<1>3. ASSUME NEW e \in Entries', e.event \in RunEntries
      PROVE  /\ runDir'
             /\ e \in Entries \/ (pc[p] \in OwnerPCs /\ e.by = p)
  <2>1. CASE e \in Entries
    BY <1>1, <1>3, <2>1 DEF OwnerInv
  <2>2. CASE e \notin Entries
    <3>1. PICK event : Writes(p, event) /\ e = Line(p, event)
      BY <1>3, <2>2, StepEntries
    <3>2. event \in RunEntries /\ e.by = p
      BY <1>3, <3>1 DEF Line
    <3>3. pc[p] \in OwnerPCs
      BY <3>1, <3>2, OwnerWrites
    <3> QED BY <1>1, <3>2, <3>3 DEF OwnerInv
  <2> QED BY <2>1, <2>2
<1>4. ASSUME NEW e \in Entries', e.event \in RunEntries, NEW q \in Proc, pc'[q] \in OwnerPCs
      PROVE  e.by = q
  <2>1. CASE e \in Entries
    BY <1>1, <1>4, <2>1 DEF OwnerInv
  <2>2. CASE e \notin Entries
    <3>1. pc[p] \in OwnerPCs /\ e.by = p
      BY <1>3, <1>4, <2>2
    <3> QED BY <1>1, <1>4, <3>1 DEF OwnerInv
  <2> QED BY <2>1, <2>2
<1>5. ASSUME NEW e \in Entries', NEW f \in Entries',
             e.event \in RunEntries, f.event \in RunEntries
      PROVE  e.by = f.by
  BY <1>3, <1>5 DEF OwnerInv, OneOwner
<1>6. OneOwner'
  BY <1>5 DEF OneOwner
<1> QED BY <1>2, <1>3, <1>4, <1>6 DEF OwnerInv

\* Lifecycles that race for one run_id never mix their lines: for any number of them
\* and of other commands, crashing anywhere.
THEOREM OneOwnerAlways == Spec => []OneOwner
<1>1. Init => OpsTypeInv /\ OwnerInv
  <2>1. Init => OwnerInv
    BY DEF Init, FreshInit, ProcInit, OwnerInv, OneOwner, Entries, OwnerPCs, RunPCs
  <2> QED BY <2>1, OpsInitType
<1>2. OpsTypeInv /\ OwnerInv /\ [Next]_vars => OpsTypeInv' /\ OwnerInv'
  <2> SUFFICES ASSUME OpsTypeInv, OwnerInv, [Next]_vars PROVE OwnerInv'
    BY OpsNextType
  <2>1. CASE Next
    BY <2>1, NextCases, StepOwner DEF Moves
  <2>2. CASE UNCHANGED vars
    BY <2>2 DEF vars, workspace, files, procs, OwnerInv, OneOwner, Entries
  <2> QED BY <2>1, <2>2
<1>3. OwnerInv => OneOwner
  BY DEF OwnerInv
<1> QED BY <1>1, <1>2, <1>3, PTL DEF Spec

-----------------------------------------------------------------------------
(* The gate *)

\* A lifecycle step moves on within the lifecycle and never touches the switch.
LEMMA RunStepMoves ==
    ASSUME NEW p \in Proc, RunStep(p), OpsTypeInv
    PROVE  /\ UNCHANGED <<op, before, stateFile, events>>
           /\ pc[p] \in RunPCs
           /\ \E to \in RunPCs \cup EndPCs : pc' = [pc EXCEPT ![p] = to]
           /\ seen' = seen \/ pc[p] = "gate"
<1> USE DEF files
<1>1. CASE \/ Gate(p) \/ CheckDir(p) \/ MakeDir(p) \/ CopySpec(p) \/ OpenMetadata(p)
           \/ CreateJournal(p) \/ SafetyChecked(p) \/ Heartbeat(p) \/ HeartbeatsDone(p)
           \/ EngineRun(p) \/ Raise(p)
  BY <1>1 DEF Gate, CheckDir, MakeDir, CopySpec, OpenMetadata, CreateJournal, SafetyChecked,
     Heartbeat, HeartbeatsDone, EngineRun, Raise, Goto, RunPCs, EndPCs
<1>2. CASE \/ RunInitialized(p) \/ RunStarted(p) \/ SafetyBlocked(p) \/ BlockedCompleted(p)
           \/ PaperStarted(p) \/ PaperCompleted(p) \/ BacktestStarted(p)
           \/ BacktestCompleted(p) \/ RunFailed(p) \/ RunCompleted(p)
  BY <1>2 DEF RunInitialized, RunStarted, SafetyBlocked, BlockedCompleted, PaperStarted,
     PaperCompleted, BacktestStarted, BacktestCompleted, RunFailed, RunCompleted, LogStep, Goto,
     RunPCs, EndPCs
<1>3. CASE OpenMetrics(p) \/ FlushMetrics(p) \/ OpenReport(p) \/ FlushReport(p)
  BY <1>3 DEF OpenMetrics, FlushMetrics, OpenReport, FlushReport, Goto, RunPCs, EndPCs
<1>4. CASE FlushMetadata(p)
  <2>1. AfterMetadata(p) \in {"create_journal", "safety_blocked", "run_failed", "run_completed"}
    BY DEF AfterMetadata, OpsTypeInv, OpsTypeOK, TypeOK, MetaContent, RunStatuses
  <2> QED BY <1>4, <2>1 DEF FlushMetadata, Goto, RunPCs
<1> QED BY <1>1, <1>2, <1>3, <1>4 DEF RunStep

\* Neither does a connectivity step.
LEMMA PatchStepMoves ==
    ASSUME NEW p \in Proc, PatchStep(p)
    PROVE  /\ UNCHANGED <<op, before, stateFile, events, seen, runDir>>
           /\ pc[p] \in PatchPCs
           /\ \E to \in PatchPCs \cup EndPCs : pc' = [pc EXCEPT ![p] = to]
  BY DEF PatchStep, CheckFiles, InvalidTarget, ArtifactOpen, ArtifactFlush, SectionRead,
     SectionOpen, SectionFlush, SectionEntry, ReportRead, ReportOpen, ReportFlush, Goto, files,
     PatchPCs, EndPCs

\* A command that is taking steps has begun and has not ended.
LEMMA StepsAreLive ==
    ASSUME NEW p \in Proc, pc[p] \in RunPCs \cup PatchPCs \cup KillPCs
    PROVE  Started(p) /\ ~Ended(p)
  BY KindsApart DEF Started, Ended

\* The whole program keeps a standing activation in force.
LEMMA StepDurable ==
    ASSUME OpsTypeInv, DurableInv, NEW p \in Proc, Moves(p)
    PROVE  DurableInv'
<1>0. TypeOK /\ OpsFit /\ KillTypeInv
  BY DEF OpsTypeInv, OpsTypeOK, KillTypeInv, KillOpsFit, OpsFit
<1>1. CASE KillBegin(p) \/ KillStep(p) \/ Crash(p)
  BY <1>0, <1>1, KillStepDurable
<1>2. CASE (RunBegin(p) \/ PatchBegin(p)) /\ UNCHANGED files
  <2>1. PICK o \in RunOps \cup PatchOps, to \in {"gate", "check_dir", "check_files"} :
           Begin(p, o, to)
    BY <1>2 DEF RunBegin, PatchBegin
  <2>2. o \in Ops /\ to \notin WrittenPCs \cup {"idle"} /\ stateFile' = stateFile
    BY <1>2, <2>1 DEF Ops, WrittenPCs, files
  <2> QED BY <1>0, <2>1, <2>2, DurableBegin
<1>3. CASE RunStep(p) \/ PatchStep(p)
  <2>1. /\ UNCHANGED <<op, before, stateFile>>
        /\ pc[p] \in RunPCs \cup PatchPCs
        /\ op[p] \in RunOps \cup PatchOps
    BY <1>0, <1>3, RunStepMoves, PatchStepMoves DEF OpsFit
  <2>2. PICK to \in RunPCs \cup PatchPCs \cup EndPCs : pc' = [pc EXCEPT ![p] = to]
    BY <1>3, RunStepMoves, PatchStepMoves
  <2>3. op[p] # "activate" /\ to # "idle" /\ Started(p) /\ ~Ended(p)
    BY <2>1, <2>2, StepsAreLive, KindsApart DEF RunOps, PatchOps
  <2> QED BY <1>0, <2>1, <2>2, <2>3, DurableFrame
<1> QED BY <1>1, <1>2, <1>3 DEF Moves

Executions == {"paper_started", "paper_heartbeat", "paper_completed"}
ExecutionPCs == {"paper_started", "heartbeat", "paper_completed"}

\* A command that has not passed the gate has written nothing.
SilentInv == \A p \in Proc : pc[p] \in {"idle", "gate"} => \A e \in Entries : e.by # p

\* Only a paper run that read no active switch executes.
ExecInv ==
    /\ \A p \in Proc : pc[p] = "safety_checked" => op[p] = "paper"
    /\ \A p \in Proc : pc[p] \in ExecutionPCs => op[p] = "paper" /\ seen[p].state # "active"
    /\ \A e \in Entries : e.event \in Executions => e.by \in Proc /\ seen[e.by].state # "active"

\* The activation a has ended before the paper run r began, and no clear came between.
Uncleared(a, r) ==
    /\ op[a] = "activate" /\ pc[a] = "done"
    /\ op[r] = "paper" /\ Precedes(a, r)
    /\ \A c \in Proc : op[c] = "clear" => Precedes(c, a) \/ Precedes(r, c)

\* Such a run has seen the switch active, or has not passed the gate.
GateInv ==
    \A a, r \in Proc : Uncleared(a, r) =>
        \/ seen[r].state = "active"
        \/ pc[r] \in {"gate", "failed", "crashed"} /\ \A e \in Entries : e.by # r

\* What a command has seen changes when it begins and at the gate, and nowhere else.
LEMMA SeenOnce ==
    ASSUME OpsTypeInv, NEW p \in Proc, Moves(p)
    PROVE  seen' = seen \/ pc[p] \in {"idle", "gate"}
<1>1. CASE KillBegin(p)
  BY <1>1 DEF KillBegin, ReadStatus, Begin, Goto
<1>2. CASE KillStep(p) \/ Crash(p)
  BY <1>2 DEF KillStep, AppendEvent, AppendKillEntry, OpenState, FlushState, PatchRead,
     PatchStatus, PatchOpen, PatchFlush, Crash
<1> QED BY <1>1, <1>2, RunStepMoves, PatchStepMoves DEF Moves

\* Neither a command that begins nor one at the gate writes to the journal.
LEMMA SilentWrites ==
    ASSUME NEW p \in Proc, NEW event, Writes(p, event)
    PROVE  pc[p] \notin {"idle", "gate"}
  BY DEF Writes

\* Nobody returns to the gate.
LEMMA GateEnters ==
    ASSUME OpsTypeInv, NEW p \in Proc, Moves(p)
    PROVE  /\ pc'[p] # "idle"
           /\ pc'[p] = "gate" => pc[p] = "idle"
           /\ op' = op \/ pc[p] = "idle"
           /\ before' = before \/ pc[p] = "idle"
           /\ ~Ended(p)
<1>0. pc \in [Proc -> PCs]
  BY DEF OpsTypeInv, OpsTypeOK, TypeOK
<1>1. CASE KillBegin(p) \/ (RunBegin(p) \/ PatchBegin(p))
  BY <1>0, <1>1 DEF KillBegin, ReadStatus, RunBegin, PatchBegin, Begin, Goto, Ended, EndPCs
<1>2. CASE KillStep(p) \/ Crash(p)
  BY <1>0, <1>2 DEF KillStep, AppendEvent, AppendKillEntry, OpenState, FlushState, PatchRead,
     PatchStatus, PatchOpen, PatchFlush, Crash, Goto, Ended, EndPCs
<1>3. CASE PatchStep(p)
  <2>1. pc'[p] \in PatchPCs \cup EndPCs
    BY <1>0, <1>3, PatchStepMoves
  <2>2. pc'[p] \notin {"idle", "gate"}
    BY <2>1, KindsApart DEF PatchPCs, EndPCs
  <2> QED BY <1>3, <2>2, PatchStepMoves, StepsAreLive
<1>4. CASE RunStep(p)
  <2>1. pc'[p] \in RunPCs \cup EndPCs
    BY <1>0, <1>4, RunStepMoves
  <2>2. pc'[p] # "gate"
    <3>1. CASE FlushMetadata(p)
      <4>1. AfterMetadata(p) \in {"create_journal", "safety_blocked", "run_failed", "run_completed"}
        BY DEF AfterMetadata, OpsTypeInv, OpsTypeOK, TypeOK, MetaContent, RunStatuses
      <4> QED BY <1>0, <3>1, <4>1 DEF FlushMetadata, Goto
    <3>2. CASE ~FlushMetadata(p)
      BY <1>0, <1>4, <3>2 DEF RunStep, Gate, CheckDir, MakeDir, CopySpec, OpenMetadata,
         CreateJournal, RunInitialized, RunStarted, SafetyChecked, SafetyBlocked,
         BlockedCompleted, PaperStarted, Heartbeat, HeartbeatsDone, PaperCompleted,
         BacktestStarted, EngineRun, BacktestCompleted, Raise, RunFailed, OpenMetrics,
         FlushMetrics, OpenReport, FlushReport, RunCompleted, LogStep, Goto
    <3> QED BY <3>1, <3>2
  <2>3. pc'[p] # "idle"
    BY <2>1, KindsApart
  <2> QED BY <1>4, <2>2, <2>3, RunStepMoves, StepsAreLive
<1> QED BY <1>1, <1>2, <1>3, <1>4 DEF Moves

LEMMA StepSilent ==
    ASSUME OpsTypeInv, SilentInv, NEW p \in Proc, Moves(p)
    PROVE  SilentInv'
<1>1. /\ pc'[p] \in {"idle", "gate"} => pc[p] = "idle"
      /\ \A q \in Proc : q # p => pc'[q] = pc[q]
  BY GateEnters, OthersKeep
<1>2. ASSUME NEW q \in Proc, pc'[q] \in {"idle", "gate"}, NEW e \in Entries'
      PROVE  e.by # q
  <2>1. pc[q] \in {"idle", "gate"}
    BY <1>1, <1>2
  <2>2. CASE e \in Entries
    BY <2>1, <2>2 DEF SilentInv
  <2>3. CASE e \notin Entries
    <3>1. PICK event : Writes(p, event) /\ e = Line(p, event)
      BY <1>2, <2>3, StepEntries
    <3>2. e.by = p /\ pc[p] \notin {"idle", "gate"}
      BY <3>1, SilentWrites DEF Line
    <3> QED BY <2>1, <3>2
  <2> QED BY <2>2, <2>3
<1> QED BY <1>2 DEF SilentInv

\* The way into the paper session leads through the check of an inactive switch.
LEMMA ExecEnters ==
    ASSUME OpsTypeInv, ExecInv, NEW p \in Proc, Moves(p)
    PROVE  /\ pc'[p] = "safety_checked" => op'[p] = "paper"
           /\ pc'[p] \in ExecutionPCs => op'[p] = "paper" /\ seen'[p].state # "active"
<1>0. pc \in [Proc -> PCs]
  BY DEF OpsTypeInv, OpsTypeOK, TypeOK
<1>1. CASE KillBegin(p) \/ RunBegin(p) \/ PatchBegin(p)
  BY <1>0, <1>1 DEF KillBegin, ReadStatus, RunBegin, PatchBegin, Begin, Goto, ExecutionPCs
<1>2. CASE KillStep(p) \/ Crash(p)
  BY <1>0, <1>2 DEF KillStep, AppendEvent, AppendKillEntry, OpenState, FlushState, PatchRead,
     PatchStatus, PatchOpen, PatchFlush, Crash, Goto, ExecutionPCs
<1>3. CASE PatchStep(p)
  <2>1. pc'[p] \in PatchPCs \cup EndPCs
    BY <1>0, <1>3, PatchStepMoves
  <2> QED BY <2>1 DEF PatchPCs, EndPCs, ExecutionPCs
<1>4. CASE RunStep(p)
  <2>1. CASE RunStarted(p)
    BY <1>0, <2>1 DEF RunStarted, LogStep, Goto, ExecutionPCs
  <2>2. CASE SafetyChecked(p)
    BY <1>0, <2>2 DEF SafetyChecked, Goto, Blocked, ExecInv, ExecutionPCs
  <2>3. CASE PaperStarted(p) \/ Heartbeat(p) \/ HeartbeatsDone(p)
    BY <1>0, <2>3 DEF PaperStarted, LogStep, Heartbeat, HeartbeatsDone, Goto, ExecInv, ExecutionPCs
  <2>4. CASE ~(RunStarted(p) \/ SafetyChecked(p) \/ PaperStarted(p) \/ Heartbeat(p) \/ HeartbeatsDone(p))
    <3>1. CASE FlushMetadata(p)
      <4>1. AfterMetadata(p) \in {"create_journal", "safety_blocked", "run_failed", "run_completed"}
        BY DEF AfterMetadata, OpsTypeInv, OpsTypeOK, TypeOK, MetaContent, RunStatuses
      <4> QED BY <1>0, <3>1, <4>1 DEF FlushMetadata, Goto, ExecutionPCs
    <3>2. CASE ~FlushMetadata(p)
      BY <1>0, <1>4, <2>4, <3>2 DEF RunStep, Gate, CheckDir, MakeDir, CopySpec, OpenMetadata,
         CreateJournal, RunInitialized, SafetyBlocked, BlockedCompleted, PaperCompleted,
         BacktestStarted, EngineRun, BacktestCompleted, Raise, RunFailed, OpenMetrics,
         FlushMetrics, OpenReport, FlushReport, RunCompleted, LogStep, Goto, ExecutionPCs
    <3> QED BY <3>1, <3>2
  <2> QED BY <2>1, <2>2, <2>3, <2>4
<1> QED BY <1>1, <1>2, <1>3, <1>4 DEF Moves

LEMMA StepExec ==
    ASSUME OpsTypeInv, SilentInv, ExecInv, NEW p \in Proc, Moves(p)
    PROVE  ExecInv'
<1>1. \A q \in Proc : q # p => pc'[q] = pc[q] /\ op'[q] = op[q] /\ seen'[q] = seen[q]
  BY OthersKeep
<1>2. /\ \A q \in Proc : pc'[q] = "safety_checked" => op'[q] = "paper"
      /\ \A q \in Proc : pc'[q] \in ExecutionPCs => op'[q] = "paper" /\ seen'[q].state # "active"
  BY <1>1, ExecEnters DEF ExecInv
<1>3. ASSUME NEW e \in Entries', e.event \in Executions
      PROVE  e.by \in Proc /\ seen'[e.by].state # "active"
  <2>1. CASE e \in Entries
    <3>1. e.by \in Proc /\ seen[e.by].state # "active"
      BY <1>3, <2>1 DEF ExecInv
    <3>2. seen'[e.by] = seen[e.by]
      BY <1>1, <2>1, <3>1, SeenOnce DEF SilentInv
    <3> QED BY <3>1, <3>2
  <2>2. CASE e \notin Entries
    <3>1. PICK event : Writes(p, event) /\ e = Line(p, event)
      BY <1>3, <2>2, StepEntries
    <3>2. e.by = p /\ event \in Executions
      BY <1>3, <3>1 DEF Line
    <3>3. pc[p] \in ExecutionPCs
      BY <3>1, <3>2 DEF Writes, Executions, ExecutionPCs, KillEntries, PatchEntryName
    <3>4. seen' = seen
      BY <3>3, SeenOnce DEF ExecutionPCs
    <3> QED BY <3>2, <3>3, <3>4 DEF ExecInv
  <2> QED BY <2>1, <2>2
<1> QED BY <1>2, <1>3 DEF ExecInv

\* At the gate, a run sees the activation that stands.
LEMMA GateSees ==
    ASSUME OpsTypeInv, DurableInv, NEW r \in Proc, Gate(r),
           NEW a \in Proc, Uncleared(a, r)
    PROVE  pc'[r] = "failed" \/ seen'[r].state = "active"
<1>1. ~Ended(r) /\ pc[r] = "gate"
  BY DEF Gate, Goto, Ended, EndPCs
<1>2. StandingActivation(a)
  BY <1>1 DEF Uncleared, StandingActivation, DurableInv, HistoryInv
<1>3. stateFile # Absent /\ (Readable(stateFile) => stateFile.state = "active")
  BY <1>2 DEF DurableInv, NoLostActivation
<1>4. pc \in [Proc -> PCs] /\ seen \in [Proc -> Status]
  BY DEF OpsTypeInv, OpsTypeOK, TypeOK
<1>5. CASE StatusUnreadable
  BY <1>4, <1>5 DEF Gate, Goto
<1>6. CASE ~StatusUnreadable
  <2>1. Readable(stateFile)
    BY <1>3, <1>6 DEF StatusUnreadable, Malformed, Readable, NoFile
  <2>2. seen'[r] = StatusRead /\ StatusRead.state = stateFile.state
    BY <1>3, <1>4, <1>6 DEF Gate, StatusRead
  <2> QED BY <1>3, <2>1, <2>2
<1> QED BY <1>5, <1>6

\* Leaving the gate otherwise than by reading the switch is a crash.
LEMMA GateLeaves ==
    ASSUME OpsTypeInv, NEW r \in Proc, Moves(r), pc[r] = "gate"
    PROVE  Gate(r) \/ (pc'[r] = "crashed" /\ seen' = seen)
<1>0. pc \in [Proc -> PCs]
  BY DEF OpsTypeInv, OpsTypeOK, TypeOK
<1>1. CASE KillBegin(r) \/ RunBegin(r) \/ PatchBegin(r)
  BY <1>1 DEF KillBegin, ReadStatus, RunBegin, PatchBegin, Begin, Goto
<1>2. CASE KillStep(r)
  BY <1>2 DEF KillStep, AppendEvent, AppendKillEntry, OpenState, FlushState, PatchRead,
     PatchStatus, PatchOpen, PatchFlush, Goto
<1>3. CASE Crash(r)
  BY <1>0, <1>3 DEF Crash
<1>4. CASE RunStep(r)
  BY <1>4 DEF RunStep, CheckDir, MakeDir, CopySpec, OpenMetadata, FlushMetadata, CreateJournal,
     RunInitialized, RunStarted, SafetyChecked, SafetyBlocked, BlockedCompleted, PaperStarted,
     Heartbeat, HeartbeatsDone, PaperCompleted, BacktestStarted, EngineRun, BacktestCompleted,
     Raise, RunFailed, OpenMetrics, FlushMetrics, OpenReport, FlushReport, RunCompleted,
     LogStep, Goto
<1>5. CASE PatchStep(r)
  BY <1>5, PatchStepMoves DEF PatchPCs
<1> QED BY <1>1, <1>2, <1>3, <1>4, <1>5 DEF Moves

LEMMA StepGate ==
    ASSUME OpsTypeInv, DurableInv, SilentInv, GateInv, NEW p \in Proc, Moves(p)
    PROVE  GateInv'
<1>1. \A q \in Proc : q # p => /\ pc'[q] = pc[q] /\ op'[q] = op[q] /\ seen'[q] = seen[q]
                               /\ before'[q] = before[q]
  BY OthersKeep
<1>2. /\ ~Ended(p)
      /\ op' = op \/ pc[p] = "idle"
      /\ before' = before \/ pc[p] = "idle"
  BY GateEnters
<1>3. \A e \in Entries' : e \in Entries \/ (e.by = p /\ pc[p] \notin {"idle", "gate"})
  BY StepEntries, SilentWrites DEF Line
<1> SUFFICES ASSUME NEW a \in Proc, NEW r \in Proc, Uncleared(a, r)'
             PROVE  \/ seen'[r].state = "active"
                    \/ pc'[r] \in {"gate", "failed", "crashed"} /\ \A e \in Entries' : e.by # r
  BY DEF GateInv
<1>4. CASE p = r /\ pc[p] = "idle"
  <2>1. \A e \in Entries' : e.by # r
    BY <1>3, <1>4 DEF SilentInv
  <2>2. op'[r] = "paper"
    BY DEF Uncleared
  <2>3. pc'[r] = "gate"
    <3>1. pc \in [Proc -> PCs]
      BY DEF OpsTypeInv, OpsTypeOK, TypeOK
    <3>2. CASE RunBegin(p)
      BY <1>4, <2>2, <3>1, <3>2 DEF RunBegin, Begin, Goto, OpsTypeInv, OpsTypeOK, TypeOK
    <3>3. CASE KillBegin(p) \/ PatchBegin(p)
      BY <1>4, <2>2, <3>3 DEF KillBegin, ReadStatus, PatchBegin, Begin, KillOps, PatchOps,
         OpsTypeInv, OpsTypeOK, TypeOK
    <3>4. CASE KillStep(p) \/ Crash(p)
      BY <1>4, <3>4 DEF KillStep, AppendEvent, AppendKillEntry, OpenState, FlushState, PatchRead,
         PatchStatus, PatchOpen, PatchFlush, Crash, Goto, Started
    <3>5. CASE RunStep(p) \/ PatchStep(p)
      BY <1>4, <3>5, RunStepMoves, PatchStepMoves, KindsApart
    <3> QED BY <3>2, <3>3, <3>4, <3>5 DEF Moves
  <2> QED BY <2>1, <2>3
<1>5. CASE ~(p = r /\ pc[p] = "idle")
  <2>1. Uncleared(a, r)
    <3>1. r \in Proc /\ before'[r] = before[r] /\ op'[r] = op[r]
      BY <1>1, <1>2, <1>5
    <3>2. Ended(a) /\ a # p
      BY <1>2, <3>1 DEF Uncleared, Precedes, DurableInv, HistoryInv
    <3>3. op'[a] = op[a] /\ pc'[a] = pc[a] /\ before'[a] = before[a]
      BY <1>1, <3>2
    <3>4. ASSUME NEW c \in Proc, op[c] = "clear" PROVE Precedes(c, a) \/ Precedes(r, c)
      <4>1. op'[c] = "clear" /\ before'[c] = before[c]
        BY <1>1, <1>2, <3>4 DEF DurableInv, HistoryInv
      <4> QED BY <3>1, <3>3, <4>1 DEF Uncleared, Precedes
    <3> QED BY <3>1, <3>3, <3>4 DEF Uncleared, Precedes
  <2>2. CASE p # r
    BY <1>1, <1>3, <2>1, <2>2 DEF GateInv
  <2>3. CASE p = r /\ pc[p] = "gate"
    <3>1. \A e \in Entries' : e.by # r
      BY <1>3, <2>3 DEF SilentInv
    <3>2. CASE Gate(p)
      BY <2>1, <2>3, <3>1, <3>2, GateSees
    <3>3. CASE ~Gate(p)
      BY <2>3, <3>1, <3>3, GateLeaves
    <3> QED BY <3>2, <3>3
  <2>4. CASE p = r /\ pc[p] \notin {"gate", "idle"}
    <3>1. seen' = seen
      BY <2>4, SeenOnce
    <3>2. pc[r] \notin {"failed", "crashed"}
      BY <1>2, <2>4 DEF Ended, EndPCs
    <3> QED BY <2>1, <2>4, <3>1, <3>2 DEF GateInv
  <2> QED BY <1>5, <2>2, <2>3, <2>4
<1> QED BY <1>4, <1>5

PassInv == DurableInv /\ SilentInv /\ ExecInv /\ GateInv

\* What the gate promises follows.
LEMMA GateFollows ==
    ASSUME ExecInv, GateInv
    PROVE  GateHonoured
<1>1. ASSUME NEW a \in Proc, NEW r \in Proc, Uncleared(a, r), NEW e \in Entries, e.by = r
      PROVE  e.event \notin {"paper_started", "paper_heartbeat", "paper_completed"}
  BY <1>1 DEF ExecInv, GateInv, Executions
<1> QED BY <1>1 DEF GateHonoured, Uncleared

LEMMA PassInvInit == Init => OpsTypeInv /\ PassInv
<1>1. Init => SilentInv /\ ExecInv /\ GateInv
  BY DEF Init, FreshInit, ProcInit, SilentInv, ExecInv, GateInv, ExecutionPCs, Entries,
     Uncleared
<1> QED BY <1>1, OpsInitType, ProcInitDurable DEF Init, FreshInit, PassInv

LEMMA PassInvNext == OpsTypeInv /\ PassInv /\ [Next]_vars => OpsTypeInv' /\ PassInv'
<1> SUFFICES ASSUME OpsTypeInv, PassInv, [Next]_vars PROVE PassInv'
  BY OpsNextType
<1>1. CASE Next
  <2>1. PICK p \in Proc : Moves(p)
    BY <1>1, NextCases DEF Moves
  <2> QED BY <2>1, StepDurable, StepSilent, StepExec, StepGate DEF PassInv
<1>2. CASE UNCHANGED vars
  BY <1>2 DEF vars, workspace, files, procs, PassInv, DurableInv, HistoryInv, NoLostActivation,
     StandingActivation, Precedes, Ended, Readable, SilentInv, ExecInv, GateInv, Uncleared,
     Entries
<1> QED BY <1>1, <1>2

LEMMA PassAlways == Spec => [](OpsTypeInv /\ PassInv)
  BY PassInvInit, PassInvNext, PTL DEF Spec

\* A paper run that begins after an activation has ended does not execute, unless a
\* clear came in between: whatever other commands do meanwhile, for any number of
\* them, and wherever they crash.
THEOREM GateIsHonoured == Spec => []GateHonoured
<1>1. PassInv => GateHonoured
  BY GateFollows DEF PassInv
<1> QED BY <1>1, PassAlways, PTL

\* The kill switch alone keeps its activations, and so it does among run lifecycles,
\* connectivity commands and evidence on one workspace: none of them touches its file.
THEOREM ActivationsOutlastRuns == Spec => []NoLostActivation
<1>1. PassInv => NoLostActivation
  BY DEF PassInv, DurableInv
<1> QED BY <1>1, PassAlways, PTL

-----------------------------------------------------------------------------
(* No update is lost in a serial history *)

\* No command but the kill switch's has come to its end.
NoRunYet == \A q \in Proc : pc[q] = "done" => op[q] \in KillOps

\* The status in which a lifecycle leaves metadata.json.
LastStatus(p) ==
    IF op[p] = "init" THEN "initialized"
    ELSE IF Blocked(p) THEN "safety_blocked" ELSE "completed"

\* The dict m has what the command q, now done, put into it.
Keeps(m, q) ==
    /\ op[q] \in PatchOps => op[q] \in m.sections
    /\ op[q] \in RunOps => m.status = LastStatus(q)
KeepsAll(m) == \A q \in Proc : pc[q] = "done" => Keeps(m, q)

\* It has the state of the switch, if a kill command came after the lifecycle.
Mirrors(m) ==
    \A r, k \in Proc :
        /\ op[r] \in RunOps /\ pc[r] = "done"
        /\ op[k] \in KillOps /\ pc[k] = "done" /\ Precedes(r, k)
        => m.safety = stateFile.state

Founded == runDir \/ NoRunYet
Intact == Founded /\ ((metadata = Absent /\ NoRunYet) \/ (Readable(metadata) /\ KeepsAll(metadata)))
Settled == Intact /\ (Readable(metadata) => Mirrors(metadata))

\* A kill command under way: the switch changes before metadata.json follows.
KillKeeps(p) ==
    /\ pc[p] \in {"append_event", "append_kill_entry", "open_state", "flush_state",
                  "patch_read", "patch_status"} => Intact
    /\ pc[p] \in {"flush_state", "patch_read", "patch_status", "patch_open", "patch_flush"} =>
          stateFile # Absent
    /\ pc[p] = "patch_status" => Readable(metadata) /\ held[p] = metadata
    /\ pc[p] \in {"patch_open", "patch_flush"} =>
          Founded /\ KeepsAll(held[p]) /\ held[p].safety = stateFile.state
    /\ pc[p] = "patch_flush" => metadata = Empty

\* A connectivity command under way: its key is in the dict it holds, then in the file.
SectionKeeps(p) ==
    /\ pc[p] \in {"check_files", "artifact_open", "artifact_flush", "section_read"} => Settled
    /\ pc[p] \in PatchPCs \ {"check_files"} => runDir
    /\ pc[p] \in {"section_open", "section_flush"} =>
          KeepsAll(held[p]) /\ Mirrors(held[p]) /\ op[p] \in held[p].sections
    /\ pc[p] = "section_flush" => metadata = Empty
    /\ pc[p] \in {"section_entry", "report_read", "report_open", "report_flush"} =>
          Settled /\ Readable(metadata) /\ op[p] \in metadata.sections

\* The dict a lifecycle holds fits the way it has gone.
StatusFits(p) ==
    /\ op[p] = "init" => held[p].status = "initialized"
    /\ held[p].status = "safety_blocked" => Blocked(p)
    /\ held[p].status = "completed" => ~Blocked(p)
    /\ pc[p] \in {"safety_blocked", "blocked_completed"} => held[p].status = "safety_blocked"
    /\ pc[p] \in {"backtest_started", "engine", "backtest_completed"} => op[p] = "backtest"
    /\ pc[p] \in {"open_metrics", "flush_metrics", "open_report", "flush_report"} =>
          op[p] # "init" /\ (Blocked(p) => held[p].status = "safety_blocked")
    /\ pc[p] = "run_completed" => held[p].status = "completed"

\* A lifecycle under way: from its mkdir on the directory is its own, and between two
\* saves the file is what it holds.
RunKeeps(p) ==
    /\ pc[p] \in {"gate", "check_dir", "make_dir"} => Settled
    /\ pc[p] \in OwnerPCs => runDir /\ NoRunYet
    /\ pc[p] = "flush_metadata" => metadata = Empty
    /\ pc[p] \in OwnerPCs \ {"copy_spec"} => StatusFits(p)
    /\ pc[p] \in OwnerPCs \ (Saves \cup {"copy_spec"}) => metadata = held[p]

SerialInv ==
    SerialHistory =>
        (AtRest => Settled) /\ \A p \in Proc : KillKeeps(p) /\ SectionKeeps(p) /\ RunKeeps(p)

LEMMA OpsMoveType ==
    ASSUME OpsTypeInv, NEW p \in Proc, Moves(p)
    PROVE  OpsTypeInv'
<1>1. CASE (KillBegin(p) \/ KillStep(p) \/ Crash(p)) /\ UNCHANGED <<beat, connVars>>
  BY <1>1, KillCrashType
<1>2. CASE /\ RunBegin(p) \/ PatchBegin(p)
           /\ UNCHANGED <<files, seen, held, beat, connVars>>
  BY <1>2, BeginOpsType
<1>3. CASE RunStep(p) /\ UNCHANGED connVars
  BY <1>3, RunOpeningType, RunLinesType, RunClosingType DEF RunStep
<1>4. CASE PatchStep(p) /\ UNCHANGED beat
  BY <1>4, PatchStepType
<1> QED BY <1>1, <1>2, <1>3, <1>4 DEF Moves

\* A command that has not begun, or has ended, has nothing to keep.
LEMMA IdleKeeps ==
    ASSUME NEW q, pc'[q] \in EndPCs \cup {"idle"}
    PROVE  KillKeeps(q)' /\ SectionKeeps(q)' /\ RunKeeps(q)'
<1>1. pc'[q] \in {"done", "failed", "refused", "crashed", "idle"}
  BY DEF EndPCs
<1>2. pc'[q] \notin OwnerPCs /\ pc'[q] \notin PatchPCs
  BY <1>1 DEF OwnerPCs, RunPCs, PatchPCs
<1> QED BY <1>1, <1>2 DEF KillKeeps, SectionKeeps, RunKeeps

\* p, the only command under way, makes a step that keeps what it has to keep.
LEMMA SerialMoves ==
    ASSUME OpsTypeInv, HistoryInv, SerialInv, NEW p \in Proc, Started(p), ~Ended(p), Moves(p),
           /\ SerialHistory /\ pc'[p] \notin {"failed", "refused", "crashed"}
           /\ KillKeeps(p) /\ SectionKeeps(p) /\ RunKeeps(p)
           => /\ pc'[p] = "done" => Settled'
              /\ KillKeeps(p)' /\ SectionKeeps(p)' /\ RunKeeps(p)'
    PROVE  SerialInv'
<1> SUFFICES ASSUME SerialHistory'
             PROVE  /\ AtRest' => Settled'
                    /\ \A q \in Proc : KillKeeps(q)' /\ SectionKeeps(q)' /\ RunKeeps(q)'
  BY DEF SerialInv
<1>1. pc' = [pc EXCEPT ![p] = pc'[p]] /\ before' = before /\ pc'[p] # "idle" /\ TypeOK
  <2>1. pc \in [Proc -> PCs] /\ pc' \in [Proc -> PCs] /\ TypeOK
    BY OpsMoveType DEF OpsTypeInv, OpsTypeOK, TypeOK
  <2>2. \A q \in Proc : q # p => pc'[q] = pc[q]
    BY OthersKeep
  <2> QED BY <2>1, <2>2, GateEnters DEF Started
<1>2. /\ SerialHistory /\ pc'[p] \notin {"failed", "refused", "crashed"}
      /\ \A q \in Proc : q # p => pc'[q] = pc[q] /\ (Started(q) => Ended(q))
  BY <1>1, SerialAlone
<1>3. /\ pc'[p] = "done" => Settled'
      /\ KillKeeps(p)' /\ SectionKeeps(p)' /\ RunKeeps(p)'
  BY <1>2 DEF SerialInv
<1>4. AtRest' => Settled'
  BY <1>1, <1>2, <1>3 DEF AtRest, Started, Ended, EndPCs
<1>5. ASSUME NEW q \in Proc, q # p PROVE KillKeeps(q)' /\ SectionKeeps(q)' /\ RunKeeps(q)'
  <2>1. pc'[q] \in EndPCs \cup {"idle"}
    BY <1>2, <1>5 DEF Started, Ended
  <2> QED BY <2>1, IdleKeeps
<1> QED BY <1>3, <1>4, <1>5

\* Who has ended, and with which command: all that the updates are about.
LEMMA UpdatesStay ==
    ASSUME NEW p \in Proc, pc[p] # "done", pc'[p] # "done",
           \A q \in Proc : q # p => /\ pc'[q] = pc[q] /\ op'[q] = op[q] /\ seen'[q] = seen[q]
                                    /\ before'[q] = before[q]
    PROVE  /\ NoRunYet' <=> NoRunYet
           /\ \A m : KeepsAll(m) => KeepsAll(m)'
           /\ stateFile' = stateFile => \A m : Mirrors(m) => Mirrors(m)'
<1>1. NoRunYet' <=> NoRunYet
  BY DEF NoRunYet
<1>2. ASSUME NEW m, KeepsAll(m) PROVE KeepsAll(m)'
  <2> SUFFICES ASSUME NEW q \in Proc, pc'[q] = "done" PROVE Keeps(m, q)'
    BY DEF KeepsAll
  <2>1. q # p /\ Keeps(m, q)
    BY <1>2 DEF KeepsAll
  <2> QED BY <2>1 DEF Keeps, LastStatus, Blocked
<1>3. ASSUME stateFile' = stateFile, NEW m, Mirrors(m) PROVE Mirrors(m)'
  BY <1>3 DEF Mirrors, Precedes
<1> QED BY <1>1, <1>2, <1>3

\* So at a step that leaves the files alone.
LEMMA SettledStays ==
    ASSUME NEW p \in Proc, pc[p] # "done", pc'[p] # "done",
           \A q \in Proc : q # p => /\ pc'[q] = pc[q] /\ op'[q] = op[q] /\ seen'[q] = seen[q]
                                    /\ before'[q] = before[q],
           UNCHANGED <<runDir, metadata>>
    PROVE  /\ Founded' <=> Founded
           /\ Intact => Intact'
           /\ stateFile' = stateFile /\ Settled => Settled'
<1>1. PICK m : m = metadata
  OBVIOUS
<1>2. NoRunYet' <=> NoRunYet
  BY UpdatesStay
<1>3. KeepsAll(m) => KeepsAll(m)'
  BY UpdatesStay
<1>4. stateFile' = stateFile /\ Mirrors(m) => Mirrors(m)'
  BY UpdatesStay
<1>5. /\ KeepsAll(metadata) => KeepsAll(metadata)'
      /\ stateFile' = stateFile /\ Mirrors(metadata) => Mirrors(metadata)'
  BY <1>1, <1>3, <1>4 DEF KeepsAll, Keeps, Mirrors
<1>6. Readable(metadata)' <=> Readable(metadata)
  BY DEF Readable
<1> QED BY <1>2, <1>5, <1>6 DEF Founded, Intact, Settled

\* A command that begins begins at rest, and touches no file of the run.
LEMMA SerialBegins ==
    ASSUME OpsTypeInv, HistoryInv, SerialInv, NEW p \in Proc, Moves(p),
           KillBegin(p) \/ RunBegin(p) \/ PatchBegin(p)
    PROVE  SerialInv'
<1> SUFFICES ASSUME SerialHistory'
             PROVE  /\ AtRest' => Settled'
                    /\ \A q \in Proc : KillKeeps(q)' /\ SectionKeeps(q)' /\ RunKeeps(q)'
  BY DEF SerialInv
<1>1. PICK o \in Ops, to \in {"failed", "append_event", "gate", "check_dir", "check_files"} :
         Begin(p, o, to)
  BY DEF KillBegin, ReadStatus, RunBegin, PatchBegin, Ops
<1>2. UNCHANGED <<stateFile, runDir, metadata>>
  BY DEF KillBegin, ReadStatus, RunBegin, PatchBegin, files
<1>3. /\ SerialHistory /\ AtRest /\ to \notin {"failed", "refused", "crashed"}
      /\ pc'[p] = to /\ \A q \in Proc : q # p => pc'[q] = pc[q]
  BY <1>1, SerialBegin DEF OpsTypeInv, OpsTypeOK
<1>4. pc[p] = "idle" /\ pc'[p] = to /\ to \in {"append_event", "gate", "check_dir", "check_files"}
  BY <1>1, <1>3 DEF Begin, Goto
<1>5. Settled'
  BY <1>2, <1>3, <1>4, OthersKeep, SettledStays DEF SerialInv
<1>6. KillKeeps(p)' /\ SectionKeeps(p)' /\ RunKeeps(p)'
  <2>1. pc'[p] \notin OwnerPCs /\ pc'[p] \notin PatchPCs \ {"check_files"}
    BY <1>4 DEF OwnerPCs, RunPCs, PatchPCs
  <2> QED BY <1>4, <1>5, <2>1 DEF KillKeeps, SectionKeeps, RunKeeps, Settled
<1>7. ASSUME NEW q \in Proc, q # p PROVE KillKeeps(q)' /\ SectionKeeps(q)' /\ RunKeeps(q)'
  <2>1. pc'[q] \in EndPCs \cup {"idle"}
    BY <1>3, <1>7 DEF AtRest, Started, Ended
  <2> QED BY <2>1, IdleKeeps
<1> QED BY <1>5, <1>6, <1>7

\* What every step leaves to the lemmas below: the commands other than p, and p's
\* own command.
LEMMA StepFrame ==
    ASSUME OpsTypeInv, NEW p \in Proc, Moves(p), Started(p)
    PROVE  /\ \A q \in Proc : q # p => /\ pc'[q] = pc[q] /\ op'[q] = op[q] /\ seen'[q] = seen[q]
                                       /\ before'[q] = before[q]
           /\ op' = op /\ before' = before /\ pc[p] # "done"
           /\ pc \in [Proc -> PCs] /\ held \in [Proc -> MetaContent]
           /\ metadata \in MetaContent \cup NoFile
           /\ \A m \in MetaContent : Readable(m)
           /\ ~Readable(Absent) /\ ~Readable(Empty) /\ Absent # Empty
  BY OthersKeep, GateEnters, FileAssumption
     DEF Started, Ended, EndPCs, OpsTypeInv, OpsTypeOK, TypeOK, Readable, NoFile

\* A dict that the file does not hold yet keeps what it keeps.
LEMMA HeldStays ==
    ASSUME NEW p \in Proc, pc[p] # "done", pc'[p] # "done", held'[p] = held[p],
           \A q \in Proc : q # p => /\ pc'[q] = pc[q] /\ op'[q] = op[q] /\ seen'[q] = seen[q]
                                    /\ before'[q] = before[q]
    PROVE  /\ KeepsAll(held[p]) => KeepsAll(held[p])'
           /\ stateFile' = stateFile /\ Mirrors(held[p]) => Mirrors(held[p])'
<1>1. PICK m : m = held[p]
  OBVIOUS
<1>2. KeepsAll(m) => KeepsAll(m)'
  BY UpdatesStay
<1>3. stateFile' = stateFile /\ Mirrors(m) => Mirrors(m)'
  BY UpdatesStay
<1> QED BY <1>1, <1>2, <1>3 DEF KeepsAll, Keeps, Mirrors

\* A kill command that ends adds the mirrored state to what is to be kept.
LEMMA KillEnds ==
    ASSUME NEW p \in Proc, op[p] \in KillOps, op' = op, pc'[p] = "done",
           \A q \in Proc : q # p => /\ pc'[q] = pc[q] /\ op'[q] = op[q] /\ seen'[q] = seen[q]
                                    /\ before'[q] = before[q],
           runDir' = runDir, Founded,
           \/ metadata' = Absent /\ NoRunYet
           \/ /\ Readable(metadata') /\ KeepsAll(metadata')
              /\ metadata'.safety = stateFile'.state
    PROVE  Settled'
<1>0. op[p] \notin PatchOps \cup RunOps
  BY DEF KillOps, PatchOps, RunOps
<1>1. NoRunYet' <=> NoRunYet
  BY DEF NoRunYet
<1>2. ASSUME NEW m, KeepsAll(m) PROVE KeepsAll(m)'
  <2> SUFFICES ASSUME NEW q \in Proc, pc'[q] = "done" PROVE Keeps(m, q)'
    BY DEF KeepsAll
  <2>1. CASE q = p
    BY <1>0, <2>1 DEF Keeps
  <2>2. CASE q # p
    BY <1>2, <2>2 DEF KeepsAll, Keeps, LastStatus, Blocked
  <2> QED BY <2>1, <2>2
<1>3. CASE metadata' = Absent /\ NoRunYet
  BY <1>1, <1>3 DEF Settled, Intact, Founded, Readable, NoFile
<1>4. CASE /\ Readable(metadata') /\ KeepsAll(metadata')
           /\ metadata'.safety = stateFile'.state
  <2>1. PICK m : m = metadata'
    OBVIOUS
  <2>2. KeepsAll(m)'
    BY <1>2, <1>4, <2>1
  <2>3. KeepsAll(metadata)'
    BY <2>1, <2>2 DEF KeepsAll, Keeps
  <2>4. Mirrors(metadata)'
    BY <1>4 DEF Mirrors
  <2> QED BY <1>1, <1>4, <2>3, <2>4 DEF Settled, Intact, Founded, Readable
<1> QED BY <1>3, <1>4

\* A kill command keeps what it has to keep.
LEMMA KillStepKeeps ==
    ASSUME OpsTypeInv, NEW p \in Proc, Moves(p), KillStep(p), KillKeeps(p),
           pc'[p] \notin {"failed", "refused", "crashed"}
    PROVE  /\ pc'[p] = "done" => Settled'
           /\ KillKeeps(p)' /\ SectionKeeps(p)' /\ RunKeeps(p)'
<1>0. pc[p] \in KillPCs
  BY DEF KillStep, AppendEvent, AppendKillEntry, OpenState, FlushState, PatchRead, PatchStatus,
     PatchOpen, PatchFlush, Goto, KillPCs
<1>1. op[p] \in KillOps /\ Started(p)
  BY <1>0, StepsAreLive DEF OpsTypeInv, OpsFit
<1>2. /\ \A q \in Proc : q # p => /\ pc'[q] = pc[q] /\ op'[q] = op[q] /\ seen'[q] = seen[q]
                                  /\ before'[q] = before[q]
      /\ op' = op /\ before' = before /\ pc[p] # "done"
      /\ pc \in [Proc -> PCs] /\ held \in [Proc -> MetaContent]
      /\ metadata \in MetaContent \cup NoFile
      /\ \A m \in MetaContent : Readable(m)
      /\ ~Readable(Absent) /\ ~Readable(Empty) /\ Absent # Empty
  BY <1>1, StepFrame
<1>3. pc'[p] \in KillPCs \cup {"done"}
  BY <1>2 DEF KillStep, AppendEvent, AppendKillEntry, OpenState, FlushState, PatchRead,
     PatchStatus, PatchOpen, PatchFlush, Goto, KillPCs
<1>4. SectionKeeps(p)' /\ RunKeeps(p)'
  <2>1. pc'[p] \notin OwnerPCs /\ pc'[p] \notin PatchPCs
    BY <1>3 DEF KillPCs, OwnerPCs, RunPCs, PatchPCs
  <2> QED BY <1>3, <2>1 DEF SectionKeeps, RunKeeps, KillPCs, PatchPCs
<1>5. CASE AppendEvent(p) \/ AppendKillEntry(p) \/ OpenState(p)
  <2>1. /\ UNCHANGED <<runDir, metadata>>
        /\ pc[p] \in {"append_event", "append_kill_entry", "open_state"}
        /\ pc'[p] \in {"append_kill_entry", "open_state", "flush_state"}
        /\ pc'[p] = "flush_state" => stateFile' = Empty
    BY <1>2, <1>5 DEF AppendEvent, AppendKillEntry, OpenState, Goto
  <2>2. Intact'
    BY <1>2, <2>1, SettledStays DEF KillKeeps
  <2> QED BY <1>2, <1>4, <2>1, <2>2 DEF KillKeeps
<1>6. CASE FlushState(p)
  <2>1. /\ UNCHANGED <<runDir, metadata>> /\ pc[p] = "flush_state" /\ pc'[p] = "patch_read"
        /\ stateFile' = StateOf(p) \/ stateFile' = Garbled
    BY <1>2, <1>6, FlushResult DEF FlushState, Goto
  <2>2. Intact'
    BY <1>2, <2>1, SettledStays DEF KillKeeps
  <2>3. stateFile' # Absent
    <3>1. StateOf(p) \in StateContent
      BY <1>1 DEF StateOf, StateContent, NewState, SwitchStates, OpsTypeInv, OpsTypeOK, TypeOK,
         Status
    <3> QED BY <2>1, <3>1, FileAssumption DEF NoFile
  <2> QED BY <1>4, <2>1, <2>2, <2>3 DEF KillKeeps
<1>7. CASE PatchRead(p)
  <2>1. UNCHANGED <<runDir, metadata, stateFile>> /\ pc[p] = "patch_read" /\ Intact /\ stateFile # Absent
    BY <1>7 DEF PatchRead, Goto, files, KillKeeps
  <2>2. CASE metadata = Absent /\ pc'[p] = "done"
    <3>1. Founded /\ NoRunYet
      BY <1>2, <2>1, <2>2 DEF Intact
    <3>2. Settled'
      BY <1>1, <1>2, <2>1, <2>2, <3>1, KillEnds
    <3> QED BY <1>4, <2>2, <3>2 DEF KillKeeps
  <2>3. CASE Readable(metadata) /\ held'[p] = metadata /\ pc'[p] = "patch_status"
    <3>1. Intact'
      BY <1>2, <2>1, <2>3, SettledStays
    <3> QED BY <1>4, <2>1, <2>3, <3>1 DEF KillKeeps, Readable
  <2> QED BY <1>2, <1>7, <2>2, <2>3 DEF PatchRead, Goto
<1>8. CASE PatchStatus(p)
  <2>1. /\ UNCHANGED <<runDir, metadata, stateFile>> /\ pc[p] = "patch_status" /\ pc'[p] = "patch_open"
        /\ held'[p] = [held[p] EXCEPT !.safety = StatusRead.state, !.outcome = "none"]
    BY <1>2, <1>8 DEF PatchStatus, Goto, files
  <2>2. Intact /\ stateFile # Absent /\ held[p] = metadata /\ Readable(metadata)
    BY <2>1 DEF KillKeeps
  <2>3. /\ held'[p].status = metadata.status /\ held'[p].sections = metadata.sections
        /\ held'[p].safety = stateFile'.state
    BY <1>2, <2>1, <2>2 DEF MetaContent, StatusRead
  <2>4. Intact'
    BY <1>2, <2>1, <2>2, SettledStays
  <2>5. KeepsAll(metadata)' /\ Founded'
    BY <2>1, <2>2, <2>4 DEF Intact, Readable, NoFile
  <2>6. KeepsAll(held[p])'
    BY <2>1, <2>3, <2>5 DEF KeepsAll, Keeps
  <2> QED BY <1>4, <2>1, <2>2, <2>3, <2>5, <2>6 DEF KillKeeps
<1>9. CASE PatchOpen(p)
  <2>1. /\ UNCHANGED <<runDir, stateFile, held>> /\ pc[p] = "patch_open" /\ pc'[p] = "patch_flush"
        /\ metadata' = Empty
    BY <1>2, <1>9 DEF PatchOpen, Goto
  <2>2. /\ stateFile # Absent /\ Founded /\ KeepsAll(held[p])
        /\ held[p].safety = stateFile.state
    BY <2>1 DEF KillKeeps
  <2>3. KeepsAll(held[p])'
    BY <1>2, <2>1, <2>2, HeldStays
  <2>4. Founded'
    BY <1>2, <2>1, <2>2, UpdatesStay DEF Founded
  <2> QED BY <1>4, <2>1, <2>2, <2>3, <2>4 DEF KillKeeps
<1>10. CASE PatchFlush(p)
  <2>1. /\ UNCHANGED <<runDir, stateFile, held>> /\ pc[p] = "patch_flush" /\ pc'[p] = "done"
        /\ metadata' \in Flush(metadata, held[p])
    BY <1>2, <1>10 DEF PatchFlush, Goto
  <2>2. /\ Founded /\ KeepsAll(held[p]) /\ held[p].safety = stateFile.state /\ metadata = Empty
    BY <2>1 DEF KillKeeps
  <2>3. metadata' = held[p] /\ Readable(metadata')
    BY <1>2, <2>1, <2>2 DEF Flush
  <2>4. KeepsAll(metadata')
    BY <2>2, <2>3 DEF KeepsAll, Keeps
  <2>5. Settled'
    BY <1>1, <1>2, <2>1, <2>2, <2>3, <2>4, KillEnds
  <2> QED BY <1>4, <2>1, <2>5 DEF KillKeeps
<1> QED BY <1>5, <1>6, <1>7, <1>8, <1>9, <1>10 DEF KillStep

\* A connectivity command that ends has its key in the file.
LEMMA SectionEnds ==
    ASSUME NEW p \in Proc, op[p] \in PatchOps, op' = op, pc[p] # "done", pc'[p] = "done",
           \A q \in Proc : q # p => /\ pc'[q] = pc[q] /\ op'[q] = op[q] /\ seen'[q] = seen[q]
                                    /\ before'[q] = before[q],
           UNCHANGED <<runDir, metadata, stateFile>>,
           runDir, Settled, Readable(metadata), op[p] \in metadata.sections
    PROVE  Settled'
<1>0. op[p] \notin KillOps \cup RunOps
  BY DEF KillOps, PatchOps, RunOps
<1>1. KeepsAll(metadata) /\ Mirrors(metadata)
  BY DEF Settled, Intact, Readable, NoFile
<1>2. KeepsAll(metadata)'
  <2> SUFFICES ASSUME NEW q \in Proc, pc'[q] = "done" PROVE Keeps(metadata, q)'
    BY DEF KeepsAll
  <2>1. CASE q = p
    BY <1>0, <2>1 DEF Keeps
  <2>2. CASE q # p
    BY <1>1, <2>2 DEF KeepsAll, Keeps, LastStatus, Blocked
  <2> QED BY <2>1, <2>2
<1>3. Mirrors(metadata)'
  BY <1>0, <1>1 DEF Mirrors, Precedes
<1> QED BY <1>2, <1>3 DEF Settled, Intact, Founded, Readable

\* A connectivity command keeps what it has to keep.
LEMMA SectionStepKeeps ==
    ASSUME OpsTypeInv, NEW p \in Proc, Moves(p), PatchStep(p), SectionKeeps(p),
           pc'[p] \notin {"failed", "refused", "crashed"}
    PROVE  /\ pc'[p] = "done" => Settled'
           /\ KillKeeps(p)' /\ SectionKeeps(p)' /\ RunKeeps(p)'
<1>0. pc[p] \in PatchPCs /\ UNCHANGED <<stateFile, runDir>>
  BY PatchStepMoves
<1>1. op[p] \in PatchOps /\ Started(p)
  BY <1>0, StepsAreLive DEF OpsTypeInv, OpsFit
<1>2. /\ \A q \in Proc : q # p => /\ pc'[q] = pc[q] /\ op'[q] = op[q] /\ seen'[q] = seen[q]
                                  /\ before'[q] = before[q]
      /\ op' = op /\ before' = before /\ pc[p] # "done"
      /\ pc \in [Proc -> PCs] /\ held \in [Proc -> MetaContent]
      /\ metadata \in MetaContent \cup NoFile
      /\ \A m \in MetaContent : Readable(m)
      /\ ~Readable(Absent) /\ ~Readable(Empty) /\ Absent # Empty
  BY <1>1, StepFrame
<1>3. pc'[p] \in PatchPCs \cup {"done"}
  BY <1>2, PatchStepMoves DEF EndPCs
<1>4. KillKeeps(p)' /\ RunKeeps(p)'
  <2>1. pc'[p] \notin OwnerPCs /\ pc'[p] \notin KillPCs
    BY <1>3 DEF KillPCs, OwnerPCs, RunPCs, PatchPCs
  <2> QED BY <1>3, <2>1 DEF KillKeeps, RunKeeps, KillPCs, PatchPCs
<1>5. CASE CheckFiles(p) \/ InvalidTarget(p) \/ ArtifactOpen(p) \/ ArtifactFlush(p)
  <2>1. /\ metadata' = metadata
        /\ pc[p] \in {"check_files", "artifact_open", "artifact_flush"}
        /\ pc'[p] \in {"artifact_open", "artifact_flush", "section_read"}
        /\ pc[p] = "check_files" => runDir
    BY <1>2, <1>5 DEF CheckFiles, InvalidTarget, ArtifactOpen, ArtifactFlush, Goto, files
  <2>2. Settled' /\ runDir'
    BY <1>0, <1>2, <2>1, SettledStays DEF SectionKeeps
  <2> QED BY <1>4, <2>1, <2>2 DEF SectionKeeps
<1>6. CASE SectionRead(p)
  <2>1. /\ metadata' = metadata /\ pc[p] = "section_read" /\ pc'[p] = "section_open"
        /\ held'[p] = [metadata EXCEPT !.sections = @ \cup {op[p]}] /\ ~Malformed(metadata)
    BY <1>2, <1>6 DEF SectionRead, Goto, files
  <2>2. Settled /\ runDir /\ metadata # Absent
    BY <1>0, <2>1 DEF SectionKeeps, OpsTypeInv, PresentInv, PatchPCs
  <2>3. Settled' /\ Readable(metadata)
    BY <1>0, <1>2, <2>1, <2>2, SettledStays DEF Malformed, Readable, NoFile
  <2>4. KeepsAll(metadata)' /\ Mirrors(metadata)' /\ metadata \in MetaContent
    BY <1>2, <2>1, <2>3 DEF Settled, Intact, Readable, NoFile
  <2>5. /\ held'[p].status = metadata'.status /\ held'[p].safety = metadata'.safety
        /\ metadata'.sections \subseteq held'[p].sections /\ op[p] \in held'[p].sections
    BY <2>1, <2>4 DEF MetaContent
  <2>6. KeepsAll(held[p])' /\ Mirrors(held[p])'
    BY <2>4, <2>5 DEF KeepsAll, Keeps, Mirrors
  <2> QED BY <1>0, <1>2, <1>4, <2>1, <2>2, <2>5, <2>6 DEF SectionKeeps
<1>7. CASE SectionOpen(p)
  <2>1. /\ held' = held /\ pc[p] = "section_open" /\ pc'[p] = "section_flush"
        /\ metadata' = Empty
    BY <1>2, <1>7 DEF SectionOpen, Goto
  <2>2. KeepsAll(held[p]) /\ Mirrors(held[p]) /\ op[p] \in held[p].sections /\ runDir
    BY <1>0, <2>1 DEF SectionKeeps
  <2>3. KeepsAll(held[p])' /\ Mirrors(held[p])'
    BY <1>0, <1>2, <2>1, <2>2, HeldStays
  <2> QED BY <1>0, <1>2, <1>4, <2>1, <2>2, <2>3 DEF SectionKeeps
<1>8. CASE SectionFlush(p)
  <2>1. /\ held' = held /\ pc[p] = "section_flush" /\ pc'[p] = "section_entry"
        /\ metadata' \in Flush(metadata, held[p])
    BY <1>2, <1>8 DEF SectionFlush, Goto
  <2>2. /\ KeepsAll(held[p]) /\ Mirrors(held[p]) /\ op[p] \in held[p].sections /\ runDir
        /\ metadata = Empty
    BY <1>0, <2>1 DEF SectionKeeps
  <2>3. metadata' = held'[p] /\ Readable(metadata')
    BY <1>2, <2>1, <2>2 DEF Flush
  <2>4. KeepsAll(held[p])' /\ Mirrors(held[p])'
    BY <1>0, <1>2, <2>1, <2>2, HeldStays
  <2>5. KeepsAll(metadata)' /\ Mirrors(metadata)'
    BY <2>3, <2>4 DEF KeepsAll, Keeps, Mirrors
  <2>6. Settled'
    BY <1>0, <2>2, <2>3, <2>5 DEF Settled, Intact, Founded, Readable
  <2> QED BY <1>0, <1>2, <1>4, <2>1, <2>2, <2>3, <2>6 DEF SectionKeeps, Readable
<1>9. CASE SectionEntry(p) \/ ReportRead(p) \/ ReportOpen(p) \/ ReportFlush(p)
  <2>1. /\ metadata' = metadata
        /\ pc[p] \in {"section_entry", "report_read", "report_open", "report_flush"}
        /\ pc'[p] \in {"report_read", "report_open", "report_flush", "done"}
    BY <1>2, <1>9 DEF SectionEntry, ReportRead, ReportOpen, ReportFlush, Goto, files
  <2>2. Settled /\ Readable(metadata) /\ op[p] \in metadata.sections /\ runDir
    BY <1>0, <2>1 DEF SectionKeeps
  <2>3. CASE pc'[p] = "done"
    <3>1. Settled'
      BY <1>0, <1>1, <1>2, <2>1, <2>2, <2>3, SectionEnds
    <3> QED BY <1>4, <2>3, <3>1 DEF SectionKeeps, PatchPCs
  <2>4. CASE pc'[p] # "done"
    <3>1. Settled'
      BY <1>0, <1>2, <2>1, <2>2, <2>4, SettledStays
    <3> QED BY <1>0, <1>2, <1>4, <2>1, <2>2, <2>4, <3>1 DEF SectionKeeps, Readable
  <2> QED BY <2>3, <2>4
<1> QED BY <1>5, <1>6, <1>7, <1>8, <1>9 DEF PatchStep

\* A lifecycle that ends is the first command, and its status is in the file.
LEMMA RunEnds ==
    ASSUME HistoryInv, NEW p \in Proc, op[p] \in RunOps, op' = op, seen' = seen, before' = before,
           ~Ended(p), pc'[p] = "done",
           \A q \in Proc : q # p => pc'[q] = pc[q],
           UNCHANGED <<runDir, metadata>>, runDir, NoRunYet,
           Readable(metadata), metadata.status = LastStatus(p)
    PROVE  Settled'
<1>0. op[p] \notin KillOps \cup PatchOps
  BY DEF KillOps, PatchOps, RunOps
<1>1. KeepsAll(metadata)'
  <2> SUFFICES ASSUME NEW q \in Proc, pc'[q] = "done" PROVE Keeps(metadata, q)'
    BY DEF KeepsAll
  <2>1. CASE q = p
    BY <1>0, <2>1 DEF Keeps, LastStatus, Blocked
  <2>2. CASE q # p
    BY <2>2 DEF NoRunYet, Keeps, KillOps, RunOps, PatchOps
  <2> QED BY <2>1, <2>2
<1>2. Mirrors(metadata)'
  <2> SUFFICES ASSUME NEW r \in Proc, NEW k \in Proc, op'[r] \in RunOps, pc'[r] = "done",
                      Precedes(r, k)'
               PROVE  FALSE
    BY DEF Mirrors
  <2>1. r = p
    BY DEF NoRunYet, KillOps, RunOps
  <2> QED BY <2>1 DEF Precedes, HistoryInv
<1> QED BY <1>1, <1>2 DEF Settled, Intact, Founded, Readable

\* Between two saves, and at them.
RunPlain == {"create_journal", "first_entry", "safety_checked", "safety_blocked",
             "blocked_completed", "paper_started", "heartbeat", "paper_completed",
             "backtest_started", "engine", "backtest_completed", "open_metrics",
             "flush_metrics", "open_report", "flush_report", "run_completed", "run_failed"}

LEMMA RunPlaces ==
    /\ OwnerPCs = RunPlain \cup Saves \cup {"copy_spec"}
    /\ OwnerPCs \ {"copy_spec"} = RunPlain \cup Saves
    /\ OwnerPCs \ (Saves \cup {"copy_spec"}) = RunPlain
    /\ RunPlain \cap Saves = {} /\ "done" \notin OwnerPCs
    /\ {"gate", "check_dir", "make_dir"} \cap OwnerPCs = {}
  BY DEF OwnerPCs, RunPCs, RunPlain, Saves

\* The lifecycle has to show that what it holds fits, and that it is in the file.
LEMMA RunGoes ==
    ASSUME NEW p \in Proc, pc[p] # "done", pc'[p] \in RunPlain \cup Saves,
           \A q \in Proc : q # p => /\ pc'[q] = pc[q] /\ op'[q] = op[q] /\ seen'[q] = seen[q]
                                    /\ before'[q] = before[q],
           runDir', NoRunYet, StatusFits(p)',
           pc'[p] = "flush_metadata" => metadata' = Empty,
           pc'[p] \in RunPlain => metadata' = held'[p]
    PROVE  KillKeeps(p)' /\ SectionKeeps(p)' /\ RunKeeps(p)'
<1>1. pc'[p] \notin KillPCs /\ pc'[p] \notin PatchPCs /\ pc'[p] # "done" /\ pc'[p] \in OwnerPCs
  BY RunPlaces, KindsApart DEF OwnerPCs, EndPCs
<1>2. KillKeeps(p)' /\ SectionKeeps(p)'
  BY <1>1 DEF KillKeeps, SectionKeeps, KillPCs, PatchPCs
<1>3. NoRunYet'
  BY <1>1, UpdatesStay
<1> QED BY <1>1, <1>2, <1>3, RunPlaces DEF RunKeeps

\* Nothing but the program counter, the journal and the artifacts changes.
LEMMA RunWorks ==
    ASSUME NEW p \in Proc, pc[p] \in RunPlain, pc'[p] \in RunPlain,
           \A q \in Proc : q # p => /\ pc'[q] = pc[q] /\ op'[q] = op[q] /\ seen'[q] = seen[q]
                                    /\ before'[q] = before[q],
           UNCHANGED <<runDir, metadata, op, seen, held>>, RunKeeps(p),
           /\ pc'[p] \in {"safety_blocked", "blocked_completed"} =>
                 held[p].status = "safety_blocked"
           /\ pc'[p] \in {"backtest_started", "engine", "backtest_completed"} =>
                 op[p] = "backtest"
           /\ pc'[p] \in {"open_metrics", "flush_metrics", "open_report", "flush_report"} =>
                 op[p] # "init" /\ (Blocked(p) => held[p].status = "safety_blocked")
           /\ pc'[p] = "run_completed" => held[p].status = "completed"
    PROVE  KillKeeps(p)' /\ SectionKeeps(p)' /\ RunKeeps(p)'
<1>1. pc[p] \in OwnerPCs \ {"copy_spec"} /\ pc[p] # "done" /\ pc'[p] # "flush_metadata"
  BY RunPlaces DEF Saves
<1>2. runDir /\ NoRunYet /\ StatusFits(p) /\ metadata = held[p]
  BY <1>1, RunPlaces DEF RunKeeps
<1>3. StatusFits(p)'
  BY <1>2 DEF StatusFits, Blocked
<1> QED BY <1>1, <1>2, <1>3, RunGoes

\* The lifecycle's steps before its first save.
LEMMA RunOpeningKeeps ==
    ASSUME OpsTypeInv, NEW p \in Proc, Moves(p), RunKeeps(p), op[p] \in RunOps, Started(p),
           Gate(p) \/ CheckDir(p) \/ MakeDir(p) \/ CopySpec(p),
           pc'[p] \notin {"failed", "refused", "crashed"}
    PROVE  pc'[p] # "done" /\ KillKeeps(p)' /\ SectionKeeps(p)' /\ RunKeeps(p)'
<1>2. /\ \A q \in Proc : q # p => /\ pc'[q] = pc[q] /\ op'[q] = op[q] /\ seen'[q] = seen[q]
                                  /\ before'[q] = before[q]
      /\ op' = op /\ pc[p] # "done"
      /\ pc \in [Proc -> PCs] /\ held \in [Proc -> MetaContent]
  BY StepFrame
<1>3. CASE Gate(p) \/ CheckDir(p)
  <2>1. /\ UNCHANGED <<runDir, metadata, stateFile>>
        /\ pc[p] \in {"gate", "check_dir"} /\ pc'[p] \in {"check_dir", "make_dir"}
    BY <1>2, <1>3 DEF Gate, CheckDir, Goto, files
  <2>2. Settled'
    BY <1>2, <2>1, SettledStays DEF RunKeeps
  <2>3. pc'[p] \notin KillPCs /\ pc'[p] \notin PatchPCs /\ pc'[p] \notin OwnerPCs
    BY <2>1 DEF KillPCs, PatchPCs, OwnerPCs, RunPCs
  <2> QED BY <2>1, <2>2, <2>3 DEF KillKeeps, SectionKeeps, RunKeeps, KillPCs, PatchPCs
<1>4. CASE MakeDir(p)
  <2>1. runDir' /\ ~runDir /\ pc[p] = "make_dir" /\ pc'[p] = "copy_spec"
    BY <1>2, <1>4 DEF MakeDir, Goto
  <2>2. NoRunYet
    BY <2>1 DEF RunKeeps, Settled, Intact, Founded
  <2>3. NoRunYet'
    BY <1>2, <2>1, <2>2, UpdatesStay
  <2>4. pc'[p] \notin KillPCs /\ pc'[p] \notin PatchPCs /\ pc'[p] \notin RunPlain \cup Saves
    BY <2>1 DEF KillPCs, PatchPCs, RunPlain, Saves
  <2> QED BY <2>1, <2>3, <2>4, RunPlaces DEF KillKeeps, SectionKeeps, RunKeeps, KillPCs, PatchPCs
<1>5. CASE CopySpec(p)
  <2>1. /\ UNCHANGED <<runDir, op, seen>> /\ pc[p] = "copy_spec" /\ pc'[p] = "open_metadata"
        /\ held'[p] = CASE op[p] = "init"     -> InitialMetadata
                        [] op[p] = "backtest" -> BacktestMetadata
                        [] op[p] = "paper"    -> PaperMetadata(p)
    BY <1>2, <1>5 DEF CopySpec, Goto
  <2>2. runDir /\ NoRunYet
    BY <2>1, RunPlaces DEF RunKeeps
  <2>3. held'[p].status \in {"initialized", "running"} /\ (op[p] = "init" => held'[p].status = "initialized")
    BY <2>1 DEF RunOps, InitialMetadata, BacktestMetadata, PaperMetadata
  <2>4. StatusFits(p)'
    BY <1>2, <2>1, <2>3 DEF StatusFits
  <2>5. pc'[p] \in RunPlain \cup Saves /\ pc'[p] \notin RunPlain
    BY <2>1 DEF RunPlain, Saves
  <2> QED BY <1>2, <2>1, <2>2, <2>4, <2>5, RunGoes
<1> QED BY <1>3, <1>4, <1>5

\* Its saves.
LEMMA RunSavesKeep ==
    ASSUME OpsTypeInv, NEW p \in Proc, Moves(p), RunKeeps(p), Started(p),
           OpenMetadata(p) \/ FlushMetadata(p)
    PROVE  pc'[p] # "done" /\ KillKeeps(p)' /\ SectionKeeps(p)' /\ RunKeeps(p)'
<1>2. /\ \A q \in Proc : q # p => /\ pc'[q] = pc[q] /\ op'[q] = op[q] /\ seen'[q] = seen[q]
                                  /\ before'[q] = before[q]
      /\ pc[p] # "done"
      /\ pc \in [Proc -> PCs] /\ held \in [Proc -> MetaContent]
  BY StepFrame
<1>3. /\ UNCHANGED <<runDir, op, seen, held>> /\ pc[p] \in Saves
  BY DEF OpenMetadata, FlushMetadata, Goto, Saves
<1>4. runDir /\ NoRunYet /\ StatusFits(p) /\ (pc[p] = "flush_metadata" => metadata = Empty)
  BY <1>3, RunPlaces DEF RunKeeps
<1>5. CASE OpenMetadata(p)
  <2>1. pc[p] = "open_metadata" /\ pc'[p] = "flush_metadata" /\ metadata' = Empty
    BY <1>2, <1>5 DEF OpenMetadata, Goto
  <2>2. StatusFits(p)'
    BY <1>3, <1>4, <2>1 DEF StatusFits, Blocked
  <2>3. pc'[p] \in RunPlain \cup Saves /\ pc'[p] \notin RunPlain
    BY <2>1 DEF RunPlain, Saves
  <2> QED BY <1>2, <1>3, <1>4, <2>1, <2>2, <2>3, RunGoes
<1>6. CASE FlushMetadata(p)
  <2>1. pc[p] = "flush_metadata" /\ pc'[p] = AfterMetadata(p) /\ metadata' \in Flush(metadata, held[p])
    BY <1>2, <1>6 DEF FlushMetadata, Goto
  <2>2. metadata' = held'[p]
    BY <1>3, <1>4, <2>1 DEF Flush
  <2>3. held[p].status \in RunStatuses
    BY <1>2 DEF MetaContent
  <2>4. /\ pc'[p] \in {"create_journal", "safety_blocked", "run_failed", "run_completed"}
        /\ pc'[p] = "safety_blocked" => held[p].status = "safety_blocked"
        /\ pc'[p] = "run_completed" => held[p].status = "completed"
    BY <2>1, <2>3 DEF AfterMetadata, RunStatuses
  <2>5. StatusFits(p)'
    BY <1>3, <1>4, <2>1, <2>4 DEF StatusFits, Blocked
  <2>6. pc'[p] \in RunPlain /\ pc'[p] # "flush_metadata" /\ pc'[p] # "done"
    BY <2>4 DEF RunPlain
  <2> QED BY <1>2, <1>3, <1>4, <2>2, <2>5, <2>6, RunGoes
<1> QED BY <1>5, <1>6

\* Its steps between two saves that leave the dict alone.
LEMMA RunPlainKeeps ==
    ASSUME OpsTypeInv, ExecInv, NEW p \in Proc, Moves(p), RunKeeps(p), Started(p),
           \/ CreateJournal(p) \/ RunStarted(p) \/ SafetyBlocked(p) \/ BlockedCompleted(p)
           \/ PaperStarted(p) \/ Heartbeat(p) \/ HeartbeatsDone(p) \/ PaperCompleted(p)
           \/ BacktestStarted(p) \/ EngineRun(p) \/ BacktestCompleted(p)
           \/ OpenMetrics(p) \/ FlushMetrics(p) \/ OpenReport(p)
    PROVE  pc'[p] # "done" /\ KillKeeps(p)' /\ SectionKeeps(p)' /\ RunKeeps(p)'
<1>2. /\ \A q \in Proc : q # p => /\ pc'[q] = pc[q] /\ op'[q] = op[q] /\ seen'[q] = seen[q]
                                  /\ before'[q] = before[q]
      /\ pc[p] # "done"
      /\ pc \in [Proc -> PCs] /\ held \in [Proc -> MetaContent]
  BY StepFrame
<1>3. UNCHANGED <<runDir, metadata, op, seen, held>>
  BY DEF CreateJournal, RunStarted, SafetyBlocked, BlockedCompleted, PaperStarted, Heartbeat,
     HeartbeatsDone, PaperCompleted, BacktestStarted, EngineRun, BacktestCompleted, OpenMetrics,
     FlushMetrics, OpenReport, LogStep, files
<1>4. /\ pc[p] \in RunPlain /\ pc'[p] \in RunPlain /\ pc'[p] # "done"
      /\ pc'[p] \notin {"safety_blocked", "run_completed"}
      /\ pc'[p] = "blocked_completed" => pc[p] = "safety_blocked"
      /\ pc'[p] = "backtest_started" => op[p] = "backtest"
      /\ pc'[p] \in {"engine", "backtest_completed"} => pc[p] \in {"backtest_started", "engine"}
      /\ pc'[p] \in {"open_metrics", "flush_metrics", "open_report", "flush_report"} =>
            pc[p] \in {"blocked_completed", "paper_completed", "backtest_completed",
                       "open_metrics", "flush_metrics", "open_report"}
  BY <1>2 DEF CreateJournal, RunStarted, SafetyBlocked, BlockedCompleted, PaperStarted, Heartbeat,
     HeartbeatsDone, PaperCompleted, BacktestStarted, EngineRun, BacktestCompleted, OpenMetrics,
     FlushMetrics, OpenReport, LogStep, Goto, RunPlain
<1>5. StatusFits(p)
  BY <1>4, RunPlaces DEF RunKeeps
<1>6. pc[p] = "paper_completed" => op[p] = "paper" /\ ~Blocked(p)
  BY DEF ExecInv, ExecutionPCs, Blocked
<1>7. pc'[p] \in {"open_metrics", "flush_metrics", "open_report", "flush_report"} =>
         op[p] # "init" /\ (Blocked(p) => held[p].status = "safety_blocked")
  BY <1>4, <1>5, <1>6 DEF StatusFits, Blocked
<1>8. /\ pc'[p] = "blocked_completed" => held[p].status = "safety_blocked"
      /\ pc'[p] \in {"engine", "backtest_completed"} => op[p] = "backtest"
  BY <1>4, <1>5 DEF StatusFits
<1> QED BY <1>2, <1>3, <1>4, <1>7, <1>8, RunWorks

\* Its turning points: the dict gets another status.
LEMMA RunTurnsKeep ==
    ASSUME OpsTypeInv, HistoryInv, ExecInv, NEW p \in Proc, Moves(p), RunKeeps(p), Started(p),
           op[p] \in RunOps,
           SafetyChecked(p) \/ Raise(p) \/ FlushReport(p)
    PROVE  /\ pc'[p] = "done" => Settled'
           /\ KillKeeps(p)' /\ SectionKeeps(p)' /\ RunKeeps(p)'
<1>2. /\ \A q \in Proc : q # p => /\ pc'[q] = pc[q] /\ op'[q] = op[q] /\ seen'[q] = seen[q]
                                  /\ before'[q] = before[q]
      /\ op' = op /\ before' = before /\ pc[p] # "done"
      /\ pc \in [Proc -> PCs] /\ held \in [Proc -> MetaContent]
      /\ \A m \in MetaContent : Readable(m)
  BY StepFrame
<1>3. UNCHANGED <<runDir, metadata, seen>> /\ pc[p] \in RunPlain
  BY DEF SafetyChecked, Raise, FlushReport, Goto, files, RunPlain
<1>4. runDir /\ NoRunYet /\ StatusFits(p) /\ metadata = held[p]
  BY <1>3, RunPlaces DEF RunKeeps
<1>5. ASSUME NEW status, held' = [held EXCEPT ![p].status = status]
      PROVE  held'[p].status = status
  BY <1>2, <1>5 DEF MetaContent
<1>6. ASSUME pc'[p] = "open_metadata", op[p] # "init",
             held'[p].status \in {"safety_blocked", "completed", "failed"},
             held'[p].status = "safety_blocked" => Blocked(p),
             held'[p].status = "completed" => ~Blocked(p)
      PROVE  pc'[p] # "done" /\ KillKeeps(p)' /\ SectionKeeps(p)' /\ RunKeeps(p)'
  <2>1. StatusFits(p)'
    BY <1>2, <1>3, <1>6 DEF StatusFits, Blocked
  <2>2. pc'[p] \in RunPlain \cup Saves /\ pc'[p] \notin RunPlain /\ pc'[p] # "flush_metadata"
    BY <1>6 DEF RunPlain, Saves
  <2> QED BY <1>2, <1>3, <1>4, <1>6, <2>1, <2>2, RunGoes
<1>7. CASE SafetyChecked(p)
  <2>1. op[p] = "paper" /\ pc[p] = "safety_checked"
    BY <1>7 DEF SafetyChecked, Goto, ExecInv
  <2>2. CASE Blocked(p)
    <3>1. pc'[p] = "open_metadata" /\ held'[p].status = "safety_blocked"
      BY <1>2, <1>5, <1>7, <2>2 DEF SafetyChecked, Goto
    <3> QED BY <1>6, <2>1, <2>2, <3>1
  <2>3. CASE ~Blocked(p)
    <3>1. pc'[p] = "paper_started" /\ held' = held
      BY <1>2, <1>7, <2>3 DEF SafetyChecked, Goto
    <3>2. pc'[p] \in RunPlain
      BY <3>1 DEF RunPlain
    <3> QED BY <1>2, <1>3, <3>1, <3>2, RunWorks
  <2> QED BY <2>2, <2>3
<1>8. CASE Raise(p)
  <2>1. pc'[p] = "open_metadata" /\ held'[p].status = "failed" /\ pc[p] \in {"heartbeat", "engine"}
    BY <1>2, <1>5, <1>8 DEF Raise
  <2>2. op[p] # "init"
    BY <1>4, <2>1 DEF ExecInv, ExecutionPCs, StatusFits
  <2> QED BY <1>6, <2>1, <2>2
<1>9. CASE FlushReport(p)
  <2>1. pc[p] = "flush_report"
    BY <1>9 DEF FlushReport, Goto
  <2>2. op[p] # "init" /\ (Blocked(p) => held[p].status = "safety_blocked")
    BY <1>4, <2>1 DEF StatusFits
  <2>3. CASE Blocked(p)
    <3>1. pc'[p] = "done"
      BY <1>2, <1>9, <2>3 DEF FlushReport, Goto
    <3>2. Readable(metadata) /\ metadata.status = LastStatus(p)
      BY <1>2, <1>4, <2>2, <2>3 DEF LastStatus
    <3>3. ~Ended(p)
      BY <2>1 DEF Ended, EndPCs
    <3>4. Settled'
      BY <1>2, <1>3, <1>4, <3>1, <3>2, <3>3, RunEnds
    <3>5. pc'[p] \in EndPCs \cup {"idle"}
      BY <3>1 DEF EndPCs
    <3> QED BY <3>4, <3>5, IdleKeeps
  <2>4. CASE ~Blocked(p)
    <3>1. pc'[p] = "open_metadata" /\ held'[p].status = "completed"
      BY <1>2, <1>5, <1>9, <2>4 DEF FlushReport, Goto
    <3> QED BY <1>6, <2>2, <2>4, <3>1
  <2> QED BY <2>3, <2>4
<1> QED BY <1>7, <1>8, <1>9

\* Its last lines.
LEMMA RunClosesKeep ==
    ASSUME OpsTypeInv, HistoryInv, NEW p \in Proc, Moves(p), RunKeeps(p), Started(p),
           op[p] \in RunOps, RunInitialized(p) \/ RunCompleted(p)
    PROVE  /\ pc'[p] = "done" => Settled'
           /\ KillKeeps(p)' /\ SectionKeeps(p)' /\ RunKeeps(p)'
<1>2. /\ \A q \in Proc : q # p => pc'[q] = pc[q]
      /\ op' = op /\ before' = before
      /\ pc \in [Proc -> PCs] /\ held \in [Proc -> MetaContent]
      /\ \A m \in MetaContent : Readable(m)
  BY StepFrame
<1>3. /\ UNCHANGED <<runDir, metadata, seen>> /\ pc[p] \in RunPlain
      /\ pc[p] = "run_completed" \/ op[p] = "init"
      /\ pc'[p] = "done" /\ ~Ended(p)
  BY <1>2 DEF RunInitialized, RunCompleted, LogStep, Goto, RunPlain, Ended, EndPCs
<1>4. runDir /\ NoRunYet /\ StatusFits(p) /\ metadata = held[p]
  BY <1>3, RunPlaces DEF RunKeeps
<1>5. Readable(metadata) /\ metadata.status = LastStatus(p)
  BY <1>2, <1>3, <1>4 DEF StatusFits, LastStatus
<1>6. Settled'
  BY <1>2, <1>3, <1>4, <1>5, RunEnds
<1>7. pc'[p] \in EndPCs \cup {"idle"}
  BY <1>3 DEF EndPCs
<1> QED BY <1>6, <1>7, IdleKeeps

\* A lifecycle keeps what it has to keep.
LEMMA RunStepKeeps ==
    ASSUME OpsTypeInv, HistoryInv, ExecInv, NEW p \in Proc, Moves(p), RunStep(p), RunKeeps(p),
           pc'[p] \notin {"failed", "refused", "crashed"}
    PROVE  /\ pc'[p] = "done" => Settled'
           /\ KillKeeps(p)' /\ SectionKeeps(p)' /\ RunKeeps(p)'
<1>1. op[p] \in RunOps /\ Started(p) /\ pc \in [Proc -> PCs]
  BY RunStepMoves, StepsAreLive DEF OpsTypeInv, OpsFit, OpsTypeOK, TypeOK
<1>2. ~RunFailed(p)
  BY <1>1 DEF RunFailed, LogStep, Goto
<1> QED BY <1>1, <1>2, RunOpeningKeeps, RunSavesKeep, RunPlainKeeps, RunTurnsKeep, RunClosesKeep
     DEF RunStep

\* So the whole program keeps what serial commands have done.
LEMMA StepSerial ==
    ASSUME OpsTypeInv, HistoryInv, ExecInv, SerialInv, NEW p \in Proc, Moves(p)
    PROVE  SerialInv'
<1>1. CASE KillBegin(p) \/ RunBegin(p) \/ PatchBegin(p)
  BY <1>1, SerialBegins
<1>2. CASE KillStep(p)
  <2>1. Started(p)
    BY <1>2 DEF KillStep, AppendEvent, AppendKillEntry, OpenState, FlushState, PatchRead,
       PatchStatus, PatchOpen, PatchFlush, Goto, Started
  <2> QED BY <1>2, <2>1, GateEnters, KillStepKeeps, SerialMoves
<1>3. CASE RunStep(p)
  <2>1. Started(p)
    BY <1>3, RunStepMoves, StepsAreLive
  <2> QED BY <1>3, <2>1, GateEnters, RunStepKeeps, SerialMoves
<1>4. CASE PatchStep(p)
  <2>1. Started(p)
    BY <1>4, PatchStepMoves, StepsAreLive
  <2> QED BY <1>4, <2>1, GateEnters, SectionStepKeeps, SerialMoves
<1>5. CASE Crash(p)
  <2>1. pc'[p] = "crashed" /\ Started(p)
    BY <1>5 DEF Crash, OpsTypeInv, OpsTypeOK, TypeOK
  <2> QED BY <2>1, GateEnters, SerialMoves
<1> QED BY <1>1, <1>2, <1>3, <1>4, <1>5 DEF Moves

\* At rest, what is kept is what SerialKeepsUpdates asks for.
LEMMA SerialFollows ==
    ASSUME SerialInv, HistoryInv
    PROVE  SerialKeepsUpdates
<1> SUFFICES ASSUME SerialHistory, AtRest, NEW p \in Proc, pc[p] = "done"
             PROVE  /\ op[p] \in PatchOps => op[p] \in metadata.sections
                    /\ op[p] \in {"backtest", "paper"} =>
                          metadata.status = IF Blocked(p) THEN "safety_blocked" ELSE "completed"
                    /\ op[p] = "init" => metadata.status = "initialized"
                    /\ op[p] \in RunOps =>
                          \A k \in Proc : op[k] \in KillOps /\ Precedes(p, k) =>
                             metadata.safety = stateFile.state
  BY DEF SerialKeepsUpdates, AtRest
<1>1. Settled
  BY DEF SerialInv
<1>2. op[p] \in PatchOps \cup RunOps => Readable(metadata) /\ Keeps(metadata, p) /\ Mirrors(metadata)
  BY <1>1 DEF Settled, Intact, NoRunYet, KeepsAll, KillOps, RunOps, PatchOps
<1>3. ASSUME op[p] \in RunOps, NEW k \in Proc, op[k] \in KillOps, Precedes(p, k)
      PROVE  metadata.safety = stateFile.state
  <2>1. pc[k] = "done"
    <3>1. Started(k)
      BY <1>3 DEF HistoryInv, Started, KillOps
    <3> QED BY <3>1 DEF AtRest, SerialHistory, Ended, EndPCs
  <2> QED BY <1>2, <1>3, <2>1 DEF Mirrors
<1> QED BY <1>2, <1>3 DEF Keeps, LastStatus, RunOps

LEMMA SerialInvInit == Init => SerialInv
<1> SUFFICES ASSUME Init PROVE SerialInv
  OBVIOUS
<1>1. metadata = Absent /\ \A p \in Proc : pc[p] = "idle"
  BY DEF Init, FreshInit, ProcInit
<1>2. Settled
  BY <1>1 DEF Settled, Intact, Founded, NoRunYet, Readable, NoFile
<1>3. \A p \in Proc : pc[p] \notin KillPCs \cup OwnerPCs \cup PatchPCs
  BY <1>1, KindsApart DEF OwnerPCs
<1>4. ASSUME NEW p \in Proc PROVE KillKeeps(p) /\ SectionKeeps(p) /\ RunKeeps(p)
  BY <1>1, <1>3 DEF KillKeeps, SectionKeeps, RunKeeps
<1> QED BY <1>2, <1>4 DEF SerialInv

LEMMA SerialInvNext == OpsTypeInv /\ PassInv /\ SerialInv /\ [Next]_vars => SerialInv'
<1> SUFFICES ASSUME OpsTypeInv, PassInv, SerialInv, [Next]_vars PROVE SerialInv'
  OBVIOUS
<1>1. CASE Next
  <2>1. PICK p \in Proc : Moves(p)
    BY <1>1, NextCases DEF Moves
  <2> QED BY <2>1, StepSerial DEF PassInv, DurableInv
<1>2. CASE UNCHANGED vars
  BY <1>2 DEF vars, workspace, files, procs, SerialInv, SerialHistory, AtRest, Started, Ended,
     Precedes, Settled, Intact, Founded, NoRunYet, KeepsAll, Keeps, LastStatus, Blocked, Mirrors,
     Readable, KillKeeps, SectionKeeps, RunKeeps, StatusFits
<1> QED BY <1>1, <1>2

\* Commands that do not overlap and do not fail lose none of each other's updates to
\* metadata.json: for any number of them, in any order.
THEOREM SerialUpdatesKept == Spec => []SerialKeepsUpdates
<1>1. PassInv /\ SerialInv => SerialKeepsUpdates
  BY SerialFollows DEF PassInv, DurableInv
<1> QED BY <1>1, SerialInvInit, SerialInvNext, PassAlways, PTL DEF Spec
=============================================================================
