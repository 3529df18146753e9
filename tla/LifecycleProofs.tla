-------------------------- MODULE LifecycleProofs --------------------------
(***************************************************************************)
(* Proofs about what a run leaves behind: the evidence behind report       *)
(* sections and metadata keys, the status and outcome of metadata.json,    *)
(* and the journal as an implementation of RunPhases.                      *)
(***************************************************************************)
EXTENDS OpsLabProofs, FiniteSetTheorems

(* Connectivity evidence *)

\* The command has written its artifact, its journal line.
WithArtifact == {"artifact_flush", "section_read", "section_open", "section_flush",
                 "section_entry"}
WithLine == {"report_read", "report_open", "report_flush"}

\* What SectionsBacked rests on: copies in memory are backed as the files are, and a
\* command on its way has written what comes before.
CopiesBacked ==
    \A p \in Proc, o \in PatchOps :
        /\ o \in text[p].sections => Logged(PatchEntryName(o))
        /\ o \in held[p].sections => connFile[o] # Absent
        /\ op[p] = o /\ pc[p] \in WithArtifact => connFile[o] # Absent
        /\ op[p] = o /\ pc[p] \in WithLine => Logged(PatchEntryName(o))

BackedInv == SectionsBacked /\ CopiesBacked

\* An entry that was logged is logged.
LEMMA LoggedStays ==
    ASSUME OpsTypeInv, NEW p \in Proc, Moves(p), NEW event, Logged(event)
    PROVE  Logged(event)'
<1>1. Entries \subseteq Entries'
  BY StepEntries
<1> QED BY <1>1 DEF Logged

\* What is logged now was logged, or p has just written it.
LEMMA LoggedNews ==
    ASSUME OpsTypeInv, NEW p \in Proc, Moves(p), NEW event, Logged(event)'
    PROVE  Logged(event) \/ Writes(p, event)
<1>1. PICK e \in Entries' : e.event = event
  BY DEF Logged
<1>2. CASE e \in Entries
  BY <1>1, <1>2 DEF Logged
<1>3. CASE e \notin Entries
  BY <1>1, <1>3, StepEntries DEF Line
<1> QED BY <1>2, <1>3

LEMMA BackedFrame ==
    ASSUME OpsTypeInv, BackedInv, NEW p \in Proc, Moves(p),
           \A o \in PatchOps : connFile[o] # Absent => connFile'[o] # Absent,
           \A o \in PatchOps :
              Logged(PatchEntryName(o))' => Logged(PatchEntryName(o)) \/ connFile'[o] # Absent,
           \A o \in PatchOps : o \in text'[p].sections => Logged(PatchEntryName(o))',
           \A o \in PatchOps : o \in held'[p].sections => connFile'[o] # Absent,
           \A o \in PatchOps : op'[p] = o /\ pc'[p] \in WithArtifact => connFile'[o] # Absent,
           \A o \in PatchOps : op'[p] = o /\ pc'[p] \in WithLine => Logged(PatchEntryName(o))',
           Readable(metadata') => metadata' = metadata \/ metadata' = held[p],
           report' # Absent =>
              \/ report' = report
              \/ report'.sections = {}
              \/ report'.sections = text[p].sections
    PROVE  BackedInv'
<1>1. \A o \in PatchOps : Logged(PatchEntryName(o)) => Logged(PatchEntryName(o))'
  BY LoggedStays DEF PatchEntryName
<1>2. \A q \in Proc : q # p => /\ pc'[q] = pc[q] /\ op'[q] = op[q] /\ held'[q] = held[q]
                               /\ text'[q] = text[q]
  BY OthersKeep
<1>3. CopiesBacked'
  <2> SUFFICES ASSUME NEW q \in Proc, NEW o \in PatchOps
               PROVE  /\ o \in text'[q].sections => Logged(PatchEntryName(o))'
                      /\ o \in held'[q].sections => connFile'[o] # Absent
                      /\ op'[q] = o /\ pc'[q] \in WithArtifact => connFile'[o] # Absent
                      /\ op'[q] = o /\ pc'[q] \in WithLine => Logged(PatchEntryName(o))'
    BY DEF CopiesBacked, PatchEntryName
  <2>1. CASE q = p
    BY <2>1
  <2>2. CASE q # p
    BY <1>1, <1>2, <2>2 DEF BackedInv, CopiesBacked
  <2> QED BY <2>1, <2>2
<1>4. SectionsBacked'
  <2> SUFFICES ASSUME NEW o \in PatchOps
               PROVE  /\ report' # Absent /\ o \in report'.sections => Logged(PatchEntryName(o))'
                      /\ Logged(PatchEntryName(o))' => connFile'[o] # Absent
                      /\ Readable(metadata') /\ o \in metadata'.sections => connFile'[o] # Absent
    BY DEF SectionsBacked, PatchEntryName, Readable
  <2>1. report' # Absent /\ o \in report'.sections => Logged(PatchEntryName(o))'
    BY <1>1 DEF BackedInv, SectionsBacked, CopiesBacked
  <2>2. Logged(PatchEntryName(o))' => connFile'[o] # Absent
    BY DEF BackedInv, SectionsBacked
  <2>3. Readable(metadata') /\ o \in metadata'.sections => connFile'[o] # Absent
    BY DEF BackedInv, SectionsBacked, CopiesBacked
  <2> QED BY <2>1, <2>2, <2>3
<1> QED BY <1>3, <1>4 DEF BackedInv

\* A lifecycle writes no connectivity sections: what it holds keeps its sections or has
\* none, what it saves is what it holds, and the report it renders is bare.
LEMMA RunStepSections ==
    ASSUME OpsTypeInv, NEW p \in Proc, RunStep(p)
    PROVE  /\ held'[p].sections \subseteq held[p].sections
           /\ metadata' \in {metadata, Empty, Garbled, held[p]}
           /\ report' = report \/ report'.sections = {}
<1>0. held \in [Proc -> MetaContent] /\ op[p] \in Ops \cup {"none"}
  BY DEF OpsTypeInv, OpsTypeOK, TypeOK
<1>a. ASSUME NEW status, held' = [held EXCEPT ![p].status = status]
      PROVE  held'[p].sections = held[p].sections
  BY <1>0, <1>a DEF MetaContent
<1>1. CASE \/ Gate(p) \/ CheckDir(p) \/ MakeDir(p) \/ OpenMetadata(p) \/ FlushMetadata(p)
           \/ CreateJournal(p) \/ Heartbeat(p) \/ HeartbeatsDone(p) \/ EngineRun(p)
  BY <1>1, FlushResult DEF Gate, CheckDir, MakeDir, OpenMetadata, FlushMetadata, CreateJournal,
     Heartbeat, HeartbeatsDone, EngineRun, files
<1>2. CASE \/ RunInitialized(p) \/ RunStarted(p) \/ SafetyBlocked(p) \/ BlockedCompleted(p)
           \/ PaperStarted(p) \/ PaperCompleted(p) \/ BacktestStarted(p)
           \/ BacktestCompleted(p) \/ RunFailed(p) \/ RunCompleted(p)
  BY <1>2 DEF RunInitialized, RunStarted, SafetyBlocked, BlockedCompleted, PaperStarted,
     PaperCompleted, BacktestStarted, BacktestCompleted, RunFailed, RunCompleted, LogStep
<1>3. CASE OpenMetrics(p) \/ FlushMetrics(p) \/ OpenReport(p)
  BY <1>3 DEF OpenMetrics, FlushMetrics, OpenReport, EmptyReport
<1>4. CASE SafetyChecked(p) \/ Raise(p)
  BY <1>4, <1>a DEF SafetyChecked, Raise, files
<1>5. CASE FlushReport(p)
  <2>1. PICK body \in {"completed", "safety_blocked"} :
           report' \in FlushText(report, [EmptyReport EXCEPT !.body = body])
    BY <1>5 DEF FlushReport
  <2>2. report'.sections = {}
    <3> DEFINE t == [EmptyReport EXCEPT !.body = body]
    <3>1. t \in ReportContent /\ t.sections = {}
      BY DEF EmptyReport, ReportContent
    <3> HIDE DEF t
    <3>2. report' \in FlushText(report, t)
      BY <2>1 DEF t
    <3> QED BY <3>1, <3>2, FlushTextType
  <2> QED BY <1>5, <1>a, <2>2 DEF FlushReport
<1>6. CASE CopySpec(p)
  <2>1. op[p] \in RunOps
    BY <1>6 DEF CopySpec, Goto, OpsTypeInv, OpsFit, RunPCs
  <2>2. held'[p].sections = {}
    BY <1>0, <1>6, <2>1
       DEF CopySpec, RunOps, BacktestMetadata, PaperMetadata, InitialMetadata
  <2> QED BY <1>6, <2>2 DEF CopySpec
<1> QED BY <1>1, <1>2, <1>3, <1>4, <1>5, <1>6 DEF RunStep

\* Mkdir or a crash apart, no lifecycle or kill switch counter is a connectivity one.
LEMMA SectionPCs ==
    /\ WithArtifact \subseteq PatchPCs /\ WithLine \subseteq PatchPCs
    /\ WithArtifact \cap WithLine = {}
  BY DEF WithArtifact, WithLine, PatchPCs

LEMMA BackedRun ==
    ASSUME OpsTypeInv, BackedInv, NEW p \in Proc, RunStep(p), UNCHANGED connVars
    PROVE  BackedInv'
<1>0. pc \in [Proc -> PCs] /\ Moves(p)
  BY DEF OpsTypeInv, OpsTypeOK, TypeOK, Moves
<1>1. pc'[p] \notin WithArtifact \cup WithLine
  BY <1>0, RunStepMoves, SectionPCs, KindsApart
<1>2. ASSUME NEW o \in PatchOps, Logged(PatchEntryName(o))'
      PROVE  Logged(PatchEntryName(o)) \/ connFile'[o] # Absent
  <2>1. pc[p] \in RunPCs /\ PatchEntryName(o) \notin RunEntries
    BY RunStepMoves DEF PatchEntryName, RunEntries
  <2>2. ~Writes(p, PatchEntryName(o))
    BY <2>1 DEF Writes, RunPCs, PatchEntryName
  <2> QED BY <1>0, <1>2, <2>2, LoggedNews DEF PatchEntryName
<1>3. \A o \in PatchOps : Logged(PatchEntryName(o)) => Logged(PatchEntryName(o))'
  BY <1>0, LoggedStays DEF PatchEntryName
<1>4. \A o \in PatchOps : o \in text'[p].sections => Logged(PatchEntryName(o))'
  BY <1>3 DEF connVars, BackedInv, CopiesBacked
<1>5. \A o \in PatchOps : o \in held'[p].sections => connFile'[o] # Absent
  BY RunStepSections DEF connVars, BackedInv, CopiesBacked
<1>6. /\ Readable(metadata') => metadata' = metadata \/ metadata' = held[p]
      /\ report' # Absent => report' = report \/ report'.sections = {}
  BY RunStepSections DEF Readable, NoFile
<1> QED BY <1>0, <1>1, <1>2, <1>4, <1>5, <1>6, BackedFrame DEF connVars

LEMMA BackedKill ==
    ASSUME OpsTypeInv, BackedInv, NEW p \in Proc, KillBegin(p) \/ KillStep(p) \/ Crash(p),
           UNCHANGED <<beat, connVars>>
    PROVE  BackedInv'
<1>0. /\ pc \in [Proc -> PCs] /\ held \in [Proc -> MetaContent] /\ Moves(p)
      /\ metadata \in MetaContent \cup NoFile
  BY DEF OpsTypeInv, OpsTypeOK, TypeOK, Moves
<1>1. pc'[p] \notin WithArtifact \cup WithLine
  <2>1. pc'[p] \in KillPCs \cup EndPCs
    BY <1>0 DEF KillBegin, ReadStatus, Begin, KillStep, AppendEvent, AppendKillEntry, OpenState,
       FlushState, PatchRead, PatchStatus, PatchOpen, PatchFlush, Crash, Goto, KillPCs, EndPCs
  <2> QED BY <2>1, SectionPCs, KindsApart
<1>2. ASSUME NEW o \in PatchOps, Logged(PatchEntryName(o))'
      PROVE  Logged(PatchEntryName(o))
  <2>1. pc[p] \notin PatchPCs \/ Crash(p)
    BY DEF KillBegin, ReadStatus, Begin, KillStep, AppendEvent, AppendKillEntry, OpenState,
       FlushState, PatchRead, PatchStatus, PatchOpen, PatchFlush, Goto, PatchPCs
  <2>2. CASE Crash(p)
    BY <1>2, <2>2 DEF Crash, files, Logged, Entries
  <2>3. CASE pc[p] \notin PatchPCs
    <3>1. KillStep(p) \/ KillBegin(p) => pc[p] \in KillPCs \cup {"idle"}
      BY DEF KillBegin, ReadStatus, Begin, KillStep, AppendEvent, AppendKillEntry, OpenState,
         FlushState, PatchRead, PatchStatus, PatchOpen, PatchFlush, Goto, KillPCs
    <3>2. Crash(p) \/ ~Writes(p, PatchEntryName(o))
      BY <2>3, <3>1 DEF Writes, KillPCs, PatchEntryName, KillEntries
    <3> QED BY <1>0, <1>2, <2>2, <3>2, LoggedNews DEF PatchEntryName
  <2> QED BY <2>1, <2>2, <2>3
<1>3. \A o \in PatchOps : Logged(PatchEntryName(o)) => Logged(PatchEntryName(o))'
  BY <1>0, LoggedStays DEF PatchEntryName
<1>4. /\ held'[p].sections = held[p].sections \/ (Readable(metadata) /\ held'[p].sections = metadata.sections)
      /\ metadata' \in {metadata, Empty, Garbled, held[p]}
      /\ report' = report
  <2>1. CASE PatchRead(p)
    BY <1>0, <2>1 DEF PatchRead, files, Readable
  <2>2. CASE PatchStatus(p)
    <3>1. held'[p].sections = held[p].sections
      BY <1>0, <2>2 DEF PatchStatus, MetaContent
    <3> QED BY <2>2, <3>1 DEF PatchStatus, files
  <2>3. CASE PatchOpen(p) \/ PatchFlush(p)
    BY <2>3, FlushResult DEF PatchOpen, PatchFlush
  <2>4. CASE \/ KillBegin(p) \/ AppendEvent(p) \/ AppendKillEntry(p) \/ OpenState(p)
             \/ FlushState(p) \/ Crash(p)
    BY <2>4 DEF KillBegin, ReadStatus, AppendEvent, AppendKillEntry, OpenState, FlushState, Crash,
       files
  <2> QED BY <2>1, <2>2, <2>3, <2>4 DEF KillStep
<1>5. \A o \in PatchOps : o \in text'[p].sections => Logged(PatchEntryName(o))'
  BY <1>3 DEF connVars, BackedInv, CopiesBacked
<1>6. \A o \in PatchOps : o \in held'[p].sections => connFile'[o] # Absent
  BY <1>4 DEF connVars, BackedInv, CopiesBacked, SectionsBacked
<1>7. Readable(metadata') => metadata' = metadata \/ metadata' = held[p]
  BY <1>4 DEF Readable, NoFile
<1> QED BY <1>0, <1>1, <1>2, <1>4, <1>5, <1>6, <1>7, BackedFrame DEF connVars

LEMMA BackedBegin ==
    ASSUME OpsTypeInv, BackedInv, NEW p \in Proc, RunBegin(p) \/ PatchBegin(p),
           UNCHANGED <<files, seen, held, beat, connVars>>
    PROVE  BackedInv'
<1>0. pc \in [Proc -> PCs] /\ Moves(p)
  BY DEF OpsTypeInv, OpsTypeOK, TypeOK, Moves
<1>1. pc'[p] \notin WithArtifact \cup WithLine
  BY <1>0 DEF RunBegin, PatchBegin, Begin, Goto, WithArtifact, WithLine
<1>2. \A o \in PatchOps : Logged(PatchEntryName(o))' <=> Logged(PatchEntryName(o))
  BY DEF Logged, Entries, files, PatchEntryName
<1> QED BY <1>0, <1>1, <1>2, BackedFrame DEF connVars, files, BackedInv, CopiesBacked

\* A file once written is never missing again.
LEMMA ArtifactStays ==
    ASSUME OpsTypeInv, NEW p \in Proc, PatchStep(p), NEW o \in PatchOps, connFile[o] # Absent
    PROVE  connFile'[o] # Absent
<1>0. connFile \in [PatchOps -> Proc \cup NoFile] /\ Empty # Absent /\ Garbled # Absent /\ p # Absent
  BY FileAssumption DEF OpsTypeInv, OpsTypeOK, ConnTypeOK, NoFile
<1>1. CASE ArtifactOpen(p)
  BY <1>0, <1>1 DEF ArtifactOpen
<1>2. CASE ArtifactFlush(p)
  <2>1. PICK f : connFile' = [connFile EXCEPT ![op[p]] = f] /\ (f = p \/ f = Garbled)
    BY <1>2, FlushResult DEF ArtifactFlush
  <2> QED BY <1>0, <2>1
<1>3. CASE ~(ArtifactOpen(p) \/ ArtifactFlush(p))
  BY <1>3 DEF PatchStep, CheckFiles, InvalidTarget, SectionRead, SectionOpen, SectionFlush,
     SectionEntry, ReportRead, ReportOpen, ReportFlush, connVars
<1> QED BY <1>1, <1>2, <1>3

\* The copies that a connectivity step makes, and what it saves.
LEMMA PatchStepCopies ==
    ASSUME OpsTypeInv, NEW p \in Proc, PatchStep(p)
    PROVE  /\ \/ held' = held
              \/ /\ pc[p] = "section_read" /\ Readable(metadata)
                 /\ held'[p].sections = metadata.sections \cup {op[p]}
           /\ \/ text' = text
              \/ /\ pc[p] = "report_read" /\ report # Absent
                 /\ text'[p].sections = report.sections \cup {op[p]}
           /\ Readable(metadata') => metadata' = metadata \/ metadata' = held[p]
           /\ \/ report' = report
              \/ report'.sections = {}
              \/ report'.sections = text[p].sections
<1>0. /\ held \in [Proc -> MetaContent] /\ text \in [Proc -> ReportContent]
      /\ metadata \in MetaContent \cup NoFile /\ report \in ReportContent \cup {Absent}
      /\ pc[p] \in PatchPCs \ {"check_files"} => metadata # Absent
  BY DEF OpsTypeInv, OpsTypeOK, TypeOK, ConnTypeOK, PresentInv
<1>1. CASE SectionRead(p)
  <2>1. pc[p] = "section_read" /\ metadata # Absent
    BY <1>0, <1>1 DEF SectionRead, Goto, PatchPCs
  <2>2. CASE Malformed(metadata)
    BY <1>1, <2>2 DEF SectionRead, files, connVars
  <2>3. CASE ~Malformed(metadata)
    <3>1. metadata \in MetaContent /\ Readable(metadata)
      BY <1>0, <2>1, <2>3, FileAssumption DEF Malformed, Readable, NoFile
    <3>2. held' = [held EXCEPT ![p] = [metadata EXCEPT !.sections = @ \cup {op[p]}]]
      BY <1>1, <2>3 DEF SectionRead
    <3>3. held'[p].sections = metadata.sections \cup {op[p]}
      BY <1>0, <3>1, <3>2 DEF MetaContent
    <3> QED BY <1>1, <2>1, <3>1, <3>3 DEF SectionRead, files, connVars
  <2> QED BY <2>2, <2>3
<1>2. CASE ReportRead(p)
  <2>1. CASE report = Absent
    BY <1>2, <2>1 DEF ReportRead, files
  <2>2. CASE report # Absent
    <3>1. text'[p].sections = report.sections \cup {op[p]}
      BY <1>0, <1>2, <2>2 DEF ReportRead, ReportContent
    <3> QED BY <1>2, <2>2, <3>1 DEF ReportRead, Goto, files
  <2> QED BY <2>1, <2>2
<1>3. CASE SectionOpen(p) \/ SectionFlush(p)
  <2>1. metadata' = Empty \/ metadata' = held[p] \/ metadata' = Garbled
    BY <1>3, FlushResult DEF SectionOpen, SectionFlush
  <2> QED BY <1>3, <2>1 DEF SectionOpen, SectionFlush, connVars, Readable, NoFile
<1>4. CASE ReportOpen(p)
  BY <1>4 DEF ReportOpen, connVars, EmptyReport
<1>5. CASE ReportFlush(p)
  <2>1. report'.sections = text[p].sections
    BY <1>0, <1>5, FlushTextType DEF ReportFlush
  <2> QED BY <1>5, <2>1 DEF ReportFlush, connVars
<1>6. CASE CheckFiles(p) \/ InvalidTarget(p) \/ ArtifactOpen(p) \/ ArtifactFlush(p) \/ SectionEntry(p)
  BY <1>6 DEF CheckFiles, InvalidTarget, ArtifactOpen, ArtifactFlush, SectionEntry, files, connVars
<1> QED BY <1>1, <1>2, <1>3, <1>4, <1>5, <1>6 DEF PatchStep

\* The order in which a connectivity command writes: artifact, key, line, section.
LEMMA PatchStepOrder ==
    ASSUME OpsTypeInv, BackedInv, NEW p \in Proc, PatchStep(p), Moves(p)
    PROVE  /\ pc'[p] \in WithArtifact => connFile'[op[p]] # Absent
           /\ pc'[p] \in WithLine => Logged(PatchEntryName(op[p]))'
<1>0. /\ pc \in [Proc -> PCs] /\ connFile \in [PatchOps -> Proc \cup NoFile] /\ op[p] \in PatchOps
      /\ Empty # Absent /\ op' = op
  BY PatchStepMoves, FileAssumption DEF OpsTypeInv, OpsTypeOK, TypeOK, ConnTypeOK, OpsFit
<1>1. \A o \in PatchOps : connFile[o] # Absent => connFile'[o] # Absent
  BY ArtifactStays
<1>2. \A o \in PatchOps : Logged(PatchEntryName(o)) => Logged(PatchEntryName(o))'
  BY LoggedStays DEF PatchEntryName
<1>3. CASE ArtifactOpen(p)
  BY <1>0, <1>3 DEF ArtifactOpen, Goto, WithLine
<1>4. CASE SectionEntry(p)
  <2>1. PICK event \in PatchEntries : event = PatchEntryName(op[p])
    BY DEF PatchEntryName, PatchEntries
  <2>2. pc[p] = "section_entry" /\ journal # Absent
    BY <1>4 DEF SectionEntry, Goto, OpsTypeInv, PresentInv, PatchPCs
  <2>3. Entries' = Entries \cup {Line(p, event)}
    BY <1>4, <2>1, <2>2, EntriesGrow DEF SectionEntry, Line
  <2>4. Logged(event)'
    <3>1. Line(p, event) \in Entries' /\ Line(p, event).event = event
      BY <2>3 DEF Line
    <3> QED BY <3>1 DEF Logged
  <2>5. pc'[p] = "report_read"
    BY <1>0, <1>4 DEF SectionEntry, Goto
  <2> QED BY <1>0, <2>1, <2>4, <2>5 DEF WithArtifact, PatchEntryName
<1>5. CASE ~(ArtifactOpen(p) \/ SectionEntry(p))
  <2>1. /\ pc'[p] \in WithArtifact => pc[p] \in WithArtifact
        /\ pc'[p] \in WithLine => pc[p] \in WithLine
    BY <1>0, <1>5 DEF PatchStep, CheckFiles, InvalidTarget, ArtifactFlush, SectionRead,
       SectionOpen, SectionFlush, ReportRead, ReportOpen, ReportFlush, Goto, WithArtifact, WithLine
  <2>2. /\ pc[p] \in WithArtifact => connFile[op[p]] # Absent
        /\ pc[p] \in WithLine => Logged(PatchEntryName(op[p]))
    BY <1>0 DEF BackedInv, CopiesBacked
  <2> QED BY <1>0, <1>1, <1>2, <2>1, <2>2 DEF PatchEntryName
<1> QED BY <1>3, <1>4, <1>5

LEMMA BackedPatch ==
    ASSUME OpsTypeInv, BackedInv, NEW p \in Proc, PatchStep(p), UNCHANGED beat
    PROVE  BackedInv'
<1>0. Moves(p) /\ op' = op /\ op[p] \in PatchOps
  BY PatchStepMoves DEF Moves, OpsTypeInv, OpsFit
<1>1. \A o \in PatchOps : connFile[o] # Absent => connFile'[o] # Absent
  BY ArtifactStays
<1>2. \A o \in PatchOps : Logged(PatchEntryName(o)) => Logged(PatchEntryName(o))'
  BY <1>0, LoggedStays DEF PatchEntryName
<1>3. ASSUME NEW o \in PatchOps, Logged(PatchEntryName(o))'
      PROVE  Logged(PatchEntryName(o)) \/ connFile'[o] # Absent
  <2>1. CASE Writes(p, PatchEntryName(o))
    <3>1. pc[p] = "section_entry" /\ o = op[p]
      BY <1>0, <2>1, PatchStepMoves
         DEF Writes, PatchEntryName, PatchOps, PatchPCs, KillEntries
    <3> QED BY <1>1, <3>1 DEF BackedInv, CopiesBacked, WithArtifact
  <2> QED BY <1>0, <1>3, <2>1, LoggedNews DEF PatchEntryName
<1>4. \A o \in PatchOps : o \in text'[p].sections => Logged(PatchEntryName(o))'
  <2>1. pc[p] = "report_read" => Logged(PatchEntryName(op[p]))
    BY <1>0 DEF BackedInv, CopiesBacked, WithLine
  <2> QED BY <1>2, <2>1, PatchStepCopies DEF BackedInv, CopiesBacked, SectionsBacked, PatchEntryName
<1>5. \A o \in PatchOps : o \in held'[p].sections => connFile'[o] # Absent
  <2>1. pc[p] = "section_read" => connFile[op[p]] # Absent
    BY <1>0 DEF BackedInv, CopiesBacked, WithArtifact
  <2> QED BY <1>1, <2>1, PatchStepCopies DEF BackedInv, CopiesBacked, SectionsBacked
<1>6. /\ \A o \in PatchOps : op'[p] = o /\ pc'[p] \in WithArtifact => connFile'[o] # Absent
      /\ \A o \in PatchOps : op'[p] = o /\ pc'[p] \in WithLine => Logged(PatchEntryName(o))'
  BY <1>0, PatchStepOrder DEF PatchEntryName
<1> QED BY <1>0, <1>1, <1>3, <1>4, <1>5, <1>6, PatchStepCopies, BackedFrame

LEMMA StepBacked ==
    ASSUME OpsTypeInv, BackedInv, NEW p \in Proc, Moves(p)
    PROVE  BackedInv'
  BY BackedRun, BackedKill, BackedBegin, BackedPatch DEF Moves

LEMMA BackedInvInit == Init => OpsTypeInv /\ BackedInv
<1>1. ASSUME Init PROVE BackedInv
  <2>1. /\ \A p \in Proc : text[p].sections = {} /\ held[p].sections = {} /\ op[p] = "none"
        /\ metadata = Absent /\ report = Absent /\ \A event : ~Logged(event)
    BY <1>1 DEF Init, FreshInit, ProcInit, ConnInit, EmptyReport, InitialMetadata, Logged, Entries
  <2> QED BY <2>1 DEF BackedInv, SectionsBacked, CopiesBacked, PatchOps, Readable, NoFile
<1> QED BY <1>1, OpsInitType

LEMMA BackedInvNext == OpsTypeInv /\ BackedInv /\ [Next]_vars => OpsTypeInv' /\ BackedInv'
<1> SUFFICES ASSUME OpsTypeInv, BackedInv, [Next]_vars PROVE BackedInv'
  BY OpsNextType
<1>1. CASE Next
  BY <1>1, NextCases, StepBacked DEF Moves
<1>2. CASE UNCHANGED vars
  BY <1>2 DEF vars, workspace, files, procs, connVars, BackedInv, SectionsBacked, CopiesBacked,
     Logged, Entries, Readable
<1> QED BY <1>1, <1>2

\* Connectivity evidence is written behind its artifact, and every copy of it in
\* metadata.json and report.md stays backed: however the commands overlap, overwrite
\* each other with old copies, or crash.
THEOREM SectionsAreBacked == Spec => []SectionsBacked
<1>1. BackedInv => SectionsBacked
  BY DEF BackedInv
<1> QED BY <1>1, BackedInvInit, BackedInvNext, PTL DEF Spec

-----------------------------------------------------------------------------
(* Status and outcome *)

\* The metadata dicts there are: in the file, and in the memory of the commands that
\* may still write theirs over it.
Copies == {held[p] : p \in Proc} \cup {m \in {metadata} : Readable(m)}

Executed ==
    \/ Logged("backtest_completed")
    \/ Logged("paper_completed") /\ \E r \in Proc : beat[r] = HeartbeatCount

\* What StatusBacked and OutcomeTellsBranch say of metadata.json, said of any copy.
CopyBacked(m) ==
    /\ m.status = "completed" =>
          metrics \in {"smoke", "placeholder"} /\ report # Absent /\ Executed
    /\ m.status = "safety_blocked" => Logged("paper_safety_checked") /\ ~Logged("paper_started")
    /\ m.status = "failed" => Logged("paper_started") \/ Logged("backtest_started")
    /\ m.outcome = "blocked_kill_switch" => ~Logged("paper_started")
    /\ m.outcome = "checked_continue" => ~Logged("paper_safety_blocked")

CopiesHold == \A m \in Copies : CopyBacked(m)

\* Until the owner has copied the spec there is no metadata and no journal, and no
\* command carries a copy.
Fresh == ~runDir \/ \E p \in Proc : pc[p] = "copy_spec"
FreshInv ==
    Fresh =>
        /\ metadata = Absent /\ journal = Absent
        /\ \A p \in Proc :
              held[p] = InitialMetadata /\ pc[p] \notin {"patch_status", "patch_open", "patch_flush"}

LateStatuses == {"completed", "failed", "safety_blocked"}
SavePCs == {"open_metadata", "flush_metadata"}
ArtifactPCs == {"open_metrics", "flush_metrics", "open_report", "flush_report"}

\* While the owner lives, a late status in any copy is the one it holds itself, and
\* that one tells where it is.
StatusHeld(p) ==
    /\ \A m \in Copies :
          /\ m.outcome # "none" => m.outcome = OutcomeOf(seen[p].state)
          /\ m.status \in LateStatuses => m.status = held[p].status
    /\ held[p].status = "completed" => pc[p] \in SavePCs \cup {"run_completed"}
    /\ held[p].status = "failed" => pc[p] \in SavePCs \cup {"run_failed"}
    /\ held[p].status = "safety_blocked" =>
          Blocked(p) /\ pc[p] \in SavePCs \cup ArtifactPCs \cup {"safety_blocked", "blocked_completed"}
    /\ pc[p] \in {"safety_blocked", "blocked_completed"} => held[p].status = "safety_blocked"

\* What the owner has logged and written when it gets to a step.
Progress(p) ==
    /\ pc[p] \in {"heartbeat", "paper_completed"} => Logged("paper_started")
    /\ pc[p] \in {"engine", "backtest_completed"} => Logged("backtest_started")
    /\ pc[p] = "paper_completed" => beat[p] = HeartbeatCount
    /\ pc[p] \in ArtifactPCs => Blocked(p) \/ Executed
    /\ pc[p] = "flush_metrics" => metrics = Empty
    /\ pc[p] \in {"open_report", "flush_report"} => metrics = MetricsOf(p)
    /\ pc[p] = "flush_report" => report # Absent

OwnerStates == \A p \in Proc : pc[p] \in OwnerPCs => StatusHeld(p) /\ Progress(p)

StatusInv == CopiesHold /\ FreshInv /\ OwnerStates

\* A copy that tells no more than another.
SameKind(m, n) == m.status = n.status /\ m.outcome \in {n.outcome, "none"}

\* The report is written by its two writers, and never removed.
LEMMA ReportStays ==
    ASSUME OpsTypeInv, NEW p \in Proc, Moves(p)
    PROVE  report # Absent => report' # Absent
<1>0. text \in [Proc -> ReportContent] /\ EmptyReport \in ReportContent /\ Absent \notin ReportContent
  BY FileAssumption DEF OpsTypeInv, OpsTypeOK, ConnTypeOK, NoFile, EmptyReport, ReportContent
<1>1. CASE OpenReport(p) \/ ReportOpen(p)
  BY <1>0, <1>1 DEF OpenReport, ReportOpen
<1>2. CASE ReportFlush(p)
  <2>1. report' \in ReportContent
    BY <1>0, <1>2, FlushTextType DEF ReportFlush
  <2> QED BY <1>0, <2>1
<1>3. CASE FlushReport(p)
  <2>1. report' \in ReportContent
    <3>1. PICK body \in {"completed", "safety_blocked"} :
             report' \in FlushText(report, [EmptyReport EXCEPT !.body = body])
      BY <1>3 DEF FlushReport
    <3> QED BY <3>1 DEF FlushText, EmptyReport, ReportContent
  <2> QED BY <1>0, <2>1
<1>4. CASE ~(OpenReport(p) \/ ReportOpen(p) \/ ReportFlush(p) \/ FlushReport(p))
  <2>1. CASE RunStep(p)
    BY <1>4, <2>1 DEF RunStep, Gate, CheckDir, MakeDir, CopySpec, OpenMetadata, FlushMetadata,
       CreateJournal, RunInitialized, RunStarted, SafetyChecked, SafetyBlocked, BlockedCompleted,
       PaperStarted, Heartbeat, HeartbeatsDone, PaperCompleted, BacktestStarted, EngineRun,
       BacktestCompleted, Raise, RunFailed, OpenMetrics, FlushMetrics, RunCompleted, LogStep, files
  <2>2. CASE PatchStep(p)
    BY <1>4, <2>2 DEF PatchStep, CheckFiles, InvalidTarget, ArtifactOpen, ArtifactFlush,
       SectionRead, SectionOpen, SectionFlush, SectionEntry, ReportRead, files
  <2>3. CASE KillBegin(p) \/ KillStep(p) \/ Crash(p)
    BY <2>3 DEF KillBegin, ReadStatus, KillStep, AppendEvent, AppendKillEntry, OpenState,
       FlushState, PatchRead, PatchStatus, PatchOpen, PatchFlush, Crash, files
  <2>4. CASE UNCHANGED files
    BY <2>4 DEF files
  <2> QED BY <2>1, <2>2, <2>3, <2>4 DEF Moves
<1> QED BY <1>1, <1>2, <1>3, <1>4

\* Only a heartbeat counts.
LEMMA BeatSteps ==
    ASSUME OpsTypeInv, NEW p \in Proc, Moves(p)
    PROVE  beat' = beat \/ Heartbeat(p)
  BY DEF Moves, RunStep, Gate, CheckDir, MakeDir, CopySpec, OpenMetadata, FlushMetadata,
     CreateJournal, RunInitialized, RunStarted, SafetyChecked, SafetyBlocked, BlockedCompleted,
     PaperStarted, HeartbeatsDone, PaperCompleted, BacktestStarted, EngineRun,
     BacktestCompleted, Raise, RunFailed, OpenMetrics, FlushMetrics, OpenReport, FlushReport,
     RunCompleted, LogStep

\* Heartbeats are counted, never forgotten.
LEMMA BeatsStay ==
    ASSUME OpsTypeInv, NEW p \in Proc, Moves(p), NEW r \in Proc, beat[r] = HeartbeatCount
    PROVE  beat'[r] = HeartbeatCount
<1>1. CASE Heartbeat(p)
  <2>1. r # p
    BY <1>1 DEF Heartbeat, HeartbeatCount
  <2> QED BY <2>1, OthersKeep
<1> QED BY <1>1, BeatSteps

LEMMA ExecutedStays ==
    ASSUME OpsTypeInv, NEW p \in Proc, Moves(p), Executed
    PROVE  Executed'
<1>1. CASE Logged("backtest_completed")
  BY <1>1, LoggedStays DEF Executed
<1>2. CASE Logged("paper_completed") /\ \E r \in Proc : beat[r] = HeartbeatCount
  BY <1>2, LoggedStays, BeatsStay DEF Executed
<1> QED BY <1>1, <1>2 DEF Executed

\* The two lines that would give the lie to a copy have one writer each.
LEMMA BranchNews ==
    ASSUME OpsTypeInv, NEW p \in Proc, Moves(p)
    PROVE  /\ Logged("paper_started")' => Logged("paper_started") \/ pc[p] = "paper_started"
           /\ Logged("paper_safety_blocked")' =>
                 Logged("paper_safety_blocked") \/ pc[p] = "safety_blocked"
<1>1. Writes(p, "paper_started") => pc[p] = "paper_started"
  BY DEF Writes, KillEntries, PatchEntryName
<1>2. Writes(p, "paper_safety_blocked") => pc[p] = "safety_blocked"
  BY DEF Writes, KillEntries, PatchEntryName
<1> QED BY <1>1, <1>2, LoggedNews

\* A step that makes no copy tell more than there was, or than is true, keeps them all
\* true.
LEMMA CopiesFrame ==
    ASSUME OpsTypeInv, ExecInv, OwnerStates, CopiesHold, NEW p \in Proc, Moves(p),
           \A m \in Copies' : CopyBacked(m)' \/ \E n \in Copies : SameKind(m, n),
           metrics' = metrics \/ pc[p] \in {"open_metrics", "flush_metrics"}
    PROVE  CopiesHold'
<1> SUFFICES ASSUME NEW m \in Copies', NEW n \in Copies, SameKind(m, n)
             PROVE  CopyBacked(m)'
  BY DEF CopiesHold
<1>1. CopyBacked(n)
  BY DEF CopiesHold
<1>2. pc[p] = "paper_started" =>
         n.status # "safety_blocked" /\ n.outcome # "blocked_kill_switch"
  <2> SUFFICES ASSUME pc[p] = "paper_started"
               PROVE  n.status # "safety_blocked" /\ n.outcome # "blocked_kill_switch"
    OBVIOUS
  <2>1. StatusHeld(p) /\ seen[p].state # "active"
    BY DEF OwnerStates, OwnerPCs, RunPCs, ExecInv, ExecutionPCs
  <2>2. n.status = "safety_blocked" => held[p].status = "safety_blocked"
    BY <2>1 DEF StatusHeld, LateStatuses
  <2> QED BY <2>1, <2>2 DEF StatusHeld, Blocked, OutcomeOf
<1>3. pc[p] = "safety_blocked" => n.outcome # "checked_continue"
  <2> SUFFICES ASSUME pc[p] = "safety_blocked" PROVE n.outcome # "checked_continue"
    OBVIOUS
  <2>1. StatusHeld(p)
    BY DEF OwnerStates, OwnerPCs, RunPCs
  <2> QED BY <2>1 DEF StatusHeld, Blocked, OutcomeOf
<1>4. pc[p] \in {"open_metrics", "flush_metrics"} => n.status # "completed"
  <2> SUFFICES ASSUME pc[p] \in {"open_metrics", "flush_metrics"} PROVE n.status # "completed"
    OBVIOUS
  <2>1. StatusHeld(p)
    BY DEF OwnerStates, OwnerPCs, RunPCs
  <2> QED BY <2>1 DEF StatusHeld, LateStatuses, SavePCs
<1>5. /\ Logged("paper_safety_checked") => Logged("paper_safety_checked")'
      /\ Logged("paper_started") => Logged("paper_started")'
      /\ Logged("backtest_started") => Logged("backtest_started")'
  BY LoggedStays
<1>6. n.status = "completed" =>
         metrics' \in {"smoke", "placeholder"} /\ report' # Absent /\ Executed'
  BY <1>1, <1>4, ReportStays, ExecutedStays DEF CopyBacked
<1>7. n.status = "safety_blocked" => Logged("paper_safety_checked")' /\ ~Logged("paper_started")'
  BY <1>1, <1>2, <1>5, BranchNews DEF CopyBacked
<1>8. n.status = "failed" => Logged("paper_started")' \/ Logged("backtest_started")'
  BY <1>1, <1>5 DEF CopyBacked
<1>9. /\ n.outcome = "blocked_kill_switch" => ~Logged("paper_started")'
      /\ n.outcome = "checked_continue" => ~Logged("paper_safety_blocked")'
  BY <1>1, <1>2, <1>3, BranchNews DEF CopyBacked
<1> QED BY <1>6, <1>7, <1>8, <1>9 DEF CopyBacked, SameKind

\* The kinds of copies come from the copies before, when only p's dict changes and only
\* p's dict is saved.
LEMMA CopiesFrom ==
    ASSUME OpsTypeInv, NEW p \in Proc, Moves(p),
           metadata' \in {metadata, Empty, Garbled, held[p]},
           held'[p] = held[p] \/ \E n \in Copies : SameKind(held'[p], n)
    PROVE  \A m \in Copies' : \E n \in Copies : SameKind(m, n)
<1>1. \A q \in Proc : held[q] \in Copies
  BY DEF Copies
<1>2. \A q \in Proc : q # p => held'[q] = held[q]
  BY OthersKeep
<1>3. ASSUME NEW q \in Proc PROVE \E n \in Copies : SameKind(held'[q], n)
  BY <1>1, <1>2 DEF SameKind
<1>4. ASSUME Readable(metadata') PROVE \E n \in Copies : SameKind(metadata', n)
  <2>1. metadata' = metadata \/ metadata' = held[p]
    BY <1>4 DEF Readable, NoFile
  <2>2. metadata' \in Copies
    BY <1>1, <1>4, <2>1 DEF Copies
  <2> QED BY <2>2 DEF SameKind
<1> QED BY <1>3, <1>4 DEF Copies

\* A kill switch command copies what is in the file, and drops the outcome.
LEMMA KillCopies ==
    ASSUME OpsTypeInv, NEW p \in Proc, KillBegin(p) \/ KillStep(p) \/ Crash(p)
    PROVE  /\ metadata' \in {metadata, Empty, Garbled, held[p]}
           /\ held'[p] = held[p] \/ \E n \in Copies : SameKind(held'[p], n)
           /\ metrics' = metrics
<1>0. held \in [Proc -> MetaContent]
  BY DEF OpsTypeInv, OpsTypeOK, TypeOK
<1>1. CASE PatchRead(p)
  <2>1. held' = held \/ (Readable(metadata) /\ held'[p] = metadata)
    BY <1>0, <1>1 DEF PatchRead
  <2>2. held' = held \/ \E n \in Copies : SameKind(held'[p], n)
    BY <2>1 DEF Copies, SameKind
  <2> QED BY <1>1, <2>2 DEF PatchRead, files
<1>2. CASE PatchStatus(p)
  <2>1. held' = held \/ SameKind(held'[p], held[p])
    BY <1>0, <1>2 DEF PatchStatus, SameKind, MetaContent
  <2>2. held[p] \in Copies
    BY DEF Copies
  <2> QED BY <1>2, <2>1, <2>2 DEF PatchStatus, files
<1>3. CASE PatchOpen(p) \/ PatchFlush(p)
  BY <1>3, FlushResult DEF PatchOpen, PatchFlush
<1>4. CASE \/ KillBegin(p) \/ AppendEvent(p) \/ AppendKillEntry(p) \/ OpenState(p)
           \/ FlushState(p) \/ Crash(p)
  BY <1>4 DEF KillBegin, ReadStatus, AppendEvent, AppendKillEntry, OpenState, FlushState, Crash,
     files
<1> QED BY <1>1, <1>2, <1>3, <1>4 DEF KillStep

\* So does a connectivity command, which adds its key.
LEMMA PatchCopies ==
    ASSUME OpsTypeInv, NEW p \in Proc, PatchStep(p)
    PROVE  /\ metadata' \in {metadata, Empty, Garbled, held[p]}
           /\ held'[p] = held[p] \/ \E n \in Copies : SameKind(held'[p], n)
           /\ metrics' = metrics
<1>0. /\ held \in [Proc -> MetaContent] /\ metadata \in MetaContent \cup NoFile
      /\ pc[p] \in PatchPCs \ {"check_files"} => metadata # Absent
  BY DEF OpsTypeInv, OpsTypeOK, TypeOK, PresentInv
<1>1. CASE SectionRead(p)
  <2>1. pc[p] = "section_read" /\ metadata # Absent
    BY <1>0, <1>1 DEF SectionRead, Goto, PatchPCs
  <2>2. CASE Malformed(metadata)
    BY <1>1, <2>2 DEF SectionRead, files, connVars
  <2>3. CASE ~Malformed(metadata)
    <3>1. metadata \in MetaContent /\ Readable(metadata)
      BY <1>0, <2>1, <2>3 DEF Malformed, Readable, NoFile
    <3>2. held' = [held EXCEPT ![p] = [metadata EXCEPT !.sections = @ \cup {op[p]}]]
      BY <1>1, <2>3 DEF SectionRead
    <3>3. SameKind(held'[p], metadata)
      BY <1>0, <3>1, <3>2 DEF MetaContent, SameKind
    <3>4. metadata \in Copies
      BY <3>1 DEF Copies
    <3> QED BY <1>1, <3>3, <3>4 DEF SectionRead, files
  <2> QED BY <2>2, <2>3
<1>2. CASE SectionOpen(p) \/ SectionFlush(p)
  BY <1>2, FlushResult DEF SectionOpen, SectionFlush
<1>3. CASE ~(SectionRead(p) \/ SectionOpen(p) \/ SectionFlush(p))
  BY <1>3 DEF PatchStep, CheckFiles, InvalidTarget, ArtifactOpen, ArtifactFlush, SectionEntry,
     ReportRead, ReportOpen, ReportFlush, files
<1> QED BY <1>1, <1>2, <1>3

\* A step after which its maker is no owner leaves the owner's state alone.
LEMMA OwnerFrame ==
    ASSUME OpsTypeInv, OwnerStates, NEW p \in Proc, Moves(p),
           pc'[p] \notin OwnerPCs, metrics' = metrics,
           \A m \in Copies' : \E n \in Copies : SameKind(m, n)
    PROVE  OwnerStates'
<1> SUFFICES ASSUME NEW q \in Proc, pc'[q] \in OwnerPCs
             PROVE  StatusHeld(q)' /\ Progress(q)'
  BY DEF OwnerStates
<1>1. /\ q # p /\ pc'[q] = pc[q] /\ op'[q] = op[q] /\ seen'[q] = seen[q] /\ held'[q] = held[q]
      /\ beat'[q] = beat[q]
  BY OthersKeep
<1>2. StatusHeld(q) /\ Progress(q)
  BY <1>1 DEF OwnerStates
<1>3. StatusHeld(q)'
  <2>1. \A m \in Copies' : /\ m.outcome # "none" => m.outcome = OutcomeOf(seen'[q].state)
                           /\ m.status \in LateStatuses => m.status = held'[q].status
    BY <1>1, <1>2 DEF StatusHeld, SameKind
  <2> QED BY <1>1, <1>2, <2>1 DEF StatusHeld, Blocked
<1>4. Progress(q)'
  <2>1. /\ Logged("paper_started") => Logged("paper_started")'
        /\ Logged("backtest_started") => Logged("backtest_started")'
        /\ Executed => Executed'
        /\ report # Absent => report' # Absent
    BY LoggedStays, ExecutedStays, ReportStays
  <2>2. MetricsOf(q)' = MetricsOf(q)
    BY <1>1 DEF MetricsOf, Blocked
  <2> QED BY <1>1, <1>2, <2>1, <2>2 DEF Progress, Blocked
<1> QED BY <1>3, <1>4

\* The first step out of make_dir is the only way to the spec copy.
LEMMA CopyEnters ==
    ASSUME OpsTypeInv, NEW p \in Proc, Moves(p), pc'[p] = "copy_spec"
    PROVE  MakeDir(p) /\ ~runDir
<1>0. pc \in [Proc -> PCs]
  BY DEF OpsTypeInv, OpsTypeOK, TypeOK
<1>1. CASE RunStep(p)
  <2>1. AfterMetadata(p) # "copy_spec"
    BY DEF AfterMetadata, OpsTypeInv, OpsTypeOK, TypeOK, MetaContent, RunStatuses
  <2> QED
    BY <1>0, <1>1, <2>1 DEF RunStep, Gate, CheckDir, MakeDir, CopySpec, OpenMetadata, FlushMetadata,
       CreateJournal, RunInitialized, RunStarted, SafetyChecked, SafetyBlocked, BlockedCompleted,
       PaperStarted, Heartbeat, HeartbeatsDone, PaperCompleted, BacktestStarted, EngineRun,
       BacktestCompleted, Raise, RunFailed, OpenMetrics, FlushMetrics, OpenReport, FlushReport,
       RunCompleted, LogStep, Goto
<1>2. CASE PatchStep(p)
  <2>1. pc'[p] \in PatchPCs \cup EndPCs
    BY <1>0, <1>2, PatchStepMoves
  <2> QED BY <2>1 DEF PatchPCs, EndPCs
<1>3. CASE KillBegin(p) \/ KillStep(p) \/ Crash(p) \/ RunBegin(p) \/ PatchBegin(p)
  BY <1>0, <1>3 DEF KillBegin, ReadStatus, RunBegin, PatchBegin, Begin, KillStep, AppendEvent,
     AppendKillEntry, OpenState, FlushState, PatchRead, PatchStatus, PatchOpen, PatchFlush, Crash,
     Goto
<1> QED BY <1>1, <1>2, <1>3 DEF Moves

\* Until the spec is copied nothing else gets to write or copy anything of the run.
LEMMA StepFresh ==
    ASSUME OpsTypeInv, OwnerInv, FreshInv, NEW p \in Proc, Moves(p)
    PROVE  FreshInv'
<1> SUFFICES ASSUME Fresh'
             PROVE  /\ metadata' = Absent /\ journal' = Absent
                    /\ \A q \in Proc : /\ held'[q] = InitialMetadata
                                       /\ pc'[q] \notin {"patch_status", "patch_open", "patch_flush"}
  BY DEF FreshInv
<1>0. pc \in [Proc -> PCs] /\ \A q \in Proc : q # p => pc'[q] = pc[q] /\ held'[q] = held[q]
  BY OthersKeep DEF OpsTypeInv, OpsTypeOK, TypeOK
<1>1. Fresh
  <2>1. CASE ~runDir'
    BY <2>1, OwnerEnters DEF Fresh
  <2>2. CASE \E q \in Proc : pc'[q] = "copy_spec"
    <3>1. PICK q \in Proc : pc'[q] = "copy_spec"
      BY <2>2
    <3>2. CASE q = p
      BY <3>1, <3>2, CopyEnters DEF Fresh
    <3>3. CASE q # p
      BY <1>0, <3>1, <3>3 DEF Fresh
    <3> QED BY <3>2, <3>3
  <2> QED BY <2>1, <2>2 DEF Fresh
<1>2. /\ metadata = Absent /\ journal = Absent
      /\ \A q \in Proc : /\ held[q] = InitialMetadata
                         /\ pc[q] \notin {"patch_status", "patch_open", "patch_flush"}
  BY <1>1 DEF FreshInv
<1>3. pc[p] \notin PatchPCs \ {"check_files"}
  BY <1>2 DEF OpsTypeInv, PresentInv
<1>4. pc[p] \notin OwnerPCs
  <2>1. CASE ~runDir'
    BY <2>1, OwnerEnters DEF OwnerInv
  <2>2. CASE \E q \in Proc : pc'[q] = "copy_spec"
    <3>1. PICK q \in Proc : pc'[q] = "copy_spec"
      BY <2>2
    <3>2. CASE q = p
      BY <3>1, <3>2, CopyEnters DEF MakeDir, Goto, OwnerPCs
    <3>3. CASE q # p
      <4>1. pc[q] \in OwnerPCs
        BY <1>0, <3>1, <3>3 DEF OwnerPCs, RunPCs
      <4> QED BY <3>3, <4>1 DEF OwnerInv
    <3> QED BY <3>2, <3>3
  <2> QED BY <2>1, <2>2 DEF Fresh
<1>5. /\ metadata' = metadata /\ journal' = journal /\ held' = held
      /\ pc'[p] \notin {"patch_status", "patch_open", "patch_flush"}
  <2>1. CASE RunStep(p)
    <3>1. Gate(p) \/ CheckDir(p) \/ MakeDir(p)
      BY <1>4, <2>1 DEF RunStep, CopySpec, OpenMetadata, FlushMetadata,
         CreateJournal, RunInitialized, RunStarted, SafetyChecked, SafetyBlocked,
         BlockedCompleted, PaperStarted, Heartbeat, HeartbeatsDone, PaperCompleted,
         BacktestStarted, EngineRun, BacktestCompleted, Raise, RunFailed, OpenMetrics,
         FlushMetrics, OpenReport, FlushReport, RunCompleted, LogStep, Goto, OwnerPCs, RunPCs
    <3> QED BY <1>0, <3>1 DEF Gate, CheckDir, MakeDir, Goto, files
  <2>2. CASE PatchStep(p)
    <3>1. CheckFiles(p)
      BY <1>3, <2>2 DEF PatchStep, InvalidTarget, ArtifactOpen, ArtifactFlush, SectionRead,
         SectionOpen, SectionFlush, SectionEntry, ReportRead, ReportOpen, ReportFlush, Goto, PatchPCs
    <3> QED BY <1>0, <3>1 DEF CheckFiles, Goto, files
  <2>3. CASE KillStep(p)
    BY <1>0, <1>2, <2>3 DEF KillStep, AppendEvent, AppendKillEntry, OpenState,
       FlushState, PatchRead, PatchStatus, PatchOpen, PatchFlush, Goto, files, Readable, NoFile
  <2>4. CASE KillBegin(p) \/ Crash(p)
    BY <1>0, <2>4 DEF KillBegin, ReadStatus, Begin, Crash, Goto, files
  <2>5. CASE (RunBegin(p) \/ PatchBegin(p)) /\ UNCHANGED <<files, seen, held, beat, connVars>>
    BY <1>0, <2>5 DEF RunBegin, PatchBegin, Begin, Goto, files
  <2> QED BY <2>1, <2>2, <2>3, <2>4, <2>5 DEF Moves
<1> QED BY <1>0, <1>2, <1>5

\* While the owner is at work, nobody else is an owner.
LEMMA OnlyOwner ==
    ASSUME OpsTypeInv, OwnerInv, NEW p \in Proc, Moves(p), pc[p] \in OwnerPCs,
           pc'[p] \in OwnerPCs => StatusHeld(p)' /\ Progress(p)'
    PROVE  OwnerStates'
<1>1. \A q \in Proc : q # p => pc'[q] = pc[q]
  BY OthersKeep
<1>2. \A q \in Proc : q # p => pc'[q] \notin OwnerPCs
  BY <1>1 DEF OwnerInv
<1> QED BY <1>2 DEF OwnerStates

\* An owner keeps its command and what it saw at the gate.
LEMMA OwnerKeeps ==
    ASSUME OpsTypeInv, NEW p \in Proc, Moves(p), pc[p] \in OwnerPCs
    PROVE  op' = op /\ seen' = seen /\ (Blocked(p)' <=> Blocked(p)) /\ MetricsOf(p)' = MetricsOf(p)
<1>1. op' = op /\ seen' = seen
  BY GateEnters, SeenOnce DEF OwnerPCs, RunPCs
<1> QED BY <1>1 DEF Blocked, MetricsOf

\* The owner goes on without touching its status.
LEMMA OwnerGoes ==
    ASSUME OpsTypeInv, OwnerInv, OwnerStates, NEW p \in Proc, Moves(p), pc[p] \in OwnerPCs,
           \A m \in Copies' : \E n \in Copies : SameKind(m, n),
           held'[p] = held[p],
           held[p].status = "completed" => pc'[p] \in SavePCs \cup {"run_completed"},
           held[p].status = "failed" => pc'[p] \in SavePCs \cup {"run_failed"},
           held[p].status = "safety_blocked" =>
              pc'[p] \in SavePCs \cup ArtifactPCs \cup {"safety_blocked", "blocked_completed"},
           pc'[p] \in {"safety_blocked", "blocked_completed"} => held[p].status = "safety_blocked",
           Progress(p)'
    PROVE  OwnerStates'
<1>1. StatusHeld(p)
  BY DEF OwnerStates
<1>2. \A m \in Copies' : /\ m.outcome # "none" => m.outcome = OutcomeOf(seen'[p].state)
                         /\ m.status \in LateStatuses => m.status = held'[p].status
  BY <1>1, OwnerKeeps DEF StatusHeld, SameKind
<1>3. StatusHeld(p)'
  BY <1>1, <1>2, OwnerKeeps DEF StatusHeld
<1> QED BY <1>3, OnlyOwner

\* The owner takes a late status: no copy had one before.
LEMMA OwnerDecides ==
    ASSUME OpsTypeInv, OwnerInv, ExecInv, OwnerStates, CopiesHold, NEW p \in Proc, Moves(p),
           pc[p] \in OwnerPCs \ {"paper_started", "safety_blocked"},
           held[p].status \notin LateStatuses,
           NEW status \in LateStatuses, held' = [held EXCEPT ![p].status = status],
           metadata' = metadata, metrics' = metrics, pc'[p] = "open_metadata",
           status = "safety_blocked" =>
              Blocked(p) /\ Logged("paper_safety_checked")' /\ ~Logged("paper_started")',
           status = "failed" => Logged("paper_started")' \/ Logged("backtest_started")',
           status = "completed" =>
              metrics' \in {"smoke", "placeholder"} /\ report' # Absent /\ Executed'
    PROVE  CopiesHold' /\ OwnerStates'
<1>0. held \in [Proc -> MetaContent] /\ held[p] \in Copies
  BY DEF OpsTypeInv, OpsTypeOK, TypeOK, Copies
<1>1. /\ held'[p].status = status /\ held'[p].outcome = held[p].outcome
      /\ \A q \in Proc : q # p => held'[q] = held[q]
  BY <1>0 DEF MetaContent
<1>2. ASSUME NEW m \in Copies' PROVE m = held'[p] \/ m \in Copies
  BY <1>1, <1>2 DEF Copies, Readable
<1>3. StatusHeld(p)
  BY DEF OwnerStates
<1>4. CopyBacked(held[p])
  BY <1>0 DEF CopiesHold
<1>5. ASSUME NEW m, m = held'[p] PROVE CopyBacked(m)'
  <2>1. m.status = status /\ m.outcome = held[p].outcome
    BY <1>1, <1>5
  <2>2. /\ m.outcome = "blocked_kill_switch" => ~Logged("paper_started")'
        /\ m.outcome = "checked_continue" => ~Logged("paper_safety_blocked")'
    BY <1>4, <2>1, BranchNews DEF CopyBacked
  <2> QED BY <2>1, <2>2 DEF CopyBacked
<1>6. CopiesHold'
  <2>1. \A m \in Copies' : CopyBacked(m)' \/ \E n \in Copies : SameKind(m, n)
    BY <1>2, <1>5 DEF SameKind
  <2> QED BY <2>1, CopiesFrame
<1>7. \A m \in Copies' : /\ m.outcome # "none" => m.outcome = OutcomeOf(seen'[p].state)
                         /\ m.status \in LateStatuses => m.status = held'[p].status
  BY <1>0, <1>1, <1>2, <1>3, OwnerKeeps DEF StatusHeld
<1>8. StatusHeld(p)'
  BY <1>1, <1>7, OwnerKeeps DEF StatusHeld, SavePCs
<1>9. Progress(p)'
  BY DEF Progress, ArtifactPCs
<1> QED BY <1>6, <1>8, <1>9, OnlyOwner

\* A line that a lifecycle writes is logged.
LEMMA LogLogged ==
    ASSUME OpsTypeInv, NEW p \in Proc, NEW event \in RunEntries, Log(p, event),
           pc[p] \in RunPCs \ BeforeJournalPCs
    PROVE  Logged(event)'
<1>1. Entries' = Entries \cup {Line(p, event)}
  BY EntriesGrow DEF Log, Line, OpsTypeInv, PresentInv
<1>2. Line(p, event) \in Entries' /\ Line(p, event).event = event
  BY <1>1 DEF Line
<1> QED BY <1>2 DEF Logged

\* The owner on its way: saves, branches and lines.
LEMMA OwnerLines ==
    ASSUME OpsTypeInv, OwnerInv, OwnerStates, NEW p \in Proc, Moves(p),
           \/ OpenMetadata(p) \/ FlushMetadata(p) \/ CreateJournal(p) \/ RunStarted(p)
           \/ (SafetyChecked(p) /\ ~Blocked(p)) \/ SafetyBlocked(p) \/ BlockedCompleted(p)
    PROVE  OwnerStates'
<1>0. /\ pc \in [Proc -> PCs] /\ held[p] \in MetaContent
      /\ pc[p] \in {"open_metadata", "flush_metadata", "create_journal", "first_entry",
                    "safety_checked", "safety_blocked", "blocked_completed"}
  BY DEF OpsTypeInv, OpsTypeOK, TypeOK, OpenMetadata, FlushMetadata, CreateJournal, RunStarted,
     SafetyChecked, SafetyBlocked, BlockedCompleted, LogStep, Goto
<1>1. pc[p] \in OwnerPCs
  BY <1>0 DEF OwnerPCs, RunPCs
<1>2. StatusHeld(p)
  BY <1>1 DEF OwnerStates
<1>3. held' = held /\ metadata' \in {metadata, Empty, Garbled, held[p]}
  BY FlushResult DEF OpenMetadata, FlushMetadata, CreateJournal, RunStarted, SafetyChecked,
     SafetyBlocked, BlockedCompleted, LogStep
<1>4. \A m \in Copies' : \E n \in Copies : SameKind(m, n)
  BY <1>3, CopiesFrom
<1>5. CASE OpenMetadata(p)
  <2>1. pc[p] = "open_metadata" /\ pc'[p] = "flush_metadata"
    BY <1>0, <1>5 DEF OpenMetadata, Goto
  <2>2. Progress(p)'
    BY <2>1 DEF Progress, ArtifactPCs
  <2> QED BY <1>1, <1>3, <1>4, <2>1, <2>2, OwnerGoes DEF SavePCs
<1>6. CASE FlushMetadata(p)
  <2>1. pc'[p] = AfterMetadata(p)
    BY <1>0, <1>6 DEF FlushMetadata, Goto
  <2>2. /\ pc'[p] \in {"create_journal", "safety_blocked", "run_failed", "run_completed"}
        /\ held[p].status = "completed" => pc'[p] = "run_completed"
        /\ held[p].status = "failed" => pc'[p] = "run_failed"
        /\ held[p].status = "safety_blocked" <=> pc'[p] = "safety_blocked"
    BY <1>0, <2>1 DEF AfterMetadata, MetaContent, RunStatuses
  <2>3. Progress(p)'
    BY <2>2 DEF Progress, ArtifactPCs
  <2> QED BY <1>1, <1>3, <1>4, <2>2, <2>3, OwnerGoes
<1>7. CASE CreateJournal(p) \/ RunStarted(p) \/ (SafetyChecked(p) /\ ~Blocked(p))
  <2>1. /\ pc[p] \in {"create_journal", "first_entry", "safety_checked"}
        /\ pc'[p] \in {"first_entry", "safety_checked", "backtest_started", "paper_started"}
    BY <1>0, <1>7 DEF CreateJournal, RunStarted, SafetyChecked, LogStep, Goto
  <2>2. held[p].status \notin LateStatuses
    BY <1>2, <2>1 DEF StatusHeld, LateStatuses, SavePCs, ArtifactPCs
  <2>3. Progress(p)'
    BY <2>1 DEF Progress, ArtifactPCs
  <2> QED BY <1>1, <1>3, <1>4, <2>1, <2>2, <2>3, OwnerGoes DEF LateStatuses
<1>8. CASE SafetyBlocked(p) \/ BlockedCompleted(p)
  <2>1. /\ pc[p] \in {"safety_blocked", "blocked_completed"}
        /\ pc'[p] \in {"blocked_completed", "open_metrics"}
    BY <1>0, <1>8 DEF SafetyBlocked, BlockedCompleted, LogStep, Goto
  <2>2. held[p].status = "safety_blocked" /\ Blocked(p)
    BY <1>2, <2>1 DEF StatusHeld
  <2>3. Progress(p)'
    BY <1>1, <2>1, <2>2, OwnerKeeps DEF Progress
  <2> QED BY <1>1, <1>3, <1>4, <2>1, <2>2, <2>3, OwnerGoes DEF ArtifactPCs
<1> QED BY <1>5, <1>6, <1>7, <1>8

\* The owner at work: the paper session and the engine.
LEMMA OwnerWorks ==
    ASSUME OpsTypeInv, OwnerInv, ExecInv, OwnerStates, NEW p \in Proc, Moves(p),
           \/ PaperStarted(p) \/ Heartbeat(p) \/ HeartbeatsDone(p) \/ PaperCompleted(p)
           \/ BacktestStarted(p) \/ EngineRun(p) \/ BacktestCompleted(p)
    PROVE  OwnerStates'
<1>0. /\ pc \in [Proc -> PCs] /\ beat \in [Proc -> 0..HeartbeatCount]
      /\ pc[p] \in {"paper_started", "heartbeat", "paper_completed", "backtest_started",
                    "engine", "backtest_completed"}
      /\ pc'[p] \in {"heartbeat", "paper_completed", "engine", "backtest_completed", "open_metrics"}
  BY DEF OpsTypeInv, OpsTypeOK, TypeOK, PaperStarted, Heartbeat, HeartbeatsDone, PaperCompleted,
     BacktestStarted, EngineRun, BacktestCompleted, LogStep, Goto
<1>1. pc[p] \in OwnerPCs /\ pc[p] \in RunPCs \ BeforeJournalPCs
  BY <1>0 DEF OwnerPCs, RunPCs, BeforeJournalPCs
<1>2. StatusHeld(p) /\ Progress(p)
  BY <1>1 DEF OwnerStates
<1>3. held' = held /\ metadata' = metadata
  BY DEF PaperStarted, Heartbeat, HeartbeatsDone, PaperCompleted, BacktestStarted, EngineRun,
     BacktestCompleted, LogStep, files
<1>4. \A m \in Copies' : \E n \in Copies : SameKind(m, n)
  BY <1>3, CopiesFrom
<1>5. held[p].status \notin LateStatuses
  BY <1>0, <1>2 DEF StatusHeld, LateStatuses, SavePCs, ArtifactPCs
<1>6. Progress(p)'
  <2>1. CASE PaperStarted(p)
    <3>1. Logged("paper_started")'
      BY <1>1, <2>1, LogLogged DEF PaperStarted, LogStep, RunEntries
    <3>2. pc'[p] = "heartbeat"
      BY <1>0, <2>1 DEF PaperStarted, LogStep, Goto
    <3> QED BY <3>1, <3>2 DEF Progress, ArtifactPCs
  <2>2. CASE Heartbeat(p) \/ HeartbeatsDone(p)
    <3>1. pc[p] = "heartbeat" /\ pc'[p] \in {"heartbeat", "paper_completed"}
      BY <1>0, <2>2 DEF Heartbeat, HeartbeatsDone, Goto
    <3>2. Logged("paper_started")'
      BY <1>2, <3>1, LoggedStays DEF Progress
    <3>3. pc'[p] = "paper_completed" => beat'[p] = HeartbeatCount
      BY <1>0, <2>2 DEF Heartbeat, HeartbeatsDone, Goto, HeartbeatCount
    <3> QED BY <3>1, <3>2, <3>3 DEF Progress, ArtifactPCs
  <2>3. CASE PaperCompleted(p)
    <3>1. Logged("paper_completed")'
      BY <1>1, <2>3, LogLogged DEF PaperCompleted, LogStep, RunEntries
    <3>2. pc[p] = "paper_completed" /\ pc'[p] = "open_metrics" /\ beat' = beat
      BY <1>0, <2>3 DEF PaperCompleted, LogStep, Goto
    <3>3. Executed'
      BY <1>2, <3>1, <3>2 DEF Executed, Progress
    <3> QED BY <3>2, <3>3 DEF Progress
  <2>4. CASE BacktestStarted(p)
    <3>1. Logged("backtest_started")'
      BY <1>1, <2>4, LogLogged DEF BacktestStarted, LogStep, RunEntries
    <3>2. pc'[p] = "engine"
      BY <1>0, <2>4 DEF BacktestStarted, LogStep, Goto
    <3> QED BY <3>1, <3>2 DEF Progress, ArtifactPCs
  <2>5. CASE EngineRun(p)
    <3>1. pc[p] = "engine" /\ pc'[p] = "backtest_completed"
      BY <1>0, <2>5 DEF EngineRun, Goto
    <3>2. Logged("backtest_started")'
      BY <1>2, <3>1, LoggedStays DEF Progress
    <3> QED BY <3>1, <3>2 DEF Progress, ArtifactPCs
  <2>6. CASE BacktestCompleted(p)
    <3>1. Logged("backtest_completed")'
      BY <1>1, <2>6, LogLogged DEF BacktestCompleted, LogStep, RunEntries
    <3>2. pc'[p] = "open_metrics"
      BY <1>0, <2>6 DEF BacktestCompleted, LogStep, Goto
    <3> QED BY <3>1, <3>2 DEF Progress, Executed
  <2> QED BY <2>1, <2>2, <2>3, <2>4, <2>5, <2>6
<1> QED BY <1>0, <1>1, <1>3, <1>4, <1>5, <1>6, OwnerGoes DEF LateStatuses

\* The owner at its artifacts.
LEMMA OwnerArtifacts ==
    ASSUME OpsTypeInv, OwnerInv, OwnerStates, NEW p \in Proc, Moves(p),
           OpenMetrics(p) \/ FlushMetrics(p) \/ OpenReport(p)
    PROVE  OwnerStates'
<1>0. /\ pc \in [Proc -> PCs]
      /\ pc[p] \in ArtifactPCs /\ pc'[p] \in ArtifactPCs
  BY DEF OpsTypeInv, OpsTypeOK, TypeOK, OpenMetrics, FlushMetrics, OpenReport, Goto, ArtifactPCs
<1>1. pc[p] \in OwnerPCs
  BY <1>0 DEF ArtifactPCs, OwnerPCs, RunPCs
<1>2. StatusHeld(p) /\ Progress(p)
  BY <1>1 DEF OwnerStates
<1>3. held' = held /\ metadata' = metadata
  BY DEF OpenMetrics, FlushMetrics, OpenReport
<1>4. \A m \in Copies' : \E n \in Copies : SameKind(m, n)
  BY <1>3, CopiesFrom
<1>5. held[p].status \notin {"completed", "failed"}
  BY <1>0, <1>2 DEF StatusHeld, SavePCs, ArtifactPCs
<1>6. /\ pc'[p] = "flush_metrics" => metrics' = Empty
      /\ pc'[p] \in {"open_report", "flush_report"} => metrics' = MetricsOf(p)
      /\ pc'[p] = "flush_report" => report' # Absent
  <2>1. CASE OpenMetrics(p)
    BY <1>0, <2>1 DEF OpenMetrics, Goto
  <2>2. CASE FlushMetrics(p)
    BY <1>0, <1>2, <2>2 DEF FlushMetrics, Goto, Progress, Flush
  <2>3. CASE OpenReport(p)
    <3>1. EmptyReport # Absent
      <4>1. EmptyReport \in ReportContent
        BY DEF EmptyReport, ReportContent
      <4>2. Absent \notin ReportContent
        BY FileAssumption DEF NoFile
      <4> QED BY <4>1, <4>2
    <3> QED BY <1>0, <1>2, <2>3, <3>1 DEF OpenReport, Goto, Progress
  <2> QED BY <2>1, <2>2, <2>3
<1>7. Blocked(p) \/ Executed'
  BY <1>0, <1>2, ExecutedStays DEF Progress
<1>8. Progress(p)'
  BY <1>0, <1>1, <1>6, <1>7, OwnerKeeps DEF Progress, ArtifactPCs
<1> QED BY <1>0, <1>1, <1>3, <1>4, <1>5, <1>8, OwnerGoes DEF ArtifactPCs

\* The owner blocks: nothing of this run can have executed, since it is the only owner
\* and has seen the switch active.
LEMMA OwnerBlocks ==
    ASSUME OpsTypeInv, OwnerInv, ExecInv, StatusInv, NEW p \in Proc, Moves(p),
           SafetyChecked(p), Blocked(p)
    PROVE  CopiesHold' /\ OwnerStates'
<1>0. /\ pc[p] = "safety_checked" /\ pc'[p] = "open_metadata"
      /\ held' = [held EXCEPT ![p].status = "safety_blocked"]
      /\ metadata' = metadata /\ metrics' = metrics /\ Log(p, "paper_safety_checked")
  BY DEF SafetyChecked, Goto, OpsTypeInv, OpsTypeOK, TypeOK
<1>1. /\ pc[p] \in OwnerPCs \ {"paper_started", "safety_blocked"}
      /\ pc[p] \in RunPCs \ BeforeJournalPCs
  BY <1>0 DEF OwnerPCs, RunPCs, BeforeJournalPCs
<1>2. held[p].status \notin LateStatuses
  BY <1>0, <1>1 DEF StatusInv, OwnerStates, StatusHeld, LateStatuses, SavePCs, ArtifactPCs
<1>3. Logged("paper_safety_checked")'
  BY <1>0, <1>1, LogLogged DEF RunEntries
<1>4. ~Logged("paper_started")'
  <2>1. ~Logged("paper_started")
    <3> SUFFICES ASSUME NEW e \in Entries, e.event = "paper_started" PROVE FALSE
      BY DEF Logged
    <3>1. e.by = p
      BY <1>1 DEF OwnerInv, RunEntries
    <3>2. seen[e.by].state # "active"
      BY DEF ExecInv, Executions
    <3> QED BY <3>1, <3>2 DEF Blocked
  <2> QED BY <1>0, <2>1, BranchNews
<1> QED BY <1>0, <1>1, <1>2, <1>3, <1>4, OwnerDecides DEF StatusInv, LateStatuses

\* The owner fails in its session.
LEMMA OwnerRaises ==
    ASSUME OpsTypeInv, OwnerInv, ExecInv, StatusInv, NEW p \in Proc, Moves(p), Raise(p)
    PROVE  CopiesHold' /\ OwnerStates'
<1>0. /\ pc[p] \in {"heartbeat", "engine"} /\ pc'[p] = "open_metadata"
      /\ held' = [held EXCEPT ![p].status = "failed"]
      /\ metadata' = metadata /\ metrics' = metrics
  BY DEF Raise, OpsTypeInv, OpsTypeOK, TypeOK, files
<1>1. pc[p] \in OwnerPCs \ {"paper_started", "safety_blocked"}
  BY <1>0 DEF OwnerPCs, RunPCs
<1>2. StatusHeld(p) /\ Progress(p)
  BY <1>1 DEF StatusInv, OwnerStates
<1>3. held[p].status \notin LateStatuses
  BY <1>0, <1>2 DEF StatusHeld, LateStatuses, SavePCs, ArtifactPCs
<1>4. Logged("paper_started")' \/ Logged("backtest_started")'
  BY <1>0, <1>2, LoggedStays DEF Progress
<1> QED BY <1>0, <1>1, <1>3, <1>4, OwnerDecides DEF StatusInv, LateStatuses

\* The owner completes: its session, its metrics and its report are there.
LEMMA OwnerCompletes ==
    ASSUME OpsTypeInv, OwnerInv, ExecInv, StatusInv, NEW p \in Proc, Moves(p),
           FlushReport(p), ~Blocked(p)
    PROVE  CopiesHold' /\ OwnerStates'
<1>0. /\ pc[p] = "flush_report" /\ pc'[p] = "open_metadata"
      /\ held' = [held EXCEPT ![p].status = "completed"]
      /\ metadata' = metadata /\ metrics' = metrics
  BY DEF FlushReport, Goto, OpsTypeInv, OpsTypeOK, TypeOK
<1>1. pc[p] \in OwnerPCs \ {"paper_started", "safety_blocked"}
  BY <1>0 DEF OwnerPCs, RunPCs
<1>2. StatusHeld(p) /\ Progress(p)
  BY <1>1 DEF StatusInv, OwnerStates
<1>3. held[p].status \notin LateStatuses
  BY <1>0, <1>2 DEF StatusHeld, LateStatuses, SavePCs
<1>4. metrics' \in {"smoke", "placeholder"}
  BY <1>0, <1>2 DEF Progress, MetricsOf
<1>5. report' # Absent /\ Executed'
  BY <1>0, <1>2, ReportStays, ExecutedStays DEF Progress, ArtifactPCs
<1> QED BY <1>0, <1>1, <1>3, <1>4, <1>5, OwnerDecides DEF StatusInv, LateStatuses

\* The status and the outcome that a lifecycle's first dict has.
LEMMA FirstDict ==
    ASSUME OpsTypeInv, NEW p \in Proc, CopySpec(p)
    PROVE  /\ held'[p].status \in {"initialized", "running"}
           /\ held'[p].outcome \in {"none", OutcomeOf(seen[p].state)}
<1>1. held \in [Proc -> MetaContent] /\ op[p] \in RunOps
  BY DEF CopySpec, Goto, OpsTypeInv, OpsTypeOK, TypeOK, OpsFit, RunPCs
<1>2. held'[p] \in {InitialMetadata, BacktestMetadata, PaperMetadata(p)}
  BY <1>1 DEF CopySpec, RunOps
<1>3. /\ InitialMetadata.status = "initialized" /\ InitialMetadata.outcome = "none"
      /\ BacktestMetadata.status = "running" /\ BacktestMetadata.outcome = "none"
      /\ PaperMetadata(p).status = "running"
      /\ PaperMetadata(p).outcome = OutcomeOf(seen[p].state)
  BY DEF InitialMetadata, BacktestMetadata, PaperMetadata
<1> HIDE DEF InitialMetadata, BacktestMetadata, PaperMetadata
<1> QED BY <1>2, <1>3

\* The owner begins, and builds its first dict: nothing is logged yet.
LEMMA OwnerBegins ==
    ASSUME OpsTypeInv, OwnerInv, ExecInv, StatusInv, NEW p \in Proc, Moves(p),
           CopySpec(p) \/ (MakeDir(p) /\ ~runDir)
    PROVE  CopiesHold' /\ OwnerStates'
<1>0. /\ Fresh /\ metadata' = metadata /\ metrics' = metrics /\ journal' = journal
      /\ pc'[p] \in {"copy_spec", "open_metadata"} /\ op[p] \in RunOps /\ seen' = seen
      /\ pc[p] \in {"make_dir", "copy_spec"}
  BY DEF Fresh, CopySpec, MakeDir, Goto, OpsTypeInv, OpsTypeOK, TypeOK, OpsFit, RunPCs
<1>1. /\ metadata = Absent /\ journal = Absent
      /\ \A q \in Proc : held[q] = InitialMetadata
  BY <1>0 DEF StatusInv, FreshInv
<1>2. /\ held'[p].status \in {"initialized", "running"}
      /\ held'[p].outcome \in {"none", OutcomeOf(seen[p].state)}
  <2>1. CASE MakeDir(p)
    BY <1>1, <2>1 DEF MakeDir, InitialMetadata
  <2>2. CASE CopySpec(p)
    BY <2>2, FirstDict
  <2> QED BY <2>1, <2>2
<1>3. \A q \in Proc : q # p => held'[q] = InitialMetadata
  BY <1>1, OthersKeep
<1>4. ASSUME NEW m \in Copies'
      PROVE  /\ m.status \in {"initialized", "running"}
             /\ m.outcome \in {"none", OutcomeOf(seen[p].state)}
  <2>1. PICK q \in Proc : m = held'[q]
    BY <1>0, <1>1, <1>4 DEF Copies, Readable, NoFile
  <2> QED BY <1>2, <1>3, <2>1 DEF InitialMetadata
<1>5. \A event : ~Logged(event)'
  BY <1>0, <1>1 DEF Logged, Entries
<1>6. CopiesHold'
  BY <1>4, <1>5 DEF CopiesHold, CopyBacked
<1>7. ASSUME NEW q \in Proc, pc'[q] \in OwnerPCs PROVE q = p
  <2>1. q # p => pc[q] = pc'[q]
    BY OthersKeep
  <2>2. pc'[p] \in OwnerPCs
    BY <1>0 DEF OwnerPCs, RunPCs
  <2>3. OwnerInv'
    BY StepOwner
  <2> QED BY <1>7, <2>2, <2>3 DEF OwnerInv
<1>8. StatusHeld(p)'
  BY <1>0, <1>2, <1>4 DEF StatusHeld, LateStatuses
<1>9. Progress(p)'
  BY <1>0 DEF Progress, ArtifactPCs
<1> QED BY <1>6, <1>7, <1>8, <1>9 DEF OwnerStates

\* Every other step: it makes no owner, writes no metrics, and its copies are copies
\* of copies.
LEMMA BystanderStep ==
    ASSUME OpsTypeInv, OwnerInv, ExecInv, StatusInv, NEW p \in Proc, Moves(p),
           \/ KillBegin(p) \/ KillStep(p) \/ Crash(p) \/ PatchStep(p)
           \/ (RunBegin(p) \/ PatchBegin(p)) /\ UNCHANGED <<files, seen, held, beat, connVars>>
           \/ Gate(p) \/ CheckDir(p) \/ (MakeDir(p) /\ runDir)
           \/ RunInitialized(p) \/ RunFailed(p) \/ RunCompleted(p) \/ (FlushReport(p) /\ Blocked(p))
    PROVE  CopiesHold' /\ OwnerStates'
<1>0. pc \in [Proc -> PCs] /\ \A q \in Proc : q # p => pc'[q] = pc[q]
  BY OthersKeep DEF OpsTypeInv, OpsTypeOK, TypeOK
<1>1. /\ metadata' \in {metadata, Empty, Garbled, held[p]}
      /\ held'[p] = held[p] \/ \E n \in Copies : SameKind(held'[p], n)
      /\ metrics' = metrics
  <2>1. CASE KillBegin(p) \/ KillStep(p) \/ Crash(p)
    BY <2>1, KillCopies
  <2>2. CASE PatchStep(p)
    BY <2>2, PatchCopies
  <2>3. CASE UNCHANGED <<files, seen, held, beat, connVars>>
    BY <2>3 DEF files
  <2>4. CASE \/ Gate(p) \/ CheckDir(p) \/ MakeDir(p)
             \/ RunInitialized(p) \/ RunFailed(p) \/ RunCompleted(p) \/ (FlushReport(p) /\ Blocked(p))
    BY <2>4 DEF Gate, CheckDir, MakeDir, RunInitialized, RunFailed, RunCompleted, FlushReport,
       LogStep, files
  <2> QED BY <2>1, <2>2, <2>3, <2>4
<1>2. pc'[p] \notin OwnerPCs
  <2>1. CASE KillBegin(p) \/ KillStep(p) \/ Crash(p) \/ RunBegin(p) \/ PatchBegin(p)
    BY <1>0, <2>1 DEF KillBegin, ReadStatus, RunBegin, PatchBegin, Begin, KillStep, AppendEvent,
       AppendKillEntry, OpenState, FlushState, PatchRead, PatchStatus, PatchOpen, PatchFlush,
       Crash, Goto, OwnerPCs, RunPCs
  <2>2. CASE PatchStep(p)
    <3>1. pc'[p] \in PatchPCs \cup EndPCs
      BY <1>0, <2>2, PatchStepMoves
    <3> QED BY <3>1, KindsApart DEF OwnerPCs
  <2>3. CASE \/ Gate(p) \/ CheckDir(p) \/ (MakeDir(p) /\ runDir)
             \/ RunInitialized(p) \/ RunFailed(p) \/ RunCompleted(p) \/ (FlushReport(p) /\ Blocked(p))
    BY <1>0, <2>3 DEF Gate, CheckDir, MakeDir, RunInitialized, RunFailed, RunCompleted,
       FlushReport, LogStep, Goto, OwnerPCs, RunPCs
  <2> QED BY <2>1, <2>2, <2>3
<1>3. \A m \in Copies' : \E n \in Copies : SameKind(m, n)
  BY <1>1, CopiesFrom
<1>4. CopiesHold'
  BY <1>1, <1>3, CopiesFrame DEF StatusInv
<1> QED BY <1>1, <1>2, <1>3, <1>4, OwnerFrame DEF StatusInv

LEMMA StepStatus ==
    ASSUME OpsTypeInv, OwnerInv, ExecInv, StatusInv, NEW p \in Proc, Moves(p)
    PROVE  StatusInv'
<1>1. FreshInv'
  BY StepFresh DEF StatusInv
<1>2. CASE \/ KillBegin(p) \/ KillStep(p) \/ Crash(p) \/ PatchStep(p)
           \/ (RunBegin(p) \/ PatchBegin(p)) /\ UNCHANGED <<files, seen, held, beat, connVars>>
           \/ Gate(p) \/ CheckDir(p) \/ (MakeDir(p) /\ runDir)
           \/ RunInitialized(p) \/ RunFailed(p) \/ RunCompleted(p) \/ (FlushReport(p) /\ Blocked(p))
  BY <1>1, <1>2, BystanderStep DEF StatusInv
<1>3. CASE CopySpec(p) \/ (MakeDir(p) /\ ~runDir)
  BY <1>1, <1>3, OwnerBegins DEF StatusInv
<1>4. CASE (SafetyChecked(p) /\ Blocked(p)) \/ Raise(p) \/ (FlushReport(p) /\ ~Blocked(p))
  BY <1>1, <1>4, OwnerBlocks, OwnerRaises, OwnerCompletes DEF StatusInv
<1>5. CASE \/ OpenMetadata(p) \/ FlushMetadata(p) \/ CreateJournal(p) \/ RunStarted(p)
           \/ (SafetyChecked(p) /\ ~Blocked(p)) \/ SafetyBlocked(p) \/ BlockedCompleted(p)
           \/ PaperStarted(p) \/ Heartbeat(p) \/ HeartbeatsDone(p) \/ PaperCompleted(p)
           \/ BacktestStarted(p) \/ EngineRun(p) \/ BacktestCompleted(p)
           \/ OpenMetrics(p) \/ FlushMetrics(p) \/ OpenReport(p)
  <2>1. OwnerStates'
    BY <1>5, OwnerLines, OwnerWorks, OwnerArtifacts DEF StatusInv
  <2>2. /\ metadata' \in {metadata, Empty, Garbled, held[p]} /\ held'[p] = held[p]
        /\ metrics' = metrics \/ pc[p] \in {"open_metrics", "flush_metrics"}
    BY <1>5, FlushResult DEF OpenMetadata, FlushMetadata, CreateJournal, RunStarted, SafetyChecked,
       SafetyBlocked, BlockedCompleted, PaperStarted, Heartbeat, HeartbeatsDone, PaperCompleted,
       BacktestStarted, EngineRun, BacktestCompleted, OpenMetrics, FlushMetrics, OpenReport,
       LogStep, Goto, files
  <2>3. CopiesHold'
    BY <2>2, CopiesFrom, CopiesFrame DEF StatusInv
  <2> QED BY <1>1, <2>1, <2>3 DEF StatusInv
<1> QED BY <1>2, <1>3, <1>4, <1>5 DEF Moves, RunStep

\* All that the proof of the status carries along.
RunInv == OpsTypeInv /\ OwnerInv /\ SilentInv /\ ExecInv /\ StatusInv

LEMMA RunInvInit == Init => RunInv
<1> SUFFICES ASSUME Init PROVE RunInv
  OBVIOUS
<1>1. OpsTypeInv
  BY OpsInitType
<1>2. OwnerInv /\ SilentInv /\ ExecInv
  BY DEF Init, FreshInit, ProcInit, OwnerInv, OneOwner, Entries, OwnerPCs, RunPCs, SilentInv,
     ExecInv, ExecutionPCs
<1>3. /\ \A p \in Proc : pc[p] = "idle" /\ held[p] = InitialMetadata
      /\ metadata = Absent /\ journal = Absent
  BY DEF Init, FreshInit, ProcInit
<1>4. CopiesHold
  <2>1. \A m \in Copies : m.status = "initialized" /\ m.outcome = "none"
    BY <1>3 DEF Copies, Readable, NoFile, InitialMetadata
  <2> QED BY <2>1 DEF CopiesHold, CopyBacked
<1>5. FreshInv /\ OwnerStates
  BY <1>3 DEF FreshInv, OwnerStates, OwnerPCs, RunPCs
<1> QED BY <1>1, <1>2, <1>4, <1>5 DEF RunInv, StatusInv

LEMMA RunInvNext == RunInv /\ [Next]_vars => RunInv'
<1> SUFFICES ASSUME RunInv, [Next]_vars PROVE RunInv'
  OBVIOUS
<1>0. OpsTypeInv'
  BY OpsNextType DEF RunInv
<1>1. CASE Next
  <2>1. PICK p \in Proc : Moves(p)
    BY <1>1, NextCases DEF Moves
  <2> QED BY <1>0, <2>1, StepOwner, StepSilent, StepExec, StepStatus DEF RunInv
<1>2. CASE UNCHANGED vars
  <2>1. OwnerInv' /\ SilentInv' /\ ExecInv'
    BY <1>2 DEF RunInv, vars, workspace, files, procs, OwnerInv, OneOwner, SilentInv, ExecInv, Entries
  <2>2. /\ Copies' = Copies /\ Entries' = Entries /\ Fresh' = Fresh
        /\ \A event : Logged(event)' <=> Logged(event)
        /\ Executed' <=> Executed
    BY <1>2 DEF vars, workspace, files, procs, Copies, Entries, Fresh, Logged, Executed, Readable
  <2>3. CopiesHold' /\ FreshInv'
    BY <1>2, <2>2 DEF RunInv, StatusInv, vars, workspace, files, procs, CopiesHold, CopyBacked, FreshInv
  <2>4. OwnerStates'
    BY <1>2, <2>2 DEF RunInv, StatusInv, vars, workspace, files, procs, OwnerStates, StatusHeld,
       Progress, Blocked, MetricsOf
  <2> QED BY <1>0, <2>1, <2>3, <2>4 DEF RunInv, StatusInv
<1> QED BY <1>1, <1>2

LEMMA RunInvAlways == Spec => []RunInv
  BY RunInvInit, RunInvNext, PTL DEF Spec

\* metadata.json never claims more than the journal, the metrics and the report back,
\* even when a kill switch or connectivity command writes an old copy over it: for any
\* number of commands, overlapping and crashing anywhere.
THEOREM StatusIsBacked == Spec => []StatusBacked
<1>1. RunInv => StatusBacked
  <2> SUFFICES ASSUME RunInv, Readable(metadata) PROVE StatusBacked
    BY DEF StatusBacked
  <2>1. CopyBacked(metadata)
    BY DEF RunInv, StatusInv, CopiesHold, Copies
  <2> QED BY <2>1 DEF StatusBacked, CopyBacked, Executed
<1> QED BY <1>1, RunInvAlways, PTL

\* A lifecycle_outcome in metadata.json tells which way the paper run went, in whichever
\* command's copy it comes back.
THEOREM OutcomeTells == Spec => []OutcomeTellsBranch
<1>1. RunInv => OutcomeTellsBranch
  <2> SUFFICES ASSUME RunInv, Readable(metadata) PROVE OutcomeTellsBranch
    BY DEF OutcomeTellsBranch
  <2>1. CopyBacked(metadata)
    BY DEF RunInv, StatusInv, CopiesHold, Copies
  <2> QED BY <2>1 DEF OutcomeTellsBranch, CopyBacked
<1> QED BY <1>1, RunInvAlways, PTL

-----------------------------------------------------------------------------
(* The journal implements RunPhases. *)

\* The last lifecycle line is one of the lines.
LastLine == RunLines # {} => Max(RunLines) \in RunLines

\* The lines of one event, and how many there are.
EventLines(event) == {i \in RunLines : journal[i].event = event}
EventCount(event) == Cardinality(EventLines(event))

\* What the owner's place tells of the phase: it is the one its last line left.
PhaseFits(p) ==
    /\ pc[p] \in {"copy_spec", "create_journal", "first_entry"} => JournalPhase = "none"
    /\ pc[p] \in SavePCs =>
          /\ held[p].status \in {"initialized", "running"} => JournalPhase = "none"
          /\ held[p].status = "safety_blocked" => JournalPhase = "checked"
          /\ held[p].status = "failed" => JournalPhase \in {"executing", "backtesting"}
          /\ held[p].status = "completed" => JournalPhase = "executed"
    /\ pc[p] \in {"safety_checked", "backtest_started"} => JournalPhase = "started"
    /\ pc[p] \in {"safety_blocked", "paper_started"} => JournalPhase = "checked"
    /\ pc[p] = "blocked_completed" => JournalPhase = "blocked"
    /\ pc[p] \in {"heartbeat", "paper_completed"} => JournalPhase = "executing"
    /\ pc[p] \in {"engine", "backtest_completed"} => JournalPhase = "backtesting"
    /\ pc[p] = "run_failed" => JournalPhase \in {"executing", "backtesting"}
    /\ pc[p] = "run_completed" => JournalPhase = "executed"
    /\ pc[p] \in ArtifactPCs => JournalPhase = IF Blocked(p) THEN "completed" ELSE "executed"
    /\ pc[p] \in {"backtest_started", "engine", "backtest_completed"} => op[p] = "backtest"

PhaseInv ==
    /\ LastLine
    /\ RunLines # {} => runDir
    /\ \A p \in Proc : pc[p] \in {"idle", "gate", "check_dir", "make_dir"} => beat[p] = 0
    /\ \A p \in Proc : pc[p] \in OwnerPCs => PhaseFits(p) /\ JournalBeats = beat[p]

\* The lifecycle lines are finitely many positions of the journal.
LEMMA LinesFinite ==
    ASSUME OpsTypeInv
    PROVE  /\ RunLines \subseteq Nat
           /\ \A event : IsFiniteSet(EventLines(event)) /\ EventCount(event) \in Nat
           /\ JournalBeats = EventCount("paper_heartbeat")
<1>1. RunLines \subseteq Nat /\ IsFiniteSet(RunLines)
  <2>1. CASE journal = Absent
    BY <2>1, FS_EmptySet DEF RunLines
  <2>2. CASE journal # Absent
    <3>1. journal \in Seq(Entry)
      BY <2>2 DEF OpsTypeInv, OpsTypeOK, TypeOK
    <3>2. Len(journal) \in Nat /\ RunLines \subseteq 1..Len(journal)
      BY <2>2, <3>1 DEF RunLines
    <3>3. IsFiniteSet(1..Len(journal))
      BY <3>2, FS_Interval
    <3>4. IsFiniteSet(RunLines)
      BY <3>2, <3>3, FS_Subset
    <3>5. RunLines \subseteq Nat
      BY <3>2
    <3> QED BY <3>4, <3>5
  <2> QED BY <2>1, <2>2
<1>2. ASSUME NEW event PROVE IsFiniteSet(EventLines(event)) /\ EventCount(event) \in Nat
  <2>1. EventLines(event) \subseteq RunLines
    BY DEF EventLines
  <2>2. IsFiniteSet(EventLines(event))
    BY <1>1, <2>1, FS_Subset
  <2> QED BY <2>2, FS_CardinalityType DEF EventCount
<1>3. JournalBeats = EventCount("paper_heartbeat")
  BY DEF JournalBeats, EventCount, EventLines
<1> QED BY <1>1, <1>2, <1>3

\* A lifecycle line becomes the last one.
LEMMA LineAdds ==
    ASSUME OpsTypeInv, NEW p \in Proc, NEW event \in RunEntries,
           journal # Absent, journal' = Append(journal, Line(p, event))
    PROVE  /\ LastLine' /\ RunLines' # {}
           /\ JournalPhase' = PhaseAfter(event)
           /\ JournalBeats' = IF event = "paper_heartbeat" THEN JournalBeats + 1 ELSE JournalBeats
           /\ \A e : EventCount(e)' = IF event = e THEN EventCount(e) + 1 ELSE EventCount(e)
<1> DEFINE n == Len(journal) + 1
<1>1. Line(p, event) \in Entry /\ journal \in Seq(Entry)
  BY EntryType DEF Line, OpsTypeInv, OpsTypeOK, TypeOK
<1>2. /\ journal' \in Seq(Entry) /\ Len(journal) \in Nat /\ DOMAIN journal = 1..Len(journal)
      /\ DOMAIN journal' = DOMAIN journal \cup {n}
      /\ \A i \in DOMAIN journal : journal'[i] = journal[i] /\ i < n
      /\ journal'[n] = Line(p, event)
  <2>1. PICK e \in Entry : e = Line(p, event)
    BY <1>1
  <2>2. PICK t : t = Append(journal, e)
    OBVIOUS
  <2>3. t = journal'
    BY <2>1, <2>2
  <2> QED BY <1>1, <2>1, <2>2, <2>3, AppendLine
<1>3. journal' # Absent
  BY <1>2, JournalExists
<1>4. journal'[n].event = event
  BY <1>2 DEF Line
<1>5. RunLines' = RunLines \cup {n} /\ n \in Nat /\ n \notin RunLines
  BY <1>2, <1>3, <1>4 DEF RunLines
<1>6. \A i \in RunLines : i \in Nat /\ i < n /\ journal'[i] = journal[i]
  BY <1>2, LinesFinite DEF RunLines
<1>7. Max(RunLines') = n
  <2>1. \A i \in RunLines' : n >= i
    BY <1>5, <1>6
  <2>2. \A m \in RunLines' : (\A i \in RunLines' : m >= i) => m = n
    BY <1>5, <1>6
  <2> HIDE DEF n
  <2> QED BY <1>5, <2>1, <2>2 DEF Max
<1>8. LastLine' /\ RunLines' # {} /\ JournalPhase' = PhaseAfter(event)
  BY <1>4, <1>5, <1>7 DEF LastLine, JournalPhase
<1>9. ASSUME NEW e
      PROVE  EventCount(e)' = IF event = e THEN EventCount(e) + 1 ELSE EventCount(e)
  <2>1. EventLines(e)' = IF event = e THEN EventLines(e) \cup {n} ELSE EventLines(e)
    <3> HIDE DEF n
    <3> QED BY <1>4, <1>5, <1>6 DEF EventLines
  <2>2. n \notin EventLines(e)
    BY <1>5 DEF EventLines
  <2>3. Cardinality(EventLines(e) \cup {n}) = Cardinality(EventLines(e)) + 1
    <3> HIDE DEF n
    <3> QED BY <2>2, LinesFinite, FS_AddElement
  <2> HIDE DEF n
  <2> QED BY <2>1, <2>3 DEF EventCount
<1>10. JournalBeats = EventCount("paper_heartbeat") /\ JournalBeats' = EventCount("paper_heartbeat")'
  BY DEF JournalBeats, EventCount, EventLines
<1> QED BY <1>8, <1>9, <1>10

\* Any other line, or a new journal, changes nothing of that.
LEMMA LinesStay ==
    ASSUME OpsTypeInv, LastLine, NEW p \in Proc,
           \/ journal' = journal
           \/ journal = Absent /\ journal' = <<>>
           \/ \E event \in KillEntries \cup PatchEntries :
                 journal # Absent /\ journal' = Append(journal, Line(p, event))
    PROVE  /\ LastLine' /\ RunLines' = RunLines
           /\ JournalPhase' = JournalPhase /\ JournalBeats' = JournalBeats
           /\ \A e : EventCount(e)' = EventCount(e)
<1>1. /\ RunLines' = RunLines
      /\ \A i \in RunLines : journal'[i] = journal[i]
  <2>1. CASE journal' = journal
    BY <2>1 DEF RunLines
  <2>2. CASE journal = Absent /\ journal' = <<>>
    BY <2>2 DEF RunLines
  <2>3. CASE \E event \in KillEntries \cup PatchEntries :
                journal # Absent /\ journal' = Append(journal, Line(p, event))
    <3>1. PICK event \in KillEntries \cup PatchEntries :
                journal # Absent /\ journal' = Append(journal, Line(p, event))
      BY <2>3
    <3>2. Line(p, event) \in Entry /\ journal \in Seq(Entry) /\ event \notin RunEntries
      BY <3>1, EntryType DEF Line, OpsTypeInv, OpsTypeOK, TypeOK, RunEntries, KillEntries,
         PatchEntries
    <3>3. PICK e \in Entry : e = Line(p, event)
      BY <3>2
    <3>4. PICK t : t = Append(journal, e)
      OBVIOUS
    <3>5. t = journal'
      BY <3>1, <3>3, <3>4
    <3>6. /\ journal' \in Seq(Entry) /\ Len(journal) \in Nat /\ DOMAIN journal = 1..Len(journal)
          /\ DOMAIN journal' = DOMAIN journal \cup {Len(journal) + 1}
          /\ \A i \in DOMAIN journal : journal'[i] = journal[i]
          /\ journal'[Len(journal) + 1].event = event
      BY <3>2, <3>3, <3>4, <3>5, AppendLine DEF Line
    <3>7. journal' # Absent
      BY <3>6, JournalExists
    <3> QED BY <3>1, <3>2, <3>6, <3>7 DEF RunLines
  <2> QED BY <2>1, <2>2, <2>3
<1>2. LastLine' /\ JournalPhase' = JournalPhase
  BY <1>1 DEF LastLine, JournalPhase
<1>3. ASSUME NEW e PROVE EventCount(e)' = EventCount(e)
  <2>1. EventLines(e)' = EventLines(e)
    BY <1>1 DEF EventLines
  <2> QED BY <2>1 DEF EventCount
<1>4. JournalBeats = EventCount("paper_heartbeat") /\ JournalBeats' = EventCount("paper_heartbeat")'
  BY DEF JournalBeats, EventCount, EventLines
<1> QED BY <1>1, <1>2, <1>3, <1>4

\* Any command's step: no lifecycle line, or the one that its place calls for.
LEMMA StepLines ==
    ASSUME OpsTypeInv, LastLine, NEW p \in Proc, Moves(p)
    PROVE  /\ LastLine'
           /\ \/ /\ RunLines' = RunLines
                 /\ JournalPhase' = JournalPhase /\ JournalBeats' = JournalBeats
                 /\ \A e : EventCount(e)' = EventCount(e)
              \/ \E event \in RunEntries :
                    /\ Writes(p, event) /\ pc[p] \in OwnerPCs
                    /\ JournalPhase' = PhaseAfter(event)
                    /\ JournalBeats' =
                          IF event = "paper_heartbeat" THEN JournalBeats + 1 ELSE JournalBeats
                    /\ \A e : EventCount(e)' = IF event = e THEN EventCount(e) + 1 ELSE EventCount(e)
<1>1. CASE \E event \in RunEntries :
              Writes(p, event) /\ journal # Absent /\ journal' = Append(journal, Line(p, event))
  BY <1>1, LineAdds, OwnerWrites
<1>2. CASE \/ journal' = journal
           \/ journal = Absent /\ journal' = <<>>
           \/ \E event \in KillEntries \cup PatchEntries :
                 journal # Absent /\ journal' = Append(journal, Line(p, event))
  BY <1>2, LinesStay
<1> QED BY <1>1, <1>2, StepJournal

\* A line that the owner logs is the one its phase follows.
LEMMA LogPhase ==
    ASSUME OpsTypeInv, NEW p \in Proc, NEW event \in RunEntries, Log(p, event),
           pc[p] \in RunPCs \ BeforeJournalPCs
    PROVE  JournalPhase' = PhaseAfter(event)
<1>1. journal # Absent /\ journal' = Append(journal, Line(p, event))
  BY DEF Log, Line, OpsTypeInv, PresentInv
<1> QED BY <1>1, LineAdds

\* Each lifecycle step of an owner leads from its phase to that of its next place: the
\* lines up to the branch,
LEMMA FitsOpening ==
    ASSUME RunInv, PhaseInv, NEW p \in Proc, Moves(p), pc[p] \in OwnerPCs, PhaseFits(p),
           \/ CopySpec(p) \/ OpenMetadata(p) \/ FlushMetadata(p) \/ CreateJournal(p)
           \/ RunStarted(p) \/ SafetyChecked(p) \/ SafetyBlocked(p) \/ BlockedCompleted(p)
    PROVE  PhaseFits(p)'
<1>0. /\ OpsTypeInv /\ pc \in [Proc -> PCs] /\ held \in [Proc -> MetaContent]
      /\ (Blocked(p)' <=> Blocked(p)) /\ op' = op /\ LastLine
  BY OwnerKeeps DEF RunInv, OpsTypeInv, OpsTypeOK, TypeOK, PhaseInv
<1>q. journal' = journal \/ (journal = Absent /\ journal' = <<>>) => JournalPhase' = JournalPhase
  BY <1>0, LinesStay
<1>1. CASE CopySpec(p)
  <2>1. pc[p] = "copy_spec" /\ pc'[p] = "open_metadata" /\ journal' = journal
    BY <1>0, <1>1 DEF CopySpec, Goto
  <2>2. held'[p].status \in {"initialized", "running"}
    BY <1>0, <1>1, FirstDict
  <2> QED BY <1>q, <2>1, <2>2 DEF PhaseFits, SavePCs, ArtifactPCs
<1>2. CASE OpenMetadata(p)
  <2>1. pc[p] = "open_metadata" /\ pc'[p] = "flush_metadata" /\ journal' = journal /\ held' = held
    BY <1>0, <1>2 DEF OpenMetadata, Goto
  <2> QED BY <1>q, <2>1 DEF PhaseFits, SavePCs, ArtifactPCs
<1>3. CASE FlushMetadata(p)
  <2>1. pc[p] = "flush_metadata" /\ pc'[p] = AfterMetadata(p) /\ journal' = journal /\ held' = held
    BY <1>0, <1>3 DEF FlushMetadata, Goto
  <2>2. \/ held[p].status \in {"initialized", "running"} /\ pc'[p] = "create_journal"
        \/ held[p].status = "safety_blocked" /\ pc'[p] = "safety_blocked"
        \/ held[p].status = "failed" /\ pc'[p] = "run_failed"
        \/ held[p].status = "completed" /\ pc'[p] = "run_completed"
    BY <1>0, <2>1 DEF AfterMetadata, MetaContent, RunStatuses
  <2> QED BY <1>q, <2>1, <2>2 DEF PhaseFits, SavePCs, ArtifactPCs
<1>4. CASE CreateJournal(p)
  <2>1. /\ pc[p] = "create_journal" /\ pc'[p] = "first_entry"
        /\ journal' = journal \/ (journal = Absent /\ journal' = <<>>)
    BY <1>0, <1>4 DEF CreateJournal, Goto
  <2> QED BY <1>q, <2>1 DEF PhaseFits, SavePCs, ArtifactPCs
<1>5. CASE RunStarted(p)
  <2>1. /\ pc[p] = "first_entry" /\ op[p] \in {"backtest", "paper"}
        /\ pc'[p] = IF op[p] = "paper" THEN "safety_checked" ELSE "backtest_started"
        /\ Log(p, "run_started")
    BY <1>0, <1>5 DEF RunStarted, LogStep, Goto
  <2>2. JournalPhase' = "started"
    BY <1>0, <2>1, LogPhase DEF RunEntries, PhaseAfter, RunPCs, BeforeJournalPCs
  <2> QED BY <1>0, <2>1, <2>2 DEF PhaseFits, SavePCs, ArtifactPCs
<1>6. CASE SafetyChecked(p)
  <2>1. /\ pc[p] = "safety_checked" /\ Log(p, "paper_safety_checked")
        /\ pc'[p] = IF Blocked(p) THEN "open_metadata" ELSE "paper_started"
        /\ Blocked(p) => held'[p].status = "safety_blocked"
    BY <1>0, <1>6 DEF SafetyChecked, Goto, MetaContent
  <2>2. JournalPhase' = "checked"
    BY <1>0, <2>1, LogPhase DEF RunEntries, PhaseAfter, RunPCs, BeforeJournalPCs
  <2> QED BY <2>1, <2>2 DEF PhaseFits, SavePCs, ArtifactPCs
<1>7. CASE SafetyBlocked(p)
  <2>1. pc[p] = "safety_blocked" /\ Log(p, "paper_safety_blocked") /\ pc'[p] = "blocked_completed"
    BY <1>0, <1>7 DEF SafetyBlocked, LogStep, Goto
  <2>2. JournalPhase' = "blocked"
    BY <1>0, <2>1, LogPhase DEF RunEntries, PhaseAfter, RunPCs, BeforeJournalPCs
  <2> QED BY <2>1, <2>2 DEF PhaseFits, SavePCs, ArtifactPCs
<1>8. CASE BlockedCompleted(p)
  <2>1. pc[p] = "blocked_completed" /\ Log(p, "run_completed") /\ pc'[p] = "open_metrics"
    BY <1>0, <1>8 DEF BlockedCompleted, LogStep, Goto
  <2>2. JournalPhase' = "completed"
    BY <1>0, <2>1, LogPhase DEF RunEntries, PhaseAfter, RunPCs, BeforeJournalPCs
  <2>3. Blocked(p)
    BY <2>1 DEF RunInv, StatusInv, OwnerStates, StatusHeld
  <2> QED BY <1>0, <2>1, <2>2, <2>3 DEF PhaseFits, SavePCs, ArtifactPCs
<1> QED BY <1>1, <1>2, <1>3, <1>4, <1>5, <1>6, <1>7, <1>8

\* the session or the engine,
LEMMA FitsWork ==
    ASSUME RunInv, PhaseInv, NEW p \in Proc, Moves(p), pc[p] \in OwnerPCs, PhaseFits(p),
           \/ PaperStarted(p) \/ Heartbeat(p) \/ HeartbeatsDone(p) \/ PaperCompleted(p)
           \/ BacktestStarted(p) \/ EngineRun(p) \/ BacktestCompleted(p) \/ Raise(p)
    PROVE  PhaseFits(p)'
<1>0. /\ OpsTypeInv /\ pc \in [Proc -> PCs] /\ held \in [Proc -> MetaContent]
      /\ (Blocked(p)' <=> Blocked(p)) /\ op' = op /\ LastLine
  BY OwnerKeeps DEF RunInv, OpsTypeInv, OpsTypeOK, TypeOK, PhaseInv
<1>q. journal' = journal => JournalPhase' = JournalPhase
  BY <1>0, LinesStay
<1>1. CASE PaperStarted(p)
  <2>1. pc[p] = "paper_started" /\ Log(p, "paper_started") /\ pc'[p] = "heartbeat"
    BY <1>0, <1>1 DEF PaperStarted, LogStep, Goto
  <2>2. JournalPhase' = "executing"
    BY <1>0, <2>1, LogPhase DEF RunEntries, PhaseAfter, RunPCs, BeforeJournalPCs
  <2> QED BY <2>1, <2>2 DEF PhaseFits, SavePCs, ArtifactPCs
<1>2. CASE Heartbeat(p)
  <2>1. pc[p] = "heartbeat" /\ Log(p, "paper_heartbeat") /\ pc'[p] = "heartbeat"
    BY <1>0, <1>2 DEF Heartbeat, Goto
  <2>2. JournalPhase' = "executing"
    BY <1>0, <2>1, LogPhase DEF RunEntries, PhaseAfter, RunPCs, BeforeJournalPCs
  <2> QED BY <2>1, <2>2 DEF PhaseFits, SavePCs, ArtifactPCs
<1>3. CASE HeartbeatsDone(p)
  <2>1. pc[p] = "heartbeat" /\ journal' = journal /\ pc'[p] = "paper_completed"
    BY <1>0, <1>3 DEF HeartbeatsDone, Goto, files
  <2> QED BY <1>q, <2>1 DEF PhaseFits, SavePCs, ArtifactPCs
<1>4. CASE PaperCompleted(p)
  <2>1. pc[p] = "paper_completed" /\ Log(p, "paper_completed") /\ pc'[p] = "open_metrics"
    BY <1>0, <1>4 DEF PaperCompleted, LogStep, Goto
  <2>2. JournalPhase' = "executed"
    BY <1>0, <2>1, LogPhase DEF RunEntries, PhaseAfter, RunPCs, BeforeJournalPCs
  <2>3. ~Blocked(p)
    BY <2>1 DEF RunInv, ExecInv, ExecutionPCs, Blocked
  <2> QED BY <1>0, <2>1, <2>2, <2>3 DEF PhaseFits, SavePCs, ArtifactPCs
<1>5. CASE BacktestStarted(p)
  <2>1. pc[p] = "backtest_started" /\ Log(p, "backtest_started") /\ pc'[p] = "engine"
    BY <1>0, <1>5 DEF BacktestStarted, LogStep, Goto
  <2>2. JournalPhase' = "backtesting"
    BY <1>0, <2>1, LogPhase DEF RunEntries, PhaseAfter, RunPCs, BeforeJournalPCs
  <2> QED BY <1>0, <2>1, <2>2 DEF PhaseFits, SavePCs, ArtifactPCs
<1>6. CASE EngineRun(p)
  <2>1. pc[p] = "engine" /\ journal' = journal /\ pc'[p] = "backtest_completed"
    BY <1>0, <1>6 DEF EngineRun, Goto, files
  <2> QED BY <1>0, <1>q, <2>1 DEF PhaseFits, SavePCs, ArtifactPCs
<1>7. CASE BacktestCompleted(p)
  <2>1. pc[p] = "backtest_completed" /\ Log(p, "backtest_completed") /\ pc'[p] = "open_metrics"
    BY <1>0, <1>7 DEF BacktestCompleted, LogStep, Goto
  <2>2. JournalPhase' = "executed"
    BY <1>0, <2>1, LogPhase DEF RunEntries, PhaseAfter, RunPCs, BeforeJournalPCs
  <2>3. ~Blocked(p)
    BY <2>1 DEF PhaseFits, Blocked
  <2> QED BY <1>0, <2>1, <2>2, <2>3 DEF PhaseFits, SavePCs, ArtifactPCs
<1>8. CASE Raise(p)
  <2>1. /\ pc[p] \in {"heartbeat", "engine"} /\ journal' = journal /\ pc'[p] = "open_metadata"
        /\ held'[p].status = "failed"
    BY <1>0, <1>8 DEF Raise, files, MetaContent
  <2> QED BY <1>q, <2>1 DEF PhaseFits, SavePCs, ArtifactPCs
<1> QED BY <1>1, <1>2, <1>3, <1>4, <1>5, <1>6, <1>7, <1>8

\* and the artifacts.
LEMMA FitsArtifacts ==
    ASSUME RunInv, PhaseInv, NEW p \in Proc, Moves(p), pc[p] \in OwnerPCs, PhaseFits(p),
           \/ OpenMetrics(p) \/ FlushMetrics(p) \/ OpenReport(p) \/ (FlushReport(p) /\ ~Blocked(p))
    PROVE  PhaseFits(p)'
<1>0. /\ OpsTypeInv /\ pc \in [Proc -> PCs] /\ held \in [Proc -> MetaContent]
      /\ (Blocked(p)' <=> Blocked(p)) /\ op' = op /\ LastLine
  BY OwnerKeeps DEF RunInv, OpsTypeInv, OpsTypeOK, TypeOK, PhaseInv
<1>1. /\ journal' = journal /\ pc[p] \in ArtifactPCs
      /\ \/ pc'[p] \in ArtifactPCs
         \/ pc'[p] = "open_metadata" /\ held'[p].status = "completed" /\ ~Blocked(p)
  BY <1>0 DEF OpenMetrics, FlushMetrics, OpenReport, FlushReport, Goto, ArtifactPCs, MetaContent
<1>2. JournalPhase' = JournalPhase
  BY <1>0, <1>1, LinesStay
<1> QED BY <1>0, <1>1, <1>2 DEF PhaseFits, SavePCs, ArtifactPCs

\* The owner makes lifecycle steps, and crashes, and nothing else.
LEMMA OwnerSteps ==
    ASSUME OpsTypeInv, NEW p \in Proc, Moves(p), pc[p] \in OwnerPCs
    PROVE  RunStep(p) \/ (Crash(p) /\ pc'[p] = "crashed")
<1>0. pc \in [Proc -> PCs]
  BY DEF OpsTypeInv, OpsTypeOK, TypeOK
<1>1. CASE Crash(p)
  BY <1>0, <1>1 DEF Crash
<1>2. CASE KillBegin(p) \/ KillStep(p) \/ RunBegin(p) \/ PatchBegin(p) \/ PatchStep(p)
  BY <1>2 DEF KillBegin, ReadStatus, RunBegin, PatchBegin, Begin, KillStep, AppendEvent,
     AppendKillEntry, OpenState, FlushState, PatchRead, PatchStatus, PatchOpen, PatchFlush,
     PatchStep, CheckFiles, InvalidTarget, ArtifactOpen, ArtifactFlush, SectionRead, SectionOpen,
     SectionFlush, SectionEntry, ReportRead, ReportOpen, ReportFlush, Goto, OwnerPCs, RunPCs
<1> QED BY <1>1, <1>2 DEF Moves

\* Nobody comes back to a place before mkdir, and nobody beats there.
LEMMA EarlyPlaces ==
    ASSUME OpsTypeInv, NEW p \in Proc, Moves(p),
           pc'[p] \in {"idle", "gate", "check_dir", "make_dir"}
    PROVE  pc[p] \in {"idle", "gate", "check_dir", "make_dir"} /\ beat' = beat
<1>0. pc \in [Proc -> PCs]
  BY DEF OpsTypeInv, OpsTypeOK, TypeOK
<1>1. CASE Heartbeat(p)
  BY <1>0, <1>1 DEF Heartbeat, Goto
<1>2. CASE ~Heartbeat(p)
  <2>1. CASE KillBegin(p) \/ KillStep(p) \/ Crash(p) \/ RunBegin(p) \/ PatchBegin(p)
    BY <1>0, <2>1 DEF KillBegin, ReadStatus, RunBegin, PatchBegin, Begin, KillStep, AppendEvent,
       AppendKillEntry, OpenState, FlushState, PatchRead, PatchStatus, PatchOpen, PatchFlush,
       Crash, Goto
  <2>2. CASE PatchStep(p)
    <3>1. pc'[p] \in PatchPCs \cup EndPCs
      BY <1>0, <2>2, PatchStepMoves
    <3> QED BY <3>1 DEF PatchPCs, EndPCs
  <2>3. CASE RunStep(p) /\ ~FlushMetadata(p)
    BY <1>0, <1>2, <2>3 DEF RunStep, Gate, CheckDir, MakeDir, CopySpec, OpenMetadata,
       CreateJournal, RunInitialized, RunStarted, SafetyChecked, SafetyBlocked,
       BlockedCompleted, PaperStarted, HeartbeatsDone, PaperCompleted, BacktestStarted,
       EngineRun, BacktestCompleted, Raise, RunFailed, OpenMetrics, FlushMetrics, OpenReport,
       FlushReport, RunCompleted, LogStep, Goto
  <2>4. CASE FlushMetadata(p)
    <3>1. AfterMetadata(p) \in {"create_journal", "safety_blocked", "run_failed", "run_completed"}
      BY DEF AfterMetadata, OpsTypeInv, OpsTypeOK, TypeOK, MetaContent, RunStatuses
    <3> QED BY <1>0, <2>4, <3>1 DEF FlushMetadata, Goto
  <2>5. beat' = beat
    BY <1>2, BeatSteps
  <2> QED BY <2>1, <2>2, <2>3, <2>4, <2>5 DEF Moves
<1> QED BY <1>1, <1>2

\* Only mkdir makes an owner.
LEMMA EntersByMkdir ==
    ASSUME OpsTypeInv, NEW p \in Proc, Moves(p), pc[p] \notin OwnerPCs, pc'[p] \in OwnerPCs
    PROVE  pc[p] = "make_dir" /\ beat' = beat
<1>0. pc \in [Proc -> PCs]
  BY DEF OpsTypeInv, OpsTypeOK, TypeOK
<1>1. CASE KillBegin(p) \/ KillStep(p) \/ Crash(p) \/ RunBegin(p) \/ PatchBegin(p)
  BY <1>0, <1>1 DEF KillBegin, ReadStatus, RunBegin, PatchBegin, Begin, KillStep, AppendEvent,
     AppendKillEntry, OpenState, FlushState, PatchRead, PatchStatus, PatchOpen, PatchFlush,
     Crash, Goto, OwnerPCs, RunPCs
<1>2. CASE PatchStep(p)
  <2>1. pc'[p] \in PatchPCs \cup EndPCs
    BY <1>0, <1>2, PatchStepMoves
  <2> QED BY <2>1, KindsApart DEF OwnerPCs
<1>3. CASE RunStep(p)
  <2>1. pc[p] \in {"gate", "check_dir", "make_dir"}
    BY <1>3, RunStepMoves DEF OwnerPCs
  <2>2. Gate(p) \/ CheckDir(p) \/ MakeDir(p)
    BY <1>3, <2>1 DEF RunStep, CopySpec, OpenMetadata, FlushMetadata, CreateJournal,
       RunInitialized, RunStarted, SafetyChecked, SafetyBlocked, BlockedCompleted, PaperStarted,
       Heartbeat, HeartbeatsDone, PaperCompleted, BacktestStarted, EngineRun, BacktestCompleted,
       Raise, RunFailed, OpenMetrics, FlushMetrics, OpenReport, FlushReport, RunCompleted,
       LogStep, Goto
  <2> QED BY <1>0, <2>2 DEF Gate, CheckDir, MakeDir, Goto, OwnerPCs, RunPCs
<1> QED BY <1>1, <1>2, <1>3 DEF Moves

\* Where the owner beats, only a heartbeat writes.
LEMMA BeatPlace ==
    ASSUME OpsTypeInv, NEW p \in Proc, Moves(p), pc[p] = "heartbeat", ~Heartbeat(p)
    PROVE  journal' = journal
<1>1. pc[p] \in OwnerPCs
  BY DEF OwnerPCs, RunPCs
<1>2. RunStep(p) \/ Crash(p)
  BY <1>1, OwnerSteps
<1> QED BY <1>2 DEF RunStep, Gate, CheckDir, MakeDir, CopySpec, OpenMetadata, FlushMetadata,
     CreateJournal, RunInitialized, RunStarted, SafetyChecked, SafetyBlocked, BlockedCompleted,
     PaperStarted, HeartbeatsDone, PaperCompleted, BacktestStarted, EngineRun, BacktestCompleted,
     Raise, RunFailed, OpenMetrics, FlushMetrics, OpenReport, FlushReport, RunCompleted,
     LogStep, Crash, Goto, files

\* A lifecycle that passes mkdir finds no line; one that goes on fits its next phase.
LEMMA OwnerFits ==
    ASSUME RunInv, PhaseInv, NEW p \in Proc, Moves(p), pc'[p] \in OwnerPCs
    PROVE  PhaseFits(p)'
<1>0. OpsTypeInv /\ LastLine
  BY DEF RunInv, PhaseInv
<1>1. CASE pc[p] \notin OwnerPCs
  <2>1. ~runDir /\ pc'[p] = "copy_spec"
    BY <1>0, <1>1, OwnerEnters
  <2>2. JournalPhase = "none"
    BY <2>1 DEF PhaseInv, JournalPhase
  <2>3. JournalPhase' = JournalPhase
    BY <1>0, <1>1, StepLines
  <2> QED BY <2>1, <2>2, <2>3 DEF PhaseFits, SavePCs, ArtifactPCs
<1>2. CASE pc[p] \in OwnerPCs
  <2>1. PhaseFits(p)
    BY <1>2 DEF PhaseInv
  <2>2. RunStep(p)
    BY <1>0, <1>2, OwnerSteps DEF OwnerPCs, RunPCs
  <2>3. CASE \/ Gate(p) \/ CheckDir(p) \/ MakeDir(p) \/ RunInitialized(p) \/ RunFailed(p)
             \/ RunCompleted(p) \/ (FlushReport(p) /\ Blocked(p))
    <3>1. pc \in [Proc -> PCs]
      BY <1>0 DEF OpsTypeInv, OpsTypeOK, TypeOK
    <3> QED BY <1>2, <2>3, <3>1 DEF Gate, CheckDir, MakeDir, RunInitialized, RunFailed,
         RunCompleted, FlushReport, LogStep, Goto, OwnerPCs, RunPCs
  <2>4. CASE \/ CopySpec(p) \/ OpenMetadata(p) \/ FlushMetadata(p) \/ CreateJournal(p)
             \/ RunStarted(p) \/ SafetyChecked(p) \/ SafetyBlocked(p) \/ BlockedCompleted(p)
    BY <1>2, <2>1, <2>4, FitsOpening
  <2>5. CASE \/ PaperStarted(p) \/ Heartbeat(p) \/ HeartbeatsDone(p) \/ PaperCompleted(p)
             \/ BacktestStarted(p) \/ EngineRun(p) \/ BacktestCompleted(p) \/ Raise(p)
    BY <1>2, <2>1, <2>5, FitsWork
  <2>6. CASE \/ OpenMetrics(p) \/ FlushMetrics(p) \/ OpenReport(p)
             \/ (FlushReport(p) /\ ~Blocked(p))
    BY <1>2, <2>1, <2>6, FitsArtifacts
  <2> QED BY <2>2, <2>3, <2>4, <2>5, <2>6 DEF RunStep
<1> QED BY <1>1, <1>2

\* The heartbeats in the journal are the owner's.
LEMMA OwnerBeats ==
    ASSUME RunInv, PhaseInv, NEW p \in Proc, Moves(p), pc'[p] \in OwnerPCs
    PROVE  JournalBeats' = beat'[p]
<1>0. OpsTypeInv /\ LastLine /\ pc \in [Proc -> PCs] /\ beat \in [Proc -> 0..HeartbeatCount]
  BY DEF RunInv, OpsTypeInv, OpsTypeOK, TypeOK, PhaseInv
<1>1. CASE pc[p] \notin OwnerPCs
  <2>1. ~runDir /\ pc'[p] = "copy_spec"
    BY <1>0, <1>1, OwnerEnters
  <2>2. pc[p] = "make_dir" /\ beat' = beat
    BY <1>0, <1>1, EntersByMkdir
  <2>3. RunLines = {} /\ beat[p] = 0
    BY <2>1, <2>2 DEF PhaseInv
  <2>4. JournalBeats' = JournalBeats
    BY <1>0, <1>1, StepLines
  <2>5. JournalBeats = 0
    <3>1. EventLines("paper_heartbeat") = {}
      BY <2>3 DEF EventLines
    <3> QED BY <1>0, <3>1, LinesFinite, FS_EmptySet DEF EventCount
  <2> QED BY <2>2, <2>3, <2>4, <2>5
<1>2. CASE pc[p] \in OwnerPCs
  <2>1. JournalBeats = beat[p]
    BY <1>2 DEF PhaseInv
  <2>2. CASE Heartbeat(p)
    <3>1. journal # Absent /\ journal' = Append(journal, Line(p, "paper_heartbeat"))
      BY <1>0, <2>2 DEF Heartbeat, Goto, Log, Line, OpsTypeInv, PresentInv, RunPCs, BeforeJournalPCs
    <3>2. JournalBeats' = JournalBeats + 1
      BY <1>0, <3>1, LineAdds DEF RunEntries
    <3>3. beat'[p] = beat[p] + 1
      BY <1>0, <2>2 DEF Heartbeat
    <3> QED BY <2>1, <3>2, <3>3
  <2>3. CASE ~Heartbeat(p)
    <3>1. beat' = beat
      BY <1>0, <2>3, BeatSteps
    <3>3. pc[p] # "heartbeat" \/ journal' = journal
      BY <1>0, <2>3, BeatPlace
    <3>4. JournalBeats' = JournalBeats
      <4>1. CASE journal' = journal
        BY <1>0, <4>1, LinesStay
      <4>2. CASE pc[p] # "heartbeat"
        <5>1. ~Writes(p, "paper_heartbeat")
          BY <4>2 DEF Writes, KillEntries, PatchEntryName
        <5> QED BY <1>0, <5>1, StepLines
      <4> QED BY <3>3, <4>1, <4>2
    <3> QED BY <2>1, <3>1, <3>4
  <2> QED BY <2>2, <2>3
<1> QED BY <1>1, <1>2

LEMMA StepPhases ==
    ASSUME RunInv, PhaseInv, NEW p \in Proc, Moves(p)
    PROVE  PhaseInv'
<1>0. OpsTypeInv /\ LastLine /\ OwnerInv /\ OwnerInv'
  BY StepOwner DEF RunInv, PhaseInv
<1>1. LastLine'
  BY <1>0, StepLines
<1>2. RunLines' # {} => runDir'
  <2>1. RunLines' = RunLines \/ pc[p] \in OwnerPCs
    BY <1>0, StepLines
  <2> QED BY <1>0, <2>1, OwnerEnters DEF PhaseInv, OwnerInv
<1>3. ASSUME NEW q \in Proc, pc'[q] \in {"idle", "gate", "check_dir", "make_dir"}
      PROVE  beat'[q] = 0
  <2>1. CASE q = p
    <3>1. pc[p] \in {"idle", "gate", "check_dir", "make_dir"} /\ beat' = beat
      BY <1>0, <1>3, <2>1, EarlyPlaces
    <3> QED BY <2>1, <3>1 DEF PhaseInv
  <2>2. CASE q # p
    BY <1>0, <1>3, <2>2, OthersKeep DEF PhaseInv
  <2> QED BY <2>1, <2>2
<1>4. ASSUME NEW q \in Proc, pc'[q] \in OwnerPCs
      PROVE  PhaseFits(q)' /\ JournalBeats' = beat'[q]
  <2>1. CASE q = p
    BY <1>4, <2>1, OwnerFits, OwnerBeats
  <2>2. CASE q # p
    <3>1. /\ pc'[q] = pc[q] /\ op'[q] = op[q] /\ seen'[q] = seen[q]
          /\ held'[q] = held[q] /\ beat'[q] = beat[q]
      BY <1>0, <2>2, OthersKeep
    <3>2. pc[p] \notin OwnerPCs
      BY <1>0, <1>4, <2>2, <3>1 DEF OwnerInv
    <3>3. JournalPhase' = JournalPhase /\ JournalBeats' = JournalBeats
      BY <1>0, <3>2, StepLines
    <3>4. Blocked(q)' <=> Blocked(q)
      BY <3>1 DEF Blocked
    <3> QED BY <1>4, <3>1, <3>3, <3>4 DEF PhaseInv, PhaseFits
  <2> QED BY <2>1, <2>2
<1> QED BY <1>1, <1>2, <1>3, <1>4 DEF PhaseInv

\* A step of any command is a step of the abstract lifecycle, or none.
LEMMA StepImplements ==
    ASSUME RunInv, PhaseInv, NEW p \in Proc, Moves(p)
    PROVE  [Abstract!PhaseNext]_<<JournalPhase, JournalBeats>>
<1>0. OpsTypeInv /\ LastLine
  BY DEF RunInv, PhaseInv
<1>1. CASE JournalPhase' = JournalPhase /\ JournalBeats' = JournalBeats
  BY <1>1
<1>2. ASSUME NEW event \in RunEntries, Writes(p, event), pc[p] \in OwnerPCs,
             JournalPhase' = PhaseAfter(event),
             JournalBeats' = IF event = "paper_heartbeat" THEN JournalBeats + 1 ELSE JournalBeats
      PROVE  Abstract!PhaseNext
  <2>1. PhaseFits(p) /\ JournalBeats = beat[p] /\ Progress(p)
    BY <1>2 DEF PhaseInv, RunInv, StatusInv, OwnerStates
  <2>2. event \notin KillEntries /\ event # PatchEntryName(op[p])
    BY DEF RunEntries, KillEntries, PatchEntryName
  <2>3. CASE pc[p] = "first_entry"
    BY <1>2, <2>1, <2>2, <2>3 DEF Writes, PhaseFits, PhaseAfter, Abstract!PhaseNext,
       Abstract!Initialize, Abstract!Start, Abstract!Move
  <2>4. CASE pc[p] \in {"safety_checked", "safety_blocked", "blocked_completed", "paper_started"}
    BY <1>2, <2>1, <2>2, <2>4 DEF Writes, PhaseFits, PhaseAfter, Abstract!PhaseNext,
       Abstract!Check, Abstract!Block, Abstract!Complete, Abstract!Execute, Abstract!Move
  <2>5. CASE pc[p] = "heartbeat"
    <3>1. event = "paper_heartbeat" /\ JournalPhase = "executing"
      BY <1>2, <2>1, <2>2, <2>5 DEF Writes, PhaseFits
    <3>2. JournalBeats' # JournalBeats
      BY <1>0, <1>2, <3>1, LinesFinite
    <3>3. Heartbeat(p)
      BY <1>0, <2>5, <3>2, BeatPlace, LinesStay
    <3>4. beat[p] < HeartbeatCount
      BY <3>3 DEF Heartbeat
    <3> QED BY <1>2, <2>1, <3>1, <3>4 DEF PhaseAfter, Abstract!PhaseNext, Abstract!Beat
  <2>6. CASE pc[p] = "paper_completed"
    <3>1. beat[p] = HeartbeatCount
      BY <2>1, <2>6 DEF Progress
    <3> QED BY <1>2, <2>1, <2>2, <2>6, <3>1 DEF Writes, PhaseFits, PhaseAfter,
         Abstract!PhaseNext, Abstract!Finish, Abstract!Move
  <2>7. CASE pc[p] \in {"backtest_started", "backtest_completed"}
    BY <1>2, <2>1, <2>2, <2>7 DEF Writes, PhaseFits, PhaseAfter, Abstract!PhaseNext,
       Abstract!Backtest, Abstract!Finish, Abstract!Move
  <2>8. CASE pc[p] \in {"run_failed", "run_completed"}
    BY <1>2, <2>1, <2>2, <2>8 DEF Writes, PhaseFits, PhaseAfter, Abstract!PhaseNext,
       Abstract!Fail, Abstract!Complete, Abstract!Move
  <2> QED BY <1>2, <2>2, <2>3, <2>4, <2>5, <2>6, <2>7, <2>8 DEF Writes
<1>3. CASE \E event \in RunEntries :
              /\ Writes(p, event) /\ pc[p] \in OwnerPCs
              /\ JournalPhase' = PhaseAfter(event)
              /\ JournalBeats' =
                    IF event = "paper_heartbeat" THEN JournalBeats + 1 ELSE JournalBeats
  BY <1>2, <1>3
<1> QED BY <1>0, <1>1, <1>3, StepLines

\* Both hold from the first state on.
LEMMA PhaseInvInit == Init => PhaseInv /\ JournalPhase = "none" /\ \A e : EventCount(e) = 0
<1> SUFFICES ASSUME Init PROVE PhaseInv /\ JournalPhase = "none" /\ \A e : EventCount(e) = 0
  OBVIOUS
<1>1. journal = Absent /\ \A p \in Proc : pc[p] = "idle" /\ beat[p] = 0
  BY DEF Init, FreshInit, ProcInit, BeatInit
<1>2. RunLines = {}
  BY <1>1 DEF RunLines
<1>3. PhaseInv
  BY <1>1, <1>2 DEF PhaseInv, LastLine, OwnerPCs, RunPCs
<1>4. JournalPhase = "none"
  BY <1>2 DEF JournalPhase
<1>5. ASSUME NEW e PROVE EventCount(e) = 0
  <2>1. EventLines(e) = {}
    BY <1>2 DEF EventLines
  <2> QED BY <2>1, FS_EmptySet DEF EventCount
<1> QED BY <1>3, <1>4, <1>5

LEMMA PhaseInvNext ==
    ASSUME RunInv, PhaseInv, [Next]_vars
    PROVE  PhaseInv' /\ [Abstract!PhaseNext]_<<JournalPhase, JournalBeats>>
<1>1. CASE Next
  <2>1. PICK p \in Proc : Moves(p)
    BY <1>1, NextCases DEF Moves
  <2> QED BY <2>1, StepPhases, StepImplements
<1>2. CASE UNCHANGED vars
  <2>1. RunLines' = RunLines /\ JournalPhase' = JournalPhase /\ JournalBeats' = JournalBeats
    BY <1>2 DEF vars, workspace, files, RunLines, JournalPhase, JournalBeats
  <2>2. PhaseInv'
    BY <1>2, <2>1 DEF vars, workspace, files, procs, PhaseInv, LastLine, PhaseFits, Blocked
  <2> QED BY <2>1, <2>2
<1> QED BY <1>1, <1>2

\* The journal's lifecycle lines, read in order, are a behaviour of RunPhases: the run
\* starts once, announces its gate decision before it acts on it, beats only while it
\* executes and closes once, for any number of lifecycles that race for the run_id and
\* of other commands that write the same journal, crashing anywhere.
THEOREM JournalImplements == Spec => JournalImplementsPhases
<1>1. Init => PhaseInv /\ Abstract!PhaseInit
  <2>1. JournalBeats = EventCount("paper_heartbeat")
    BY DEF JournalBeats, EventCount, EventLines
  <2> QED BY <2>1, PhaseInvInit DEF Abstract!PhaseInit
<1>2. RunInv /\ PhaseInv /\ [Next]_vars =>
         PhaseInv' /\ [Abstract!PhaseNext]_<<JournalPhase, JournalBeats>>
  BY PhaseInvNext
<1> QED BY <1>1, <1>2, RunInvAlways, PTL DEF Spec, JournalImplementsPhases, Abstract!PhaseSpec

-----------------------------------------------------------------------------
(* What a reader of the files may rely on: metrics.json, journal and every copy of metadata *)
(* tell of one execution. *)

\* The owner has written metrics.json.
MetricsWritten(p) == pc[p] \in {"open_report", "flush_report"} \/ held[p].status = "completed"

\* What metrics.json reports is what the journal counts.
JournalTells(r) ==
    /\ EventCount("paper_heartbeat") = IF metrics = "placeholder" THEN HeartbeatCount ELSE 0
    /\ EventCount("paper_completed") = IF metrics = "placeholder" THEN 1 ELSE 0
    /\ EventCount("backtest_completed") = IF metrics = "smoke" THEN 1 ELSE 0
    /\ metrics = "blocked" => Logged("paper_safety_blocked") /\ ~Logged("paper_started")
    /\ metrics = "placeholder" => Logged("paper_started")
    /\ \E e \in Entries : e.event = "run_started" /\ e.by = r

\* The execution that r has behind it.
Execution(r) ==
    /\ op[r] \in {"backtest", "paper"} /\ metrics = MetricsOf(r)
    /\ JournalTells(r)

\* The owner's place, its dict and metrics.json.
InitPCs == {"copy_spec", "open_metadata", "flush_metadata", "create_journal", "first_entry"}
OwnerStatus(p) ==
    /\ pc[p] # "copy_spec" => (held[p].status = "initialized" <=> op[p] = "init")
    /\ op[p] = "init" => pc[p] \in InitPCs
    /\ \/ pc[p] \in ArtifactPCs \ {"open_metrics"} \/ held[p].status = "completed"
       \/ metrics = Absent
    /\ MetricsWritten(p) => Readable(metrics)
    /\ pc[p] = "run_completed" => held[p].status = "completed"
    /\ pc[p] \notin {"copy_spec", "open_metadata"} => metadata # Absent
    /\ beat[p] > 0 => op[p] = "paper" /\ ~Blocked(p)

\* The owner's phase and the lines it has written.
OwnerJournal(p) ==
    /\ EventCount("paper_completed") =
          IF JournalPhase = "executed" /\ op[p] = "paper" THEN 1 ELSE 0
    /\ EventCount("backtest_completed") =
          IF JournalPhase = "executed" /\ op[p] = "backtest" THEN 1 ELSE 0
    /\ JournalPhase = "executed" /\ op[p] = "paper" =>
          beat[p] = HeartbeatCount /\ Logged("paper_started")
    /\ JournalPhase \in {"blocked", "completed"} =>
          Logged("paper_safety_blocked") /\ ~Logged("paper_started") /\ Blocked(p)
    /\ JournalPhase # "none" => \E e \in Entries : e.event = "run_started" /\ e.by = p

\* What a copy of metadata.json says of metrics.json and of the owner.
CopyTrue(m) ==
    /\ m.status = "initialized" =>
          /\ metrics = Absent /\ runDir
          /\ \A p \in Proc : pc[p] \in OwnerPCs => op[p] = "init"
    /\ m.status = "failed" =>
          /\ metrics = Absent /\ runDir
          /\ \A p \in Proc : pc[p] \in OwnerPCs => held[p].status = "failed"
    /\ m.status = "safety_blocked" \/ m.outcome = "blocked_kill_switch" =>
          /\ metrics \in {Absent, Empty, "blocked"} /\ runDir
          /\ \A p \in Proc : pc[p] \in OwnerPCs => Blocked(p)
    /\ m.outcome = "checked_continue" =>
          /\ metrics \in {Absent, Empty, "placeholder"} /\ runDir
          /\ \A p \in Proc : pc[p] \in OwnerPCs => op[p] = "paper" /\ ~Blocked(p)
    /\ m.status = "completed" => metrics \in {"smoke", "placeholder"}

\* Where a command has a copy that it may yet save.
CarryPCs == {"patch_status", "patch_open", "patch_flush", "section_open", "section_flush"}
            \cup (OwnerPCs \ {"copy_spec"})

CopiesTrue ==
    /\ Readable(metadata) => CopyTrue(metadata)
    /\ \A p \in Proc : pc[p] \in CarryPCs => CopyTrue(held[p])

MetricsTold ==
    /\ metrics # Garbled
    /\ ~runDir => metrics = Absent
    /\ Readable(metrics) =>
          /\ \E r \in Proc : Execution(r)
          /\ \A p \in Proc : pc[p] \in OwnerPCs => MetricsWritten(p)

\* A run that ended well left its four artifacts.
RunsKept ==
    \A p \in Proc : pc[p] = "done" /\ op[p] \in {"backtest", "paper"} =>
        /\ Readable(metrics) /\ report # Absent
        /\ journal # Absent /\ metadata # Absent

WriterInv ==
    /\ \A p \in Proc : pc[p] \in OwnerPCs => OwnerStatus(p) /\ OwnerJournal(p)
    /\ CopiesTrue /\ MetricsTold /\ RunsKept

\* What metrics.json may say is not what a missing or a torn file looks like.
LEMMA MetricsReadable == \A m \in MetricsContent : Readable(m) /\ m \notin {Absent, Empty, Garbled}
  BY FileAssumption DEF Readable, NoFile

\* Only the owner writes metrics.json.
LEMMA MetricsWriter ==
    ASSUME OpsTypeInv, NEW p \in Proc, Moves(p)
    PROVE  \/ metrics' = metrics
           \/ OpenMetrics(p) \/ FlushMetrics(p)
<1>1. CASE RunStep(p)
  BY <1>1 DEF RunStep, Gate, CheckDir, MakeDir, CopySpec, OpenMetadata, FlushMetadata,
     CreateJournal, RunInitialized, RunStarted, SafetyChecked, SafetyBlocked, BlockedCompleted,
     PaperStarted, Heartbeat, HeartbeatsDone, PaperCompleted, BacktestStarted, EngineRun,
     BacktestCompleted, Raise, RunFailed, OpenReport, FlushReport, RunCompleted, LogStep, files
<1>2. CASE KillBegin(p) \/ KillStep(p) \/ Crash(p)
  BY <1>2, KillCopies
<1>3. CASE PatchStep(p)
  BY <1>3, PatchCopies
<1>4. CASE UNCHANGED files
  BY <1>4 DEF files
<1> QED BY <1>1, <1>2, <1>3, <1>4 DEF Moves

\* At its metrics the owner is, and has done, what it should.
LEMMA MetricsPlace ==
    ASSUME RunInv, WriterInv, NEW p \in Proc, Moves(p), OpenMetrics(p) \/ FlushMetrics(p)
    PROVE  /\ pc[p] \in ArtifactPCs /\ pc[p] \in OwnerPCs /\ op[p] \in {"backtest", "paper"}
           /\ held[p].status \notin {"completed", "failed", "initialized"}
           /\ ~Readable(metrics)
           /\ OpenMetrics(p) => metrics' = Empty /\ pc[p] = "open_metrics" /\ pc'[p] = "flush_metrics"
           /\ FlushMetrics(p) => metrics' = MetricsOf(p) /\ pc[p] = "flush_metrics" /\ pc'[p] = "open_report"
<1>0. OpsTypeInv /\ pc \in [Proc -> PCs]
  BY DEF RunInv, OpsTypeInv, OpsTypeOK, TypeOK
<1>1. pc[p] \in {"open_metrics", "flush_metrics"} /\ pc[p] \in OwnerPCs /\ pc[p] \in RunPCs
  BY DEF OpenMetrics, FlushMetrics, Goto, OwnerPCs, RunPCs
<1>2. StatusHeld(p) /\ Progress(p) /\ OwnerStatus(p)
  BY <1>1 DEF RunInv, StatusInv, OwnerStates, WriterInv
<1>3. held[p].status \notin {"completed", "failed"}
  BY <1>1, <1>2 DEF StatusHeld, SavePCs
<1>4. op[p] \in {"backtest", "paper"}
  BY <1>0, <1>1, <1>2 DEF OwnerStatus, InitPCs, OpsTypeInv, OpsFit, RunOps
<1>5. ~Readable(metrics)
  BY <1>1, <1>3 DEF WriterInv, MetricsTold, MetricsWritten
<1>6. held[p].status # "initialized"
  BY <1>1, <1>2, <1>4 DEF OwnerStatus
<1>7. OpenMetrics(p) => metrics' = Empty /\ pc[p] = "open_metrics" /\ pc'[p] = "flush_metrics"
  BY <1>0 DEF OpenMetrics, Goto
<1>8. FlushMetrics(p) => metrics' = MetricsOf(p) /\ pc[p] = "flush_metrics" /\ pc'[p] = "open_report"
  BY <1>0, <1>2 DEF FlushMetrics, Goto, Progress, Flush
<1> QED BY <1>1, <1>3, <1>4, <1>5, <1>6, <1>7, <1>8 DEF ArtifactPCs

\* What is true of a copy stays true, whoever moves.
LEMMA CopyTrueStays ==
    ASSUME RunInv, WriterInv, NEW p \in Proc, Moves(p), NEW m, CopyTrue(m)
    PROVE  CopyTrue(m)'
<1>0. OpsTypeInv /\ OwnerInv
  BY DEF RunInv
<1>1. runDir => runDir'
  BY <1>0, OwnerEnters
<1>2. runDir /\ pc'[p] \in OwnerPCs => pc[p] \in OwnerPCs
  BY <1>0, OwnerEnters
<1>3. \A q \in Proc : q # p => /\ pc'[q] = pc[q] /\ op'[q] = op[q] /\ held'[q] = held[q]
                               /\ (Blocked(q)' <=> Blocked(q))
  BY <1>0, OthersKeep DEF Blocked
<1>4. pc[p] \in OwnerPCs => op'[p] = op[p] /\ (Blocked(p)' <=> Blocked(p))
  BY <1>0, OwnerKeeps
<1>5. pc[p] \in OwnerPCs /\ pc'[p] \in OwnerPCs /\ held[p].status = "failed" =>
         held'[p].status = "failed"
  <2> SUFFICES ASSUME pc[p] \in OwnerPCs, pc'[p] \in OwnerPCs, held[p].status = "failed"
               PROVE  held' = held
    OBVIOUS
  <2>1. pc[p] \in SavePCs \cup {"run_failed"}
    BY DEF RunInv, StatusInv, OwnerStates, StatusHeld
  <2>2. RunStep(p) \/ (Crash(p) /\ pc'[p] = "crashed")
    BY <1>0, OwnerSteps
  <2> QED BY <2>1, <2>2 DEF SavePCs, RunStep, Gate, CheckDir, MakeDir, CopySpec, OpenMetadata,
       FlushMetadata, CreateJournal, RunInitialized, RunStarted, SafetyChecked, SafetyBlocked,
       BlockedCompleted, PaperStarted, Heartbeat, HeartbeatsDone, PaperCompleted, BacktestStarted,
       EngineRun, BacktestCompleted, Raise, RunFailed, OpenMetrics, FlushMetrics, OpenReport,
       FlushReport, RunCompleted, LogStep, Goto, Crash
<1>6. CASE metrics' = metrics
  BY <1>1, <1>2, <1>3, <1>4, <1>5, <1>6 DEF CopyTrue
<1>7. CASE OpenMetrics(p) \/ FlushMetrics(p)
  <2>1. /\ pc[p] \in OwnerPCs /\ op[p] \in {"backtest", "paper"}
        /\ held[p].status \notin {"completed", "failed", "initialized"}
        /\ ~Readable(metrics) /\ metrics' \in {Empty, MetricsOf(p)}
    BY <1>7, MetricsPlace
  <2>2. m.status \notin {"initialized", "failed", "completed"}
    <3>1. metrics \notin {"smoke", "placeholder"}
      BY <2>1, MetricsReadable DEF MetricsContent
    <3> QED BY <2>1, <3>1 DEF CopyTrue
  <2>3. m.status = "safety_blocked" \/ m.outcome = "blocked_kill_switch" =>
           metrics' \in {Absent, Empty, "blocked"}
    BY <2>1 DEF CopyTrue, MetricsOf, Blocked
  <2>4. m.outcome = "checked_continue" => metrics' \in {Absent, Empty, "placeholder"}
    BY <2>1 DEF CopyTrue, MetricsOf
  <2> QED BY <1>1, <1>2, <1>3, <1>4, <2>2, <2>3, <2>4 DEF CopyTrue
<1> QED BY <1>0, <1>6, <1>7, MetricsWriter

\* Each writer of metadata.json saves its own copy, from a place where it carries one.
LEMMA MetadataWriter ==
    ASSUME OpsTypeInv, NEW p \in Proc, Moves(p)
    PROVE  \/ metadata' \in {metadata, Empty, Garbled}
           \/ pc[p] \in CarryPCs /\ metadata' = held[p]
<1>1. CASE FlushMetadata(p) \/ PatchFlush(p) \/ SectionFlush(p)
  BY <1>1, FlushResult DEF FlushMetadata, PatchFlush, SectionFlush, Goto, CarryPCs, OwnerPCs, RunPCs
<1>2. CASE ~(FlushMetadata(p) \/ PatchFlush(p) \/ SectionFlush(p))
  <2>1. CASE RunStep(p)
    BY <1>2, <2>1 DEF RunStep, Gate, CheckDir, MakeDir, CopySpec, OpenMetadata,
       CreateJournal, RunInitialized, RunStarted, SafetyChecked, SafetyBlocked, BlockedCompleted,
       PaperStarted, Heartbeat, HeartbeatsDone, PaperCompleted, BacktestStarted, EngineRun,
       BacktestCompleted, Raise, RunFailed, OpenMetrics, FlushMetrics, OpenReport, FlushReport,
       RunCompleted, LogStep, files
  <2>2. CASE KillBegin(p) \/ KillStep(p) \/ Crash(p)
    BY <1>2, <2>2 DEF KillBegin, ReadStatus, KillStep, AppendEvent, AppendKillEntry, OpenState,
       FlushState, PatchRead, PatchStatus, PatchOpen, Crash, files
  <2>3. CASE PatchStep(p)
    BY <1>2, <2>3 DEF PatchStep, CheckFiles, InvalidTarget, ArtifactOpen, ArtifactFlush,
       SectionRead, SectionOpen, SectionEntry, ReportRead, ReportOpen, ReportFlush, files
  <2>4. CASE UNCHANGED files
    BY <2>4 DEF files
  <2> QED BY <2>1, <2>2, <2>3, <2>4 DEF Moves
<1> QED BY <1>1, <1>2

\* Nothing is deleted.
LEMMA FilesStay ==
    ASSUME OpsTypeInv, NEW p \in Proc, Moves(p)
    PROVE  /\ metadata # Absent => metadata' # Absent
           /\ metrics # Absent => metrics' # Absent
           /\ journal # Absent => journal' # Absent
           /\ report # Absent => report' # Absent
           /\ \A o \in PatchOps : connFile[o] # Absent => connFile'[o] # Absent
<1>0. /\ held[p] \in MetaContent /\ Absent \notin MetaContent /\ Absent \notin MetricsContent
      /\ Empty # Absent /\ Garbled # Absent /\ OpsTypeInv'
  BY FileAssumption, OpsMoveType DEF NoFile, OpsTypeInv, OpsTypeOK, TypeOK
<1>1. metadata # Absent => metadata' # Absent
  BY <1>0, MetadataWriter
<1>2. metrics # Absent => metrics' # Absent
  <2>1. MetricsOf(p) \in MetricsContent
    BY DEF MetricsOf, MetricsContent
  <2>2. metrics' \in {metrics, Empty, Garbled, MetricsOf(p)}
    BY MetricsWriter, FlushResult DEF OpenMetrics, FlushMetrics
  <2> QED BY <1>0, <2>1, <2>2
<1>3. journal # Absent => journal' # Absent
  <2> SUFFICES ASSUME journal # Absent, journal' # journal PROVE journal' # Absent
    OBVIOUS
  <2>1. PICK event \in RunEntries \cup KillEntries \cup PatchEntries :
           journal' = Append(journal, Line(p, event))
    BY StepJournal
  <2>2. PICK e \in Entry : e = Line(p, event)
    BY EntryType DEF Line
  <2>3. journal \in Seq(Entry)
    BY DEF OpsTypeInv, OpsTypeOK, TypeOK
  <2>4. Append(journal, e) \in Seq(Entry)
    BY <2>2, <2>3
  <2> QED BY <2>1, <2>2, <2>4, JournalExists
<1>4. report # Absent => report' # Absent
  BY ReportStays
<1>5. \A o \in PatchOps : connFile[o] # Absent => connFile'[o] # Absent
  BY ArtifactStays DEF Moves, connVars
<1> QED BY <1>1, <1>2, <1>3, <1>4, <1>5

\* An execution that is told stays told: its author is past the gate, and its owner has
\* only its closing line to write.
LEMMA ExecutionStays ==
    ASSUME RunInv, PhaseInv, WriterInv, NEW p \in Proc, Moves(p),
           Readable(metrics), metrics' = metrics, NEW r \in Proc, Execution(r)
    PROVE  Execution(r)'
<1>0. OpsTypeInv /\ LastLine
  BY DEF RunInv, PhaseInv
<1>1. PICK e \in Entries : e.event = "run_started" /\ e.by = r
  BY DEF Execution, JournalTells
<1>2. e \in Entries' /\ pc[r] \notin {"idle", "gate"}
  BY <1>0, <1>1, StepEntries DEF RunInv, SilentInv
<1>3. op'[r] = op[r] /\ seen'[r] = seen[r]
  BY <1>0, <1>2, OthersKeep, GateEnters, SeenOnce
<1>4. ASSUME NEW event \in RunEntries, Writes(p, event)
      PROVE  event = "run_completed"
  <2>1. pc[p] \in OwnerPCs
    BY <1>4, OwnerWrites
  <2>2. MetricsWritten(p) /\ StatusHeld(p)
    BY <2>1 DEF WriterInv, MetricsTold, RunInv, StatusInv, OwnerStates
  <2>3. pc[p] \in SavePCs \cup {"run_completed", "open_report", "flush_report"}
    BY <2>2 DEF MetricsWritten, StatusHeld
  <2> QED BY <1>4, <2>3 DEF Writes, SavePCs
<1>5. \A event \in {"paper_heartbeat", "paper_completed", "backtest_completed"} :
         EventCount(event)' = EventCount(event)
  BY <1>0, <1>4, StepLines
<1>6. pc[p] # "paper_started"
  <2>1. pc[p] = "paper_started" => Writes(p, "paper_started")
    BY DEF Writes
  <2> QED BY <1>4, <2>1 DEF RunEntries
<1>7. /\ Logged("paper_safety_blocked") => Logged("paper_safety_blocked")'
      /\ Logged("paper_started") => Logged("paper_started")'
      /\ ~Logged("paper_started") => ~Logged("paper_started")'
  BY <1>0, <1>6, LoggedStays, BranchNews
<1> QED BY <1>1, <1>2, <1>3, <1>5, <1>7 DEF Execution, JournalTells, MetricsOf, Blocked

\* The owner that writes metrics.json has that execution behind it.
LEMMA ExecutionTold ==
    ASSUME RunInv, PhaseInv, WriterInv, NEW p \in Proc, Moves(p), FlushMetrics(p)
    PROVE  Execution(p)'
<1>0. /\ OpsTypeInv /\ LastLine /\ beat \in [Proc -> 0..HeartbeatCount]
      /\ pc[p] \in ArtifactPCs /\ pc[p] \in OwnerPCs /\ op[p] \in {"backtest", "paper"}
      /\ metrics' = MetricsOf(p) /\ journal' = journal /\ op' = op /\ seen' = seen
  BY MetricsPlace DEF FlushMetrics, RunInv, PhaseInv, OpsTypeInv, OpsTypeOK
<1>1. /\ OwnerStatus(p) /\ OwnerJournal(p) /\ PhaseFits(p)
      /\ EventCount("paper_heartbeat") = beat[p]
  BY <1>0, LinesFinite DEF WriterInv, PhaseInv
<1>2. JournalPhase = IF Blocked(p) THEN "completed" ELSE "executed"
  BY <1>0, <1>1 DEF PhaseFits
<1>3. /\ Entries' = Entries
      /\ EventCount("paper_heartbeat")' = EventCount("paper_heartbeat")
      /\ EventCount("paper_completed")' = EventCount("paper_completed")
      /\ EventCount("backtest_completed")' = EventCount("backtest_completed")
      /\ Logged("paper_safety_blocked")' <=> Logged("paper_safety_blocked")
      /\ Logged("paper_started")' <=> Logged("paper_started")
  BY <1>0, LinesStay DEF Entries, Logged
<1>4. MetricsOf(p)' = MetricsOf(p)
  BY <1>0 DEF MetricsOf, Blocked
<1>5. MetricsOf(p) = IF op[p] = "backtest" THEN "smoke"
                     ELSE IF Blocked(p) THEN "blocked" ELSE "placeholder"
  BY DEF MetricsOf, Blocked
<1>6. beat[p] = IF MetricsOf(p) = "placeholder" THEN HeartbeatCount ELSE 0
  <2>1. CASE op[p] = "paper" /\ ~Blocked(p)
    BY <1>1, <1>2, <1>5, <2>1 DEF OwnerJournal
  <2>2. CASE ~(op[p] = "paper" /\ ~Blocked(p))
    <3>1. ~(beat[p] > 0) /\ beat[p] \in 0..HeartbeatCount
      BY <1>0, <1>1, <2>2 DEF OwnerStatus
    <3>2. beat[p] = 0
      BY <3>1 DEF HeartbeatCount
    <3> QED BY <1>0, <1>5, <2>2, <3>2
  <2> QED BY <2>1, <2>2
<1>7. /\ EventCount("paper_completed") = IF MetricsOf(p) = "placeholder" THEN 1 ELSE 0
      /\ EventCount("backtest_completed") = IF MetricsOf(p) = "smoke" THEN 1 ELSE 0
  <2>1. CASE Blocked(p)
    BY <1>1, <1>2, <1>5, <2>1 DEF OwnerJournal, Blocked
  <2>2. CASE ~Blocked(p)
    BY <1>0, <1>1, <1>2, <1>5, <2>2 DEF OwnerJournal
  <2> QED BY <2>1, <2>2
<1>8. MetricsOf(p) = "blocked" => Logged("paper_safety_blocked") /\ ~Logged("paper_started")
  BY <1>1, <1>2, <1>5 DEF OwnerJournal
<1>9. MetricsOf(p) = "placeholder" => Logged("paper_started")
  BY <1>0, <1>1, <1>2, <1>5 DEF OwnerJournal
<1>10. \E e \in Entries : e.event = "run_started" /\ e.by = p
  BY <1>1, <1>2 DEF OwnerJournal
<1>11. metrics' = MetricsOf(p)' /\ op'[p] \in {"backtest", "paper"}
  BY <1>0, <1>4
<1>12. JournalTells(p)'
  <2> DEFINE m == MetricsOf(p)
  <2>1. metrics' = m
    BY <1>0
  <2>2. /\ EventCount("paper_heartbeat")' = IF m = "placeholder" THEN HeartbeatCount ELSE 0
        /\ EventCount("paper_completed")' = IF m = "placeholder" THEN 1 ELSE 0
        /\ EventCount("backtest_completed")' = IF m = "smoke" THEN 1 ELSE 0
    BY <1>1, <1>3, <1>6, <1>7
  <2>3. /\ m = "blocked" => Logged("paper_safety_blocked")' /\ ~Logged("paper_started")'
        /\ m = "placeholder" => Logged("paper_started")'
    BY <1>3, <1>8, <1>9
  <2>4. \E e \in Entries' : e.event = "run_started" /\ e.by = p
    BY <1>3, <1>10
  <2> HIDE DEF m
  <2> QED BY <2>1, <2>2, <2>3, <2>4 DEF JournalTells, HeartbeatCount
<1> QED BY <1>11, <1>12 DEF Execution

\* An owner that has written metrics.json still knows it in its next place.
LEMMA WrittenStays ==
    ASSUME RunInv, NEW p \in Proc, Moves(p), pc[p] \in OwnerPCs, pc'[p] \in OwnerPCs,
           MetricsWritten(p)
    PROVE  MetricsWritten(p)'
<1>0. OpsTypeInv /\ pc \in [Proc -> PCs] /\ held \in [Proc -> MetaContent]
  BY DEF RunInv, OpsTypeInv, OpsTypeOK, TypeOK
<1>1. StatusHeld(p)
  BY DEF RunInv, StatusInv, OwnerStates
<1>2. RunStep(p)
  BY <1>0, OwnerSteps DEF OwnerPCs, RunPCs
<1>3. CASE pc[p] \in {"open_report", "flush_report"}
  <2>1. OpenReport(p) \/ FlushReport(p)
    BY <1>2, <1>3 DEF RunStep, Gate, CheckDir, MakeDir, CopySpec, OpenMetadata, FlushMetadata,
       CreateJournal, RunInitialized, RunStarted, SafetyChecked, SafetyBlocked, BlockedCompleted,
       PaperStarted, Heartbeat, HeartbeatsDone, PaperCompleted, BacktestStarted, EngineRun,
       BacktestCompleted, Raise, RunFailed, OpenMetrics, FlushMetrics, RunCompleted, LogStep, Goto
  <2>2. OpenReport(p) => pc'[p] = "flush_report"
    BY <1>0 DEF OpenReport, Goto
  <2>3. FlushReport(p) => held'[p].status = "completed" \/ pc'[p] = "done"
    BY <1>0 DEF FlushReport, Goto, MetaContent
  <2>4. "done" \notin OwnerPCs
    BY DEF OwnerPCs, RunPCs
  <2> QED BY <2>1, <2>2, <2>3, <2>4 DEF MetricsWritten
<1>4. CASE held[p].status = "completed"
  <2>1. pc[p] \in SavePCs \cup {"run_completed"}
    BY <1>1, <1>4 DEF StatusHeld
  <2>2. held' = held
    BY <1>2, <2>1 DEF SavePCs, RunStep, Gate, CheckDir, MakeDir, CopySpec, OpenMetadata,
       FlushMetadata, CreateJournal, RunInitialized, RunStarted, SafetyChecked, SafetyBlocked,
       BlockedCompleted, PaperStarted, Heartbeat, HeartbeatsDone, PaperCompleted, BacktestStarted,
       EngineRun, BacktestCompleted, Raise, RunFailed, OpenMetrics, FlushMetrics, OpenReport,
       FlushReport, RunCompleted, LogStep, Goto
  <2> QED BY <1>4, <2>2 DEF MetricsWritten
<1> QED BY <1>3, <1>4 DEF MetricsWritten

LEMMA ToldStep ==
    ASSUME RunInv, PhaseInv, WriterInv, NEW p \in Proc, Moves(p)
    PROVE  MetricsTold'
<1>0. OpsTypeInv /\ OwnerInv /\ OwnerInv'
  BY StepOwner DEF RunInv
<1>1. ASSUME NEW q \in Proc, q # p
      PROVE  pc'[q] = pc[q] /\ (MetricsWritten(q)' <=> MetricsWritten(q))
  BY <1>0, <1>1, OthersKeep DEF MetricsWritten
<1>2. CASE OpenMetrics(p) \/ FlushMetrics(p)
  <2>1. /\ pc[p] \in OwnerPCs /\ runDir /\ runDir'
        /\ OpenMetrics(p) => metrics' = Empty
        /\ FlushMetrics(p) => metrics' = MetricsOf(p) /\ pc'[p] = "open_report"
    BY <1>0, <1>2, MetricsPlace, OwnerEnters DEF OwnerInv
  <2>2. MetricsOf(p) \in MetricsContent
    BY DEF MetricsOf, MetricsContent
  <2>3. metrics' # Garbled
    BY <1>2, <2>1, <2>2, MetricsReadable, FileAssumption
  <2>4. ASSUME FlushMetrics(p), NEW q \in Proc, pc'[q] \in OwnerPCs
        PROVE  MetricsWritten(q)'
    <3>1. q = p
      BY <1>1, <2>1, <2>4, <1>0 DEF OwnerInv
    <3> QED BY <2>1, <2>4, <3>1 DEF MetricsWritten
  <2>5. OpenMetrics(p) => ~Readable(metrics')
    BY <2>1 DEF Readable, NoFile
  <2>6. Readable(metrics') => \E r \in Proc : Execution(r)'
    BY <1>2, <2>5, ExecutionTold
  <2> QED BY <1>2, <2>1, <2>3, <2>4, <2>5, <2>6 DEF MetricsTold, Readable
<1>3. CASE metrics' = metrics
  <2>1. ~runDir' => metrics' = Absent
    BY <1>0, <1>3, OwnerEnters DEF WriterInv, MetricsTold
  <2>2. ASSUME Readable(metrics)
        PROVE  \E r \in Proc : Execution(r)'
    BY <1>3, <2>2, ExecutionStays DEF WriterInv, MetricsTold
  <2>3. ASSUME Readable(metrics), NEW q \in Proc, pc'[q] \in OwnerPCs
        PROVE  MetricsWritten(q)'
    <3>1. runDir /\ \A u \in Proc : pc[u] \in OwnerPCs => MetricsWritten(u)
      BY <2>3 DEF WriterInv, MetricsTold, Readable, NoFile
    <3>2. CASE q = p
      <4>1. pc[p] \in OwnerPCs
        BY <1>0, <2>3, <3>1, <3>2, OwnerEnters
      <4> QED BY <2>3, <3>1, <3>2, <4>1, WrittenStays
    <3>3. CASE q # p
      BY <1>1, <2>3, <3>1, <3>3
    <3> QED BY <3>2, <3>3
  <2> QED BY <1>3, <2>1, <2>2, <2>3 DEF WriterInv, MetricsTold, Readable
<1> QED BY <1>0, <1>2, <1>3, MetricsWriter

\* A lifecycle that passes mkdir begins with nothing written.
LEMMA OwnerOpens ==
    ASSUME RunInv, PhaseInv, WriterInv, NEW p \in Proc, Moves(p),
           pc[p] \notin OwnerPCs, pc'[p] \in OwnerPCs
    PROVE  OwnerStatus(p)' /\ OwnerJournal(p)'
<1>0. OpsTypeInv /\ LastLine
  BY DEF RunInv, PhaseInv
<1>1. ~runDir /\ pc'[p] = "copy_spec" /\ pc[p] = "make_dir" /\ beat' = beat
  BY <1>0, OwnerEnters, EntersByMkdir
<1>2. MakeDir(p) /\ held'[p] = held[p] /\ held[p] = InitialMetadata /\ beat[p] = 0
  BY <1>0, <1>1, CopyEnters DEF MakeDir, RunInv, StatusInv, FreshInv, Fresh, PhaseInv
<1>3. metrics = Absent /\ metrics' = Absent
  BY <1>1, <1>2 DEF MakeDir, WriterInv, MetricsTold
<1>4. held'[p].status = "initialized"
  BY <1>2 DEF InitialMetadata
<1>5. OwnerStatus(p)'
  BY <1>1, <1>2, <1>3, <1>4 DEF OwnerStatus, MetricsWritten, InitPCs
<1>6. /\ JournalPhase' = JournalPhase
      /\ EventCount("paper_completed")' = EventCount("paper_completed")
      /\ EventCount("backtest_completed")' = EventCount("backtest_completed")
  BY <1>0, <1>1, StepLines
<1>7. RunLines = {}
  BY <1>1 DEF PhaseInv
<1>8. JournalPhase = "none" /\ EventCount("paper_completed") = 0 /\ EventCount("backtest_completed") = 0
  BY <1>7, FS_EmptySet DEF JournalPhase, EventCount, EventLines
<1>9. OwnerJournal(p)'
  BY <1>6, <1>8 DEF OwnerJournal
<1> QED BY <1>5, <1>9

\* The first dict tells an init from a run.
LEMMA FirstStatus ==
    ASSUME OpsTypeInv, NEW p \in Proc, CopySpec(p)
    PROVE  held'[p].status = IF op[p] = "init" THEN "initialized" ELSE "running"
<1>1. held \in [Proc -> MetaContent] /\ op[p] \in RunOps
  BY DEF CopySpec, Goto, OpsTypeInv, OpsTypeOK, TypeOK, OpsFit, RunPCs
<1>2. \/ op[p] = "init" /\ held'[p] = InitialMetadata
      \/ op[p] = "backtest" /\ held'[p] = BacktestMetadata
      \/ op[p] = "paper" /\ held'[p] = PaperMetadata(p)
  BY <1>1 DEF CopySpec, RunOps
<1>3. /\ InitialMetadata.status = "initialized"
      /\ BacktestMetadata.status = "running" /\ PaperMetadata(p).status = "running"
  BY DEF InitialMetadata, BacktestMetadata, PaperMetadata
<1> HIDE DEF InitialMetadata, BacktestMetadata, PaperMetadata
<1> QED BY <1>2, <1>3

\* A place of its own has the owner of an init.
LEMMA InitPlace ==
    ASSUME WriterInv, NEW p \in Proc, pc[p] \in OwnerPCs \ InitPCs
    PROVE  op[p] # "init"
  BY DEF WriterInv, OwnerStatus

\* The owner goes on with the dict and the metrics that it has.
LEMMA StatusGoes ==
    ASSUME RunInv, WriterInv, NEW p \in Proc, Moves(p), pc[p] \in OwnerPCs,
           \/ OpenMetadata(p) \/ FlushMetadata(p) \/ CreateJournal(p) \/ RunStarted(p)
           \/ (SafetyChecked(p) /\ ~Blocked(p)) \/ SafetyBlocked(p) \/ BlockedCompleted(p)
           \/ PaperStarted(p) \/ Heartbeat(p) \/ HeartbeatsDone(p) \/ PaperCompleted(p)
           \/ BacktestStarted(p) \/ EngineRun(p) \/ BacktestCompleted(p)
    PROVE  OwnerStatus(p)'
<1>0. /\ OpsTypeInv /\ OwnerStatus(p) /\ pc \in [Proc -> PCs] /\ held[p] \in MetaContent
      /\ beat \in [Proc -> 0..HeartbeatCount]
  BY DEF RunInv, WriterInv, OpsTypeInv, OpsTypeOK, TypeOK
<1>1. held' = held /\ metrics' = metrics /\ op' = op /\ (Blocked(p)' <=> Blocked(p))
  <2>1. held' = held /\ metrics' = metrics
    BY DEF OpenMetadata, FlushMetadata, CreateJournal, RunStarted, SafetyChecked, SafetyBlocked,
       BlockedCompleted, PaperStarted, Heartbeat, HeartbeatsDone, PaperCompleted, BacktestStarted,
       EngineRun, BacktestCompleted, LogStep, files
  <2> QED BY <1>0, <2>1, OwnerKeeps
<1>2. /\ pc[p] \notin ArtifactPCs \cup {"copy_spec"}
      /\ pc'[p] \notin {"copy_spec", "open_metadata", "open_report", "flush_report"}
      /\ op[p] = "init" => pc'[p] \in InitPCs
      /\ pc'[p] = "run_completed" => held[p].status = "completed"
  <2>1. CASE OpenMetadata(p) \/ CreateJournal(p)
    BY <1>0, <2>1 DEF OpenMetadata, CreateJournal, Goto, InitPCs, ArtifactPCs
  <2>2. CASE FlushMetadata(p)
    <3>1. pc[p] = "flush_metadata" /\ pc'[p] = AfterMetadata(p)
      BY <1>0, <2>2 DEF FlushMetadata, Goto
    <3>2. \/ held[p].status \in {"initialized", "running"} /\ pc'[p] = "create_journal"
          \/ held[p].status = "safety_blocked" /\ pc'[p] = "safety_blocked"
          \/ held[p].status = "failed" /\ pc'[p] = "run_failed"
          \/ held[p].status = "completed" /\ pc'[p] = "run_completed"
      BY <1>0, <3>1 DEF AfterMetadata, MetaContent, RunStatuses
    <3> QED BY <1>0, <3>1, <3>2 DEF OwnerStatus, InitPCs, ArtifactPCs
  <2>3. CASE RunStarted(p)
    BY <1>0, <2>3 DEF RunStarted, LogStep, Goto, ArtifactPCs
  <2>4. CASE \/ (SafetyChecked(p) /\ ~Blocked(p)) \/ SafetyBlocked(p) \/ BlockedCompleted(p)
             \/ PaperStarted(p) \/ Heartbeat(p) \/ HeartbeatsDone(p) \/ PaperCompleted(p)
             \/ BacktestStarted(p) \/ EngineRun(p) \/ BacktestCompleted(p)
    <3>1. /\ pc[p] \in {"safety_checked", "safety_blocked", "blocked_completed", "paper_started",
                        "heartbeat", "paper_completed", "backtest_started", "engine",
                        "backtest_completed"}
          /\ pc'[p] \in {"paper_started", "blocked_completed", "open_metrics", "heartbeat",
                         "paper_completed", "engine", "backtest_completed"}
      BY <1>0, <2>4 DEF SafetyChecked, SafetyBlocked, BlockedCompleted, PaperStarted, Heartbeat,
         HeartbeatsDone, PaperCompleted, BacktestStarted, EngineRun, BacktestCompleted, LogStep, Goto
    <3>2. op[p] # "init"
      BY <3>1, InitPlace DEF InitPCs
    <3> QED BY <3>1, <3>2 DEF ArtifactPCs
  <2> QED BY <2>1, <2>2, <2>3, <2>4
<1>3. metadata' # Absent
  <2>1. CASE OpenMetadata(p)
    BY <2>1, FileAssumption DEF OpenMetadata
  <2>2. CASE ~OpenMetadata(p)
    <3>1. pc[p] # "open_metadata"
      BY <2>2 DEF FlushMetadata, CreateJournal, RunStarted, SafetyChecked, SafetyBlocked,
         BlockedCompleted, PaperStarted, Heartbeat, HeartbeatsDone, PaperCompleted,
         BacktestStarted, EngineRun, BacktestCompleted, LogStep, Goto
    <3> QED BY <1>0, <1>2, <3>1, FilesStay DEF OwnerStatus
  <2> QED BY <2>1, <2>2
<1>4. beat'[p] > 0 => op[p] = "paper" /\ ~Blocked(p)
  <2>1. CASE Heartbeat(p)
    <3>1. pc[p] = "heartbeat"
      BY <2>1 DEF Heartbeat, Goto
    <3> QED BY <3>1 DEF RunInv, ExecInv, ExecutionPCs, Blocked
  <2>2. CASE beat' = beat
    BY <1>0, <2>2 DEF OwnerStatus
  <2> QED BY <1>0, <2>1, <2>2, BeatSteps
<1>5. (held[p].status = "initialized" <=> op[p] = "init")
  BY <1>0, <1>2 DEF OwnerStatus
<1>6. held[p].status = "completed" \/ metrics = Absent
  BY <1>0, <1>2 DEF OwnerStatus
<1>7. held[p].status = "completed" => Readable(metrics)
  BY <1>0 DEF OwnerStatus, MetricsWritten
<1> QED BY <1>1, <1>2, <1>3, <1>4, <1>5, <1>6, <1>7 DEF OwnerStatus, MetricsWritten, Readable

\* The owner takes its first dict, or a late status.
LEMMA StatusTurns ==
    ASSUME RunInv, WriterInv, NEW p \in Proc, Moves(p), pc[p] \in OwnerPCs,
           \/ CopySpec(p) \/ (SafetyChecked(p) /\ Blocked(p)) \/ Raise(p)
           \/ (FlushReport(p) /\ ~Blocked(p))
    PROVE  OwnerStatus(p)'
<1>0. /\ OpsTypeInv /\ OwnerStatus(p) /\ StatusHeld(p) /\ pc \in [Proc -> PCs]
      /\ held \in [Proc -> MetaContent]
  BY DEF RunInv, WriterInv, StatusInv, OwnerStates, OpsTypeInv, OpsTypeOK, TypeOK
<1>1. /\ metrics' = metrics /\ metadata' = metadata /\ op' = op /\ beat' = beat
      /\ (Blocked(p)' <=> Blocked(p)) /\ pc'[p] = "open_metadata"
  <2>1. metrics' = metrics /\ metadata' = metadata /\ beat' = beat /\ pc'[p] = "open_metadata"
    BY <1>0 DEF CopySpec, SafetyChecked, Raise, FlushReport, Goto, files
  <2> QED BY <1>0, <2>1, OwnerKeeps
<1>2. /\ held'[p].status = "initialized" <=> op[p] = "init"
      /\ held'[p].status = "completed" => Readable(metrics)
      /\ held'[p].status = "completed" \/ metrics = Absent
      /\ op[p] = "init" => pc[p] = "copy_spec"
  <2>1. CASE CopySpec(p)
    <3>1. pc[p] = "copy_spec" /\ held[p].status = "initialized"
      BY <2>1 DEF CopySpec, Goto, RunInv, StatusInv, FreshInv, Fresh, InitialMetadata
    <3>2. metrics = Absent
      BY <1>0, <3>1 DEF OwnerStatus, ArtifactPCs
    <3> QED BY <1>0, <2>1, <3>1, <3>2, FirstStatus
  <2>2. CASE (SafetyChecked(p) /\ Blocked(p)) \/ Raise(p)
    <3>1. /\ pc[p] \in {"safety_checked", "heartbeat", "engine"}
          /\ held'[p].status \in {"safety_blocked", "failed"}
      BY <1>0, <2>2 DEF SafetyChecked, Raise, Goto, MetaContent
    <3>2. op[p] # "init"
      BY <3>1, InitPlace DEF InitPCs
    <3>3. held[p].status # "completed"
      BY <1>0, <3>1 DEF StatusHeld, SavePCs
    <3>4. metrics = Absent
      BY <1>0, <3>1, <3>3 DEF OwnerStatus, ArtifactPCs
    <3> QED BY <3>1, <3>2, <3>4
  <2>3. CASE FlushReport(p) /\ ~Blocked(p)
    <3>1. pc[p] = "flush_report" /\ held'[p].status = "completed"
      BY <1>0, <2>3 DEF FlushReport, Goto, MetaContent
    <3>2. op[p] # "init"
      BY <3>1, InitPlace DEF InitPCs
    <3>3. Readable(metrics)
      BY <1>0, <3>1 DEF OwnerStatus, MetricsWritten
    <3> QED BY <3>1, <3>2, <3>3
  <2> QED BY <2>1, <2>2, <2>3
<1>3. pc[p] = "copy_spec" \/ op[p] # "init"
  BY <1>2
<1> QED BY <1>0, <1>1, <1>2 DEF OwnerStatus, MetricsWritten, InitPCs, Readable

\* The owner at its artifacts.
LEMMA StatusWrites ==
    ASSUME RunInv, WriterInv, NEW p \in Proc, Moves(p), pc[p] \in OwnerPCs,
           OpenMetrics(p) \/ FlushMetrics(p) \/ OpenReport(p)
    PROVE  OwnerStatus(p)'
<1>0. /\ OpsTypeInv /\ OwnerStatus(p) /\ StatusHeld(p) /\ pc \in [Proc -> PCs]
  BY DEF RunInv, WriterInv, StatusInv, OwnerStates, OpsTypeInv, OpsTypeOK, TypeOK
<1>1. /\ metadata' = metadata /\ op' = op /\ beat' = beat /\ held' = held
      /\ (Blocked(p)' <=> Blocked(p))
      /\ pc[p] \in ArtifactPCs /\ pc'[p] \in ArtifactPCs \ {"open_metrics"}
  <2>1. /\ metadata' = metadata /\ beat' = beat /\ held' = held
        /\ pc[p] \in ArtifactPCs /\ pc'[p] \in ArtifactPCs \ {"open_metrics"}
    BY <1>0 DEF OpenMetrics, FlushMetrics, OpenReport, Goto, ArtifactPCs
  <2> QED BY <1>0, <2>1, OwnerKeeps
<1>2. op[p] # "init"
  BY <1>1, InitPlace DEF InitPCs, ArtifactPCs
<1>3. held[p].status # "completed"
  BY <1>0, <1>1 DEF StatusHeld, ArtifactPCs, SavePCs
<1>4. pc'[p] \in {"open_report", "flush_report"} => Readable(metrics')
  <2>1. CASE OpenMetrics(p)
    BY <1>0, <2>1 DEF OpenMetrics, Goto
  <2>2. CASE FlushMetrics(p)
    <3>1. metrics' = MetricsOf(p) /\ MetricsOf(p) \in MetricsContent
      BY <2>2, MetricsPlace DEF MetricsOf, MetricsContent
    <3> QED BY <3>1, MetricsReadable
  <2>3. CASE OpenReport(p)
    BY <1>0, <2>3 DEF OpenReport, Goto, OwnerStatus, MetricsWritten
  <2> QED BY <2>1, <2>2, <2>3
<1>5. /\ pc[p] \notin {"copy_spec", "open_metadata"}
      /\ pc'[p] \notin {"copy_spec", "open_metadata", "run_completed"}
  BY <1>1 DEF ArtifactPCs
<1> QED BY <1>0, <1>1, <1>2, <1>3, <1>4, <1>5 DEF OwnerStatus, MetricsWritten, Readable

\* The steps after which a lifecycle is no owner.
LEMMA OwnerLeaves ==
    ASSUME OpsTypeInv, NEW p \in Proc,
           \/ Gate(p) \/ CheckDir(p) \/ MakeDir(p) \/ RunInitialized(p) \/ RunFailed(p)
           \/ RunCompleted(p) \/ (FlushReport(p) /\ Blocked(p)),
           pc[p] \in OwnerPCs
    PROVE  pc'[p] \notin OwnerPCs
<1>1. pc \in [Proc -> PCs]
  BY DEF OpsTypeInv, OpsTypeOK, TypeOK
<1> QED BY <1>1 DEF Gate, CheckDir, MakeDir, RunInitialized, RunFailed, RunCompleted, FlushReport,
     LogStep, Goto, OwnerPCs, RunPCs

LEMMA OwnerStatusStep ==
    ASSUME RunInv, PhaseInv, WriterInv, NEW p \in Proc, Moves(p), pc'[p] \in OwnerPCs
    PROVE  OwnerStatus(p)'
<1>0. OpsTypeInv
  BY DEF RunInv
<1>1. CASE pc[p] \notin OwnerPCs
  BY <1>1, OwnerOpens
<1>2. CASE pc[p] \in OwnerPCs
  <2>1. RunStep(p)
    BY <1>0, <1>2, OwnerSteps DEF OwnerPCs, RunPCs
  <2> QED BY <1>0, <1>2, <2>1, OwnerLeaves, StatusGoes, StatusTurns, StatusWrites DEF RunStep
<1> QED BY <1>1, <1>2

\* Another owner's standing is out of p's reach.
LEMMA OtherOwner ==
    ASSUME RunInv, PhaseInv, WriterInv, NEW p \in Proc, Moves(p),
           NEW q \in Proc, q # p, pc'[q] \in OwnerPCs
    PROVE  OwnerStatus(q)' /\ OwnerJournal(q)'
<1>0. OpsTypeInv /\ LastLine /\ OwnerInv
  BY DEF RunInv, PhaseInv
<1>1. /\ pc'[q] = pc[q] /\ op'[q] = op[q] /\ held'[q] = held[q] /\ beat'[q] = beat[q]
      /\ (Blocked(q)' <=> Blocked(q))
  BY <1>0, OthersKeep DEF Blocked
<1>2. pc[p] \notin OwnerPCs /\ OwnerStatus(q) /\ OwnerJournal(q)
  BY <1>0, <1>1 DEF OwnerInv, WriterInv
<1>3. metrics' = metrics /\ (metadata # Absent => metadata' # Absent)
  BY <1>0, <1>2, MetricsWriter, FilesStay DEF OpenMetrics, FlushMetrics, Goto, OwnerPCs, RunPCs
<1>4. OwnerStatus(q)'
  BY <1>1, <1>2, <1>3 DEF OwnerStatus, MetricsWritten, Readable
<1>5. /\ JournalPhase' = JournalPhase
      /\ EventCount("paper_completed")' = EventCount("paper_completed")
      /\ EventCount("backtest_completed")' = EventCount("backtest_completed")
  BY <1>0, <1>2, StepLines
<1>6. /\ Logged("paper_started") => Logged("paper_started")'
      /\ ~Logged("paper_started") => ~Logged("paper_started")'
      /\ Logged("paper_safety_blocked") => Logged("paper_safety_blocked")'
  <2>1. pc[p] # "paper_started"
    BY <1>2 DEF OwnerPCs, RunPCs
  <2> QED BY <1>0, <2>1, LoggedStays, BranchNews
<1>7. Entries \subseteq Entries'
  BY <1>0, StepEntries
<1>8. OwnerJournal(q)'
  BY <1>1, <1>2, <1>5, <1>6, <1>7 DEF OwnerJournal
<1> QED BY <1>4, <1>8

\* The owner and its lines: a step without a line of its own,
LEMMA OwnerQuiet ==
    ASSUME RunInv, PhaseInv, WriterInv, NEW p \in Proc, Moves(p), pc[p] \in OwnerPCs,
           JournalPhase' = JournalPhase,
           EventCount("paper_completed")' = EventCount("paper_completed"),
           EventCount("backtest_completed")' = EventCount("backtest_completed")
    PROVE  OwnerJournal(p)'
<1>0. OpsTypeInv /\ OwnerJournal(p) /\ PhaseFits(p)
  BY DEF RunInv, WriterInv, PhaseInv
<1>1. op' = op /\ (Blocked(p)' <=> Blocked(p)) /\ Entries \subseteq Entries'
  BY <1>0, OwnerKeeps, StepEntries
<1>2. beat[p] = HeartbeatCount => beat'[p] = HeartbeatCount
  BY <1>0, BeatsStay
<1>3. /\ Logged("paper_started") => Logged("paper_started")'
      /\ Logged("paper_safety_blocked") => Logged("paper_safety_blocked")'
  BY <1>0, LoggedStays
<1>4. JournalPhase \in {"blocked", "completed"} /\ ~Logged("paper_started") =>
         ~Logged("paper_started")'
  BY <1>0, BranchNews DEF PhaseFits
<1> QED BY <1>0, <1>1, <1>2, <1>3, <1>4 DEF OwnerJournal

\* a line on the way,
LEMMA OwnerLine ==
    ASSUME RunInv, PhaseInv, WriterInv, NEW p \in Proc, Moves(p), pc[p] \in OwnerPCs,
           pc'[p] \in OwnerPCs, NEW event \in RunEntries, Writes(p, event),
           JournalPhase' = PhaseAfter(event),
           \A e : EventCount(e)' = IF event = e THEN EventCount(e) + 1 ELSE EventCount(e)
    PROVE  OwnerJournal(p)'
<1>0. /\ OpsTypeInv /\ OwnerJournal(p) /\ PhaseFits(p) /\ Progress(p) /\ StatusHeld(p)
      /\ OwnerInv /\ OwnerInv' /\ RunStep(p)
  BY StepOwner, OwnerSteps DEF RunInv, WriterInv, PhaseInv, StatusInv, OwnerStates, OwnerPCs, RunPCs
<1>1. op' = op /\ (Blocked(p)' <=> Blocked(p)) /\ Entries \subseteq Entries'
  BY <1>0, OwnerKeeps, StepEntries
<1>2. /\ EventCount("paper_completed")' =
            IF event = "paper_completed" THEN EventCount("paper_completed") + 1
                                         ELSE EventCount("paper_completed")
      /\ EventCount("backtest_completed")' =
            IF event = "backtest_completed" THEN EventCount("backtest_completed") + 1
                                            ELSE EventCount("backtest_completed")
  OBVIOUS
<1>3. event \notin KillEntries /\ event # PatchEntryName(op[p])
  BY DEF RunEntries, KillEntries, PatchEntryName
<1>4. CASE pc[p] = "first_entry"
  <2>1. RunStarted(p)
    <3>1. RunStarted(p) \/ RunInitialized(p)
      BY <1>0, <1>4 DEF RunStep, Gate, CheckDir, MakeDir, CopySpec, OpenMetadata, FlushMetadata,
         CreateJournal, SafetyChecked, SafetyBlocked, BlockedCompleted, PaperStarted, Heartbeat,
         HeartbeatsDone, PaperCompleted, BacktestStarted, EngineRun, BacktestCompleted, Raise,
         RunFailed, OpenMetrics, FlushMetrics, OpenReport, FlushReport, RunCompleted, LogStep, Goto
    <3> QED BY <1>0, <3>1, OwnerLeaves
  <2>2. event = "run_started" /\ JournalPhase = "none" /\ JournalPhase' = "started"
    BY <1>0, <1>3, <1>4, <2>1 DEF Writes, RunStarted, PhaseFits, PhaseAfter
  <2>3. Logged("run_started")'
    BY <1>0, <1>4, <2>1, LogLogged DEF RunStarted, LogStep, RunEntries, RunPCs, BeforeJournalPCs
  <2>4. \E e \in Entries' : e.event = "run_started" /\ e.by = p
    BY <1>0, <2>3 DEF Logged, OwnerInv, RunEntries
  <2> QED BY <1>0, <1>1, <1>2, <2>2, <2>4 DEF OwnerJournal
<1>5. ASSUME pc[p] # "first_entry", JournalPhase \notin {"none", "executed"}
      PROVE  /\ EventCount("paper_completed") = 0 /\ EventCount("backtest_completed") = 0
             /\ \E e \in Entries' : e.event = "run_started" /\ e.by = p
  BY <1>0, <1>1, <1>5 DEF OwnerJournal
<1>6. CASE pc[p] \in {"safety_checked", "paper_started", "heartbeat", "backtest_started"}
  <2>1. /\ event \notin {"paper_completed", "backtest_completed"}
        /\ JournalPhase \notin {"none", "executed"}
        /\ JournalPhase' \notin {"none", "executed", "blocked", "completed"}
    BY <1>0, <1>3, <1>6 DEF Writes, PhaseFits, PhaseAfter
  <2> QED BY <1>1, <1>2, <1>5, <1>6, <2>1 DEF OwnerJournal
<1>7. CASE pc[p] = "safety_blocked"
  <2>1. /\ event = "paper_safety_blocked" /\ JournalPhase = "checked" /\ JournalPhase' = "blocked"
        /\ held[p].status = "safety_blocked" /\ Blocked(p)
    BY <1>0, <1>3, <1>7 DEF Writes, PhaseFits, PhaseAfter, StatusHeld
  <2>2. SafetyBlocked(p)
    BY <1>0, <1>7 DEF RunStep, Gate, CheckDir, MakeDir, CopySpec, OpenMetadata, FlushMetadata,
       CreateJournal, RunInitialized, RunStarted, SafetyChecked, BlockedCompleted, PaperStarted,
       Heartbeat, HeartbeatsDone, PaperCompleted, BacktestStarted, EngineRun, BacktestCompleted,
       Raise, RunFailed, OpenMetrics, FlushMetrics, OpenReport, FlushReport, RunCompleted,
       LogStep, Goto
  <2>3. Logged("paper_safety_blocked")'
    BY <1>0, <1>7, <2>2, LogLogged DEF SafetyBlocked, LogStep, RunEntries, RunPCs, BeforeJournalPCs
  <2>4. ~Logged("paper_started")
    <3>1. CopyBacked(held[p])
      BY DEF RunInv, StatusInv, CopiesHold, Copies
    <3> QED BY <2>1, <3>1 DEF CopyBacked
  <2>5. ~Logged("paper_started")'
    BY <1>0, <1>7, <2>4, BranchNews
  <2> QED BY <1>1, <1>2, <1>5, <1>7, <2>1, <2>3, <2>5 DEF OwnerJournal
<1>8. CASE pc[p] \in {"blocked_completed", "run_completed", "run_failed"}
  <2>1. BlockedCompleted(p) \/ RunCompleted(p) \/ RunFailed(p)
    BY <1>0, <1>8 DEF RunStep, Gate, CheckDir, MakeDir, CopySpec, OpenMetadata, FlushMetadata,
       CreateJournal, RunInitialized, RunStarted, SafetyChecked, SafetyBlocked, PaperStarted,
       Heartbeat, HeartbeatsDone, PaperCompleted, BacktestStarted, EngineRun, BacktestCompleted,
       Raise, OpenMetrics, FlushMetrics, OpenReport, FlushReport, LogStep, Goto
  <2>2. pc[p] = "blocked_completed"
    BY <1>0, <1>8, <2>1, OwnerLeaves DEF BlockedCompleted, LogStep, Goto
  <2>3. event = "run_completed" /\ JournalPhase = "blocked" /\ JournalPhase' = "completed"
    BY <1>0, <1>3, <2>2 DEF Writes, PhaseFits, PhaseAfter
  <2>4. Logged("paper_safety_blocked")' /\ ~Logged("paper_started")' /\ Blocked(p)
    BY <1>0, <2>2, <2>3, LoggedStays, BranchNews DEF OwnerJournal
  <2> QED BY <1>1, <1>2, <1>5, <2>2, <2>3, <2>4 DEF OwnerJournal
<1>9. CASE pc[p] = "paper_completed"
  <2>1. /\ event = "paper_completed" /\ JournalPhase = "executing" /\ JournalPhase' = "executed"
        /\ beat[p] = HeartbeatCount /\ Logged("paper_started") /\ op[p] = "paper"
    BY <1>0, <1>3, <1>9 DEF Writes, PhaseFits, PhaseAfter, Progress, RunInv, ExecInv, ExecutionPCs
  <2>2. beat'[p] = HeartbeatCount /\ Logged("paper_started")'
    BY <1>0, <2>1, BeatsStay, LoggedStays
  <2> QED BY <1>1, <1>2, <1>5, <1>9, <2>1, <2>2 DEF OwnerJournal
<1>10. CASE pc[p] = "backtest_completed"
  <2>1. /\ event = "backtest_completed" /\ JournalPhase = "backtesting"
        /\ JournalPhase' = "executed" /\ op[p] = "backtest"
    BY <1>0, <1>3, <1>10 DEF Writes, PhaseFits, PhaseAfter
  <2> QED BY <1>1, <1>2, <1>5, <1>10, <2>1 DEF OwnerJournal
<1> QED BY <1>3, <1>4, <1>6, <1>7, <1>8, <1>9, <1>10 DEF Writes

LEMMA OwnerJournalStep ==
    ASSUME RunInv, PhaseInv, WriterInv, NEW p \in Proc, Moves(p), pc'[p] \in OwnerPCs
    PROVE  OwnerJournal(p)'
<1>0. OpsTypeInv /\ LastLine
  BY DEF RunInv, PhaseInv
<1>1. CASE pc[p] \notin OwnerPCs
  BY <1>1, OwnerOpens
<1>2. CASE pc[p] \in OwnerPCs
  <2>1. CASE JournalPhase' = JournalPhase /\ \A e : EventCount(e)' = EventCount(e)
    BY <1>2, <2>1, OwnerQuiet
  <2>2. CASE \E event \in RunEntries :
                /\ Writes(p, event) /\ JournalPhase' = PhaseAfter(event)
                /\ \A e : EventCount(e)' = IF event = e THEN EventCount(e) + 1 ELSE EventCount(e)
    BY <1>2, <2>2, OwnerLine
  <2> QED BY <1>0, <2>1, <2>2, StepLines
<1> QED BY <1>1, <1>2

\* A copy that is true of the next state is true wherever it is.
LEMMA CopyPlaces ==
    ASSUME NEW m, NEW n, SameKind(m, n), CopyTrue(n)'
    PROVE  /\ metadata' = m => CopyTrue(metadata)'
           /\ \A q \in Proc : held'[q] = m => CopyTrue(held[q])'
  BY DEF CopyTrue, SameKind

\* A copy of a true copy is true.
LEMMA CopiedTrue ==
    ASSUME RunInv, WriterInv, NEW p \in Proc, Moves(p),
           NEW m, NEW n, SameKind(m, n),
           \/ n = metadata /\ Readable(metadata)
           \/ \E q \in Proc : n = held[q] /\ pc[q] \in CarryPCs
    PROVE  /\ metadata' = m => CopyTrue(metadata)'
           /\ \A q \in Proc : held'[q] = m => CopyTrue(held[q])'
<1>1. CopyTrue(n)
  BY DEF WriterInv, CopiesTrue
<1>2. CopyTrue(n)'
  BY <1>1, CopyTrueStays
<1> QED BY <1>2, CopyPlaces

\* What is saved in metadata.json is true.
LEMMA SavedTrue ==
    ASSUME RunInv, WriterInv, NEW p \in Proc, Moves(p), Readable(metadata')
    PROVE  CopyTrue(metadata)'
<1>1. PICK m : m = metadata'
  OBVIOUS
<1>2. \/ m = metadata /\ Readable(metadata)
      \/ m = held[p] /\ pc[p] \in CarryPCs
  BY <1>1, MetadataWriter DEF RunInv, Readable, NoFile
<1>3. SameKind(m, m)
  BY DEF SameKind
<1> QED BY <1>1, <1>2, <1>3, CopiedTrue

\* What the owner turns to is true: its first dict,
LEMMA FirstTrue ==
    ASSUME RunInv, WriterInv, NEW p \in Proc, Moves(p), CopySpec(p)
    PROVE  CopyTrue(held[p])'
<1>0. /\ OpsTypeInv /\ OwnerInv /\ OwnerInv' /\ pc[p] = "copy_spec" /\ pc[p] \in OwnerPCs
      /\ pc'[p] = "open_metadata" /\ pc'[p] \in OwnerPCs
  BY StepOwner DEF RunInv, CopySpec, Goto, OpsTypeInv, OpsTypeOK, TypeOK, OwnerPCs, RunPCs
<1>1. metrics' = Absent /\ runDir'
  <2>1. held[p].status = "initialized"
    BY <1>0 DEF RunInv, StatusInv, FreshInv, Fresh, InitialMetadata
  <2>2. metrics = Absent
    BY <1>0, <2>1 DEF WriterInv, OwnerStatus, ArtifactPCs
  <2> QED BY <1>0, <2>2 DEF CopySpec, OwnerInv
<1>2. \A q \in Proc : pc'[q] \in OwnerPCs => q = p
  BY <1>0 DEF OwnerInv
<1>3. op' = op /\ (Blocked(p)' <=> Blocked(p))
  BY <1>0, OwnerKeeps
<1>4. held'[p].status = IF op[p] = "init" THEN "initialized" ELSE "running"
  BY <1>0, FirstStatus
<1>5. /\ held'[p].outcome = "blocked_kill_switch" => Blocked(p)
      /\ held'[p].outcome = "checked_continue" => op[p] = "paper" /\ ~Blocked(p)
  <2>1. held \in [Proc -> MetaContent] /\ op[p] \in RunOps
    BY <1>0 DEF OpsTypeInv, OpsTypeOK, TypeOK, OpsFit, RunPCs
  <2>2. \/ held'[p] \in {InitialMetadata, BacktestMetadata}
        \/ op[p] = "paper" /\ held'[p] = PaperMetadata(p)
    BY <2>1 DEF CopySpec, RunOps
  <2>3. /\ InitialMetadata.outcome = "none" /\ BacktestMetadata.outcome = "none"
        /\ PaperMetadata(p).outcome = OutcomeOf(seen[p].state)
    BY DEF InitialMetadata, BacktestMetadata, PaperMetadata
  <2> HIDE DEF InitialMetadata, BacktestMetadata, PaperMetadata
  <2> QED BY <2>2, <2>3 DEF OutcomeOf, Blocked
<1> QED BY <1>1, <1>2, <1>3, <1>4, <1>5 DEF CopyTrue

\* and its late statuses.
LEMMA TurnTrue ==
    ASSUME RunInv, WriterInv, NEW p \in Proc, Moves(p),
           \/ (SafetyChecked(p) /\ Blocked(p)) \/ Raise(p) \/ (FlushReport(p) /\ ~Blocked(p))
    PROVE  CopyTrue(held[p])'
<1>0. /\ OpsTypeInv /\ OwnerInv /\ OwnerInv' /\ pc \in [Proc -> PCs] /\ held \in [Proc -> MetaContent]
      /\ pc[p] \in {"safety_checked", "heartbeat", "engine", "flush_report"}
      /\ pc'[p] = "open_metadata"
  BY StepOwner DEF RunInv, SafetyChecked, Raise, FlushReport, Goto, OpsTypeInv, OpsTypeOK, TypeOK
<1>1. pc[p] \in OwnerPCs /\ pc[p] \in CarryPCs /\ pc'[p] \in OwnerPCs
  BY <1>0 DEF OwnerPCs, RunPCs, CarryPCs
<1>2. /\ metrics' = metrics /\ runDir' /\ op' = op /\ (Blocked(p)' <=> Blocked(p))
  BY <1>0, <1>1, OwnerKeeps DEF SafetyChecked, Raise, FlushReport, files, OwnerInv
<1>3. \A q \in Proc : pc'[q] \in OwnerPCs => q = p
  BY <1>0, <1>1 DEF OwnerInv
<1>4. CopyTrue(held[p]) /\ StatusHeld(p) /\ OwnerStatus(p) /\ Progress(p)
  BY <1>1 DEF WriterInv, CopiesTrue, RunInv, StatusInv, OwnerStates
<1>5. held'[p].outcome = held[p].outcome
  BY <1>0 DEF SafetyChecked, Raise, FlushReport, MetaContent
<1>6. /\ held[p].outcome = "blocked_kill_switch" => Blocked(p) /\ metrics \in {Absent, Empty, "blocked"}
      /\ held[p].outcome = "checked_continue" =>
            op[p] = "paper" /\ ~Blocked(p) /\ metrics \in {Absent, Empty, "placeholder"}
  BY <1>1, <1>4 DEF CopyTrue
<1>7. CASE FlushReport(p) /\ ~Blocked(p)
  <2>1. held'[p].status = "completed" /\ pc[p] = "flush_report"
    BY <1>0, <1>7 DEF FlushReport, Goto, MetaContent
  <2>2. metrics \in {"smoke", "placeholder"}
    BY <1>4, <1>7, <2>1 DEF Progress, MetricsOf
  <2> QED BY <1>2, <1>3, <1>5, <1>6, <1>7, <2>1, <2>2 DEF CopyTrue
<1>8. CASE (SafetyChecked(p) /\ Blocked(p)) \/ Raise(p)
  <2>1. pc[p] \in {"safety_checked", "heartbeat", "engine"}
    BY <1>8 DEF SafetyChecked, Raise, Goto
  <2>2. metrics = Absent
    BY <1>4, <2>1 DEF StatusHeld, SavePCs, OwnerStatus, ArtifactPCs
  <2>3. \/ held'[p].status = "safety_blocked" /\ Blocked(p)
        \/ held'[p].status = "failed"
    BY <1>0, <1>8 DEF SafetyChecked, Raise, MetaContent
  <2> QED BY <1>2, <1>3, <1>5, <1>6, <2>2, <2>3 DEF CopyTrue
<1> QED BY <1>7, <1>8

\* What a command carries is true.
LEMMA CarriedTrue ==
    ASSUME RunInv, WriterInv, NEW p \in Proc, Moves(p), pc'[p] \in CarryPCs
    PROVE  CopyTrue(held[p])'
<1>0. /\ OpsTypeInv /\ pc \in [Proc -> PCs] /\ held \in [Proc -> MetaContent]
      /\ metadata \in MetaContent \cup NoFile
  BY DEF RunInv, OpsTypeInv, OpsTypeOK, TypeOK
<1>1. PICK m : m = held'[p]
  OBVIOUS
<1>2. ASSUME NEW n, SameKind(m, n), \/ n = metadata /\ Readable(metadata)
                                    \/ n = held[p] /\ pc[p] \in CarryPCs
      PROVE  CopyTrue(held[p])'
  BY <1>1, <1>2, CopiedTrue
<1>3. CASE held'[p] = held[p] /\ pc[p] \in CarryPCs
  BY <1>1, <1>2, <1>3 DEF SameKind
<1>4. CASE KillBegin(p) \/ KillStep(p) \/ Crash(p) \/ RunBegin(p) \/ PatchBegin(p)
  <2>1. PatchRead(p) \/ PatchStatus(p) \/ PatchOpen(p)
    BY <1>0, <1>4 DEF KillBegin, ReadStatus, RunBegin, PatchBegin, Begin, KillStep, AppendEvent,
       AppendKillEntry, OpenState, FlushState, PatchFlush, Crash, Goto, CarryPCs, OwnerPCs, RunPCs
  <2>2. CASE PatchRead(p)
    <3>1. Readable(metadata) /\ held'[p] = metadata
      BY <1>0, <2>2 DEF PatchRead, Goto, CarryPCs, OwnerPCs, RunPCs
    <3> QED BY <1>1, <1>2, <3>1 DEF SameKind
  <2>3. CASE PatchStatus(p)
    <3>1. pc[p] \in CarryPCs
      BY <2>3 DEF PatchStatus, Goto, CarryPCs
    <3>2. SameKind(m, held[p])
      BY <1>0, <1>1, <2>3 DEF PatchStatus, SameKind, MetaContent
    <3> QED BY <1>2, <3>1, <3>2
  <2>4. CASE PatchOpen(p)
    BY <1>3, <2>4 DEF PatchOpen, Goto, CarryPCs
  <2> QED BY <2>1, <2>2, <2>3, <2>4
<1>5. CASE PatchStep(p)
  <2>1. SectionRead(p) \/ SectionOpen(p)
    BY <1>0, <1>5 DEF PatchStep, CheckFiles, InvalidTarget, ArtifactOpen, ArtifactFlush,
       SectionFlush, SectionEntry, ReportRead, ReportOpen, ReportFlush, Goto, CarryPCs, OwnerPCs,
       RunPCs
  <2>2. CASE SectionRead(p)
    <3>1. pc[p] = "section_read" /\ ~Malformed(metadata)
      BY <1>0, <2>2 DEF SectionRead, Goto, CarryPCs, OwnerPCs, RunPCs
    <3>2. metadata # Absent
      BY <1>0, <3>1 DEF OpsTypeInv, PresentInv, PatchPCs
    <3>3. metadata \in MetaContent /\ Readable(metadata)
      BY <1>0, <3>1, <3>2 DEF Malformed, Readable, NoFile
    <3>4. held' = [held EXCEPT ![p] = [metadata EXCEPT !.sections = @ \cup {op[p]}]]
      BY <2>2, <3>1 DEF SectionRead
    <3>5. SameKind(m, metadata)
      BY <1>0, <1>1, <3>3, <3>4 DEF MetaContent, SameKind
    <3> QED BY <1>2, <3>3, <3>5
  <2>3. CASE SectionOpen(p)
    <3>1. pc[p] = "section_open" /\ held'[p] = held[p]
      BY <2>3 DEF SectionOpen, Goto
    <3> QED BY <1>3, <3>1 DEF CarryPCs
  <2> QED BY <2>1, <2>2, <2>3
<1>6. CASE RunStep(p)
  <2>1. CASE CopySpec(p)
    BY <2>1, FirstTrue
  <2>2. CASE (SafetyChecked(p) /\ Blocked(p)) \/ Raise(p) \/ (FlushReport(p) /\ ~Blocked(p))
    BY <2>2, TurnTrue
  <2>3. CASE Gate(p) \/ CheckDir(p) \/ MakeDir(p)
    BY <1>0, <2>3 DEF Gate, CheckDir, MakeDir, Goto, CarryPCs, OwnerPCs, RunPCs
  <2>4. CASE \/ OpenMetadata(p) \/ FlushMetadata(p) \/ CreateJournal(p) \/ RunInitialized(p)
             \/ RunStarted(p) \/ (SafetyChecked(p) /\ ~Blocked(p)) \/ SafetyBlocked(p)
             \/ BlockedCompleted(p) \/ PaperStarted(p) \/ Heartbeat(p) \/ HeartbeatsDone(p)
             \/ PaperCompleted(p) \/ BacktestStarted(p) \/ EngineRun(p) \/ BacktestCompleted(p)
             \/ RunFailed(p) \/ OpenMetrics(p) \/ FlushMetrics(p) \/ OpenReport(p)
             \/ (FlushReport(p) /\ Blocked(p)) \/ RunCompleted(p)
    <3>1. held' = held
      BY <2>4 DEF OpenMetadata, FlushMetadata, CreateJournal, RunInitialized, RunStarted,
         SafetyChecked, SafetyBlocked, BlockedCompleted, PaperStarted, Heartbeat, HeartbeatsDone,
         PaperCompleted, BacktestStarted, EngineRun, BacktestCompleted, RunFailed, OpenMetrics,
         FlushMetrics, OpenReport, FlushReport, RunCompleted, LogStep
    <3>2. pc[p] \in CarryPCs
      BY <2>4 DEF OpenMetadata, FlushMetadata, CreateJournal, RunInitialized, RunStarted,
         SafetyChecked, SafetyBlocked, BlockedCompleted, PaperStarted, Heartbeat, HeartbeatsDone,
         PaperCompleted, BacktestStarted, EngineRun, BacktestCompleted, RunFailed, OpenMetrics,
         FlushMetrics, OpenReport, FlushReport, RunCompleted, LogStep, Goto, CarryPCs, OwnerPCs,
         RunPCs
    <3> QED BY <1>3, <3>1, <3>2
  <2> QED BY <1>6, <2>1, <2>2, <2>3, <2>4 DEF RunStep
<1> QED BY <1>4, <1>5, <1>6 DEF Moves

LEMMA CopiesStep ==
    ASSUME RunInv, WriterInv, NEW p \in Proc, Moves(p)
    PROVE  CopiesTrue'
<1>1. ASSUME NEW q \in Proc, q # p, pc'[q] \in CarryPCs
      PROVE  CopyTrue(held[q])'
  <2>1. pc'[q] = pc[q] /\ held'[q] = held[q]
    BY <1>1, OthersKeep DEF RunInv
  <2>2. PICK m : m = held[q]
    OBVIOUS
  <2> QED BY <1>1, <2>1, <2>2, CopiedTrue DEF SameKind
<1>2. \A q \in Proc : pc'[q] \in CarryPCs => CopyTrue(held[q])'
  BY <1>1, CarriedTrue
<1>3. Readable(metadata') => CopyTrue(metadata)'
  BY SavedTrue
<1> QED BY <1>2, <1>3 DEF CopiesTrue, Readable

\* A run that ends well has just written its last artifact.
LEMMA RunEndsWell ==
    ASSUME OpsTypeInv, NEW p \in Proc, Moves(p), pc'[p] = "done", op'[p] \in {"backtest", "paper"}
    PROVE  RunCompleted(p) \/ (FlushReport(p) /\ Blocked(p))
<1>0. pc \in [Proc -> PCs] /\ op'[p] \notin KillOps \cup PatchOps
  BY DEF OpsTypeInv, OpsTypeOK, TypeOK, KillOps, PatchOps
<1>1. CASE KillBegin(p) \/ RunBegin(p) \/ PatchBegin(p) \/ Crash(p)
  BY <1>0, <1>1 DEF KillBegin, ReadStatus, RunBegin, PatchBegin, Begin, Goto, Crash
<1>2. CASE KillStep(p) \/ PatchStep(p)
  <2>1. pc[p] \in KillPCs \cup PatchPCs /\ op' = op
    BY <1>2, PatchStepMoves DEF KillStep, AppendEvent, AppendKillEntry, OpenState,
       FlushState, PatchRead, PatchStatus, PatchOpen, PatchFlush, Goto, KillPCs
  <2> QED BY <1>0, <2>1 DEF OpsTypeInv, OpsFit
<1>3. CASE RunStep(p)
  <2>1. AfterMetadata(p) # "done"
    BY DEF AfterMetadata, OpsTypeInv, OpsTypeOK, TypeOK, MetaContent, RunStatuses
  <2> QED
    BY <1>0, <1>3, <2>1 DEF RunStep, Gate, CheckDir, MakeDir, CopySpec, OpenMetadata, FlushMetadata,
       CreateJournal, RunInitialized, RunStarted, SafetyChecked, SafetyBlocked, BlockedCompleted,
       PaperStarted, Heartbeat, HeartbeatsDone, PaperCompleted, BacktestStarted, EngineRun,
       BacktestCompleted, Raise, RunFailed, OpenMetrics, FlushMetrics, OpenReport, FlushReport,
       LogStep, Goto
<1> QED BY <1>1, <1>2, <1>3 DEF Moves

LEMMA RunsKeptStep ==
    ASSUME RunInv, WriterInv, NEW p \in Proc, Moves(p)
    PROVE  RunsKept'
<1>0. OpsTypeInv
  BY DEF RunInv
<1>1. /\ metadata # Absent => metadata' # Absent
      /\ journal # Absent => journal' # Absent
      /\ report # Absent => report' # Absent
      /\ Readable(metrics) => Readable(metrics')
  BY <1>0, FilesStay, MetricsWriter, MetricsPlace DEF Readable
<1>2. ASSUME NEW q \in Proc, q # p, pc'[q] = "done", op'[q] \in {"backtest", "paper"}
      PROVE  Readable(metrics') /\ report' # Absent /\ journal' # Absent /\ metadata' # Absent
  BY <1>0, <1>1, <1>2, OthersKeep DEF WriterInv, RunsKept
<1>3. ASSUME pc'[p] = "done", op'[p] \in {"backtest", "paper"}
      PROVE  Readable(metrics') /\ report' # Absent /\ journal' # Absent /\ metadata' # Absent
  <2>1. RunCompleted(p) \/ FlushReport(p)
    BY <1>0, <1>3, RunEndsWell
  <2>2. pc[p] \in {"run_completed", "flush_report"}
    BY <2>1 DEF RunCompleted, FlushReport, LogStep, Goto
  <2>3. pc[p] \in OwnerPCs /\ pc[p] \in RunPCs \ BeforeJournalPCs
    BY <2>2 DEF OwnerPCs, RunPCs, BeforeJournalPCs
  <2>4. OwnerStatus(p) /\ Progress(p) /\ journal # Absent
    BY <1>0, <2>3 DEF WriterInv, RunInv, StatusInv, OwnerStates, OpsTypeInv, PresentInv
  <2>5. Readable(metrics) /\ metadata # Absent
    BY <2>2, <2>4 DEF OwnerStatus, MetricsWritten
  <2>6. report # Absent
    <3>1. CopyBacked(held[p])
      BY DEF RunInv, StatusInv, CopiesHold, Copies
    <3> QED BY <2>2, <2>4, <3>1 DEF Progress, OwnerStatus, CopyBacked
  <2> QED BY <1>1, <2>4, <2>5, <2>6
<1> QED BY <1>2, <1>3 DEF RunsKept, Readable

LEMMA StepWriter ==
    ASSUME RunInv, PhaseInv, WriterInv, NEW p \in Proc, Moves(p)
    PROVE  WriterInv'
<1>1. \A q \in Proc : pc'[q] \in OwnerPCs => OwnerStatus(q)' /\ OwnerJournal(q)'
  BY OwnerStatusStep, OwnerJournalStep, OtherOwner
<1> QED BY <1>1, CopiesStep, ToldStep, RunsKeptStep DEF WriterInv

\* What is counted is logged.
LEMMA CountLogged ==
    ASSUME OpsTypeInv, NEW event, EventCount(event) # 0
    PROVE  Logged(event)
<1>1. EventLines(event) # {}
  BY FS_EmptySet DEF EventCount
<1>2. PICK i \in RunLines : journal[i].event = event
  BY <1>1 DEF EventLines
<1>3. journal \in Seq(Entry) /\ journal # Absent /\ i \in DOMAIN journal
  BY <1>2 DEF RunLines, OpsTypeInv, OpsTypeOK, TypeOK
<1>4. journal[i] \in Entries
  BY <1>3 DEF Entries, ToSet
<1> QED BY <1>2, <1>4 DEF Logged

\* metrics.json is written once.
LEMMA MetricsStay ==
    ASSUME RunInv, WriterInv, NEW p \in Proc, Moves(p), Readable(metrics)
    PROVE  metrics' = metrics
  BY MetricsWriter, MetricsPlace DEF RunInv

\* What has ended does not move.
LEMMA EndedStays ==
    ASSUME OpsTypeInv, NEW p \in Proc, Moves(p), NEW q \in Proc, Ended(q)
    PROVE  pc'[q] = pc[q] /\ op'[q] = op[q]
<1>1. ~Ended(p)
  <2>1. pc[p] \in KillPCs \cup RunPCs \cup PatchPCs \cup {"idle"} \/ Crash(p)
    BY RunStepMoves, PatchStepMoves DEF Moves, KillBegin, ReadStatus, RunBegin, PatchBegin,
       Begin, KillStep, AppendEvent, AppendKillEntry, OpenState, FlushState, PatchRead,
       PatchStatus, PatchOpen, PatchFlush, Goto, KillPCs
  <2> QED BY <2>1, StepsAreLive DEF Crash, Ended, EndPCs
<1> QED BY <1>1, OthersKeep

-----------------------------------------------------------------------------
\* All that a reader of the run's files may rely on.
ReaderInv == RunInv /\ PhaseInv /\ BackedInv /\ WriterInv

LEMMA ReaderInvInit == Init => ReaderInv
<1> SUFFICES ASSUME Init PROVE WriterInv
  BY RunInvInit, PhaseInvInit, BackedInvInit DEF ReaderInv
<1>1. /\ \A p \in Proc : pc[p] = "idle" /\ op[p] = "none"
      /\ metadata = Absent /\ metrics = Absent
  BY DEF Init, FreshInit, ProcInit
<1> QED BY <1>1, FileAssumption DEF WriterInv, CopiesTrue, MetricsTold, RunsKept, Readable, NoFile,
     OwnerPCs, RunPCs, CarryPCs

LEMMA ReaderInvNext ==
    ASSUME ReaderInv, [Next]_vars
    PROVE  ReaderInv'
<1>1. RunInv' /\ PhaseInv' /\ BackedInv'
  BY RunInvNext, PhaseInvNext, BackedInvNext DEF ReaderInv, RunInv
<1>2. CASE Next
  <2>1. PICK p \in Proc : Moves(p)
    BY <1>2, NextCases DEF Moves
  <2> QED BY <1>1, <2>1, StepWriter DEF ReaderInv
<1>3. CASE UNCHANGED vars
  <2>1. /\ Entries' = Entries /\ RunLines' = RunLines /\ JournalPhase' = JournalPhase
        /\ journal' = journal /\ metrics' = metrics /\ runDir' = runDir /\ beat' = beat
        /\ pc' = pc /\ op' = op /\ held' = held /\ seen' = seen /\ metadata' = metadata
        /\ report' = report
    BY <1>3 DEF vars, workspace, files, procs, Entries, RunLines, JournalPhase
  <2>2. /\ \A p \in Proc : Blocked(p)' <=> Blocked(p)
        /\ \A p \in Proc : MetricsOf(p)' = MetricsOf(p)
    BY <2>1 DEF Blocked, MetricsOf
  <2>3. /\ EventCount("paper_heartbeat")' = EventCount("paper_heartbeat")
        /\ EventCount("paper_completed")' = EventCount("paper_completed")
        /\ EventCount("backtest_completed")' = EventCount("backtest_completed")
        /\ Logged("paper_safety_blocked")' <=> Logged("paper_safety_blocked")
        /\ Logged("paper_started")' <=> Logged("paper_started")
    BY <2>1 DEF EventCount, EventLines, Logged
  <2>4. \A p \in Proc : pc'[p] \in OwnerPCs => OwnerStatus(p)' /\ OwnerJournal(p)'
    BY <2>1, <2>2, <2>3 DEF ReaderInv, WriterInv, OwnerStatus, OwnerJournal, MetricsWritten, Readable
  <2>5. CopiesTrue' /\ RunsKept'
    BY <2>1, <2>2 DEF ReaderInv, WriterInv, CopiesTrue, CopyTrue, RunsKept, Readable
  <2>6. ASSUME NEW r \in Proc, Execution(r) PROVE Execution(r)'
    <3>1. metrics' = MetricsOf(r)' /\ op'[r] \in {"backtest", "paper"}
      BY <2>1, <2>2, <2>6 DEF Execution
    <3>2. JournalTells(r)'
      BY <2>1, <2>3, <2>6 DEF Execution, JournalTells, HeartbeatCount
    <3> QED BY <3>1, <3>2 DEF Execution
  <2>7. MetricsTold'
    BY <2>1, <2>6 DEF ReaderInv, WriterInv, MetricsTold, MetricsWritten, Readable
  <2> QED BY <1>1, <2>4, <2>5, <2>7 DEF ReaderInv, WriterInv
<1> QED BY <1>2, <1>3
=============================================================================
