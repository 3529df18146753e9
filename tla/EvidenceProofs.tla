--------------------------- MODULE EvidenceProofs ---------------------------
(***************************************************************************)
(* Proofs about `evidence compare`: what a comparison of a live run says   *)
(* fits together, a run is called missing only if it is, and the last      *)
(* comparison of a pair leaves both its files whole.                       *)
(***************************************************************************)
EXTENDS EvidenceCompare, LifecycleProofs

\* Where a comparison is.
LookingPCs == {"idle", "look_probe", "look_readiness", "look_journal", "look_metadata",
               "look_metrics", "look_report", "decide"}
MetaPCs == {"load_metrics", "load_journal", "load_readiness", "load_probe"}
MetricsPCs == {"load_journal", "load_readiness", "load_probe"}
EventsPCs == {"load_readiness", "load_probe"}
WritingPCs == {"open_json", "flush_json", "open_md", "flush_md", "done"}
ComparePCs == LookingPCs \cup {"load_metadata"} \cup MetaPCs \cup WritingPCs
              \cup {"failed", "crashed"}

Names == Core \cup PatchOps
EventNames == KillEntries \cup RunEntries \cup PatchEntries
Payload ==
    [by : Comparer,
     status : {"missing_artifacts", "differences_expected", "incompatible_runs"},
     present : SUBSET Names, meta : MetaContent \cup NoFile, metrics : MetricsContent \cup NoFile,
     events : SUBSET EventNames, conn : [PatchOps -> Proc \cup NoFile]]

CompareTypeInv ==
    /\ other \in Modes \cup {"missing", "unseen"}
    /\ cat \in [Comparer -> ComparePCs]
    /\ payload \in [Comparer -> Payload]
    /\ earlier \in [Comparer -> SUBSET (Comparer \cup Proc)]

\* What EvidenceFits says of the JSON, said of any payload.
Fits(e) ==
    /\ \A o \in PatchOps : o \in e.present \/ PatchEntryName(o) \in e.events => e.conn[o] # Absent
    /\ e.meta.status \in {"running", "completed", "safety_blocked"}
    /\ e.meta.status # "running" => (e.meta.status = "safety_blocked" <=> e.metrics = "blocked")
    /\ e.metrics = "smoke" => "backtest_completed" \in e.events
    /\ e.metrics = "placeholder" => {"paper_heartbeat", "paper_completed"} \subseteq e.events
    /\ e.metrics = "blocked" =>
          "paper_safety_blocked" \in e.events /\ "paper_started" \notin e.events
    /\ PaperSafety(e).outcome = "blocked_kill_switch" => e.metrics = "blocked"
    /\ PaperSafety(e).outcome = "checked_continue" => e.metrics # "blocked"

\* What a comparison looked for and loaded is what the run's files still are, or tells no
\* more than they do.
FilesSeen(c) ==
    /\ cat[c] \in {"idle", "look_probe"} => payload[c].present = {}
    /\ \A n \in payload[c].present : IsFile(n)
    /\ cat[c] \in MetaPCs \cup {"load_metadata"} => Core \subseteq payload[c].present
MetaLoaded(c) ==
    cat[c] \in MetaPCs => payload[c].meta \in MetaContent /\ CopyTrue(payload[c].meta)
MetricsLoaded(c) ==
    cat[c] \in MetricsPCs => Readable(metrics) /\ payload[c].metrics = metrics
EventsLoaded(c) ==
    cat[c] \in EventsPCs =>
        /\ \A event \in payload[c].events : Logged(event)
        /\ metrics = "smoke" => "backtest_completed" \in payload[c].events
        /\ metrics = "placeholder" =>
              {"paper_started", "paper_heartbeat", "paper_completed"} \subseteq payload[c].events
        /\ metrics = "blocked" => "paper_safety_blocked" \in payload[c].events
        /\ metrics = "blocked" => "paper_started" \notin payload[c].events
ConnLoaded(c) ==
    cat[c] = "load_probe" =>
        ("readiness" \in payload[c].present \/ PatchEntryName("readiness") \in payload[c].events
         => payload[c].conn["readiness"] # Absent)

\* The status is decided when everything is loaded.
Decided(c) ==
    /\ cat[c] \in LookingPCs \cup MetaPCs \cup {"load_metadata"} =>
          payload[c].status = "missing_artifacts"
    /\ cat[c] \in WritingPCs /\ payload[c].status # "missing_artifacts" => Fits(payload[c])
    /\ payload[c].status = "differences_expected" =>
          /\ other \in Modes \ {Side}
          /\ payload[c].metrics =
                (IF Side = "backtest" THEN "smoke"
                 ELSE IF "paper_started" \in payload[c].events THEN "placeholder" ELSE "blocked")

\* A run that had ended well before c began.
OldRun(c, p) == p \in earlier[c] /\ op[p] \in Modes /\ pc[p] = "done"

\* Its files are seen, one after another.
OldRunSeen(c) ==
    \A p \in Proc : OldRun(c, p) =>
        /\ cat[c] \in {"look_metadata", "look_metrics", "look_report", "decide"} =>
              "journal" \in payload[c].present
        /\ cat[c] \in {"look_metrics", "look_report", "decide"} => "metadata" \in payload[c].present
        /\ cat[c] \in {"look_report", "decide"} => "metrics" \in payload[c].present
        /\ cat[c] = "decide" => "report" \in payload[c].present
        /\ cat[c] \in WritingPCs /\ payload[c].status = "missing_artifacts" => other = "missing"

\* No other comparison is, or has been, between c's beginning and now.
Alone(c) == cat[c] # "idle" /\ \A d \in Comparer \ {c} : cat[d] # "idle" => d \in earlier[c]

\* What a comparison on its own has written.
AloneWrites(c) ==
    Alone(c) =>
        /\ cat[c] = "flush_json" => json = Empty
        /\ cat[c] \in {"open_md", "flush_md", "done"} => json = payload[c]
        /\ cat[c] = "flush_md" => md = Empty
        /\ cat[c] = "done" => md = c

Compares(c) ==
    /\ FilesSeen(c) /\ MetaLoaded(c) /\ MetricsLoaded(c) /\ EventsLoaded(c) /\ ConnLoaded(c)
    /\ Decided(c) /\ OldRunSeen(c) /\ AloneWrites(c)
    /\ \A d \in earlier[c] \cap Comparer : CompareEnded(d)
    /\ \A p \in earlier[c] \cap Proc : Ended(p)

JsonFits == Readable(json) /\ json.status # "missing_artifacts" => Fits(json)

EvidenceInv == CompareTypeInv /\ JsonFits /\ \A c \in Comparer : Compares(c)

-----------------------------------------------------------------------------
(* A command moves *)

\* A file that is there stays.
LEMMA FileStays ==
    ASSUME OpsTypeInv, NEW p \in Proc, Moves(p), NEW n \in Names, IsFile(n)
    PROVE  IsFile(n)'
  BY FilesStay DEF IsFile, Names, Core, PatchOps

\* Everything that a comparison has seen and loaded stays true when a command moves.
LEMMA CommandMoves ==
    ASSUME ReaderInv, EvidenceInv, NEW p \in Proc, Moves(p), UNCHANGED evidenceVars
    PROVE  EvidenceInv'
<1>0. /\ RunInv /\ WriterInv /\ OpsTypeInv /\ CompareTypeInv
      /\ other' = other /\ cat' = cat /\ payload' = payload /\ json' = json /\ md' = md
      /\ earlier' = earlier
  BY DEF ReaderInv, RunInv, EvidenceInv, evidenceVars
<1>1. CompareTypeInv' /\ JsonFits'
  BY <1>0 DEF CompareTypeInv, JsonFits, EvidenceInv, Readable
<1>2. ASSUME NEW c \in Comparer
      PROVE  Compares(c)'
  <2>0. Compares(c) /\ payload[c] \in Payload
    BY <1>0 DEF EvidenceInv, CompareTypeInv
  <2>1. FilesSeen(c)'
    <3>1. \A n \in payload[c].present : n \in Names /\ IsFile(n)
      BY <2>0 DEF Compares, FilesSeen, Payload
    <3>2. \A n \in payload[c].present : IsFile(n)'
      BY <1>0, <3>1, FileStays
    <3> QED BY <1>0, <2>0, <3>2 DEF Compares, FilesSeen
  <2>2. MetaLoaded(c)'
    <3> SUFFICES ASSUME cat[c] \in MetaPCs
                 PROVE  payload[c].meta \in MetaContent /\ CopyTrue(payload[c].meta)'
      BY <1>0 DEF MetaLoaded
    <3>1. PICK m : m = payload[c].meta
      OBVIOUS
    <3>2. m \in MetaContent /\ CopyTrue(m)
      BY <2>0, <3>1 DEF Compares, MetaLoaded
    <3>3. CopyTrue(m)'
      BY <1>0, <3>2, CopyTrueStays
    <3> QED BY <1>0, <3>1, <3>2, <3>3 DEF CopyTrue
  <2>3. MetricsLoaded(c)'
    BY <1>0, <2>0, MetricsStay DEF Compares, MetricsLoaded, Readable
  <2>4. EventsLoaded(c)'
    <3> SUFFICES ASSUME cat[c] \in EventsPCs PROVE EventsLoaded(c)'
      BY <1>0 DEF EventsLoaded
    <3>1. metrics' = metrics
      BY <1>0, <2>0, MetricsStay DEF Compares, MetricsLoaded, EventsPCs, MetricsPCs
    <3>2. \A event \in payload[c].events : Logged(event)'
      BY <1>0, <2>0, LoggedStays DEF Compares, EventsLoaded
    <3> QED BY <1>0, <2>0, <3>1, <3>2 DEF Compares, EventsLoaded
  <2>5. ConnLoaded(c)' /\ Decided(c)'
    BY <1>0, <2>0 DEF Compares, ConnLoaded, Decided
  <2>6. /\ \A d \in earlier'[c] \cap Comparer : CompareEnded(d)'
        /\ \A q \in earlier'[c] \cap Proc : Ended(q)'
    BY <1>0, <2>0, EndedStays DEF Compares, CompareEnded, Ended
  <2>7. OldRunSeen(c)'
    <3>1. \A q \in Proc : OldRun(c, q)' => OldRun(c, q)
      BY <1>0, <2>0, EndedStays DEF Compares, OldRun
    <3> QED BY <1>0, <2>0, <3>1 DEF Compares, OldRunSeen
  <2>8. AloneWrites(c)'
    BY <1>0, <2>0 DEF Compares, AloneWrites, Alone
  <2> QED BY <2>1, <2>2, <2>3, <2>4, <2>5, <2>6, <2>7, <2>8 DEF Compares
<1> QED BY <1>1, <1>2 DEF EvidenceInv
-----------------------------------------------------------------------------
(* A comparison moves *)

\* The run's files are what they were.
LEMMA RunStill ==
    ASSUME UNCHANGED vars
    PROVE  /\ metadata' = metadata /\ metrics' = metrics /\ journal' = journal
           /\ report' = report /\ connFile' = connFile /\ runDir' = runDir
           /\ pc' = pc /\ op' = op /\ held' = held /\ seen' = seen /\ Entries' = Entries
           /\ \A event : Logged(event)' <=> Logged(event)
           /\ \A n : IsFile(n)' <=> IsFile(n)
           /\ \A m : CopyTrue(m)' <=> CopyTrue(m)
           /\ \A q \in Proc : Ended(q)' <=> Ended(q)
  BY DEF vars, workspace, files, procs, connVars, Logged, Entries, IsFile, CopyTrue, Blocked, Ended

\* What one look finds.
Found(name) == IF IsFile(name) THEN {name} ELSE {}
LookCase(c, name, from, to) ==
    /\ cat[c] = from /\ cat' = [cat EXCEPT ![c] = to]
    /\ payload'[c].present = payload[c].present \cup Found(name)

LEMMA LookCases ==
    ASSUME CompareTypeInv, NEW c \in Comparer, Look(c)
    PROVE  /\ \/ LookCase(c, "probe", "look_probe", "look_readiness")
              \/ LookCase(c, "readiness", "look_readiness", "look_journal")
              \/ LookCase(c, "journal", "look_journal", "look_metadata")
              \/ LookCase(c, "metadata", "look_metadata", "look_metrics")
              \/ LookCase(c, "metrics", "look_metrics", "look_report")
              \/ LookCase(c, "report", "look_report", "decide")
           /\ payload' = [payload EXCEPT ![c] = [@ EXCEPT !.present = payload'[c].present]]
           /\ UNCHANGED <<other, json, md, earlier>>
<1>0. payload \in [Comparer -> Payload]
  BY DEF CompareTypeInv
<1>1. PICK i \in DOMAIN LookOrder :
         /\ cat[c] = LookPC[i] /\ cat' = [cat EXCEPT ![c] = LookPC[i+1]]
         /\ payload' = [payload EXCEPT ![c].present = @ \cup Found(LookOrder[i])]
  BY DEF Look, CompareGoto, Found
<1>2. /\ payload'[c].present = payload[c].present \cup Found(LookOrder[i])
      /\ payload' = [payload EXCEPT ![c] = [@ EXCEPT !.present = payload'[c].present]]
      /\ UNCHANGED <<other, json, md, earlier>>
  BY <1>0, <1>1 DEF Payload, Look
<1>3. i \in 1..6
  BY DEF LookOrder
<1>4. CASE i = 1
  <2>1. LookOrder[i] = "probe" /\ LookPC[i] = "look_probe" /\ LookPC[i+1] = "look_readiness"
    BY <1>4 DEF LookOrder, LookPC
  <2> QED BY <1>1, <1>2, <2>1 DEF LookCase
<1>5. CASE i = 2
  <2>1. LookOrder[i] = "readiness" /\ LookPC[i] = "look_readiness" /\ LookPC[i+1] = "look_journal"
    BY <1>5 DEF LookOrder, LookPC
  <2> QED BY <1>1, <1>2, <2>1 DEF LookCase
<1>6. CASE i = 3
  <2>1. LookOrder[i] = "journal" /\ LookPC[i] = "look_journal" /\ LookPC[i+1] = "look_metadata"
    BY <1>6 DEF LookOrder, LookPC
  <2> QED BY <1>1, <1>2, <2>1 DEF LookCase
<1>7. CASE i = 4
  <2>1. LookOrder[i] = "metadata" /\ LookPC[i] = "look_metadata" /\ LookPC[i+1] = "look_metrics"
    BY <1>7 DEF LookOrder, LookPC
  <2> QED BY <1>1, <1>2, <2>1 DEF LookCase
<1>8. CASE i = 5
  <2>1. LookOrder[i] = "metrics" /\ LookPC[i] = "look_metrics" /\ LookPC[i+1] = "look_report"
    BY <1>8 DEF LookOrder, LookPC
  <2> QED BY <1>1, <1>2, <2>1 DEF LookCase
<1>9. CASE i = 6
  <2>1. LookOrder[i] = "report" /\ LookPC[i] = "look_report" /\ LookPC[i+1] = "decide"
    BY <1>9 DEF LookOrder, LookPC
  <2> QED BY <1>1, <1>2, <2>1 DEF LookCase
<1> QED BY <1>3, <1>4, <1>5, <1>6, <1>7, <1>8, <1>9

LEMMA CompareMoves ==
    ASSUME CompareTypeInv, NEW c \in Comparer, CompareStep(c)
    PROVE  /\ ~CompareEnded(c)
           /\ \E to \in ComparePCs \ {"idle"} : cat' = [cat EXCEPT ![c] = to]
           /\ \A d \in Comparer \ {c} :
                 cat'[d] = cat[d] /\ payload'[d] = payload[d] /\ earlier'[d] = earlier[d]
           /\ other' = other \/ (other = "unseen" /\ other' \in Modes \cup {"missing"})
           /\ earlier' = earlier \/ BeginCompare(c)
<1>0. cat \in [Comparer -> ComparePCs] /\ payload \in [Comparer -> Payload]
      /\ earlier \in [Comparer -> SUBSET (Comparer \cup Proc)]
  BY DEF CompareTypeInv
<1>1. CASE Look(c)
  BY <1>0, <1>1, LookCases DEF LookCase, CompareGoto, CompareEnded, ComparePCs, LookingPCs
<1>2. CASE BeginCompare(c) \/ Decide(c) \/ CrashCompare(c)
  BY <1>0, <1>2 DEF BeginCompare, Decide, CrashCompare, FindOther, CompareGoto, CompareEnded,
     ComparePCs, LookingPCs, WritingPCs
<1>3. CASE LoadMetadata(c) \/ LoadMetrics(c) \/ LoadJournal(c)
  BY <1>0, <1>3 DEF LoadMetadata, LoadMetrics, LoadJournal, Load, CompareGoto, CompareEnded,
     ComparePCs, MetaPCs
<1>4. CASE \E o \in PatchOps : LoadConn(c, o)
  BY <1>0, <1>4 DEF LoadConn, Load, CompareGoto, CompareEnded, ComparePCs, MetaPCs, WritingPCs
<1>5. CASE OpenJson(c) \/ FlushJson(c) \/ OpenEvidenceReport(c) \/ FlushEvidenceReport(c)
  BY <1>0, <1>5 DEF OpenJson, FlushJson, OpenEvidenceReport, FlushEvidenceReport, CompareGoto,
     CompareEnded, ComparePCs, WritingPCs
<1> QED BY <1>1, <1>2, <1>3, <1>4, <1>5 DEF CompareStep

\* The other comparisons keep what they have; none of them is alone with c.
LEMMA OtherCompares ==
    ASSUME CompareTypeInv, NEW c \in Comparer, CompareStep(c), UNCHANGED vars,
           NEW d \in Comparer \ {c}, Compares(d)
    PROVE  Compares(d)'
<1>0. /\ ~CompareEnded(c) /\ cat'[c] # "idle" /\ cat'[d] = cat[d] /\ payload'[d] = payload[d]
      /\ earlier'[d] = earlier[d] /\ cat \in [Comparer -> ComparePCs]
  BY CompareMoves DEF CompareTypeInv
<1>1. other' = other \/ (other = "unseen" /\ other' \in Modes \cup {"missing"})
  BY CompareMoves
<1>2. FilesSeen(d)' /\ MetaLoaded(d)'
  BY <1>0, RunStill DEF Compares, FilesSeen, MetaLoaded, CopyTrue, Blocked
<1>3. MetricsLoaded(d)' /\ EventsLoaded(d)' /\ ConnLoaded(d)'
  BY <1>0, RunStill DEF Compares, MetricsLoaded, EventsLoaded, ConnLoaded, Readable
<1>4. Decided(d)'
  BY <1>0, <1>1 DEF Compares, Decided, Modes
<1>5. OldRunSeen(d)'
  BY <1>0, <1>1, RunStill DEF Compares, OldRunSeen, OldRun
<1>6. AloneWrites(d)'
  <2>1. c \notin earlier[d]
    BY <1>0 DEF Compares
  <2> QED BY <1>0, <2>1 DEF AloneWrites, Alone
<1>7. /\ \A e \in earlier'[d] \cap Comparer : CompareEnded(e)'
      /\ \A q \in earlier'[d] \cap Proc : Ended(q)'
  <2>1. \A e \in Comparer \ {c} : cat'[e] = cat[e]
    BY CompareMoves
  <2> QED BY <1>0, <2>1, RunStill DEF Compares, CompareEnded, Ended
<1> QED BY <1>2, <1>3, <1>4, <1>5, <1>6, <1>7 DEF Compares
\* What a step of c after its first leaves alone.
LEMMA OwnRest ==
    ASSUME CompareTypeInv, NEW c \in Comparer, CompareStep(c), UNCHANGED vars, Compares(c),
           cat[c] # "idle"
    PROVE  /\ earlier' = earlier
           /\ Alone(c)' => Alone(c)
           /\ \A q \in Proc : OldRun(c, q)' <=> OldRun(c, q)
           /\ \A d \in earlier'[c] \cap Comparer : CompareEnded(d)'
           /\ \A q \in earlier'[c] \cap Proc : Ended(q)'
<1>1. earlier' = earlier /\ ~CompareEnded(c)
  BY CompareMoves DEF BeginCompare, CompareGoto
<1>2. \A d \in Comparer \ {c} : cat'[d] = cat[d]
  BY CompareMoves
<1>3. Alone(c)' => Alone(c)
  BY <1>1, <1>2 DEF Alone
<1>4. \A q \in Proc : OldRun(c, q)' <=> OldRun(c, q)
  BY <1>1, RunStill DEF OldRun
<1>5. \A d \in earlier'[c] \cap Comparer : CompareEnded(d)'
  BY <1>1, <1>2 DEF Compares, CompareEnded
<1>6. \A q \in earlier'[c] \cap Proc : Ended(q)'
  BY <1>1, RunStill DEF Compares
<1> QED BY <1>1, <1>3, <1>4, <1>5, <1>6

LEMMA BeginCompares ==
    ASSUME CompareTypeInv, JsonFits, NEW c \in Comparer, BeginCompare(c), UNCHANGED vars,
           Compares(c)
    PROVE  CompareTypeInv' /\ JsonFits' /\ Compares(c)'
<1>0. /\ cat \in [Comparer -> ComparePCs] /\ earlier \in [Comparer -> SUBSET (Comparer \cup Proc)]
      /\ cat[c] = "idle" /\ cat' = [cat EXCEPT ![c] = "look_probe"] /\ payload' = payload
      /\ other' = other /\ json' = json
  BY DEF CompareTypeInv, BeginCompare, CompareGoto
<1>1. earlier' = [earlier EXCEPT ![c] = {d \in Comparer : CompareEnded(d)}
                                         \cup {p \in Proc : Ended(p)}]
  BY DEF BeginCompare
<1>2. CompareTypeInv' /\ JsonFits'
  BY <1>0, <1>1 DEF CompareTypeInv, JsonFits, ComparePCs, LookingPCs, Readable
<1>3. FilesSeen(c)'
  BY <1>0 DEF Compares, FilesSeen, ComparePCs, MetaPCs
<1>4. /\ MetaLoaded(c)' /\ MetricsLoaded(c)' /\ EventsLoaded(c)' /\ ConnLoaded(c)'
      /\ OldRunSeen(c)' /\ AloneWrites(c)'
  BY <1>0 DEF MetaLoaded, MetricsLoaded, EventsLoaded, ConnLoaded, OldRunSeen, AloneWrites,
     MetaPCs, MetricsPCs, EventsPCs, WritingPCs
<1>5. Decided(c)'
  BY <1>0 DEF Compares, Decided, LookingPCs, WritingPCs
<1>6. \A d \in earlier'[c] \cap Comparer : CompareEnded(d)'
  <2>1. \A d \in earlier'[c] \cap Comparer : CompareEnded(d)
    BY <1>0, <1>1, ApartAssumption
  <2>2. ~CompareEnded(c) /\ \A d \in Comparer \ {c} : cat'[d] = cat[d]
    BY <1>0 DEF CompareEnded
  <2> QED BY <2>1, <2>2 DEF CompareEnded
<1>7. \A q \in earlier'[c] \cap Proc : Ended(q)'
  BY <1>0, <1>1, ApartAssumption, RunStill
<1> QED BY <1>2, <1>3, <1>4, <1>5, <1>6, <1>7 DEF Compares

\* A run that had ended well has all its core files.
LEMMA OldRunFiles ==
    ASSUME ReaderInv, NEW c \in Comparer, NEW q \in Proc, OldRun(c, q)
    PROVE  \A n \in Core : IsFile(n)
<1>1. Readable(metrics) /\ report # Absent /\ journal # Absent /\ metadata # Absent
  BY DEF ReaderInv, WriterInv, RunsKept, OldRun, Modes
<1> QED BY <1>1 DEF Core, IsFile, Readable, NoFile

LEMMA LookCompares ==
    ASSUME ReaderInv, CompareTypeInv, JsonFits, NEW c \in Comparer, Look(c), UNCHANGED vars,
           Compares(c)
    PROVE  CompareTypeInv' /\ JsonFits' /\ Compares(c)'
<1>0. CompareStep(c) /\ cat \in [Comparer -> ComparePCs] /\ payload \in [Comparer -> Payload]
  BY DEF CompareStep, CompareTypeInv
<1>1. PICK name \in Names, from \in LookingPCs \ {"idle", "decide"}, to \in LookingPCs \ {"idle"} :
         /\ cat[c] = from /\ cat' = [cat EXCEPT ![c] = to]
         /\ payload'[c].present = payload[c].present \cup Found(name)
         /\ to # "look_probe"
         /\ to = "look_metadata" => name = "journal"
         /\ to = "look_metrics" => name = "metadata" /\ from = "look_metadata"
         /\ to = "look_report" => name = "metrics" /\ from = "look_metrics"
         /\ to = "decide" => name = "report" /\ from = "look_report"
  BY LookCases DEF LookCase, LookingPCs, Names, Core, PatchOps
<1>2. payload'[c] = [payload[c] EXCEPT !.present = payload[c].present \cup Found(name)]
  BY <1>0, <1>1, LookCases
<1>3. payload'[c] \in Payload /\ payload'[c].status = payload[c].status
      /\ payload' \in [Comparer -> Payload]
  <2>1. payload[c].present \cup Found(name) \in SUBSET Names
    BY <1>0, <1>1 DEF Found, Payload
  <2>2. payload'[c] \in Payload /\ payload'[c].status = payload[c].status
    BY <1>0, <1>2, <2>1 DEF Payload
  <2>3. payload' = [payload EXCEPT ![c] = payload'[c]]
    BY <1>0, LookCases
  <2> QED BY <1>0, <2>2, <2>3
<1>4. cat[c] # "idle" /\ cat'[c] = to /\ to \in ComparePCs
  BY <1>0, <1>1 DEF ComparePCs
<1>5. CompareTypeInv' /\ JsonFits'
  <2>1. cat' \in [Comparer -> ComparePCs]
    BY <1>0, <1>1, <1>4
  <2>2. other' = other /\ json' = json /\ earlier' = earlier
    BY LookCases
  <2>3. JsonFits'
    BY <2>2 DEF JsonFits, Readable
  <2>4. CompareTypeInv'
    BY <1>3, <2>1, <2>2 DEF CompareTypeInv
  <2> QED BY <2>3, <2>4
<1>6. FilesSeen(c)'
  <2>1. \A n \in payload'[c].present : IsFile(n)
    BY <1>1 DEF Found, Compares, FilesSeen
  <2> QED BY <1>1, <1>4, <2>1, RunStill DEF FilesSeen, LookingPCs, MetaPCs
<1>7. MetaLoaded(c)' /\ MetricsLoaded(c)' /\ EventsLoaded(c)' /\ ConnLoaded(c)' /\ AloneWrites(c)'
  BY <1>4 DEF MetaLoaded, MetricsLoaded, EventsLoaded, ConnLoaded, AloneWrites,
     MetaPCs, MetricsPCs, EventsPCs, LookingPCs
<1>8. Decided(c)'
  BY <1>1, <1>3, <1>4 DEF Compares, Decided, LookingPCs, WritingPCs
<1>9. OldRunSeen(c)'
  <2> SUFFICES ASSUME NEW q \in Proc, OldRun(c, q)'
               PROVE  /\ to \in {"look_metadata", "look_metrics", "look_report", "decide"} =>
                            "journal" \in payload'[c].present
                      /\ to \in {"look_metrics", "look_report", "decide"} =>
                            "metadata" \in payload'[c].present
                      /\ to \in {"look_report", "decide"} => "metrics" \in payload'[c].present
                      /\ to = "decide" => "report" \in payload'[c].present
    BY <1>4 DEF OldRunSeen, LookingPCs, WritingPCs
  <2>1. OldRun(c, q) /\ \A n \in Core : IsFile(n)
    BY <1>0, <1>4, OwnRest, OldRunFiles
  <2>2. name \in Core => name \in payload'[c].present
    BY <1>1, <2>1 DEF Found
  <2>3. payload[c].present \subseteq payload'[c].present
    BY <1>1
  <2>4. /\ from \in {"look_metadata", "look_metrics", "look_report"} => "journal" \in payload[c].present
        /\ from \in {"look_metrics", "look_report"} => "metadata" \in payload[c].present
        /\ from = "look_report" => "metrics" \in payload[c].present
    BY <1>1, <2>1 DEF Compares, OldRunSeen
  <2> QED BY <1>1, <2>2, <2>3, <2>4 DEF Core
<1> QED BY <1>0, <1>4, <1>5, <1>6, <1>7, <1>8, <1>9, OwnRest DEF Compares

LEMMA DecideCompares ==
    ASSUME CompareTypeInv, JsonFits, NEW c \in Comparer, Decide(c), UNCHANGED vars, Compares(c)
    PROVE  CompareTypeInv' /\ JsonFits' /\ Compares(c)'
<1>0. /\ CompareStep(c) /\ cat \in [Comparer -> ComparePCs] /\ cat[c] = "decide"
      /\ payload' = payload /\ json' = json /\ earlier' = earlier
      /\ other' \in Modes \cup {"missing"}
      /\ cat'[c] = IF Core \subseteq payload[c].present /\ other' # "missing"
                   THEN "load_metadata" ELSE "open_json"
      /\ cat' \in [Comparer -> ComparePCs]
  BY DEF CompareStep, CompareTypeInv, Decide, CompareGoto, FindOther, ComparePCs, WritingPCs
<1>1. CompareTypeInv' /\ JsonFits'
  BY <1>0 DEF CompareTypeInv, JsonFits, Readable
<1>2. FilesSeen(c)'
  BY <1>0, RunStill DEF Compares, FilesSeen, MetaPCs
<1>3. MetaLoaded(c)' /\ MetricsLoaded(c)' /\ EventsLoaded(c)' /\ ConnLoaded(c)' /\ AloneWrites(c)'
  BY <1>0 DEF MetaLoaded, MetricsLoaded, EventsLoaded, ConnLoaded, AloneWrites,
     MetaPCs, MetricsPCs, EventsPCs
<1>4. payload[c].status = "missing_artifacts"
  BY <1>0 DEF Compares, Decided, LookingPCs
<1>5. Decided(c)'
  BY <1>0, <1>4 DEF Decided
<1>6. OldRunSeen(c)'
  <2>1. ASSUME NEW q \in Proc, OldRun(c, q)' PROVE Core \subseteq payload[c].present
    BY <1>0, <2>1, OwnRest DEF Compares, OldRunSeen, Core
  <2>2. cat'[c] \in {"load_metadata", "open_json"}
    BY <1>0
  <2>3. ASSUME NEW q \in Proc, OldRun(c, q)', cat'[c] = "open_json" PROVE other' = "missing"
    BY <1>0, <2>1, <2>3
  <2> QED BY <2>2, <2>3 DEF OldRunSeen, WritingPCs
<1> QED BY <1>0, <1>1, <1>2, <1>3, <1>5, <1>6, OwnRest DEF Compares
\* A comparison that fails or dies leaves what it had.
LEMMA StopCompares ==
    ASSUME CompareTypeInv, JsonFits, NEW c \in Comparer, CompareStep(c), UNCHANGED vars,
           Compares(c), cat[c] # "idle", NEW to \in {"failed", "crashed"},
           cat' = [cat EXCEPT ![c] = to], UNCHANGED <<other, payload, json, earlier>>
    PROVE  CompareTypeInv' /\ JsonFits' /\ Compares(c)'
<1>1. cat \in [Comparer -> ComparePCs] /\ cat'[c] = to /\ cat' \in [Comparer -> ComparePCs]
  BY DEF CompareTypeInv, ComparePCs
<1>2. CompareTypeInv' /\ JsonFits'
  BY <1>1 DEF CompareTypeInv, JsonFits, Readable
<1>3. FilesSeen(c)'
  BY <1>1, RunStill DEF Compares, FilesSeen, MetaPCs
<1>4. /\ MetaLoaded(c)' /\ MetricsLoaded(c)' /\ EventsLoaded(c)' /\ ConnLoaded(c)'
      /\ AloneWrites(c)' /\ OldRunSeen(c)'
  BY <1>1 DEF MetaLoaded, MetricsLoaded, EventsLoaded, ConnLoaded, AloneWrites, OldRunSeen,
     MetaPCs, MetricsPCs, EventsPCs, WritingPCs
<1>5. Decided(c)'
  BY <1>1 DEF Compares, Decided, LookingPCs, MetaPCs, WritingPCs
<1> QED BY <1>2, <1>3, <1>4, <1>5, OwnRest DEF Compares

\* A load adds to the payload, or ends the comparison.
LEMMA LoadMetadataCompares ==
    ASSUME ReaderInv, CompareTypeInv, JsonFits, NEW c \in Comparer, LoadMetadata(c),
           UNCHANGED vars, Compares(c)
    PROVE  CompareTypeInv' /\ JsonFits' /\ Compares(c)'
<1>0. /\ CompareStep(c) /\ cat \in [Comparer -> ComparePCs] /\ cat[c] = "load_metadata"
      /\ payload \in [Comparer -> Payload] /\ payload[c] \in Payload
      /\ UNCHANGED <<other, json, earlier>> /\ metadata \in MetaContent \cup NoFile
  BY DEF CompareStep, CompareTypeInv, LoadMetadata, Load, CompareGoto, ReaderInv, RunInv,
     OpsTypeInv, OpsTypeOK, TypeOK
<1>1. CASE Malformed(metadata)
  BY <1>0, <1>1, StopCompares DEF LoadMetadata, Load, CompareGoto
<1>2. CASE ~Malformed(metadata)
  <2>1. /\ cat' = [cat EXCEPT ![c] = "load_metrics"]
        /\ payload' = [payload EXCEPT ![c] = [payload[c] EXCEPT !.meta = metadata]]
    BY <1>2 DEF LoadMetadata, Load, CompareGoto
  <2>2. /\ payload'[c].meta = metadata /\ payload'[c].present = payload[c].present
        /\ payload'[c].status = payload[c].status /\ payload'[c] \in Payload
    BY <1>0, <2>1 DEF Payload
  <2>3. payload' \in [Comparer -> Payload] /\ cat' \in [Comparer -> ComparePCs]
        /\ cat'[c] = "load_metrics"
    <3>1. payload' = [payload EXCEPT ![c] = payload'[c]]
      BY <1>0, <2>1
    <3> QED BY <1>0, <2>1, <2>2, <3>1 DEF ComparePCs, MetaPCs
  <2>4. CompareTypeInv' /\ JsonFits'
    BY <1>0, <2>3 DEF CompareTypeInv, JsonFits, Readable
  <2>5. FilesSeen(c)'
    BY <1>0, <2>2, <2>3, RunStill DEF Compares, FilesSeen, MetaPCs
  <2>6. metadata # Absent
    BY <1>0 DEF Compares, FilesSeen, Core, IsFile
  <2>7. metadata \in MetaContent /\ CopyTrue(metadata)
    BY <1>0, <1>2, <2>6, FileAssumption DEF Malformed, NoFile, Readable, ReaderInv, WriterInv, CopiesTrue
  <2>8. MetaLoaded(c)'
    <3>1. PICK m : m = metadata
      OBVIOUS
    <3>2. CopyTrue(m)'
      BY <2>7, <3>1, RunStill
    <3> QED BY <2>2, <2>7, <3>1, <3>2 DEF MetaLoaded, CopyTrue
  <2>9. /\ MetricsLoaded(c)' /\ EventsLoaded(c)' /\ ConnLoaded(c)' /\ AloneWrites(c)'
        /\ OldRunSeen(c)'
    BY <2>3 DEF MetricsLoaded, EventsLoaded, ConnLoaded, AloneWrites, OldRunSeen,
       MetricsPCs, EventsPCs, WritingPCs
  <2>10. Decided(c)'
    BY <1>0, <2>2, <2>3 DEF Compares, Decided, MetaPCs, WritingPCs
  <2> QED BY <1>0, <2>4, <2>5, <2>8, <2>9, <2>10, OwnRest DEF Compares
<1> QED BY <1>1, <1>2

LEMMA LoadMetricsCompares ==
    ASSUME ReaderInv, CompareTypeInv, JsonFits, NEW c \in Comparer, LoadMetrics(c),
           UNCHANGED vars, Compares(c)
    PROVE  CompareTypeInv' /\ JsonFits' /\ Compares(c)'
<1>0. /\ CompareStep(c) /\ cat \in [Comparer -> ComparePCs] /\ cat[c] = "load_metrics"
      /\ payload \in [Comparer -> Payload] /\ payload[c] \in Payload
      /\ UNCHANGED <<other, json, earlier>> /\ metrics \in MetricsContent \cup NoFile
  BY DEF CompareStep, CompareTypeInv, LoadMetrics, Load, CompareGoto, ReaderInv, RunInv,
     OpsTypeInv, OpsTypeOK, TypeOK
<1>1. CASE Malformed(metrics)
  BY <1>0, <1>1, StopCompares DEF LoadMetrics, Load, CompareGoto
<1>2. CASE ~Malformed(metrics)
  <2>1. /\ cat' = [cat EXCEPT ![c] = "load_journal"]
        /\ payload' = [payload EXCEPT ![c] = [payload[c] EXCEPT !.metrics = metrics]]
    BY <1>2 DEF LoadMetrics, Load, CompareGoto
  <2>2. /\ payload'[c].metrics = metrics /\ payload'[c].present = payload[c].present
        /\ payload'[c].meta = payload[c].meta
        /\ payload'[c].status = payload[c].status /\ payload'[c] \in Payload
    BY <1>0, <2>1 DEF Payload
  <2>3. payload' \in [Comparer -> Payload] /\ cat' \in [Comparer -> ComparePCs]
        /\ cat'[c] = "load_journal"
    <3>1. payload' = [payload EXCEPT ![c] = payload'[c]]
      BY <1>0, <2>1
    <3> QED BY <1>0, <2>1, <2>2, <3>1 DEF ComparePCs, MetaPCs
  <2>4. CompareTypeInv' /\ JsonFits'
    BY <1>0, <2>3 DEF CompareTypeInv, JsonFits, Readable
  <2>5. FilesSeen(c)'
    BY <1>0, <2>2, <2>3, RunStill DEF Compares, FilesSeen, MetaPCs
  <2>6. metrics # Absent
    BY <1>0 DEF Compares, FilesSeen, Core, MetaPCs, IsFile
  <2>7. MetaLoaded(c)'
    BY <1>0, <2>2, <2>3, RunStill DEF Compares, MetaLoaded, MetaPCs, CopyTrue, Blocked
  <2>8. MetricsLoaded(c)'
    BY <1>2, <2>2, <2>6, RunStill DEF MetricsLoaded, Malformed, Readable, NoFile
  <2>9. EventsLoaded(c)' /\ ConnLoaded(c)' /\ AloneWrites(c)' /\ OldRunSeen(c)'
    BY <2>3 DEF EventsLoaded, ConnLoaded, AloneWrites, OldRunSeen, EventsPCs, WritingPCs
  <2>10. Decided(c)'
    BY <1>0, <2>2, <2>3 DEF Compares, Decided, MetaPCs, WritingPCs
  <2> QED BY <1>0, <2>4, <2>5, <2>7, <2>8, <2>9, <2>10, OwnRest DEF Compares
<1> QED BY <1>1, <1>2

LEMMA LoadJournalCompares ==
    ASSUME ReaderInv, CompareTypeInv, JsonFits, NEW c \in Comparer, LoadJournal(c),
           UNCHANGED vars, Compares(c)
    PROVE  CompareTypeInv' /\ JsonFits' /\ Compares(c)'
<1> DEFINE names == {e.event : e \in Entries}
<1>0. /\ CompareStep(c) /\ cat \in [Comparer -> ComparePCs] /\ cat[c] = "load_journal"
      /\ payload \in [Comparer -> Payload] /\ payload[c] \in Payload
      /\ UNCHANGED <<other, json, earlier>> /\ OpsTypeInv
  BY DEF CompareStep, CompareTypeInv, LoadJournal, Load, CompareGoto, ReaderInv, RunInv
<1>1. names \in SUBSET EventNames /\ \A event : event \in names <=> Logged(event)
  <2>1. Entries \subseteq Entry
    BY <1>0 DEF OpsTypeInv, OpsTypeOK, TypeOK, Entries, ToSet
  <2> QED BY <2>1 DEF Entry, EventNames, Logged
<1>2. CASE Malformed(journal)
  BY <1>0, <1>2, StopCompares DEF LoadJournal, Load, CompareGoto
<1>3. CASE ~Malformed(journal)
  <2>1. /\ cat' = [cat EXCEPT ![c] = "load_readiness"]
        /\ payload' = [payload EXCEPT ![c] = [payload[c] EXCEPT !.events = names]]
    BY <1>3 DEF LoadJournal, Load, CompareGoto
  <2> HIDE DEF names
  <2>2. /\ payload'[c].events = names /\ payload'[c].present = payload[c].present
        /\ payload'[c].meta = payload[c].meta /\ payload'[c].metrics = payload[c].metrics
        /\ payload'[c].status = payload[c].status /\ payload'[c] \in Payload
    BY <1>0, <1>1, <2>1 DEF Payload
  <2>3. payload' \in [Comparer -> Payload] /\ cat' \in [Comparer -> ComparePCs]
        /\ cat'[c] = "load_readiness"
    <3>1. payload' = [payload EXCEPT ![c] = payload'[c]]
      BY <1>0, <2>1
    <3> QED BY <1>0, <2>1, <2>2, <3>1 DEF ComparePCs, MetaPCs
  <2>4. CompareTypeInv' /\ JsonFits'
    BY <1>0, <2>3 DEF CompareTypeInv, JsonFits, Readable
  <2>5. FilesSeen(c)'
    BY <1>0, <2>2, <2>3, RunStill DEF Compares, FilesSeen, MetaPCs
  <2>6. MetaLoaded(c)'
    BY <1>0, <2>2, <2>3, RunStill DEF Compares, MetaLoaded, MetaPCs, CopyTrue, Blocked
  <2>7. MetricsLoaded(c)'
    BY <1>0, <2>2, RunStill DEF Compares, MetricsLoaded, MetricsPCs, Readable
  <2>8. EventsLoaded(c)'
    <3>1. Readable(metrics)
      BY <1>0 DEF Compares, MetricsLoaded, MetricsPCs
    <3>2. PICK r \in Proc : Execution(r)
      BY <3>1 DEF ReaderInv, WriterInv, MetricsTold
    <3>3. metrics = "smoke" => Logged("backtest_completed")
      BY <1>0, <3>2, CountLogged DEF Execution, JournalTells
    <3>4. metrics = "placeholder" =>
             Logged("paper_started") /\ Logged("paper_heartbeat") /\ Logged("paper_completed")
      BY <1>0, <3>2, CountLogged DEF Execution, JournalTells, HeartbeatCount
    <3>5. metrics = "blocked" => Logged("paper_safety_blocked") /\ ~Logged("paper_started")
      BY <3>2 DEF Execution, JournalTells
    <3> QED BY <1>1, <2>2, <3>3, <3>4, <3>5, RunStill DEF EventsLoaded
  <2>9. ConnLoaded(c)' /\ AloneWrites(c)' /\ OldRunSeen(c)'
    BY <2>3 DEF ConnLoaded, AloneWrites, OldRunSeen, WritingPCs
  <2>10. Decided(c)'
    BY <1>0, <2>2, <2>3 DEF Compares, Decided, MetaPCs, WritingPCs
  <2> QED BY <1>0, <2>4, <2>5, <2>6, <2>7, <2>8, <2>9, <2>10, OwnRest DEF Compares
<1> QED BY <1>2, <1>3
\* A run that is told of connectivity has the artifact.
LEMMA ConnFiles ==
    ASSUME ReaderInv, NEW c \in Comparer, Compares(c), cat[c] \in EventsPCs, NEW o \in PatchOps,
           o \in payload[c].present \/ PatchEntryName(o) \in payload[c].events
    PROVE  connFile[o] # Absent
<1>1. CASE o \in payload[c].present
  <2>1. IsFile(o)
    BY <1>1 DEF Compares, FilesSeen
  <2> QED BY <2>1 DEF IsFile, PatchOps
<1>2. CASE PatchEntryName(o) \in payload[c].events
  <2>1. Logged(PatchEntryName(o))
    BY <1>2 DEF Compares, EventsLoaded
  <2> QED BY <2>1 DEF ReaderInv, BackedInv, SectionsBacked
<1> QED BY <1>1, <1>2

LEMMA LoadReadinessCompares ==
    ASSUME ReaderInv, CompareTypeInv, JsonFits, NEW c \in Comparer, LoadConn(c, "readiness"),
           UNCHANGED vars, Compares(c)
    PROVE  CompareTypeInv' /\ JsonFits' /\ Compares(c)'
<1> DEFINE file == connFile["readiness"]
<1>0. /\ CompareStep(c) /\ cat \in [Comparer -> ComparePCs] /\ cat[c] = "load_readiness"
      /\ payload \in [Comparer -> Payload] /\ payload[c] \in Payload
      /\ UNCHANGED <<other, json, earlier>> /\ file \in Proc \cup NoFile
  BY DEF CompareStep, CompareTypeInv, LoadConn, Load, CompareGoto, ReaderInv, RunInv,
     OpsTypeInv, OpsTypeOK, ConnTypeOK, PatchOps
<1> HIDE DEF file
<1>1. CASE Malformed(file)
  BY <1>0, <1>1, StopCompares DEF LoadConn, Load, CompareGoto, file
<1>2. CASE ~Malformed(file)
  <2>1. /\ cat' = [cat EXCEPT ![c] = "load_probe"]
        /\ payload' = [payload EXCEPT ![c] = [payload[c] EXCEPT !.conn["readiness"] = file]]
    BY <1>2 DEF LoadConn, Load, CompareGoto, file
  <2>2. /\ payload'[c].conn["readiness"] = file /\ payload'[c].present = payload[c].present
        /\ payload'[c].meta = payload[c].meta /\ payload'[c].metrics = payload[c].metrics
        /\ payload'[c].events = payload[c].events
        /\ payload'[c].status = payload[c].status /\ payload'[c] \in Payload
    BY <1>0, <2>1 DEF Payload, PatchOps
  <2>3. payload' \in [Comparer -> Payload] /\ cat' \in [Comparer -> ComparePCs]
        /\ cat'[c] = "load_probe"
    <3>1. payload' = [payload EXCEPT ![c] = payload'[c]]
      BY <1>0, <2>1
    <3> QED BY <1>0, <2>1, <2>2, <3>1 DEF ComparePCs, MetaPCs
  <2>4. CompareTypeInv' /\ JsonFits'
    BY <1>0, <2>3 DEF CompareTypeInv, JsonFits, Readable
  <2>5. FilesSeen(c)'
    BY <1>0, <2>2, <2>3, RunStill DEF Compares, FilesSeen, MetaPCs
  <2>6. MetaLoaded(c)'
    BY <1>0, <2>2, <2>3, RunStill DEF Compares, MetaLoaded, MetaPCs, CopyTrue, Blocked
  <2>7. MetricsLoaded(c)' /\ EventsLoaded(c)'
    BY <1>0, <2>2, RunStill DEF Compares, MetricsLoaded, EventsLoaded, MetricsPCs, EventsPCs, Readable
  <2>8. ConnLoaded(c)'
    BY <1>0, <2>2, ConnFiles DEF ConnLoaded, EventsPCs, PatchOps, file
  <2>9. AloneWrites(c)' /\ OldRunSeen(c)'
    BY <2>3 DEF AloneWrites, OldRunSeen, WritingPCs
  <2>10. Decided(c)'
    BY <1>0, <2>2, <2>3 DEF Compares, Decided, MetaPCs, WritingPCs
  <2> QED BY <1>0, <2>4, <2>5, <2>6, <2>7, <2>8, <2>9, <2>10, OwnRest DEF Compares
<1> QED BY <1>1, <1>2

\* The mode that metadata.json states is the mode of the execution that is told.
LEMMA ModeOfExecution ==
    ASSUME ReaderInv, NEW r \in Proc, Execution(r)
    PROVE  RunMode = op[r]
<1>1. \E e \in Entries : e.event = "run_started" /\ e.by = r
  BY DEF Execution, JournalTells
<1>2. \A e, f \in Entries : e.event = "run_started" /\ f.event = "run_started" => e.by = f.by
  BY DEF ReaderInv, RunInv, OwnerInv, OneOwner, RunEntries
<1> QED BY <1>1, <1>2 DEF RunMode

LEMMA LoadProbeCompares ==
    ASSUME ReaderInv, CompareTypeInv, JsonFits, NEW c \in Comparer, LoadConn(c, "probe"),
           UNCHANGED vars, Compares(c)
    PROVE  CompareTypeInv' /\ JsonFits' /\ Compares(c)'
<1> DEFINE file == connFile["probe"]
<1>0. /\ CompareStep(c) /\ cat \in [Comparer -> ComparePCs] /\ cat[c] = "load_probe"
      /\ payload \in [Comparer -> Payload] /\ payload[c] \in Payload
      /\ UNCHANGED <<other, json, earlier>> /\ file \in Proc \cup NoFile
  BY DEF CompareStep, CompareTypeInv, LoadConn, Load, CompareGoto, ReaderInv, RunInv,
     OpsTypeInv, OpsTypeOK, ConnTypeOK, PatchOps
<1> HIDE DEF file
<1>1. CASE Malformed(file)
  BY <1>0, <1>1, StopCompares DEF LoadConn, Load, CompareGoto, file
<1>2. CASE ~Malformed(file)
  <2>0. ComparisonStatus \in {"differences_expected", "incompatible_runs"}
    BY DEF ComparisonStatus
  <2>1. /\ cat' = [cat EXCEPT ![c] = "open_json"]
        /\ payload' = [payload EXCEPT ![c] =
              [[payload[c] EXCEPT !.conn["probe"] = file] EXCEPT !.status = ComparisonStatus]]
    BY <1>2 DEF LoadConn, Load, CompareGoto, file
  <2>2. /\ payload'[c].conn = [payload[c].conn EXCEPT !["probe"] = file]
        /\ payload'[c].present = payload[c].present
        /\ payload'[c].meta = payload[c].meta /\ payload'[c].metrics = payload[c].metrics
        /\ payload'[c].events = payload[c].events
        /\ payload'[c].status = ComparisonStatus /\ payload'[c] \in Payload
    BY <1>0, <2>0, <2>1 DEF Payload, PatchOps
  <2>3. payload' \in [Comparer -> Payload] /\ cat' \in [Comparer -> ComparePCs]
        /\ cat'[c] = "open_json"
    <3>1. payload' = [payload EXCEPT ![c] = payload'[c]]
      BY <1>0, <2>1
    <3> QED BY <1>0, <2>1, <2>2, <3>1 DEF ComparePCs, WritingPCs
  <2>4. CompareTypeInv' /\ JsonFits'
    BY <1>0, <2>3 DEF CompareTypeInv, JsonFits, Readable
  <2>5. FilesSeen(c)'
    BY <1>0, <2>2, <2>3, RunStill DEF Compares, FilesSeen, MetaPCs
  <2>6. /\ MetaLoaded(c)' /\ MetricsLoaded(c)' /\ EventsLoaded(c)' /\ ConnLoaded(c)'
        /\ AloneWrites(c)'
    BY <2>3 DEF MetaLoaded, MetricsLoaded, EventsLoaded, ConnLoaded, AloneWrites, MetaPCs,
       MetricsPCs, EventsPCs
  <2>7. OldRunSeen(c)'
    BY <2>0, <2>2, <2>3 DEF OldRunSeen
  <2>8. /\ Readable(metrics) /\ payload[c].metrics = metrics
        /\ CopyTrue(payload[c].meta) /\ EventsLoaded(c)
    BY <1>0 DEF Compares, MetaLoaded, MetricsLoaded, MetaPCs, MetricsPCs
  <2>9. PICK r \in Proc : Execution(r)
    BY <2>8 DEF ReaderInv, WriterInv, MetricsTold
  <2>10. /\ metrics = MetricsOf(r) /\ op[r] = RunMode /\ op[r] \in {"backtest", "paper"}
         /\ metrics \in MetricsContent /\ metrics \notin {Absent, Empty}
    BY <2>8, <2>9, ModeOfExecution DEF Execution, MetricsOf, MetricsContent, Readable, NoFile
  <2>11. Fits(payload'[c])
    <3>1. \A o \in PatchOps :
             o \in payload'[c].present \/ PatchEntryName(o) \in payload'[c].events =>
                payload'[c].conn[o] # Absent
      <4>1. payload'[c].conn["probe"] = file
            /\ payload'[c].conn["readiness"] = payload[c].conn["readiness"]
        BY <1>0, <2>2 DEF Payload, PatchOps
      <4>2. "probe" \in payload[c].present \/ PatchEntryName("probe") \in payload[c].events =>
               file # Absent
        BY <1>0, ConnFiles DEF EventsPCs, PatchOps, file
      <4>3. "readiness" \in payload[c].present
            \/ PatchEntryName("readiness") \in payload[c].events =>
               payload[c].conn["readiness"] # Absent
        BY <1>0 DEF Compares, ConnLoaded
      <4> QED BY <2>2, <4>1, <4>2, <4>3 DEF PatchOps, PatchEntryName
    <3>2. /\ payload[c].meta.status \in {"running", "completed", "safety_blocked"}
          /\ payload[c].meta.status # "running" =>
                (payload[c].meta.status = "safety_blocked" <=> payload[c].metrics = "blocked")
          /\ payload[c].meta.outcome = "blocked_kill_switch" => payload[c].metrics = "blocked"
          /\ payload[c].meta.outcome = "checked_continue" => payload[c].metrics # "blocked"
      <4>1. payload[c].meta \in MetaContent
        BY <1>0 DEF Compares, MetaLoaded, MetaPCs
      <4>2. payload[c].meta.status \in RunStatuses
        BY <4>1 DEF MetaContent
      <4> QED BY <2>8, <2>10, <4>2 DEF CopyTrue, RunStatuses
    <3>3. /\ metrics = "smoke" => "backtest_completed" \in payload[c].events
          /\ metrics = "placeholder" =>
                {"paper_heartbeat", "paper_completed"} \subseteq payload[c].events
          /\ metrics = "blocked" =>
                "paper_safety_blocked" \in payload[c].events /\ "paper_started" \notin payload[c].events
      BY <1>0, <2>8 DEF EventsLoaded, EventsPCs
    <3>4. PaperSafety(payload'[c]).outcome \in {payload[c].meta.outcome, "none"}
      BY <2>2 DEF PaperSafety
    <3> QED BY <2>2, <2>8, <3>1, <3>2, <3>3, <3>4 DEF Fits
  <2>12. Decided(c)'
    <3>1. ASSUME ComparisonStatus = "differences_expected"
          PROVE  /\ other \in Modes \ {Side}
                 /\ metrics = (IF Side = "backtest" THEN "smoke"
                               ELSE IF "paper_started" \in payload[c].events
                                    THEN "placeholder" ELSE "blocked")
      <4>1. RunMode = Side /\ {Side, other} = {"backtest", "paper"}
        BY <3>1 DEF ComparisonStatus, Modes
      <4>2. other \in Modes \ {Side}
        <5>1. "backtest" \in {Side, other} /\ "paper" \in {Side, other}
          BY <4>1
        <5> QED BY <5>1, SideAssumption DEF Modes
      <4>3. CASE Side = "backtest"
        <5>1. op[r] = "backtest"
          BY <2>10, <4>1, <4>3
        <5>2. metrics = "smoke"
          BY <2>10, <5>1 DEF MetricsOf, Blocked
        <5> QED BY <4>2, <4>3, <5>2
      <4>4. CASE Side = "paper"
        <5>1. metrics \in {"blocked", "placeholder"}
          BY <2>10, <4>1, <4>4 DEF MetricsOf
        <5>2. metrics = "placeholder" <=> "paper_started" \in payload[c].events
          BY <1>0, <2>8, <5>1 DEF EventsLoaded, EventsPCs
        <5> QED BY <4>2, <4>4, <5>1, <5>2
      <4> QED BY <4>3, <4>4, SideAssumption
    <3> QED BY <1>0, <2>0, <2>2, <2>3, <2>8, <2>11, <3>1 DEF Decided, LookingPCs, MetaPCs
  <2> QED BY <1>0, <2>4, <2>5, <2>6, <2>7, <2>12, OwnRest DEF Compares
<1> QED BY <1>1, <1>2

\* The two files, one after the other.
LEMMA WriteCompares ==
    ASSUME CompareTypeInv, JsonFits, NEW c \in Comparer, UNCHANGED vars, Compares(c),
           OpenJson(c) \/ FlushJson(c) \/ OpenEvidenceReport(c) \/ FlushEvidenceReport(c)
    PROVE  CompareTypeInv' /\ JsonFits' /\ Compares(c)'
<1>0. /\ CompareStep(c) /\ cat \in [Comparer -> ComparePCs]
      /\ cat[c] \in WritingPCs \ {"done"} /\ cat' \in [Comparer -> ComparePCs]
      /\ cat'[c] \in WritingPCs \ {"open_json"}
      /\ UNCHANGED <<other, payload, earlier>>
  BY DEF CompareStep, CompareTypeInv, OpenJson, FlushJson, OpenEvidenceReport,
     FlushEvidenceReport, CompareGoto, WritingPCs, ComparePCs
<1>1. CompareTypeInv'
  BY <1>0 DEF CompareTypeInv
<1>2. JsonFits'
  <2>1. CASE FlushJson(c)
    <3>1. json' \in {payload[c], Garbled}
      BY <2>1 DEF FlushJson, Flush
    <3>2. payload[c].status # "missing_artifacts" => Fits(payload[c])
      BY <1>0 DEF Compares, Decided
    <3> QED BY <3>1, <3>2 DEF JsonFits, Readable, NoFile
  <2>2. CASE OpenJson(c)
    BY <2>2 DEF OpenJson, JsonFits, Readable, NoFile
  <2>3. CASE OpenEvidenceReport(c) \/ FlushEvidenceReport(c)
    BY <2>3 DEF OpenEvidenceReport, FlushEvidenceReport, JsonFits, Readable
  <2> QED BY <2>1, <2>2, <2>3
<1>3. cat'[c] \notin MetaPCs \cup LookingPCs \cup {"load_metadata"}
  BY <1>0 DEF MetaPCs, LookingPCs, WritingPCs
<1>4. FilesSeen(c)'
  BY <1>0, <1>3, RunStill DEF Compares, FilesSeen, LookingPCs
<1>5. MetaLoaded(c)' /\ MetricsLoaded(c)' /\ EventsLoaded(c)' /\ ConnLoaded(c)'
  BY <1>3 DEF MetaLoaded, MetricsLoaded, EventsLoaded, ConnLoaded, MetaPCs, MetricsPCs, EventsPCs
<1>6. Decided(c)'
  BY <1>0, <1>3 DEF Compares, Decided
<1>7. cat[c] # "idle"
  BY <1>0 DEF WritingPCs
<1>8. OldRunSeen(c)'
  BY <1>0, <1>3, <1>7, OwnRest DEF Compares, OldRunSeen, LookingPCs
<1>9. AloneWrites(c)'
  <2> SUFFICES ASSUME Alone(c)
               PROVE  /\ cat'[c] = "flush_json" => json' = Empty
                      /\ cat'[c] \in {"open_md", "flush_md", "done"} => json' = payload[c]
                      /\ cat'[c] = "flush_md" => md' = Empty
                      /\ cat'[c] = "done" => md' = c
    BY <1>0, <1>7, OwnRest DEF AloneWrites
  <2>1. CASE OpenJson(c)
    BY <1>0, <2>1 DEF OpenJson, CompareGoto
  <2>2. CASE FlushJson(c)
    BY <1>0, <2>2 DEF FlushJson, CompareGoto, Compares, AloneWrites, Flush
  <2>3. CASE OpenEvidenceReport(c)
    BY <1>0, <2>3 DEF OpenEvidenceReport, CompareGoto, Compares, AloneWrites
  <2>4. CASE FlushEvidenceReport(c)
    BY <1>0, <2>4 DEF FlushEvidenceReport, CompareGoto, Compares, AloneWrites, Flush
  <2> QED BY <2>1, <2>2, <2>3, <2>4
<1> QED BY <1>0, <1>1, <1>2, <1>4, <1>5, <1>6, <1>7, <1>8, <1>9, OwnRest DEF Compares

LEMMA ComparisonMoves ==
    ASSUME ReaderInv, EvidenceInv, NEW c \in Comparer, CompareStep(c), UNCHANGED vars
    PROVE  EvidenceInv'
<1>0. CompareTypeInv /\ JsonFits /\ Compares(c)
  BY DEF EvidenceInv
<1>1. CompareTypeInv' /\ JsonFits' /\ Compares(c)'
  <2>1. CASE CrashCompare(c)
    BY <1>0, <2>1, StopCompares DEF CrashCompare
  <2>2. CASE BeginCompare(c) \/ Look(c) \/ Decide(c)
    BY <1>0, <2>2, BeginCompares, LookCompares, DecideCompares
  <2>3. CASE LoadMetadata(c) \/ LoadMetrics(c) \/ LoadJournal(c)
    BY <1>0, <2>3, LoadMetadataCompares, LoadMetricsCompares, LoadJournalCompares
  <2>4. CASE LoadConn(c, "readiness") \/ LoadConn(c, "probe")
    BY <1>0, <2>4, LoadReadinessCompares, LoadProbeCompares
  <2>5. CASE OpenJson(c) \/ FlushJson(c) \/ OpenEvidenceReport(c) \/ FlushEvidenceReport(c)
    BY <1>0, <2>5, WriteCompares
  <2> QED BY <2>1, <2>2, <2>3, <2>4, <2>5 DEF CompareStep, PatchOps
<1>2. \A d \in Comparer \ {c} : Compares(d)'
  BY <1>0, OtherCompares DEF EvidenceInv
<1> QED BY <1>1, <1>2 DEF EvidenceInv

-----------------------------------------------------------------------------
(* The theorems *)

LEMMA EvidenceInvInit == Init /\ CompareInit => ReaderInv /\ EvidenceInv
<1> SUFFICES ASSUME Init, CompareInit PROVE EvidenceInv
  BY ReaderInvInit
<1>1. CompareTypeInv
  <2>1. InitialMetadata \in MetaContent
    BY DEF InitialMetadata, MetaContent, RunStatuses, Outcomes
  <2>2. \A c \in Comparer : EmptyPayload(c) \in Payload
    BY <2>1 DEF EmptyPayload, Payload, NoFile
  <2> QED BY <2>2 DEF CompareInit, CompareTypeInv, ComparePCs, LookingPCs
<1>2. JsonFits
  BY DEF CompareInit, JsonFits, Readable, NoFile
<1>3. ASSUME NEW c \in Comparer PROVE Compares(c)
  <2>1. /\ cat[c] = "idle" /\ payload[c] = EmptyPayload(c) /\ earlier[c] = {}
        /\ payload[c].present = {} /\ payload[c].status = "missing_artifacts"
    BY DEF CompareInit, EmptyPayload
  <2> QED BY <2>1 DEF Compares, FilesSeen, MetaLoaded, MetricsLoaded, EventsLoaded, ConnLoaded,
       Decided, OldRunSeen, OldRun, AloneWrites, Alone, MetaPCs, MetricsPCs, EventsPCs, WritingPCs
<1> QED BY <1>1, <1>2, <1>3 DEF EvidenceInv

LEMMA EvidenceInvNext ==
    ReaderInv /\ EvidenceInv /\ [EvidenceNext]_allVars => ReaderInv' /\ EvidenceInv'
<1> SUFFICES ASSUME ReaderInv, EvidenceInv, [EvidenceNext]_allVars
             PROVE  ReaderInv' /\ EvidenceInv'
  OBVIOUS
<1>1. ReaderInv'
  BY ReaderInvNext DEF EvidenceNext, allVars
<1>2. CASE Next /\ UNCHANGED evidenceVars
  <2>1. PICK p \in Proc : Moves(p)
    BY <1>2, NextCases DEF Moves
  <2> QED BY <1>1, <1>2, <2>1, CommandMoves
<1>3. CASE (\E c \in Comparer : CompareStep(c)) /\ UNCHANGED vars
  BY <1>1, <1>3, ComparisonMoves
<1>4. CASE UNCHANGED allVars
  <2>1. UNCHANGED vars /\ UNCHANGED evidenceVars
    BY <1>4 DEF allVars
  <2>2. CompareTypeInv' /\ JsonFits'
    BY <2>1 DEF EvidenceInv, CompareTypeInv, JsonFits, evidenceVars, Readable
  <2>3. ASSUME NEW c \in Comparer PROVE Compares(c)'
    <3>0. /\ Compares(c) /\ other' = other /\ cat' = cat /\ payload' = payload /\ json' = json
          /\ md' = md /\ earlier' = earlier
      BY <2>1 DEF EvidenceInv, evidenceVars
    <3>1. FilesSeen(c)' /\ MetaLoaded(c)'
      BY <2>1, <3>0, RunStill DEF Compares, FilesSeen, MetaLoaded, CopyTrue, Blocked
    <3>2. MetricsLoaded(c)' /\ EventsLoaded(c)' /\ ConnLoaded(c)' /\ Decided(c)'
      BY <2>1, <3>0, RunStill DEF Compares, MetricsLoaded, EventsLoaded, ConnLoaded, Decided, Readable
    <3>3. OldRunSeen(c)' /\ AloneWrites(c)'
      BY <2>1, <3>0, RunStill DEF Compares, OldRunSeen, OldRun, AloneWrites, Alone
    <3>4. /\ \A d \in earlier'[c] \cap Comparer : CompareEnded(d)'
          /\ \A q \in earlier'[c] \cap Proc : Ended(q)'
      BY <2>1, <3>0, RunStill DEF Compares, CompareEnded
    <3> QED BY <3>1, <3>2, <3>3, <3>4 DEF Compares
  <2> QED BY <1>1, <2>2, <2>3 DEF EvidenceInv
<1> QED BY <1>2, <1>3, <1>4 DEF EvidenceNext

LEMMA EvidenceInvAlways == EvidenceSpec => [](ReaderInv /\ EvidenceInv)
  BY EvidenceInvInit, EvidenceInvNext, PTL DEF EvidenceSpec

\* What a comparison writes fits together, although it read every file of the live run at
\* another moment: metrics, journal names and status tell of one execution that is over,
\* and what is listed or logged of connectivity has its state; for any number of commands
\* and comparisons, on either side of the pair, crashing anywhere.
THEOREM EvidenceAlwaysFits == EvidenceSpec => []EvidenceFits
<1>1. EvidenceInv => EvidenceFits
  BY DEF EvidenceInv, JsonFits, Fits, EvidenceFits, Compared
<1> QED BY <1>1, EvidenceInvAlways, PTL

\* A run that had ended well before the comparison began is not called missing, and a pair
\* is called expected only if it is a backtest and a paper run, each on its own side.
THEOREM MissingMeansMissing == EvidenceSpec => []MissingOnlyIfMissing
<1>1. EvidenceInv => MissingOnlyIfMissing
  BY DEF EvidenceInv, Compares, Decided, OldRunSeen, OldRun, WritingPCs, MissingOnlyIfMissing
<1> QED BY <1>1, EvidenceInvAlways, PTL

\* The last comparison of a pair, if it ran alone, leaves its JSON and its markdown whole,
\* whatever the ones before it left behind.
THEOREM LastPairAgrees == EvidenceSpec => []PairAgrees
<1>1. EvidenceInv => PairAgrees
  BY DEF EvidenceInv, Compares, AloneWrites, Alone, PairAgrees, LastToCompare
<1> QED BY <1>1, EvidenceInvAlways, PTL
=============================================================================
