----------------------------- MODULE DrillProofs ----------------------------
(***************************************************************************)
(* The commands that share reconciliation_result.json, drills/ and the     *)
(* journal of a run, for every number of invocations, every set of         *)
(* scenarios and every time of the checks after the fixtures' own.         *)
(***************************************************************************)
EXTENDS DrillScrape, ReconciliationLemmas

-----------------------------------------------------------------------------
(* The verdicts of the fixture drills *)

LEMMA ChecksOf ==
    ASSUME NEW e, NEW o, NEW now
    PROVE  CheckSeverities(Checks(e, o, now)) =
             {ComparePosition(e.position, o.position),
              CompareOpenOrders(e.orders, o.orders),
              CompareFreshness(e.freshness, o.freshness, now)}
<1> DEFINE c == Checks(e, o, now)
<1>1. DOMAIN c = {"position", "open_orders", "freshness"}
  BY DEF Checks
<1>2. /\ c["position"] = ComparePosition(e.position, o.position)
      /\ c["open_orders"] = CompareOpenOrders(e.orders, o.orders)
      /\ c["freshness"] = CompareFreshness(e.freshness, o.freshness, now)
  BY DEF Checks
<1> HIDE DEF c
<1>3. CheckSeverities(c) = {c["position"], c["open_orders"], c["freshness"]}
  BY <1>1 DEF CheckSeverities
<1> QED
  BY <1>2, <1>3 DEF c

\* Data of 2020 is stale by any clock of the program's time, and nothing else is
\* wrong with it.
LEMMA StaleVerdict == Status(Checks(Match, StaleObserved, Now)) = "warning"
<1> DEFINE e == Match  o == StaleObserved
<1>1. ComparePosition(e.position, o.position) = "ok"
  <2>1. /\ e.position = o.position
        /\ e.position.side = "flat" /\ e.position.qty = Zero /\ e.position.avg = Null
    BY DEF Match, StaleObserved, Payload
  <2>2. Zero.coef = 0
    BY DEF Zero
  <2>3. PositionNormalizes(e.position)
    BY <2>1, <2>2, FixtureAssumption DEF PositionNormalizes
  <2> QED
    BY <2>1, <2>3 DEF ComparePosition
<1>2. CompareOpenOrders(e.orders, o.orders) = "ok"
  <2>1. e.orders = <<>> /\ o.orders = <<>>
    BY DEF Match, StaleObserved, Payload
  <2> QED
    BY <2>1 DEF CompareOpenOrders, OrdersCanonicalize, SameIds
<1>3. CompareFreshness(e.freshness, o.freshness, Now) = "warning"
  <2>1. o.freshness = FreshAt(0, 60)
    BY DEF StaleObserved, Payload
  <2>2. /\ FreshAt(0, 60).position = 0 /\ FreshAt(0, 60).orders = 0
        /\ FreshAt(0, 60).maxAge = 60
    BY DEF FreshAt
  <2>3. /\ FreshAt(0, 60) # Null /\ 60 # Null /\ 0 \notin {Null, Bad}
    BY FixtureAssumption
  <2>4. ResolveMaxAge(e.freshness, FreshAt(0, 60)) = 60
    BY <2>2, <2>3 DEF ResolveMaxAge
  <2>5. Stale(0, Now, 60)
    <3>1. Now \in Int /\ Now >= 61 * TicksPerSecond /\ TicksPerSecond \in Nat
      BY FixtureAssumption, TickAssumption
    <3>2. Stale(0, Now, 60) <=> Now - 0 >= (60 + 1) * TicksPerSecond
      BY <3>1, AgeBeyondLimit
    <3> QED
      BY <3>1, <3>2
  <2> QED
    BY <2>1, <2>2, <2>3, <2>4, <2>5 DEF CompareFreshness
<1>4. CheckSeverities(Checks(e, o, Now)) = {"ok", "warning"}
  BY <1>1, <1>2, <1>3, ChecksOf
<1>5. /\ Rollup({"ok", "warning"}) \in {"ok", "warning"}
      /\ Precedence("warning") <= Precedence(Rollup({"ok", "warning"}))
  BY RollupIsWorst DEF SeveritySet
<1>6. Rollup({"ok", "warning"}) = "warning"
  BY <1>5, PrecedenceValues
<1> QED
  BY <1>4, <1>6 DEF Status

\* A position that is open on one side only is a mismatch, whatever the clock says.
LEMMA LongVerdict == Status(Checks(Match, LongObserved, Now)) = "mismatch"
<1> DEFINE e == Match  o == LongObserved
<1>1. ComparePosition(e.position, o.position) = "mismatch"
  <2>1. /\ e.position.side = "flat" /\ e.position.qty = Zero /\ e.position.avg = Null
        /\ o.position.side = "long"
    BY DEF Match, LongObserved, Payload
  <2>2. Zero.coef = 0
    BY DEF Zero
  <2>3. PositionNormalizes(e.position)
    BY <2>1, <2>2, FixtureAssumption DEF PositionNormalizes
  <2>4. PositionNormalizes(o.position)
    BY <2>1, FixtureAssumption DEF PositionNormalizes
  <2> QED
    BY <2>1, <2>3, <2>4 DEF ComparePosition
<1>2. "mismatch" \in CheckSeverities(Checks(e, o, Now))
  BY <1>1, ChecksOf
<1> QED
  BY <1>2, SeveritiesOfChecks, ExitCodeMatchesPass DEF Status

LEMMA VerdictOfCheck ==
    ASSUME NEW e, NEW o, NEW now
    PROVE  Status(Checks(e, o, now)) \in SeveritySet
BY SeveritiesOfChecks, RollupIsWorst DEF Status

-----------------------------------------------------------------------------
(* Where a command is, and what it has in memory there *)

SeePCs == {"see_metadata", "see_run_spec", "see_journal", "see_metrics"}
ResultPCs == {"compare", "open_result", "flush_result", "journal_result"}
DrillPCs == {"open_drill", "flush_drill", "journal_drill"}
PCs == {"idle"} \cup SeePCs \cup ResultPCs \cup DrillPCs \cup EndPCs

Line ==
    [event : {"reconciliation_checked"}, by : Proc, status : SeveritySet]
    \cup [event : {"failure_drill_executed"}, by : Proc, status : Drills]

CommandTypeOK ==
    /\ artifacts \subseteq ToSet(Artifacts)
    /\ pc \in [Proc -> PCs]
    /\ op \in [Proc -> ReconcileOps \cup {"none"}]
    /\ verdict \in [Proc -> SeveritySet \cup {"none"}]
    /\ found \in [Proc -> SUBSET ToSet(Artifacts)]
    /\ before \in [Proc -> SUBSET Proc]
    /\ DOMAIN drillFiles = Drills
    /\ lines \in Seq(Line)

\* The verdict is in memory, and it is final.
Judged(p) ==
    \/ pc[p] \in ResultPCs \ {"compare"}
    \/ pc[p] \in DrillPCs /\ op[p] \in FixtureDrills

Place(p) ==
    /\ pc[p] = "idle" <=> op[p] = "none"
    /\ pc[p] \in ResultPCs => op[p] \in {"check"} \cup FixtureDrills
    /\ pc[p] \in SeePCs => op[p] = "restart_recovery"
    /\ pc[p] \in DrillPCs => op[p] \in Drills
    /\ Judged(p) => verdict[p] \in SeveritySet
    /\ Judged(p) /\ op[p] \in FixtureDrills => verdict[p] = ExpectedStatus(op[p])

BeforeInv == \A p \in Proc : \A q \in before[p] : Ended(q)

CommandInv == CommandTypeOK /\ (\A p \in Proc : Place(p)) /\ BeforeInv

LEMMA CommandInit == ReconcileInit => CommandInv
<1> SUFFICES ASSUME ReconcileInit PROVE CommandInv
  OBVIOUS
<1>1. lines \in Seq(Line)
  BY DEF ReconcileInit
<1>2. CommandTypeOK
  BY <1>1 DEF ReconcileInit, CommandTypeOK, PCs
<1>3. (\A p \in Proc : Place(p)) /\ BeforeInv
  BY DEF ReconcileInit, Place, BeforeInv, Judged, ResultPCs, SeePCs, DrillPCs
<1> QED
  BY <1>2, <1>3 DEF CommandInv

\* What a fixture drill compares gives the status that it expects.
LEMMA CompareVerdict ==
    ASSUME CommandInv, NEW p \in Proc, Compare(p)
    PROVE  \E v \in SeveritySet : /\ verdict' = [verdict EXCEPT ![p] = v]
                                  /\ op[p] \in FixtureDrills => v = ExpectedStatus(op[p])
<1>1. PICK observed \in Observed(op[p]) :
         verdict' = [verdict EXCEPT ![p] = Status(Checks(Match, observed, Now))]
  BY DEF Compare
<1> DEFINE v == Status(Checks(Match, observed, Now))
<1>2. v \in SeveritySet
  BY VerdictOfCheck
<1>3. op[p] = "stale_market_data" => v = "warning"
  BY <1>1, StaleVerdict DEF Observed
<1>4. op[p] = "reconciliation_mismatch" => v = "mismatch"
  BY <1>1, LongVerdict DEF Observed
<1> WITNESS v \in SeveritySet
<1> QED
  BY <1>1, <1>3, <1>4 DEF ExpectedStatus, FixtureDrills

\* A command that goes on leaves the others where they are.
LEMMA OthersPlace ==
    ASSUME CommandInv, NEW p \in Proc, ~Ended(p), NEW x \in PCs,
           pc' = [pc EXCEPT ![p] = x], UNCHANGED <<op, before>>,
           \A q \in Proc \ {p} : verdict'[q] = verdict[q],
           Place(p)'
    PROVE  (\A q \in Proc : Place(q)') /\ BeforeInv'
<1>1. \A q \in Proc \ {p} : pc'[q] = pc[q]
  BY DEF CommandInv, CommandTypeOK
<1>2. \A q \in Proc : Ended(q) => Ended(q)'
  BY <1>1 DEF Ended
<1>3. BeforeInv'
  BY <1>2 DEF BeforeInv, CommandInv, CommandTypeOK
<1>4. ASSUME NEW q \in Proc \ {p} PROVE Place(q)'
  BY <1>1, <1>4 DEF CommandInv, Place, Judged
<1> QED
  BY <1>3, <1>4

LEMMA CommandBegins ==
    ASSUME CommandInv, NEW p \in Proc, NEW o \in ReconcileOps, BeginReconcile(p, o)
    PROVE  CommandInv'
<1> USE DEF BeginReconcile, Goto
<1> DEFINE x == IF "run_dir" \notin artifacts THEN "failed"
                ELSE IF o = "restart_recovery" THEN "see_metadata" ELSE "compare"
<1>1. x \in PCs \ {"idle"} /\ pc' = [pc EXCEPT ![p] = x] /\ pc[p] = "idle"
  BY DEF PCs, SeePCs, ResultPCs, EndPCs
<1>2. CommandTypeOK'
  BY <1>1 DEF CommandInv, CommandTypeOK
<1>3. pc'[p] = x /\ op'[p] = o /\ before'[p] = {q \in Proc : Ended(q)}
  BY <1>1 DEF CommandInv, CommandTypeOK
<1>4. \A q \in Proc \ {p} : pc'[q] = pc[q] /\ op'[q] = op[q] /\ before'[q] = before[q]
  BY <1>1 DEF CommandInv, CommandTypeOK
<1>5. Place(p)'
  BY <1>3 DEF Place, Judged, ResultPCs, SeePCs, DrillPCs, ReconcileOps, Drills, FixtureDrills
<1>6. ASSUME NEW q \in Proc \ {p} PROVE Place(q)'
  BY <1>4, <1>6 DEF CommandInv, Place, Judged
<1>7. \A q \in Proc : Ended(q) => Ended(q)'
  BY <1>1, <1>4 DEF Ended, EndPCs
<1>8. BeforeInv'
  BY <1>3, <1>4, <1>7 DEF CommandInv, BeforeInv, CommandTypeOK
<1> QED
  BY <1>2, <1>5, <1>6, <1>8 DEF CommandInv

LEMMA AppendLine ==
    ASSUME lines \in Seq(Line), NEW l \in Line, lines' = lines \/ lines' = Append(lines, l)
    PROVE  lines' \in Seq(Line)
OBVIOUS

\* A step to an end keeps what is in memory.
LEMMA CommandEnds ==
    ASSUME CommandInv, NEW p \in Proc, ~Ended(p), pc[p] # "idle", NEW x \in EndPCs,
           pc' = [pc EXCEPT ![p] = x], UNCHANGED <<op, verdict, before>>
    PROVE  (\A q \in Proc : Place(q)') /\ BeforeInv'
<1>1. pc'[p] = x /\ x \in PCs
  BY DEF CommandInv, CommandTypeOK, PCs
<1>2. Place(p)'
  BY <1>1 DEF CommandInv, Place, Judged, EndPCs, ResultPCs, SeePCs, DrillPCs
<1> QED
  BY <1>1, <1>2, OthersPlace

LEMMA StepCommand == CommandInv /\ [ReconcileNext]_vars => CommandInv'
<1> SUFFICES ASSUME CommandInv, [ReconcileNext]_vars PROVE CommandInv'
  OBVIOUS
<1> USE DEF Goto, PCs, EndPCs, ResultPCs, SeePCs, DrillPCs
<1>1. CASE UNCHANGED vars
  BY <1>1 DEF vars, CommandInv, CommandTypeOK, Place, BeforeInv, Judged, Ended
<1>2. CASE LifecycleCreates
  <2>1. artifacts' \subseteq ToSet(Artifacts)
    BY <1>2 DEF LifecycleCreates, CommandInv, CommandTypeOK, ToSet
  <2>2. UNCHANGED <<lines, resultFile, drillFiles, pc, op, verdict, found, before>>
    BY <1>2 DEF LifecycleCreates
  <2> QED
    BY <2>1, <2>2 DEF CommandInv, CommandTypeOK, Place, BeforeInv, Judged, Ended
<1>3. ASSUME NEW p \in Proc, ReconcileStep(p) PROVE CommandInv'
  <2>1. CASE \E o \in ReconcileOps : BeginReconcile(p, o)
    BY <2>1, CommandBegins
  <2>2. CASE InvalidInputs(p)
    <3>1. ~Ended(p) /\ pc[p] # "idle" /\ CommandTypeOK'
      BY <2>2 DEF InvalidInputs, CommandInv, CommandTypeOK, Ended
    <3> QED
      BY <2>2, <3>1, CommandEnds DEF InvalidInputs, CommandInv
  <2>3. CASE Compare(p)
    <3>1. PICK v \in SeveritySet :
             /\ verdict' = [verdict EXCEPT ![p] = v]
             /\ op[p] \in FixtureDrills => v = ExpectedStatus(op[p])
      BY <2>3, CompareVerdict
    <3>2. /\ pc[p] = "compare" /\ pc' = [pc EXCEPT ![p] = "open_result"]
          /\ UNCHANGED <<artifacts, lines, resultFile, drillFiles, op, found, before>>
      BY <2>3 DEF Compare
    <3>3. verdict' \in [Proc -> SeveritySet \cup {"none"}] /\ verdict'[p] = v
      BY <3>1 DEF CommandInv, CommandTypeOK
    <3>4. \A q \in Proc \ {p} : verdict'[q] = verdict[q]
      BY <3>1 DEF CommandInv, CommandTypeOK
    <3>5. ~Ended(p) /\ CommandTypeOK'
      BY <3>2, <3>3 DEF CommandInv, CommandTypeOK, Ended
    <3>6. pc'[p] = "open_result" /\ op'[p] = op[p]
      BY <3>2 DEF CommandInv, CommandTypeOK
    <3>7. Place(p)'
      BY <3>1, <3>2, <3>3, <3>6 DEF CommandInv, Place, Judged, ExpectedStatus
    <3> QED
      BY <3>2, <3>4, <3>5, <3>7, OthersPlace DEF CommandInv
  <2>4. CASE OpenResult(p)
    <3>1. ~Ended(p) /\ CommandTypeOK'
      BY <2>4 DEF OpenResult, CommandInv, CommandTypeOK, Ended
    <3>2. Place(p)'
      BY <2>4 DEF OpenResult, CommandInv, CommandTypeOK, Place, Judged
    <3> QED
      BY <2>4, <3>1, <3>2, OthersPlace DEF OpenResult, CommandInv
  <2>5. CASE FlushResult(p)
    <3>1. ~Ended(p) /\ CommandTypeOK'
      BY <2>5 DEF FlushResult, CommandInv, CommandTypeOK, Ended
    <3>2. Place(p)'
      BY <2>5 DEF FlushResult, CommandInv, CommandTypeOK, Place, Judged
    <3> QED
      BY <2>5, <3>1, <3>2, OthersPlace DEF FlushResult, CommandInv
  <2>6. CASE JournalResult(p)
    <3> DEFINE l == [event |-> "reconciliation_checked", by |-> p, status |-> verdict[p]]
    <3>1. l \in Line
      BY <2>6 DEF JournalResult, CommandInv, Place, Judged, Line
    <3>2. lines' \in Seq(Line)
      BY <2>6, <3>1, AppendLine DEF JournalResult, CommandInv, CommandTypeOK
    <3>3. ~Ended(p) /\ CommandTypeOK'
      BY <2>6, <3>2 DEF JournalResult, CommandInv, CommandTypeOK, Ended
    <3>4. Place(p)'
      BY <2>6 DEF JournalResult, CommandInv, CommandTypeOK, Place, Judged
    <3> QED
      BY <2>6, <3>3, <3>4, OthersPlace DEF JournalResult, CommandInv
  <2>7. CASE See(p)
    <3>1. PICK i \in DOMAIN SeeOrder :
             /\ pc[p] = SeePC[i] /\ pc' = [pc EXCEPT ![p] = SeePC[i+1]]
             /\ found' = [found EXCEPT ![p] = @ \cup ({SeeOrder[i]} \cap artifacts)]
      BY <2>7 DEF See
    <3>2. i \in 1..4
      BY DEF SeeOrder
    <3>3. pc[p] \in SeePCs /\ SeePC[i+1] \in SeePCs \cup {"open_drill"}
      BY <3>1, <3>2 DEF SeePC
    <3>4. found' \in [Proc -> SUBSET ToSet(Artifacts)]
      BY <3>1 DEF CommandInv, CommandTypeOK
    <3>5. ~Ended(p) /\ CommandTypeOK'
      BY <2>7, <3>1, <3>3, <3>4 DEF See, CommandInv, CommandTypeOK, Ended
    <3>6. op[p] = "restart_recovery" /\ pc'[p] \in SeePCs \cup {"open_drill"} /\ op' = op
      BY <2>7, <3>1, <3>3 DEF See, CommandInv, CommandTypeOK, Place
    <3>7. Place(p)'
      BY <3>6 DEF Place, Judged, FixtureDrills, Drills
    <3> QED
      BY <2>7, <3>1, <3>3, <3>5, <3>7, OthersPlace DEF See, CommandInv
  <2>8. CASE OpenDrill(p)
    <3>1. ~Ended(p) /\ CommandTypeOK'
      BY <2>8 DEF OpenDrill, CommandInv, CommandTypeOK, Ended
    <3>2. Place(p)'
      BY <2>8 DEF OpenDrill, CommandInv, CommandTypeOK, Place, Judged
    <3> QED
      BY <2>8, <3>1, <3>2, OthersPlace DEF OpenDrill, CommandInv
  <2>9. CASE FlushDrill(p)
    <3>1. ~Ended(p) /\ CommandTypeOK'
      BY <2>9 DEF FlushDrill, CommandInv, CommandTypeOK, Ended
    <3>2. Place(p)'
      BY <2>9 DEF FlushDrill, CommandInv, CommandTypeOK, Place, Judged
    <3> QED
      BY <2>9, <3>1, <3>2, OthersPlace DEF FlushDrill, CommandInv
  <2>10. CASE JournalDrill(p)
    <3> DEFINE l == [event |-> "failure_drill_executed", by |-> p, status |-> op[p]]
    <3>1. l \in Line
      BY <2>10 DEF JournalDrill, CommandInv, Place, Line
    <3>2. lines' \in Seq(Line)
      BY <2>10, <3>1, AppendLine DEF JournalDrill, CommandInv, CommandTypeOK
    <3>3. ~Ended(p) /\ pc[p] # "idle" /\ CommandTypeOK'
      BY <2>10, <3>2 DEF JournalDrill, CommandInv, CommandTypeOK, Ended
    <3> QED
      BY <2>10, <3>3, CommandEnds DEF JournalDrill, CommandInv
  <2>11. CASE CrashReconcile(p)
    <3>1. ~Ended(p) /\ pc[p] # "idle" /\ CommandTypeOK'
      BY <2>11 DEF CrashReconcile, Started, CommandInv, CommandTypeOK
    <3> QED
      BY <2>11, <3>1, CommandEnds DEF CrashReconcile, CommandInv
  <2> QED
    BY <1>3, <2>1, <2>2, <2>3, <2>4, <2>5, <2>6, <2>7, <2>8, <2>9, <2>10, <2>11
    DEF ReconcileStep
<1> QED
  BY <1>1, <1>2, <1>3 DEF ReconcileNext

-----------------------------------------------------------------------------
(* The pass flags of the drill reports *)

\* The files of the commands: what was opened exists from then on, and a fixture
\* drill's report that can be read says that it passed.
FileInv ==
    /\ \A p \in Proc :
          /\ \/ pc[p] \in {"flush_result", "journal_result"}
             \/ pc[p] \in DrillPCs /\ op[p] \in FixtureDrills
             => resultFile # Absent
          /\ pc[p] \in {"flush_drill", "journal_drill"} => drillFiles[op[p]] # Absent
    /\ DrillsPass

LEMMA ResultIsText ==
    ASSUME CommandInv, NEW p \in Proc, Judged(p)
    PROVE  ResultOf(p) # Absent
<1>1. ToSet(Severities) = SeveritySet
  BY DEF ToSet, Severities, SeveritySet
<1>2. ResultOf(p) \in Results
  BY <1>1 DEF CommandInv, Place, ResultOf, Results
<1> QED
  BY <1>2, TextAssumption

LEMMA ReportIsText ==
    ASSUME CommandInv, NEW p \in Proc
    PROVE  DrillReport(p) # Absent
<1>1. DrillReport(p) \in Reports
  BY DEF CommandInv, CommandTypeOK, DrillReport, Reports, DrillPass
<1> QED
  BY <1>1, TextAssumption

\* A file that is there stays there.
LEMMA FilesStay ==
    ASSUME CommandInv, [ReconcileNext]_vars
    PROVE  /\ resultFile # Absent => resultFile' # Absent
           /\ \A d \in Drills : drillFiles[d] # Absent => drillFiles'[d] # Absent
<1>0. Empty # Absent /\ Garbled # Absent
  BY TextAssumption
<1>1. CASE UNCHANGED <<resultFile, drillFiles>>
  BY <1>1
<1>2. ASSUME NEW p \in Proc, OpenResult(p)
      PROVE  resultFile' # Absent /\ drillFiles' = drillFiles
  BY <1>0, <1>2 DEF OpenResult
<1>3. ASSUME NEW p \in Proc, FlushResult(p)
      PROVE  resultFile' # Absent /\ drillFiles' = drillFiles
  <2>1. Judged(p)
    BY <1>3 DEF FlushResult, Goto, Judged, ResultPCs
  <2>2. ResultOf(p) # Absent
    BY <2>1, ResultIsText
  <2> QED
    BY <1>0, <1>3, <2>2 DEF FlushResult, Flush
<1>4. ASSUME NEW p \in Proc, OpenDrill(p)
      PROVE  \A d \in Drills : drillFiles[d] # Absent => drillFiles'[d] # Absent
  BY <1>0, <1>4 DEF OpenDrill, CommandInv, CommandTypeOK
<1>5. ASSUME NEW p \in Proc, FlushDrill(p)
      PROVE  \A d \in Drills : drillFiles[d] # Absent => drillFiles'[d] # Absent
  <2>1. PICK f \in Flush(drillFiles[op[p]], DrillReport(p)) :
           drillFiles' = [drillFiles EXCEPT ![op[p]] = f]
    BY <1>5 DEF FlushDrill
  <2>2. f # Absent
    BY <1>0, ReportIsText DEF Flush
  <2> QED
    BY <2>1, <2>2 DEF CommandInv, CommandTypeOK
<1> QED
  BY <1>1, <1>2, <1>3, <1>4, <1>5
  DEF ReconcileNext, ReconcileStep, LifecycleCreates, BeginReconcile, InvalidInputs, Compare,
      JournalResult, See, OpenDrill, FlushDrill, JournalDrill, CrashReconcile, vars

\* A step is one command's, which has not ended, or moves no command.
LEMMA OneMoves ==
    ASSUME CommandInv, [ReconcileNext]_vars
    PROVE  \/ UNCHANGED <<pc, op, verdict, before, lines, resultFile>>
           \/ \E p \in Proc :
                /\ ReconcileStep(p) /\ ~Ended(p)
                /\ \A q \in Proc \ {p} :
                      /\ pc'[q] = pc[q] /\ op'[q] = op[q] /\ verdict'[q] = verdict[q]
                      /\ before'[q] = before[q]
<1>1. CASE UNCHANGED vars \/ LifecycleCreates
  BY <1>1 DEF vars, LifecycleCreates
<1>2. ASSUME NEW p \in Proc, ReconcileStep(p)
      PROVE  /\ ~Ended(p)
             /\ \A q \in Proc \ {p} :
                   /\ pc'[q] = pc[q] /\ op'[q] = op[q] /\ verdict'[q] = verdict[q]
                   /\ before'[q] = before[q]
  <2> USE DEF Goto, Ended, EndPCs, CommandInv, CommandTypeOK
  <2>1. CASE \E o \in ReconcileOps : BeginReconcile(p, o)
    BY <2>1 DEF BeginReconcile
  <2>2. CASE InvalidInputs(p)
    BY <2>2 DEF InvalidInputs
  <2>3. CASE Compare(p)
    <3>1. PICK v : verdict' = [verdict EXCEPT ![p] = v]
      BY <2>3 DEF Compare
    <3>2. /\ pc[p] = "compare" /\ pc' = [pc EXCEPT ![p] = "open_result"]
          /\ UNCHANGED <<op, before>>
      BY <2>3 DEF Compare
    <3> QED
      BY <3>1, <3>2
  <2>4. CASE OpenResult(p) \/ FlushResult(p) \/ JournalResult(p)
    BY <2>4 DEF OpenResult, FlushResult, JournalResult
  <2>5. CASE See(p)
    BY <2>5 DEF See, SeePC, SeeOrder
  <2>6. CASE OpenDrill(p) \/ FlushDrill(p) \/ JournalDrill(p)
    BY <2>6 DEF OpenDrill, FlushDrill, JournalDrill
  <2>7. CASE CrashReconcile(p)
    BY <2>7 DEF CrashReconcile
  <2> QED
    BY <1>2, <2>1, <2>2, <2>3, <2>4, <2>5, <2>6, <2>7 DEF ReconcileStep
<1> QED
  BY <1>1, <1>2 DEF ReconcileNext

\* What a step leaves in drills/ is unreadable, as before, or the report of a
\* command that has judged.
LEMMA StepReports ==
    ASSUME CommandInv, DrillsPass, [ReconcileNext]_vars
    PROVE  DrillsPass'
<1>1. ASSUME NEW p \in Proc, FlushDrill(p) PROVE DrillsPass'
  <2>1. PICK f \in Flush(drillFiles[op[p]], DrillReport(p)) :
           drillFiles' = [drillFiles EXCEPT ![op[p]] = f]
    BY <1>1 DEF FlushDrill
  <2>2. f = DrillReport(p) \/ f = Garbled
    BY DEF Flush
  <2>3. op[p] \in FixtureDrills => DrillReport(p).pass
    BY <1>1 DEF FlushDrill, Goto, CommandInv, Place, Judged, DrillPCs, DrillReport, DrillPass
  <2>4. op[p] \in FixtureDrills /\ Readable(f) => f.pass
    BY <2>2, <2>3 DEF Readable, NoFile
  <2>5. \A d \in FixtureDrills : drillFiles'[d] = IF d = op[p] THEN f ELSE drillFiles[d]
    BY <2>1 DEF CommandInv, CommandTypeOK, Drills
  <2> QED
    BY <2>4, <2>5 DEF DrillsPass
<1>2. ASSUME NEW p \in Proc, OpenDrill(p) PROVE DrillsPass'
  <2>1. \A d \in FixtureDrills : drillFiles'[d] = IF d = op[p] THEN Empty ELSE drillFiles[d]
    BY <1>2 DEF OpenDrill, CommandInv, CommandTypeOK, Drills
  <2> QED
    BY <2>1 DEF DrillsPass, Readable, NoFile
<1>3. CASE UNCHANGED drillFiles
  BY <1>3 DEF DrillsPass
<1> QED
  BY <1>1, <1>2, <1>3
  DEF ReconcileNext, ReconcileStep, LifecycleCreates, BeginReconcile, InvalidInputs, Compare,
      OpenResult, FlushResult, JournalResult, See, JournalDrill, CrashReconcile, vars

Opened(p) ==
    /\ \/ pc[p] \in {"flush_result", "journal_result"}
       \/ pc[p] \in DrillPCs /\ op[p] \in FixtureDrills
       => resultFile # Absent
    /\ pc[p] \in {"flush_drill", "journal_drill"} => drillFiles[op[p]] # Absent

\* A command that moves has opened what its next place says it has.
LEMMA MoverOpened ==
    ASSUME CommandInv, FileInv, [ReconcileNext]_vars, NEW p \in Proc, ReconcileStep(p)
    PROVE  Opened(p)'
<1>0. Empty # Absent
  BY TextAssumption
<1>1. /\ resultFile # Absent => resultFile' # Absent
      /\ \A d \in Drills : drillFiles[d] # Absent => drillFiles'[d] # Absent
  BY FilesStay
<1>2. Opened(p) /\ Place(p)
  BY DEF FileInv, Opened, CommandInv
<1> USE DEF Goto, Opened, DrillPCs
<1>3. CASE \E o \in ReconcileOps : BeginReconcile(p, o)
  BY <1>3 DEF BeginReconcile, CommandInv, CommandTypeOK
<1>4. CASE InvalidInputs(p) \/ CrashReconcile(p) \/ JournalDrill(p)
  BY <1>4 DEF InvalidInputs, CrashReconcile, JournalDrill, CommandInv, CommandTypeOK
<1>5. CASE Compare(p)
  <2>1. pc'[p] = "open_result"
    BY <1>5 DEF Compare, CommandInv, CommandTypeOK
  <2> QED
    BY <2>1
<1>6. CASE OpenResult(p)
  <2>1. pc'[p] = "flush_result" /\ resultFile' = Empty
    BY <1>6 DEF OpenResult, CommandInv, CommandTypeOK
  <2> QED
    BY <1>0, <2>1
<1>7. CASE FlushResult(p)
  <2>1. pc'[p] = "journal_result" /\ pc[p] = "flush_result"
    BY <1>7 DEF FlushResult, CommandInv, CommandTypeOK
  <2> QED
    BY <1>1, <1>2, <2>1
<1>8. CASE JournalResult(p)
  <2>1. pc'[p] \in {"open_drill", "done", "exit_1"} /\ pc[p] = "journal_result"
    BY <1>8 DEF JournalResult, CommandInv, CommandTypeOK
  <2> QED
    BY <1>1, <1>2, <2>1
<1>9. CASE See(p)
  <2>1. op'[p] = op[p] /\ pc[p] \in SeePCs /\ pc'[p] \in SeePCs \cup {"open_drill"}
    BY <1>9 DEF See, SeeOrder, SeePC, SeePCs, CommandInv, CommandTypeOK
  <2> QED
    BY <1>2, <2>1 DEF Place, SeePCs, FixtureDrills
<1>10. CASE OpenDrill(p)
  <2>1. /\ pc'[p] = "flush_drill" /\ pc[p] = "open_drill" /\ op'[p] = op[p]
        /\ drillFiles'[op[p]] = Empty /\ resultFile' = resultFile
    BY <1>10, <1>2 DEF OpenDrill, Place, CommandInv, CommandTypeOK
  <2> QED
    BY <1>0, <1>2, <2>1
<1>11. CASE FlushDrill(p)
  <2>1. pc'[p] = "journal_drill" /\ pc[p] = "flush_drill" /\ op'[p] = op[p]
    BY <1>11 DEF FlushDrill, CommandInv, CommandTypeOK
  <2> QED
    BY <1>1, <1>2, <2>1 DEF Place
<1> QED
  BY <1>3, <1>4, <1>5, <1>6, <1>7, <1>8, <1>9, <1>10, <1>11 DEF ReconcileStep

LEMMA StepFiles ==
    ASSUME CommandInv, FileInv, [ReconcileNext]_vars
    PROVE  FileInv'
<1>1. /\ resultFile # Absent => resultFile' # Absent
      /\ \A d \in Drills : drillFiles[d] # Absent => drillFiles'[d] # Absent
  BY FilesStay
<1>2. ASSUME NEW q \in Proc, pc'[q] = pc[q], op'[q] = op[q] PROVE Opened(q)'
  <2>1. Opened(q) /\ Place(q)
    BY DEF FileInv, Opened, CommandInv
  <2> QED
    BY <1>1, <1>2, <2>1 DEF Opened, Place, DrillPCs
<1>3. \A q \in Proc : Opened(q)'
  BY <1>2, OneMoves, MoverOpened
<1>4. DrillsPass'
  BY StepReports DEF FileInv
<1> QED
  BY <1>3, <1>4 DEF FileInv, Opened

-----------------------------------------------------------------------------
(* The journal lines and what they point to *)

CheckedLine(p) == [event |-> "reconciliation_checked", by |-> p, status |-> verdict[p]]
DrillLine(p) == [event |-> "failure_drill_executed", by |-> p, status |-> op[p]]

\* A command's line is the last thing that it does before it goes on or ends, and
\* tells the status that it still has in memory.
LineInv ==
    /\ LinesBacked
    /\ \A i \in DOMAIN lines :
          LET p == lines[i].by
          IN  /\ lines[i].event = "failure_drill_executed" => pc[p] \in {"done", "exit_1"}
              /\ lines[i].event = "reconciliation_checked" =>
                    pc[p] \in DrillPCs \cup EndPCs /\ lines[i].status = verdict[p]

LEMMA LinesMove ==
    ASSUME [ReconcileNext]_vars
    PROVE  \/ UNCHANGED lines
           \/ \E p \in Proc : /\ JournalResult(p)
                              /\ lines' = Append(lines, CheckedLine(p))
           \/ \E p \in Proc : /\ JournalDrill(p)
                              /\ lines' = Append(lines, DrillLine(p))
<1>1. ASSUME NEW p \in Proc, JournalResult(p)
      PROVE  lines' = lines \/ lines' = Append(lines, CheckedLine(p))
  BY <1>1 DEF JournalResult, CheckedLine
<1>2. ASSUME NEW p \in Proc, JournalDrill(p)
      PROVE  lines' = lines \/ lines' = Append(lines, DrillLine(p))
  BY <1>2 DEF JournalDrill, DrillLine
<1>3. \/ UNCHANGED lines
      \/ \E p \in Proc : JournalResult(p) \/ JournalDrill(p)
  BY DEF ReconcileNext, ReconcileStep, LifecycleCreates, BeginReconcile, InvalidInputs, Compare,
         OpenResult, FlushResult, See, OpenDrill, FlushDrill, CrashReconcile, vars
<1> QED
  BY <1>1, <1>2, <1>3

\* Lines that are there keep what they tell about their command.
LEMMA LinesKeep ==
    ASSUME CommandInv, LineInv, [ReconcileNext]_vars, NEW i \in DOMAIN lines
    PROVE  LET p == lines[i].by
           IN  /\ lines[i].event = "failure_drill_executed" => pc'[p] \in {"done", "exit_1"}
               /\ lines[i].event = "reconciliation_checked" =>
                     pc'[p] \in DrillPCs \cup EndPCs /\ lines[i].status = verdict'[p]
<1> DEFINE p == lines[i].by
<1>0. lines[i] \in Line /\ p \in Proc
  BY DEF CommandInv, CommandTypeOK, Line
<1>1. /\ lines[i].event = "failure_drill_executed" => pc[p] \in {"done", "exit_1"}
      /\ lines[i].event = "reconciliation_checked" =>
            pc[p] \in DrillPCs \cup EndPCs /\ lines[i].status = verdict[p]
  BY DEF LineInv
<1>2. lines[i].event \in {"failure_drill_executed", "reconciliation_checked"}
  BY <1>0 DEF Line
<1> HIDE DEF p
<1>3. CASE pc'[p] = pc[p] /\ verdict'[p] = verdict[p]
  BY <1>1, <1>3 DEF p
<1>4. CASE ReconcileStep(p) /\ ~Ended(p)
  <2>1. pc[p] \in DrillPCs
    BY <1>1, <1>2, <1>4 DEF Ended, EndPCs, DrillPCs
  <2>2. pc'[p] \in DrillPCs \cup EndPCs /\ verdict'[p] = verdict[p]
    <3> USE <2>1 DEF DrillPCs, EndPCs, Goto, CommandInv, CommandTypeOK
    <3>1. CASE OpenDrill(p)
      BY <3>1 DEF OpenDrill
    <3>2. CASE FlushDrill(p)
      BY <3>2 DEF FlushDrill
    <3>3. CASE JournalDrill(p)
      BY <3>3 DEF JournalDrill
    <3>4. CASE CrashReconcile(p)
      BY <3>4 DEF CrashReconcile
    <3>5. ~See(p)
      BY DEF See, SeeOrder, SeePC
    <3> QED
      BY <1>4, <3>1, <3>2, <3>3, <3>4, <3>5
      DEF ReconcileStep, BeginReconcile, InvalidInputs, Compare, OpenResult, FlushResult,
          JournalResult
  <2> QED
    BY <1>1, <1>4, <2>1, <2>2 DEF p, Ended, DrillPCs, EndPCs
<1> QED
  BY <1>0, <1>3, <1>4, OneMoves

LEMMA StepLines ==
    ASSUME CommandInv, FileInv, LineInv, [ReconcileNext]_vars
    PROVE  LineInv'
<1> DEFINE Backed(i) ==
             IF lines[i].event = "reconciliation_checked" THEN resultFile # Absent
             ELSE /\ drillFiles[lines[i].status] # Absent
                  /\ lines[i].status \in FixtureDrills => resultFile # Absent
           Final(i) == \A j \in (i+1)..Len(lines) : lines[j].by # lines[i].by
           Tells(i) ==
             LET p == lines[i].by
             IN  /\ lines[i].event = "failure_drill_executed" => pc[p] \in {"done", "exit_1"}
                 /\ lines[i].event = "reconciliation_checked" =>
                       pc[p] \in DrillPCs \cup EndPCs /\ lines[i].status = verdict[p]
<1>0. lines \in Seq(Line)
  BY DEF CommandInv, CommandTypeOK
<1>1. \A i \in DOMAIN lines :
        /\ Backed(i)
        /\ lines[i].event # "reconciliation_checked" => Final(i)
        /\ Tells(i)
  BY DEF LineInv, LinesBacked
<1>2. ASSUME NEW i \in DOMAIN lines, lines'[i] = lines[i] PROVE Tells(i)'
  BY <1>2, LinesKeep
<1>3. ASSUME NEW i \in DOMAIN lines, lines'[i] = lines[i],
             lines[i].event = "reconciliation_checked" \/ lines[i].status \in Drills
      PROVE  Backed(i)'
  BY <1>1, <1>3, FilesStay
<1>4. \A i \in DOMAIN lines : lines[i].event # "reconciliation_checked" =>
        lines[i].status \in Drills
  BY <1>0 DEF Line
<1>6. ASSUME UNCHANGED lines PROVE LineInv'
  <2>1. \A i \in DOMAIN lines : lines[i].event # "reconciliation_checked" => Final(i)'
    BY <1>1, <1>6
  <2>2. \A i \in DOMAIN lines : Tells(i)' /\ Backed(i)'
    BY <1>2, <1>3, <1>4, <1>6
  <2> QED
    BY <1>6, <2>1, <2>2 DEF LineInv, LinesBacked
<1>7. ASSUME NEW p \in Proc, NEW l \in Line, lines' = Append(lines, l), l.by = p,
             pc[p] \in {"journal_result", "journal_drill"},
             NEW n \in Nat, n = Len(lines), Backed(n + 1)', Tells(n + 1)'
      PROVE  LineInv'
  <2>1. n \in Nat /\ DOMAIN lines = 1..n /\ Len(lines') = n + 1 /\ DOMAIN lines' = 1..(n+1)
    BY <1>0, <1>7
  <2>2. lines'[n+1] = l /\ \A i \in 1..n : lines'[i] = lines[i]
    BY <1>0, <1>7
  <2>3. ASSUME NEW i \in 1..(n+1) PROVE Backed(i)' /\ Tells(i)'
    <3>1. CASE i = n + 1
      BY <1>7, <3>1
    <3>2. CASE i \in DOMAIN lines
      BY <1>2, <1>3, <1>4, <2>1, <2>2, <3>2
    <3> QED
      BY <2>1, <3>1, <3>2
  <2>4. ASSUME NEW i \in 1..(n+1), lines'[i].event # "reconciliation_checked" PROVE Final(i)'
    <3>1. CASE i = n + 1
      BY <2>1, <3>1
    <3>2. CASE i \in DOMAIN lines
      <4>1. lines[i].event = "failure_drill_executed" /\ lines'[i] = lines[i]
        BY <1>0, <2>1, <2>2, <2>4, <3>2 DEF Line
      <4>2. lines[i].by # p
        BY <1>1, <1>7, <3>2, <4>1
      <4>3. \A j \in (i+1)..n : lines[j].by # lines[i].by
        BY <1>1, <1>7, <3>2, <4>1
      <4> QED
        BY <1>7, <2>1, <2>2, <3>2, <4>1, <4>2, <4>3
    <3> QED
      BY <2>1, <3>1, <3>2
  <2> QED
    BY <2>1, <2>3, <2>4 DEF LineInv, LinesBacked
<1>8. ASSUME NEW p \in Proc, JournalResult(p), lines' = Append(lines, CheckedLine(p))
      PROVE  LineInv'
  <2> DEFINE l == CheckedLine(p)
  <2>0. PICK n \in Nat : n = Len(lines)
    BY <1>0
  <2>1. pc[p] = "journal_result" /\ pc'[p] \in DrillPCs \cup EndPCs /\ verdict' = verdict
    BY <1>8 DEF JournalResult, Goto, CommandInv, CommandTypeOK, DrillPCs, EndPCs
  <2>2. verdict[p] \in SeveritySet
    BY <2>1 DEF CommandInv, Place, Judged, ResultPCs
  <2>3. /\ l \in Line /\ l.by = p /\ l.event = "reconciliation_checked"
        /\ l.status = verdict[p]
    BY <2>2 DEF Line, CheckedLine
  <2>4. lines'[n+1] = l
    BY <1>0, <1>8, <2>0, <2>3
  <2>5. resultFile' # Absent
    BY <2>1, FilesStay DEF FileInv
  <2> QED
    BY <1>7, <1>8, <2>0, <2>1, <2>3, <2>4, <2>5
<1>9. ASSUME NEW p \in Proc, JournalDrill(p), lines' = Append(lines, DrillLine(p))
      PROVE  LineInv'
  <2> DEFINE l == DrillLine(p)
  <2>0. PICK n \in Nat : n = Len(lines)
    BY <1>0
  <2>1. pc[p] = "journal_drill" /\ pc'[p] \in {"done", "exit_1"}
    BY <1>9 DEF JournalDrill, Goto, CommandInv, CommandTypeOK
  <2>2. op[p] \in Drills
    BY <2>1 DEF CommandInv, Place, DrillPCs
  <2>3. /\ l \in Line /\ l.by = p /\ l.event = "failure_drill_executed"
        /\ l.status = op[p]
    BY <2>2 DEF Line, DrillLine
  <2>4. lines'[n+1] = l
    BY <1>0, <1>9, <2>0, <2>3
  <2>5. drillFiles'[op[p]] # Absent /\ (op[p] \in FixtureDrills => resultFile' # Absent)
    BY <2>1, <2>2, FilesStay DEF FileInv, DrillPCs
  <2> QED
    BY <1>7, <1>9, <2>0, <2>1, <2>3, <2>4, <2>5
<1> QED
  BY <1>6, <1>8, <1>9, LinesMove

-----------------------------------------------------------------------------
(* The last reconciliation to begin *)

\* q reconciles and has come to the point where it rewrites the result.
Could(q) == op[q] # "restart_recovery" /\ pc[q] \notin {"idle", "compare", "failed"}

\* Whoever else can have rewritten the result had ended when p began.
Alone(p) == \A q \in Proc \ {p} : Could(q) => q \in before[p]

Written == {"journal_result", "open_drill", "flush_drill", "journal_drill", "done", "exit_1"}

\* While p is alone, the result file holds what p last did to it, and no newer line
\* than p's own is about a reconciliation.
RepairInv ==
    \A p \in Proc : op[p] # "restart_recovery" /\ pc[p] # "idle" /\ Alone(p) =>
        /\ pc[p] = "flush_result" => resultFile = Empty
        /\ pc[p] \in Written => resultFile = ResultOf(p)
        /\ \A i, j \in DOMAIN lines :
              /\ lines[i].event = "reconciliation_checked" /\ lines[i].by = p
              /\ lines[j].event = "reconciliation_checked"
              => j <= i

\* Who could have rewritten the result can still have done so.
LEMMA CouldStays ==
    ASSUME CommandInv, [ReconcileNext]_vars, NEW q \in Proc, Could(q)
    PROVE  Could(q)'
<1>1. CASE pc'[q] = pc[q] /\ op'[q] = op[q]
  BY <1>1 DEF Could
<1>2. CASE ReconcileStep(q)
  <2>0. Place(q)
    BY DEF CommandInv
  <2> USE DEF Could, Goto, CommandInv, CommandTypeOK
  <2>1. CASE \E o \in ReconcileOps : BeginReconcile(q, o)
    BY <2>1 DEF BeginReconcile
  <2>2. CASE InvalidInputs(q) \/ Compare(q)
    BY <2>2 DEF InvalidInputs, Compare
  <2>3. CASE OpenResult(q) \/ FlushResult(q) \/ JournalResult(q)
    BY <2>3 DEF OpenResult, FlushResult, JournalResult
  <2>4. CASE See(q)
    BY <2>0, <2>4 DEF See, SeeOrder, SeePC, Place, SeePCs
  <2>5. CASE OpenDrill(q) \/ FlushDrill(q) \/ JournalDrill(q)
    BY <2>5 DEF OpenDrill, FlushDrill, JournalDrill
  <2>6. CASE CrashReconcile(q)
    BY <2>6 DEF CrashReconcile
  <2> QED
    BY <1>2, <2>1, <2>2, <2>3, <2>4, <2>5, <2>6 DEF ReconcileStep
<1> QED
  BY <1>1, <1>2, OneMoves

\* A step of another that leaves p alone touches neither the result nor its lines.
LEMMA OthersRepair ==
    ASSUME CommandInv, RepairInv, [ReconcileNext]_vars, NEW p \in Proc,
           NEW q \in Proc \ {p}, ReconcileStep(q), ~Ended(q), before'[p] = before[p],
           Alone(p)'
    PROVE  /\ Alone(p) /\ resultFile' = resultFile
           /\ \/ lines' = lines
              \/ JournalDrill(q) /\ lines' = Append(lines, DrillLine(q))
<1>1. Alone(p)
  BY CouldStays DEF Alone
<1>2. q \notin before[p]
  BY DEF CommandInv, BeforeInv
<1>3. ~Could(q)'
  BY <1>2 DEF Alone
<1>4. ~Could(q)
  BY <1>3, CouldStays
<1>5. Place(q)
  BY DEF CommandInv
<1>6. ~OpenResult(q) /\ ~FlushResult(q) /\ ~JournalResult(q)
  BY <1>4, <1>5 DEF Could, OpenResult, FlushResult, JournalResult, Goto, Place, ResultPCs,
                    FixtureDrills
<1>7. resultFile' = resultFile
  BY <1>6 DEF ReconcileStep, BeginReconcile, InvalidInputs, Compare, See, OpenDrill, FlushDrill,
              JournalDrill, CrashReconcile
<1>8. lines' = lines \/ JournalDrill(q)
  BY <1>6 DEF ReconcileStep, BeginReconcile, InvalidInputs, Compare, See, OpenDrill, FlushDrill,
              CrashReconcile
<1>9. JournalDrill(q) => lines' = lines \/ lines' = Append(lines, DrillLine(q))
  BY DEF JournalDrill, DrillLine
<1> QED
  BY <1>1, <1>7, <1>8, <1>9

Newest(p) ==
    \A i, j \in DOMAIN lines :
        /\ lines[i].event = "reconciliation_checked" /\ lines[i].by = p
        /\ lines[j].event = "reconciliation_checked"
        => j <= i

LEMMA NewestStays ==
    ASSUME CommandInv, NEW p \in Proc, Newest(p), NEW q \in Proc,
           lines' = lines \/ lines' = Append(lines, DrillLine(q))
    PROVE  Newest(p)'
<1>1. CASE lines' = lines
  BY <1>1 DEF Newest
<1>2. CASE lines' = Append(lines, DrillLine(q))
  <2> DEFINE n == Len(lines)  l == DrillLine(q)
  <2>1. n \in Nat /\ DOMAIN lines = 1..n /\ DOMAIN lines' = 1..(n+1)
    BY <1>2 DEF CommandInv, CommandTypeOK
  <2>2. lines'[n+1] = l /\ \A i \in 1..n : lines'[i] = lines[i]
    BY <1>2 DEF CommandInv, CommandTypeOK
  <2>3. l.event # "reconciliation_checked"
    BY DEF DrillLine
  <2> HIDE DEF n, l
  <2> QED
    BY <2>1, <2>2, <2>3 DEF Newest
<1> QED
  BY <1>1, <1>2

LEMMA NewestComes ==
    ASSUME CommandInv, LineInv, NEW p \in Proc, pc[p] = "journal_result",
           lines' = Append(lines, CheckedLine(p))
    PROVE  Newest(p)'
<1> DEFINE n == Len(lines)
<1>1. n \in Nat /\ DOMAIN lines = 1..n /\ DOMAIN lines' = 1..(n+1)
  BY DEF CommandInv, CommandTypeOK
<1>2. \A i \in 1..n : lines'[i] = lines[i]
  BY DEF CommandInv, CommandTypeOK
<1>3. \A i \in 1..n : lines[i].event = "reconciliation_checked" => lines[i].by # p
  BY <1>1 DEF LineInv, DrillPCs, EndPCs
<1> HIDE DEF n
<1> QED
  BY <1>1, <1>2, <1>3 DEF Newest

Repaired(p) ==
    /\ pc[p] = "flush_result" => resultFile = Empty
    /\ pc[p] \in Written => resultFile = ResultOf(p)
    /\ Newest(p)

LEMMA MoverRepairs ==
    ASSUME CommandInv, LineInv, RepairInv, [ReconcileNext]_vars, NEW p \in Proc,
           ReconcileStep(p), op'[p] # "restart_recovery", Alone(p)'
    PROVE  Repaired(p)'
<1> USE DEF Goto, Repaired, Written
<1>1. CASE \E o \in ReconcileOps : BeginReconcile(p, o)
  <2>1. pc[p] = "idle" /\ pc'[p] \in {"failed", "compare", "see_metadata"} /\ lines' = lines
    BY <1>1 DEF BeginReconcile, CommandInv, CommandTypeOK
  <2>2. \A i \in DOMAIN lines : lines[i].event = "reconciliation_checked" => lines[i].by # p
    BY <2>1 DEF LineInv, DrillPCs, EndPCs
  <2> QED
    BY <2>1, <2>2 DEF Newest
<1>2. ASSUME op'[p] = op[p], before' = before, pc[p] # "idle" PROVE Repaired(p)
  <2>1. Alone(p)
    BY <1>2, CouldStays DEF Alone
  <2> QED
    BY <1>2, <2>1 DEF RepairInv, Newest
<1>3. CASE InvalidInputs(p) \/ Compare(p) \/ CrashReconcile(p)
  <2>1. /\ pc[p] # "idle" /\ pc'[p] \in {"failed", "open_result", "crashed"}
        /\ UNCHANGED <<op, before, lines>>
    BY <1>3 DEF InvalidInputs, Compare, CrashReconcile, Started, CommandInv, CommandTypeOK
  <2>2. Newest(p)
    BY <1>2, <2>1
  <2> QED
    BY <2>1, <2>2 DEF Newest
<1>4. CASE OpenResult(p)
  <2>1. /\ pc[p] # "idle" /\ pc'[p] = "flush_result" /\ resultFile' = Empty
        /\ UNCHANGED <<op, before, lines>>
    BY <1>4 DEF OpenResult, CommandInv, CommandTypeOK
  <2>2. Newest(p)
    BY <1>2, <2>1
  <2> QED
    BY <2>1, <2>2 DEF Newest
<1>5. CASE FlushResult(p)
  <2>1. /\ pc[p] = "flush_result" /\ pc'[p] = "journal_result"
        /\ resultFile' \in Flush(resultFile, ResultOf(p))
        /\ UNCHANGED <<op, before, lines, verdict>>
    BY <1>5 DEF FlushResult, CommandInv, CommandTypeOK
  <2>2. Newest(p) /\ resultFile = Empty
    BY <1>2, <2>1
  <2>3. resultFile' = ResultOf(p)
    BY <2>1, <2>2 DEF Flush
  <2> QED
    BY <2>1, <2>2, <2>3 DEF Newest, ResultOf
<1>6. CASE JournalResult(p)
  <2>1. /\ pc[p] = "journal_result" /\ pc'[p] \in {"open_drill", "done", "exit_1"}
        /\ UNCHANGED <<op, before, resultFile, verdict>>
        /\ lines' = lines \/ lines' = Append(lines, CheckedLine(p))
    BY <1>6 DEF JournalResult, CheckedLine, CommandInv, CommandTypeOK
  <2>2. Newest(p) /\ resultFile = ResultOf(p)
    BY <1>2, <2>1
  <2>3. Newest(p)'
    <3>1. CASE lines' = lines
      BY <2>2, <3>1 DEF Newest
    <3> QED
      BY <2>1, <3>1, NewestComes
  <2> QED
    BY <2>1, <2>2, <2>3 DEF ResultOf
<1>7. CASE See(p)
  <2>1. pc[p] \in SeePCs /\ op' = op
    BY <1>7 DEF See, SeeOrder, SeePC, SeePCs
  <2> QED
    BY <2>1 DEF CommandInv, Place
<1>8. CASE OpenDrill(p) \/ FlushDrill(p) \/ JournalDrill(p)
  <2>1. /\ pc[p] \in DrillPCs /\ pc'[p] \in {"flush_drill", "journal_drill", "done", "exit_1"}
        /\ UNCHANGED <<op, before, resultFile, verdict>>
        /\ lines' = lines \/ lines' = Append(lines, DrillLine(p))
    BY <1>8 DEF OpenDrill, FlushDrill, JournalDrill, DrillLine, DrillPCs, CommandInv,
                CommandTypeOK
  <2>2. Newest(p) /\ resultFile = ResultOf(p)
    BY <1>2, <2>1 DEF DrillPCs
  <2>3. Newest(p)'
    BY <2>1, <2>2, NewestStays
  <2> QED
    BY <2>1, <2>2, <2>3 DEF ResultOf
<1> QED
  BY <1>1, <1>3, <1>4, <1>5, <1>6, <1>7, <1>8 DEF ReconcileStep

LEMMA StepRepair ==
    ASSUME CommandInv, LineInv, RepairInv, [ReconcileNext]_vars
    PROVE  RepairInv'
<1> SUFFICES ASSUME NEW p \in Proc, op'[p] # "restart_recovery", pc'[p] # "idle", Alone(p)'
             PROVE  Repaired(p)'
  BY DEF RepairInv, Repaired, Newest
<1>1. CASE UNCHANGED <<pc, op, verdict, before, lines, resultFile>>
  <2>1. Alone(p)
    BY <1>1 DEF Alone, Could
  <2> QED
    BY <1>1, <2>1 DEF RepairInv, Repaired, Newest, ResultOf
<1>2. ASSUME NEW q \in Proc \ {p}, ReconcileStep(q), ~Ended(q),
             pc'[p] = pc[p], op'[p] = op[p], verdict'[p] = verdict[p], before'[p] = before[p]
      PROVE  Repaired(p)'
  <2>1. /\ Alone(p) /\ resultFile' = resultFile
        /\ lines' = lines \/ lines' = Append(lines, DrillLine(q))
    BY <1>2, OthersRepair
  <2>2. Repaired(p)
    BY <1>2, <2>1 DEF RepairInv, Repaired, Newest
  <2>3. Newest(p)'
    BY <2>1, <2>2, NewestStays DEF Repaired
  <2> QED
    BY <1>2, <2>1, <2>2, <2>3 DEF Repaired, ResultOf
<1>3. CASE ReconcileStep(p)
  BY <1>3, MoverRepairs
<1> QED
  BY <1>1, <1>2, <1>3, OneMoves

-----------------------------------------------------------------------------
(* The export *)

\* What the exporter has read or still reads is there for the lines it counted.
ScrapeInv ==
    /\ \A i \in DOMAIN counted :
          IF counted[i].event = "reconciliation_checked" THEN resultFile # Absent
          ELSE counted[i].status \in Drills /\ drillFiles[counted[i].status] # Absent
    /\ at \in {"list", "drills", "shown"} =>
          \A i \in DOMAIN counted :
              counted[i].event = "reconciliation_checked" => Readable(result)
    /\ at \in {"drills", "shown"} =>
          \A i \in DOMAIN counted :
              counted[i].event # "reconciliation_checked" =>
                  counted[i].status \in listed \cup DOMAIN reports \cup skipped
    /\ at = "shown" => listed = {}
    /\ listed \subseteq {d \in Drills : drillFiles[d] # Absent}
    /\ \A d \in FixtureDrills \cap DOMAIN reports : reports[d].pass

LEMMA ScrapeStays ==
    ASSUME CommandInv, FileInv, ScrapeInv, [ReconcileNext]_vars, UNCHANGED drillScrapeVars
    PROVE  ScrapeInv'
BY FilesStay DEF ScrapeInv, drillScrapeVars

LEMMA ReadDrillFits ==
    ASSUME CommandInv, FileInv, ScrapeInv, ReadDrill, UNCHANGED vars
    PROVE  ScrapeInv'
<1>1. PICK i \in DOMAIN ByName :
         /\ ByName[i] \in listed
         /\ listed' = listed \ {ByName[i]}
         /\ IF Malformed(drillFiles[ByName[i]])
            THEN skipped' = skipped \cup {ByName[i]} /\ UNCHANGED reports
            ELSE /\ reports' = [e \in DOMAIN reports \cup {ByName[i]} |->
                                  IF e = ByName[i] THEN drillFiles[ByName[i]] ELSE reports[e]]
                 /\ UNCHANGED skipped
  BY DEF ReadDrill
<1> DEFINE d == ByName[i]  f == drillFiles[d]
<1>2. d \in Drills /\ f # Absent
  BY <1>1 DEF ScrapeInv
<1>3. at = "drills" /\ at' = at /\ counted' = counted /\ result' = result
  BY DEF ReadDrill
<1>4. resultFile' = resultFile /\ drillFiles' = drillFiles
  BY DEF vars
<1> HIDE DEF d, f
<1>5. CASE Malformed(f)
  BY <1>1, <1>3, <1>4, <1>5 DEF ScrapeInv, d, f
<1>6. CASE ~Malformed(f)
  <2>1. /\ reports' = [e \in DOMAIN reports \cup {d} |-> IF e = d THEN f ELSE reports[e]]
        /\ skipped' = skipped /\ listed' = listed \ {d}
    BY <1>1, <1>6 DEF d, f
  <2>2. /\ DOMAIN reports' = DOMAIN reports \cup {d}
        /\ \A e \in DOMAIN reports' : reports'[e] = reports[e] \/ (e = d /\ reports'[e] = f)
    BY <2>1
  <2>3. d \in FixtureDrills => f.pass
    BY <1>2, <1>6 DEF FileInv, DrillsPass, Readable, NoFile, Malformed, f
  <2> QED
    BY <1>3, <1>4, <2>1, <2>2, <2>3 DEF ScrapeInv
<1> QED
  BY <1>5, <1>6

LEMMA StepScrape ==
    ASSUME CommandInv, FileInv, LineInv, ScrapeInv, DrillScrapeStep, UNCHANGED vars
    PROVE  ScrapeInv'
<1>0. resultFile' = resultFile /\ drillFiles' = drillFiles
  BY DEF vars
<1>1. CASE LoadLines
  <2>1. \A i \in DOMAIN lines :
          IF lines[i].event = "reconciliation_checked" THEN resultFile # Absent
          ELSE lines[i].status \in Drills /\ drillFiles[lines[i].status] # Absent
    BY DEF LineInv, LinesBacked, CommandInv, CommandTypeOK, Line
  <2>2. /\ at' \in {"result", "failed"} /\ counted' \in {counted, lines}
        /\ UNCHANGED <<result, listed, reports, skipped>>
    BY <1>1 DEF LoadLines
  <2> QED
    BY <1>0, <2>1, <2>2 DEF ScrapeInv
<1>2. CASE LoadResult
  <2>1. UNCHANGED <<counted, listed, reports, skipped>>
    BY <1>2 DEF LoadResult
  <2>2. \/ at' = "failed"
        \/ at' = "list" /\ result' = resultFile /\ ~Malformed(resultFile)
    BY <1>2 DEF LoadResult
  <2> QED
    BY <1>0, <2>1, <2>2 DEF ScrapeInv, Readable, NoFile, Malformed
<1>3. CASE ListDrills
  BY <1>0, <1>3 DEF ListDrills, ScrapeInv
<1>4. CASE ReadDrill
  BY <1>4, ReadDrillFits
<1>5. CASE RenderDrills
  BY <1>0, <1>5 DEF RenderDrills, ScrapeInv
<1> QED
  BY <1>1, <1>2, <1>3, <1>4, <1>5 DEF DrillScrapeStep

-----------------------------------------------------------------------------
(* The invariant of the commands and the export *)

SharedInv ==
    CommandInv /\ FileInv /\ LineInv /\ RepairInv /\ ScrapeInv

LEMMA SharedInit == DrillScrapeInit => SharedInv
<1> SUFFICES ASSUME DrillScrapeInit PROVE SharedInv
  OBVIOUS
<1> USE DEF DrillScrapeInit
<1>1. CommandInv
  BY CommandInit
<1>2. FileInv
  BY DEF ReconcileInit, FileInv, DrillsPass, Drills, DrillPCs, Readable, NoFile
<1>3. LineInv
  BY DEF ReconcileInit, LineInv, LinesBacked
<1>4. RepairInv
  BY DEF ReconcileInit, RepairInv
<1>5. ScrapeInv
  BY DEF ScrapeInv, NoReports
<1> QED
  BY <1>1, <1>2, <1>3, <1>4, <1>5 DEF SharedInv

LEMMA SharedNext == SharedInv /\ [DrillScrapeNext]_allVars => SharedInv'
<1> SUFFICES ASSUME SharedInv, [DrillScrapeNext]_allVars PROVE SharedInv'
  OBVIOUS
<1>1. /\ [ReconcileNext]_vars
      /\ UNCHANGED drillScrapeVars \/ (DrillScrapeStep /\ UNCHANGED vars)
  BY DEF DrillScrapeNext, allVars, vars, drillScrapeVars
<1>2. CommandInv' /\ FileInv' /\ LineInv' /\ RepairInv'
  BY <1>1, StepCommand, StepFiles, StepLines, StepRepair DEF SharedInv
<1>3. ScrapeInv'
  BY <1>1, ScrapeStays, StepScrape DEF SharedInv
<1> QED
  BY <1>2, <1>3 DEF SharedInv

LEMMA SharedAlways == DrillScrapeSpec => []SharedInv
BY SharedInit, SharedNext, PTL DEF DrillScrapeSpec

\* The pass flag of a fault injection drill (drills/executor.py) never says that the
\* injected fault went unnoticed, whichever commands rewrite the files they share.
THEOREM DrillsAlwaysPass == DrillScrapeSpec => []DrillsPass
<1>1. SharedInv => DrillsPass
  BY DEF SharedInv, FileInv
<1> QED
  BY <1>1, SharedAlways, PTL

\* No line of a check or a drill is in the journal before the file that it is about.
THEOREM LinesAreBacked == DrillScrapeSpec => []LinesBacked
<1>1. SharedInv => LinesBacked
  BY DEF SharedInv, LineInv
<1> QED
  BY <1>1, SharedAlways, PTL

\* A reconciliation that begins when the others are over leaves its own verdict in
\* the result file, with the newest line in the journal: for any number of earlier
\* commands, wherever they crashed.
THEOREM RerunsRepair == DrillScrapeSpec => []RerunRepairs
<1>1. SharedInv => RerunRepairs
  <2> SUFFICES ASSUME SharedInv, NEW p \in Proc, LastToReconcile(p)
               PROVE  /\ resultFile = ResultOf(p)
                      /\ LET checked == {i \in DOMAIN lines :
                                           lines[i].event = "reconciliation_checked"}
                         IN  \A i \in checked : lines[i].by = p =>
                               i = Max(checked) /\ lines[i].status = resultFile.status
    BY DEF RerunRepairs
  <2>1. /\ op[p] # "restart_recovery" /\ pc[p] \in Written
        /\ \A q \in Proc \ {p} : Started(q) /\ Reconciles(q) => q \in before[p]
    BY DEF LastToReconcile, Reconciles, Flushed, Written, SharedInv, CommandInv, CommandTypeOK,
           PCs, SeePCs, ResultPCs, DrillPCs, EndPCs
  <2>2. Alone(p)
    BY <2>1 DEF Alone, Could, Started, Reconciles
  <2>3. resultFile = ResultOf(p) /\ Newest(p)
    BY <2>1, <2>2 DEF SharedInv, RepairInv, Newest, Written
  <2> DEFINE checked == {i \in DOMAIN lines : lines[i].event = "reconciliation_checked"}
  <2>4. ASSUME NEW i \in checked, lines[i].by = p
        PROVE  i = Max(checked) /\ lines[i].status = resultFile.status
    <3>1. checked \subseteq Int
      BY DEF SharedInv, CommandInv, CommandTypeOK
    <3>2. \A j \in checked : i >= j
      BY <2>3, <2>4, <3>1 DEF Newest
    <3>3. lines[i].status = verdict[p]
      BY <2>4 DEF SharedInv, LineInv
    <3>4. resultFile.status = verdict[p]
      BY <2>3 DEF ResultOf
    <3> HIDE DEF checked
    <3>5. \A x \in checked : (\A y \in checked : x >= y) => x = i
      BY <2>4, <3>1, <3>2
    <3>6. Max(checked) = i
      BY <2>4, <3>2, <3>5 DEF Max
    <3> QED
      BY <3>3, <3>4, <3>6
  <2> QED
    BY <2>3, <2>4
<1> QED
  BY <1>1, SharedAlways, PTL

\* An export that counts a line shows what the line is about, and shows no fault
\* injection drill as failed, while checks and drills go on (observability/metrics.py).
THEOREM CountedLinesAreShown == DrillScrapeSpec => []CountedLinesShown
<1>1. SharedInv => CountedLinesShown
  <2> SUFFICES ASSUME SharedInv PROVE CountedLinesShown
    OBVIOUS
  <2>1. \A d \in FixtureDrills \cap DOMAIN reports : LastPass(d) = 1
    BY DEF SharedInv, ScrapeInv, LastPass
  <2>2. at = "shown" => \A i \in DOMAIN counted :
            IF counted[i].event = "reconciliation_checked" THEN Readable(result)
            ELSE counted[i].status \in DOMAIN reports \cup skipped
    BY DEF SharedInv, ScrapeInv
  <2> QED
    BY <2>1, <2>2 DEF CountedLinesShown
<1> QED
  BY <1>1, SharedAlways, PTL
=============================================================================
