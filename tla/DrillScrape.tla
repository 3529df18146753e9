----------------------------- MODULE DrillScrape -----------------------------
(***************************************************************************)
(* The reconciliation and drill gauges of one `tc metrics export`          *)
(* (observability/metrics.py): the journal, then the shared result file,   *)
(* then the drills directory, while checks and drills rewrite them.  A     *)
(* result that does not parse fails the export; a drill report that does   *)
(* not parse is left out with a comment.                                   *)
(***************************************************************************)
EXTENDS ReconcileCommands, TLC

\* bound: whether a scenario has an export
ASSUME ExportAssumption == \A s \in Scenarios : s.export \in BOOLEAN

VARIABLES
    at,         \* the exporter's next step
    counted,    \* the journal lines of these commands that it read
    result,     \* the reconciliation result that it read
    listed,     \* drill files still to be read: the names glob found
    reports,    \* drill reports that parsed
    skipped     \* drill files that did not

drillScrapeVars == <<at, counted, result, listed, reports, skipped>>
allVars == <<vars, drillScrapeVars>>

NoReports == [d \in {} |-> {}]

DrillScrapeInit ==
    /\ ReconcileInit
    /\ at = "idle"
    /\ counted = <<>> /\ result = Absent
    /\ listed = {} /\ reports = NoReports /\ skipped = {}

-----------------------------------------------------------------------------
(* Mutated forms: slips that the code could contain. *)

\* A torn result counts as no result.
LoadResultLenient ==
    /\ at = "result"
    /\ at' = "list"
    /\ result' = IF Malformed(resultFile) THEN Absent ELSE resultFile
    /\ UNCHANGED <<counted, listed, reports, skipped>>

-----------------------------------------------------------------------------
\* The run must exist with metadata.json and metrics.json.
LoadLines ==
    /\ at = "idle"
    /\ IF {"run_dir", "metadata", "metrics"} \subseteq artifacts
       THEN at' = "result" /\ counted' = lines
       ELSE at' = "failed" /\ UNCHANGED counted
    /\ UNCHANGED <<result, listed, reports, skipped>>

LoadResult ==
    /\ at = "result"
    /\ IF Malformed(resultFile)
       THEN at' = "failed" /\ UNCHANGED result
       ELSE at' = "list" /\ result' = resultFile
    /\ UNCHANGED <<counted, listed, reports, skipped>>

\* sorted(drills_dir.glob("*.json")): all names before the first file is read.
ListDrills ==
    /\ at = "list"
    /\ at' = "drills"
    /\ listed' = {d \in Drills : drillFiles[d] # Absent}
    /\ UNCHANGED <<counted, result, reports, skipped>>

\* reconciliation_mismatch.json < restart_recovery.json < stale_market_data.json
ByName == <<"reconciliation_mismatch", "restart_recovery", "stale_market_data">>

ReadDrill ==
    /\ at = "drills"
    /\ \E i \in DOMAIN ByName :
          LET d == ByName[i]
          IN  /\ d \in listed /\ \A j \in 1..(i-1) : ByName[j] \notin listed
              /\ listed' = listed \ {d}
              /\ IF Malformed(drillFiles[d])
                 THEN skipped' = skipped \cup {d} /\ UNCHANGED reports
                 ELSE /\ reports' = [e \in DOMAIN reports \cup {d} |->
                                       IF e = d THEN drillFiles[d] ELSE reports[e]]
                      /\ UNCHANGED skipped
    /\ UNCHANGED <<at, counted, result>>

RenderDrills ==
    /\ at = "drills" /\ listed = {}
    /\ at' = "shown"
    /\ UNCHANGED <<counted, result, listed, reports, skipped>>

DrillScrapeStep ==
    LoadLines \/ LoadResult \/ ListDrills \/ ReadDrill \/ RenderDrills

ExportAllowed == \E s \in Scenarios : Within(s) /\ (at = "idle" \/ s.export)

DrillScrapeNext ==
    /\ \/ ReconcileNext /\ UNCHANGED drillScrapeVars
       \/ DrillScrapeStep /\ UNCHANGED vars
    /\ ExportAllowed'

DrillScrapeSpec == DrillScrapeInit /\ [][DrillScrapeNext]_allVars

-----------------------------------------------------------------------------
(* The gauges *)

LastPass(d) == IF reports[d].pass THEN 1 ELSE 0

-----------------------------------------------------------------------------
(* Properties *)

\* Every line that an answer counts comes with what it is about: with a
\* reconciliation line there is a status gauge, with a drill line the drill's own
\* gauges or a comment on its torn report (journal, result and reports are read in
\* the opposite order of their writing).  And a fault injection drill is never
\* shown as failed, also not while its report is being rewritten or was torn.
CountedLinesShown ==
    /\ at = "shown" =>
          \A i \in DOMAIN counted :
              IF counted[i].event = "reconciliation_checked" THEN Readable(result)
              ELSE counted[i].status \in DOMAIN reports \cup skipped
    /\ \A d \in FixtureDrills \cap DOMAIN reports : LastPass(d) = 1
=============================================================================
