------------------------------ MODULE RunScrape ------------------------------
(***************************************************************************)
(* `tc metrics export` and `tc metrics serve` (observability/metrics.py,   *)
(* serve.py) over the workspace that the commands of OpsLab are writing.   *)
(* A request reads the files of a run one after another, without a lock or *)
(* a snapshot, and renders them once the last one is read.  The other runs *)
(* under the same root are finished and healthy.                           *)
(***************************************************************************)
EXTENDS OpsLab

CONSTANTS
    Here,           \* the run that the commands work on
    Neighbour       \* the other runs under artifacts/runs

ASSUME RunAssumption == Here \notin Neighbour /\ IsFiniteSet(Neighbour)

\* bound: how many export commands and scrapes a scenario has
ASSUME RequestAssumption == \A s \in Scenarios : s.requests \in Nat

VARIABLES
    at,         \* the exporter's next step
    request,    \* the command, and whether it wants journal counts
    todo,       \* run ids still to be rendered
    took,       \* RunObservabilityArtifacts of Here, as far as they are loaded
    body,       \* what is rendered so far
    last,       \* the last answer
    answers     \* how many there were

scrapeVars == <<at, request, todo, took, body, last, answers>>
allVars == <<vars, scrapeVars>>

\* serve with and without --run-id, and export.
Commands == {"serve", "serve_run", "export"}
Requests == [command : Commands, journal : BOOLEAN]

NothingTaken ==
    [metadata |-> Absent, metrics |-> Absent, journal |-> <<>>,
     conn |-> [o \in PatchOps |-> Absent]]

\* shown and skipped are run ids; sample is what Here was rendered from; after
\* (history) the invocations that had ended when the request began.
NoRequest == [command |-> "none", journal |-> FALSE]
NoBody == [request |-> NoRequest, after |-> {}, shown |-> {}, skipped |-> {},
           failed |-> FALSE, sample |-> NothingTaken]

ScrapeInit ==
    /\ at = "idle" /\ request = NoRequest
    /\ todo = <<>> /\ took = NothingTaken
    /\ body = NoBody /\ last = NoBody /\ answers = 0

\* The id at the head of the queue is rendered.
NextRun(shown, skipped, sample) ==
    /\ at' = "run"
    /\ todo' = Tail(todo)
    /\ took' = NothingTaken
    /\ body' = [body EXCEPT !.shown = @ \cup shown, !.skipped = @ \cup skipped,
                            !.sample = sample]
    /\ UNCHANGED <<request, last, answers>>

Answer(b) ==
    /\ last' = b
    /\ answers' = answers + 1
    /\ at' = "idle" /\ todo' = <<>>
    /\ took' = NothingTaken /\ body' = NoBody
    /\ UNCHANGED request

Failure == [body EXCEPT !.failed = TRUE, !.shown = {}, !.sample = NothingTaken]

-----------------------------------------------------------------------------
(* Mutated forms: slips that the code could contain. *)

\* A run without connectivity evidence counts as incomplete.
LoadArtifactRequired(o) ==
    /\ at = o
    /\ IF ~Readable(connFile[o]) THEN Answer(Failure)
       ELSE IF o = "probe"
            THEN NextRun({Here}, {}, [took EXCEPT !.conn[o] = connFile[o]])
            ELSE /\ took' = [took EXCEPT !.conn[o] = connFile[o]]
                 /\ at' = "probe"
                 /\ UNCHANGED <<request, todo, body, last, answers>>

\* The journal is read from where the last answer stopped.
LoadJournalTail ==
    /\ at = "journal"
    /\ took' = [took EXCEPT !.journal =
          IF ~request.journal \/ journal = Absent THEN <<>>
          ELSE SubSeq(journal, Len(last.sample.journal) + 1, Len(journal))]
    /\ at' = "readiness"
    /\ UNCHANGED <<request, todo, body, last, answers>>

-----------------------------------------------------------------------------
(* load_run_observability_artifacts *)

\* RunObservabilityError: export reports it and exits 1; serve answers with a
\* comment in the run's place.
Skip ==
    IF request.command = "export" THEN Answer(Failure)
    ELSE NextRun({}, {Here}, NothingTaken)

LoadMetadata ==
    /\ at = "run" /\ todo # <<>> /\ Head(todo) = Here
    /\ IF ~runDir \/ ~Readable(metadata) THEN Skip
       ELSE /\ took' = [took EXCEPT !.metadata = metadata]
            /\ at' = "metrics"
            /\ UNCHANGED <<request, todo, body, last, answers>>

LoadMetrics ==
    /\ at = "metrics"
    /\ IF ~Readable(metrics) THEN Skip
       ELSE /\ took' = [took EXCEPT !.metrics = metrics]
            /\ at' = "journal"
            /\ UNCHANGED <<request, todo, body, last, answers>>

LoadJournal ==
    /\ at = "journal"
    /\ took' = [took EXCEPT !.journal =
          IF request.journal /\ journal # Absent THEN journal ELSE <<>>]
    /\ at' = "readiness"
    /\ UNCHANGED <<request, todo, body, last, answers>>

\* connectivity_readiness.json, then connectivity_probe.json; after the last one
\* the run is rendered.
LoadArtifact(o) ==
    /\ at = o
    /\ LET loaded == [took EXCEPT !.conn[o] = connFile[o]]
       IN  IF Malformed(connFile[o]) THEN Skip
           ELSE IF o = "probe" THEN NextRun({Here}, {}, loaded)
           ELSE /\ took' = loaded
                /\ at' = "probe"
                /\ UNCHANGED <<request, todo, body, last, answers>>

-----------------------------------------------------------------------------
(* render_metrics_text, metrics_export *)

BeginRequest ==
    /\ at = "idle"
    /\ \E r \in Requests :
          /\ r.command # "export" => r.journal
          /\ request' = r
          /\ body' = [NoBody EXCEPT !.request = r, !.after = {p \in Proc : Ended(p)}]
    /\ at' = "discover"
    /\ UNCHANGED <<todo, took, last, answers>>

\* discover_run_ids: the directories under the root, sorted by name.
Discover ==
    /\ at = "discover"
    /\ todo' \in IF request.command = "serve"
                 THEN SetToSeqs(Neighbour \cup (IF runDir THEN {Here} ELSE {}))
                 ELSE {<<Here>>}
    /\ at' = "run"
    /\ UNCHANGED <<request, took, body, last, answers>>

RenderNeighbour ==
    /\ at = "run" /\ todo # <<>> /\ Head(todo) \in Neighbour
    /\ NextRun({Head(todo)}, {}, body.sample)

Respond == at = "run" /\ todo = <<>> /\ Answer(body)

ScrapeStep ==
    \/ Discover \/ RenderNeighbour \/ LoadMetadata \/ LoadMetrics \/ LoadJournal
    \/ \E o \in PatchOps : LoadArtifact(o)
    \/ Respond

RequestsAllowed ==
    \E s \in Scenarios :
        Within(s) /\ answers + (IF at = "idle" THEN 0 ELSE 1) <= s.requests

ScrapeNext ==
    /\ \/ Next /\ UNCHANGED scrapeVars
       \/ (BeginRequest \/ ScrapeStep) /\ UNCHANGED vars
    /\ RequestsAllowed'

ScrapeSpec == Init /\ ScrapeInit /\ [][ScrapeNext]_allVars

-----------------------------------------------------------------------------
(* The gauges of one answer *)

Shown == Here \in last.shown
StatusLabel == last.sample.metadata.status
EventTotal(event) ==
    Cardinality({i \in DOMAIN last.sample.journal : last.sample.journal[i].event = event})

\* paper_heartbeat_total: what the three writers of metrics.json put there.
HeartbeatTotal == IF last.sample.metrics = "placeholder" THEN HeartbeatCount ELSE 0

\* kill_switch_state; NoSeries when metadata.json has no safety key.
NoSeries == -1
KillSwitchState(m) ==
    CASE m.safety = "none"    -> NoSeries
      [] m.safety = "absent"  -> 0
      [] m.safety = "cleared" -> 1
      [] m.safety = "active"  -> 2

-----------------------------------------------------------------------------
(* Properties *)

\* A connectivity line that the answer counts has its artifact in the answer: the
\* journal is read before the artifacts, which are written before the line.
CountedLinesHaveArtifacts ==
    \A o \in PatchOps :
        EventTotal(PatchEntryName(o)) > 0 => last.sample.conn[o] # Absent

\* The gauges of one answer fit together although they were read at different
\* moments: a run is shown only once its execution is over (never as failed or
\* merely initialised), the heartbeats that metrics.json reports are the ones
\* the journal counts, a status never runs ahead of metrics and journal, and no
\* connectivity line is counted without its artifact.
GaugesAgree ==
    Shown =>
        /\ StatusLabel \in {"running", "completed", "safety_blocked"}
        /\ StatusLabel = "completed" => last.sample.metrics # "blocked"
        /\ StatusLabel = "safety_blocked" => last.sample.metrics = "blocked"
        /\ last.request.journal =>
              /\ EventTotal("paper_heartbeat") = HeartbeatTotal
              /\ EventTotal("paper_completed") + EventTotal("backtest_completed")
                   = (IF last.sample.metrics = "blocked" THEN 0 ELSE 1)
        /\ CountedLinesHaveArtifacts

\* One run that cannot be read does not take the others out of the answer: only
\* an export fails, and a scrape of all runs shows every healthy neighbour.
NeighboursShown ==
    /\ last.failed => last.request.command = "export"
    /\ last.request.command = "serve" => Neighbour \subseteq last.shown

\* Commands that take turns, followed by a request that none of them overlaps:
\* the executed run is shown, with its final status, every connectivity artifact
\* and the kill switch state of the last kill command.
SerialRunShown ==
    SerialHistory /\ {p \in Proc : Started(p)} \subseteq last.after =>
        \A p \in last.after : op[p] \in {"backtest", "paper"} =>
            /\ Shown
            /\ StatusLabel = IF Blocked(p) THEN "safety_blocked" ELSE "completed"
            /\ \A q \in last.after : op[q] \in PatchOps =>
                  last.sample.conn[op[q]] # Absent
            /\ \A q \in last.after :
                  /\ op[q] \in KillOps /\ Precedes(p, q)
                  /\ \A k \in last.after : op[k] \in KillOps => k = q \/ Precedes(k, q)
                  => KillSwitchState(last.sample.metadata) =
                        IF op[q] = "activate" THEN 2 ELSE 1

\* No run is hidden by another one's trouble, and a run at rest is shown as it is:
\* together, what an answer owes to those who look at it.
NothingHidden == NeighboursShown /\ SerialRunShown

\* The journal counters of a run never fall from one answer that shows them to the
\* next, whatever the commands do in between: the journal only grows.
CountersNeverFall ==
    [][LET shows(b) == Here \in b.shown /\ b.request.journal
       IN  shows(last) /\ shows(last') =>
             IsPrefix(last.sample.journal, last'.sample.journal)]_allVars

-----------------------------------------------------------------------------
\* "Export metrics to check kill-switch gauge [...] Expected when active:
\* tradingchassis_ops_lab_kill_switch_state{...} 2"
\* (docs/runbooks/safety-gate.md): an answer that shows the run, asked for when
\* every command has ended well, none was a clear, and an activation has patched the
\* metadata of the run.
GaugeShowsActive ==
    /\ Shown
    /\ {p \in Proc : Started(p)} \subseteq last.after
    /\ \A p \in last.after : pc[p] = "done" /\ op[p] # "clear"
    /\ \E p \in last.after : op[p] = "activate" /\ held[p].safety = "active"
    => KillSwitchState(last.sample.metadata) = 2
=============================================================================
