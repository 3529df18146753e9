--------------------------- MODULE EvidenceCompare ---------------------------
(***************************************************************************)
(* `tc evidence compare` (evidence/compare.py, write.py, cli.py) between a *)
(* run that the commands of OpsLab are still writing and another run that  *)
(* is finished or missing.  A comparison looks which artifacts there are,  *)
(* reads them one after another, and writes its JSON and its markdown into *)
(* the directory of the pair.  Several comparisons of the pair may run.    *)
(***************************************************************************)
EXTENDS OpsLab

CONSTANTS
    Comparer,   \* invocations of `evidence compare` for this pair
    Side        \* which side of the pair the live run is on

ASSUME SideAssumption == Side \in {"backtest", "paper"}

\* A comparison is a process of its own.
ASSUME ApartAssumption == Comparer \cap Proc = {}

\* bound: how many comparisons a scenario has, and how many of them may crash
ASSUME ComparerAssumption ==
    \A s \in Scenarios : s.comparers \in Nat /\ s.deadComparers \in Nat

Modes == {"backtest", "paper"}

VARIABLES
    other,      \* the other run: its mode, or "missing"; "unseen" until looked for
    cat,        \* per comparison: the next step
    payload,    \* per comparison: the evidence dict, as far as it is built
    json,       \* backtest_vs_paper_evidence.json
    md,         \* backtest_vs_paper_evidence.md
    earlier     \* history: comparisons and commands that had ended when it began

evidenceVars == <<other, cat, payload, json, md, earlier>>
allVars == <<vars, evidenceVars>>

Core == {"metadata", "metrics", "journal", "report"}

\* What the names stand for in the live run's directory.
IsFile(name) ==
    CASE name = "metadata" -> metadata # Absent
      [] name = "metrics"  -> metrics # Absent
      [] name = "journal"  -> journal # Absent
      [] name = "report"   -> report # Absent
      [] OTHER             -> connFile[name] # Absent

\* meta, metrics, events (names only, as in the summary) and conn are what was
\* loaded of the live run; by names the comparison, as created_at_utc does.
EmptyPayload(c) ==
    [by |-> c, status |-> "missing_artifacts", present |-> {},
     meta |-> InitialMetadata, metrics |-> Absent, events |-> {},
     conn |-> [o \in PatchOps |-> Absent]]

CompareInit ==
    /\ other = "unseen"
    /\ cat = [c \in Comparer |-> "idle"]
    /\ payload = [c \in Comparer |-> EmptyPayload(c)]
    /\ json = Absent /\ md = Absent
    /\ earlier = [c \in Comparer |-> {}]

CompareEnded(c) == cat[c] \in {"done", "failed", "crashed"}
CompareGoto(c, from, to) == cat[c] = from /\ cat' = [cat EXCEPT ![c] = to]

\* The first look at the other run settles what it is.
FindOther == other' \in IF other = "unseen" THEN Modes \cup {"missing"} ELSE {other}

\* One file is loaded; a torn one ends the command before it writes anything.
Load(c, from, to, file, loaded) ==
    /\ IF Malformed(file)
       THEN CompareGoto(c, from, "failed") /\ UNCHANGED payload
       ELSE CompareGoto(c, from, to) /\ payload' = [payload EXCEPT ![c] = loaded]
    /\ UNCHANGED <<other, json, md, earlier>>

\* The mode key of the live run's metadata: its lifecycle sets it once.
RunMode == LET e == CHOOSE e \in Entries : e.event = "run_started" IN op[e.by]

ComparisonStatus ==
    IF RunMode = Side /\ {RunMode, other} = Modes
    THEN "differences_expected" ELSE "incompatible_runs"

-----------------------------------------------------------------------------
(* Mutated forms: slips that the code could contain. *)

\* An optional artifact is required.
DecideWhole(c) ==
    /\ FindOther
    /\ CompareGoto(c, "decide",
          IF Core \cup {"probe"} \subseteq payload[c].present /\ other' # "missing"
          THEN "load_metadata" ELSE "open_json")
    /\ UNCHANGED <<payload, json, md, earlier>>

\* A torn optional artifact counts as none.
LoadConnLenient(c, o) ==
    LET file == IF Malformed(connFile[o]) THEN Absent ELSE connFile[o]
        loaded == [payload[c] EXCEPT !.conn[o] = file]
    IN  IF o = "readiness"
        THEN Load(c, "load_readiness", "load_probe", file, loaded)
        ELSE Load(c, "load_probe", "open_json", file,
                  [loaded EXCEPT !.status = ComparisonStatus])

\* A report that is already there is kept.
OpenEvidenceReportOnce(c) ==
    /\ CompareGoto(c, "open_md", IF md = Absent THEN "flush_md" ELSE "done")
    /\ md' = IF md = Absent THEN Empty ELSE md
    /\ UNCHANGED <<other, payload, json, earlier>>

-----------------------------------------------------------------------------
(* compare_backtest_paper *)

BeginCompare(c) ==
    /\ CompareGoto(c, "idle", "look_probe")
    /\ earlier' = [earlier EXCEPT ![c] = {d \in Comparer : CompareEnded(d)}
                                         \cup {p \in Proc : Ended(p)}]
    /\ UNCHANGED <<other, payload, json, md>>

\* _build_artifact_presence, in the order of the sorted file names.
LookOrder == <<"probe", "readiness", "journal", "metadata", "metrics", "report">>
LookPC == <<"look_probe", "look_readiness", "look_journal", "look_metadata",
            "look_metrics", "look_report", "decide">>

Look(c) ==
    /\ \E i \in DOMAIN LookOrder :
          /\ CompareGoto(c, LookPC[i], LookPC[i+1])
          /\ payload' = [payload EXCEPT ![c].present =
                @ \cup (IF IsFile(LookOrder[i]) THEN {LookOrder[i]} ELSE {})]
    /\ UNCHANGED <<other, json, md, earlier>>

Decide(c) ==
    /\ FindOther
    /\ CompareGoto(c, "decide",
          IF Core \subseteq payload[c].present /\ other' # "missing"
          THEN "load_metadata" ELSE "open_json")
    /\ UNCHANGED <<payload, json, md, earlier>>

LoadMetadata(c) ==
    Load(c, "load_metadata", "load_metrics", metadata, [payload[c] EXCEPT !.meta = metadata])

LoadMetrics(c) ==
    Load(c, "load_metrics", "load_journal", metrics, [payload[c] EXCEPT !.metrics = metrics])

LoadJournal(c) ==
    Load(c, "load_journal", "load_readiness", journal,
         [payload[c] EXCEPT !.events = {e.event : e \in Entries}])

\* The optional artifacts; the status is decided when everything is loaded.
LoadConn(c, o) ==
    LET loaded == [payload[c] EXCEPT !.conn[o] = connFile[o]]
    IN  IF o = "readiness"
        THEN Load(c, "load_readiness", "load_probe", connFile[o], loaded)
        ELSE Load(c, "load_probe", "open_json", connFile[o],
                  [loaded EXCEPT !.status = ComparisonStatus])

-----------------------------------------------------------------------------
(* write_backtest_paper_evidence_artifacts: mkdir, the JSON, the markdown *)

OpenJson(c) ==
    /\ CompareGoto(c, "open_json", "flush_json")
    /\ json' = Empty
    /\ UNCHANGED <<other, payload, md, earlier>>

FlushJson(c) ==
    /\ CompareGoto(c, "flush_json", "open_md")
    /\ json' \in Flush(json, payload[c])
    /\ UNCHANGED <<other, payload, md, earlier>>

OpenEvidenceReport(c) ==
    /\ CompareGoto(c, "open_md", "flush_md")
    /\ md' = Empty
    /\ UNCHANGED <<other, payload, json, earlier>>

FlushEvidenceReport(c) ==
    /\ CompareGoto(c, "flush_md", "done")
    /\ md' \in Flush(md, c)
    /\ UNCHANGED <<other, payload, json, earlier>>

CrashCompare(c) ==
    /\ cat[c] # "idle" /\ ~CompareEnded(c)
    /\ cat' = [cat EXCEPT ![c] = "crashed"]
    /\ UNCHANGED <<other, payload, json, md, earlier>>

CompareStep(c) ==
    \/ BeginCompare(c) \/ Look(c) \/ Decide(c)
    \/ LoadMetadata(c) \/ LoadMetrics(c) \/ LoadJournal(c)
    \/ \E o \in PatchOps : LoadConn(c, o)
    \/ OpenJson(c) \/ FlushJson(c) \/ OpenEvidenceReport(c) \/ FlushEvidenceReport(c)
    \/ CrashCompare(c)

ComparersAllowed ==
    \E s \in Scenarios :
        /\ Within(s)
        /\ Cardinality({c \in Comparer : cat[c] # "idle"}) <= s.comparers
        /\ Cardinality({c \in Comparer : cat[c] = "crashed"}) <= s.deadComparers

EvidenceNext ==
    /\ \/ Next /\ UNCHANGED evidenceVars
       \/ (\E c \in Comparer : CompareStep(c)) /\ UNCHANGED vars
    /\ ComparersAllowed'

EvidenceSpec == Init /\ CompareInit /\ [][EvidenceNext]_allVars

-----------------------------------------------------------------------------
(* safety_summary of the payload *)

\* _paper_safety_states
PaperSafety(e) ==
    IF Side = "paper" /\ e.meta.safety # "none"
    THEN [state |-> e.meta.safety, outcome |-> e.meta.outcome]
    ELSE [state |-> "none", outcome |-> "none"]

-----------------------------------------------------------------------------
(* Properties *)

Compared == Readable(json) /\ json.status # "missing_artifacts"

\* Evidence fits together although every file was read at another moment: an
\* artifact listed as present, or with a line among the events, has its state in
\* the summary; metrics, journal names and status tell of one execution that is
\* over; a lifecycle_outcome agrees with the branch that the journal shows.
EvidenceFits ==
    Compared =>
        /\ \A o \in PatchOps :
              o \in json.present \/ PatchEntryName(o) \in json.events =>
                  json.conn[o] # Absent
        /\ json.meta.status \in {"running", "completed", "safety_blocked"}
        /\ json.meta.status # "running" =>
              (json.meta.status = "safety_blocked" <=> json.metrics = "blocked")
        /\ json.metrics = "smoke" => "backtest_completed" \in json.events
        /\ json.metrics = "placeholder" =>
              {"paper_heartbeat", "paper_completed"} \subseteq json.events
        /\ json.metrics = "blocked" =>
              "paper_safety_blocked" \in json.events /\ "paper_started" \notin json.events
        /\ PaperSafety(json).outcome = "blocked_kill_switch" => json.metrics = "blocked"
        /\ PaperSafety(json).outcome = "checked_continue" => json.metrics # "blocked"

\* A run whose report was complete before the comparison began, opposite a run
\* that is there, is never called missing; and what is called expected is one
\* backtest and one paper run on their own sides.
MissingOnlyIfMissing ==
    \A c \in Comparer : cat[c] = "done" =>
        /\ payload[c].status = "missing_artifacts" =>
              \/ other = "missing"
              \/ \A p \in Proc : op[p] \in Modes /\ pc[p] = "done" => p \notin earlier[c]
        /\ payload[c].status = "differences_expected" =>
              other \in Modes \ {Side} /\ payload[c].metrics =
                 (IF Side = "backtest" THEN "smoke"
                  ELSE IF "paper_started" \in payload[c].events
                       THEN "placeholder" ELSE "blocked")

\* c began after every other comparison had ended, and none began since.
LastToCompare(c) ==
    /\ cat[c] = "done"
    /\ \A d \in Comparer \ {c} : cat[d] # "idle" => d \in earlier[c]

\* The JSON and the markdown of a pair tell of the same comparison once the last
\* one has run alone, whatever earlier ones left behind, torn or half done.
PairAgrees ==
    \A c \in Comparer : LastToCompare(c) => json = payload[c] /\ md = c
=============================================================================
