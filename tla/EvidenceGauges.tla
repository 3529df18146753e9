--------------------------- MODULE EvidenceGauges ---------------------------
(***************************************************************************)
(* The evidence gauges of `tc metrics serve` (observability/metrics.py):   *)
(* the pair directories are listed, their JSON files are read one after    *)
(* another and added up, while comparisons rewrite them.                   *)
(*                                                                         *)
(* Of a comparison only the writing of its JSON is modelled here, and of   *)
(* the JSON its comparison_status; the other sums are taken alike.         *)
(***************************************************************************)
EXTENDS Naturals, FiniteSets, Files

CONSTANTS
    Pair,           \* pair directories under artifacts/evidence
    Writer,         \* invocations of `evidence compare`
    MaxAnswers,     \* bound: answers of the server
    MaxDeadWriters  \* bound: how many comparisons may crash

ComparisonStatus == {"differences_expected", "incompatible_runs", "missing_artifacts"}

ASSUME EvidenceAssumption ==
    /\ NoFile \cap ComparisonStatus = {} /\ Absent \notin {Empty, Garbled}
    /\ IsFiniteSet(Pair)

VARIABLES
    json,       \* per pair: backtest_vs_paper_evidence.json
    wat,        \* per comparison: its next step
    about,      \* per comparison: its pair
    found,      \* per comparison: the status that it found
    at,         \* the server's next step
    todo,       \* listed pairs that are still to be read
    sums,       \* status_counts and skipped_paths, as far as they are
    answer,     \* those of the last answer
    answers,    \* how many there were
    quiet       \* history: no comparison took a step since the request began

serverVars == <<at, todo, sums, answer, answers>>
writerVars == <<wat, about, found>>
gaugeVars == <<json, writerVars, serverVars, quiet>>

NoSums == [count |-> [s \in ComparisonStatus |-> 0], skipped |-> {}]

GaugesInit ==
    /\ json = [d \in Pair |-> Absent]
    /\ wat = [c \in Writer |-> "idle"]
    /\ about \in [Writer -> Pair]
    /\ found \in [Writer -> ComparisonStatus]
    /\ at = "idle" /\ todo = {} /\ sums = NoSums
    /\ answer = NoSums /\ answers = 0
    /\ quiet = TRUE

-----------------------------------------------------------------------------
(* Mutated forms: slips that the code could contain. *)

\* The first file that does not parse ends the loop.
ReadEvidenceBreaks ==
    /\ at = "read"
    /\ \E d \in todo :
          IF Malformed(json[d])
          THEN todo' = {} /\ sums' = [sums EXCEPT !.skipped = @ \cup {d}]
          ELSE todo' = todo \ {d} /\ sums' = [sums EXCEPT !.count[json[d]] = @ + 1]
    /\ UNCHANGED <<json, writerVars, at, answer, answers, quiet>>

-----------------------------------------------------------------------------
(* Comparisons: write_text truncates, then writes *)

OpenEvidence(c) ==
    /\ wat[c] = "idle"
    /\ wat' = [wat EXCEPT ![c] = "flush"]
    /\ json' = [json EXCEPT ![about[c]] = Empty]
    /\ quiet' = FALSE
    /\ UNCHANGED <<about, found, serverVars>>

FlushEvidence(c) ==
    /\ wat[c] = "flush"
    /\ wat' = [wat EXCEPT ![c] = "done"]
    /\ \E f \in Flush(json[about[c]], found[c]) : json' = [json EXCEPT ![about[c]] = f]
    /\ quiet' = FALSE
    /\ UNCHANGED <<about, found, serverVars>>

CrashEvidence(c) ==
    /\ wat[c] = "flush"
    /\ Cardinality({d \in Writer : wat[d] = "crashed"}) < MaxDeadWriters
    /\ wat' = [wat EXCEPT ![c] = "crashed"]
    /\ UNCHANGED <<json, about, found, serverVars, quiet>>

-----------------------------------------------------------------------------
(* _render_evidence_metrics_text *)

\* _iter_evidence_json_paths
ListEvidence ==
    /\ at = "idle" /\ answers < MaxAnswers
    /\ at' = "read"
    /\ todo' = {d \in Pair : json[d] # Absent}
    /\ sums' = NoSums
    /\ quiet' = TRUE
    /\ UNCHANGED <<json, writerVars, answer, answers>>

\* The pairs are read by name; no property tells one order from another.
ReadEvidence ==
    /\ at = "read"
    /\ \E d \in todo :
          /\ todo' = todo \ {d}
          /\ sums' = IF Malformed(json[d])
                     THEN [sums EXCEPT !.skipped = @ \cup {d}]
                     ELSE [sums EXCEPT !.count[json[d]] = @ + 1]
    /\ UNCHANGED <<json, writerVars, at, answer, answers, quiet>>

AnswerEvidence ==
    /\ at = "read" /\ todo = {}
    /\ at' = "idle"
    /\ answer' = sums
    /\ answers' = answers + 1
    /\ UNCHANGED <<json, writerVars, todo, sums, quiet>>

GaugesNext ==
    \/ \E c \in Writer : OpenEvidence(c) \/ FlushEvidence(c) \/ CrashEvidence(c)
    \/ ListEvidence \/ ReadEvidence \/ AnswerEvidence

GaugesSpec == GaugesInit /\ [][GaugesNext]_gaugeVars

-----------------------------------------------------------------------------
(* Properties *)

Total(s) ==
    s.count["differences_expected"] + s.count["incompatible_runs"]
        + s.count["missing_artifacts"]

\* While an answer is put together no listed pair is lost: it is still to be read,
\* counted under one status, or named in a comment, however many of the files are
\* torn while they are read and however many new pairs appear; and none is counted
\* that no comparison has written.
ListedPairsKept ==
    at = "read" =>
        LET written == {about[c] : c \in {d \in Writer : wat[d] # "idle"}}
        IN  /\ todo \cup sums.skipped \subseteq written
            /\ todo \cap sums.skipped = {}
            /\ Cardinality(todo \cup sums.skipped) + Total(sums) <= Cardinality(written)
            /\ quiet => Cardinality(todo \cup sums.skipped) + Total(sums)
                            = Cardinality(written)

\* Every answer accounts for the listed pairs: none is lost while it is put together
\* (ListedPairsKept), and when no comparison took a step meanwhile it is the sum
\* over the files that parse: nothing is left from earlier answers.
EveryPairAccounted ==
    /\ ListedPairsKept
    /\ answers > 0 /\ at = "idle" /\ quiet =>
          /\ \A s \in ComparisonStatus :
                answer.count[s] = Cardinality({d \in Pair : json[d] = s})
          /\ answer.skipped = {d \in Pair : Malformed(json[d])}
=============================================================================
