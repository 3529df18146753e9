------------------------------- MODULE PairId -------------------------------
(***************************************************************************)
(* The directory that a backtest vs. paper comparison writes to            *)
(* (evidence/write.py): two run ids are validated and joined with a double *)
(* underscore, which each of them may contain.                             *)
(*                                                                         *)
(* A string is a sequence of characters.  "a" stands for the letters, the  *)
(* digits and the dash, "/" for a path separator, "!" for whatever else    *)
(* the pattern of a run id does not allow, " " for white space.            *)
(***************************************************************************)
EXTENDS Naturals, Sequences

CONSTANT RawIds     \* the values given for --backtest-run-id and --paper-run-id

Char == {"a", "_", ".", "/", "!", " "}
ASSUME RawAssumption == RawIds \subseteq Seq(Char)

VARIABLE given      \* the two run ids of one command
pairVars == <<given>>

Doubled(s, c) == \E i \in 1..(Len(s) - 1) : s[i] = c /\ s[i+1] = c

-----------------------------------------------------------------------------
(* Mutated forms: slips that the code could contain. *)

JoinSingle(left, right) == left \o <<"_">> \o right
-----------------------------------------------------------------------------
(* validate_artifact_id *)

Strip(s) ==
    LET kept == {i \in DOMAIN s : s[i] # " "}
    IN  IF kept = {} THEN <<>>
        ELSE SubSeq(s, CHOOSE i \in kept : \A j \in kept : i <= j,
                       CHOOSE i \in kept : \A j \in kept : j <= i)

\* The pattern leaves "." and ".." to the check before it.
IdChar == {"a", "_", "."}
Accepted(s) ==
    /\ s # <<>>
    /\ s # <<".">>
    /\ ~Doubled(s, ".")
    /\ \A i \in DOMAIN s : s[i] \in IdChar

\* build_backtest_paper_pair_id of two ids that were accepted.
Join(left, right) == left \o <<"_", "_">> \o right

\* build_backtest_paper_evidence_paths: the directory under the evidence root, or
\* none when one of the ids is turned away.
Directory(raw) ==
    IF Accepted(Strip(raw[1])) /\ Accepted(Strip(raw[2]))
    THEN {Join(Strip(raw[1]), Strip(raw[2]))} ELSE {}

PairIdInit == given \in RawIds \X RawIds

PairIdSpec == PairIdInit /\ [][UNCHANGED given]_pairVars

-----------------------------------------------------------------------------
(* Properties *)

\* No backtest id that ends in an underscore or contains two in a row.
Separable(left) == left # <<>> => left[Len(left)] # "_" /\ ~Doubled(left, "_")

\* Two pairs share a directory only when a backtest id could hide the separator:
\* otherwise a comparison overwrites evidence of its own two runs and of no others.
PairsApart ==
    Separable(Strip(given[1])) =>
        \A dir \in Directory(given), raw \in RawIds \X RawIds :
            Separable(Strip(raw[1])) /\ dir \in Directory(raw) =>
                \A side \in 1..2 : Strip(given[side]) = Strip(raw[side])
=============================================================================
