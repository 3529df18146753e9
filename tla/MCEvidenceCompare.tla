-------------------------- MODULE MCEvidenceCompare --------------------------
(* Instances of EvidenceCompare for TLC. *)
EXTENDS EvidenceCompare

CONSTANTS p1, p2, c1, c2

Scene(a, b, crashes, many, dead) ==
    [plan |-> p1 :> a @@ p2 :> b, first |-> {}, crashes |-> crashes,
     comparers |-> many, deadComparers |-> dead]

\* One comparison beside a lifecycle and a command that patches its run, and beside a
\* lifecycle that crashes; two comparisons of the pair beside a lifecycle.
Comparing == {Scene({"backtest"}, {"probe", "activate"}, 0, 1, 0),
              Scene(Modes, {}, 1, 1, 0),
              Scene({"backtest"}, {}, 0, 2, 1)}

SwapComparers == Permutations({c1, c2})
=============================================================================
