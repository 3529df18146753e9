----------------------------- MODULE MCRunScrape -----------------------------
(* Instances of RunScrape for TLC: two invocations and the exporter. *)
EXTENDS RunScrape

CONSTANTS p1, p2, r1

Scene(a, b, crashes, requests) ==
    [plan |-> p1 :> a @@ p2 :> b, first |-> {}, crashes |-> crashes, requests |-> requests]

\* One request beside a run and a command that patches it, and beside a crash; two
\* requests beside a backtest and an activation.
Writing == {Scene({"backtest", "paper"}, {"probe", "readiness"}, 0, 1),
            Scene({"backtest"}, {"activate"}, 1, 1),
            Scene({"backtest"}, {"activate"}, 0, 2)}
Active  == {Scene({"paper"}, {"activate"}, 0, 1)}
=============================================================================
