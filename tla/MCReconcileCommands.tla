------------------------- MODULE MCReconcileCommands ------------------------
(* Commands on one run directory on 2026-06-01.                              *)
EXTENDS DrillScrape

CONSTANTS p1, p2, p3

MCProc == {p1, p2, p3}
FirstOfJune == MayOf2026 + 11 * 86400

Scene(a, b, c, export) == [plan |-> p1 :> a @@ p2 :> b @@ p3 :> c, export |-> export]

\* p2 and p3 can run the same drill, and both share the result file with p1's
\* check; then two commands beside an export.
Sharing == {Scene({"check"}, {"stale_market_data", "restart_recovery"}, FixtureDrills, FALSE),
            Scene({"check", "stale_market_data"}, Drills, {}, TRUE)}
Recovery == {Scene({"restart_recovery"}, {}, {}, FALSE)}
=============================================================================
