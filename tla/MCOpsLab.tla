------------------------------ MODULE MCOpsLab ------------------------------
(* Instances of OpsLab for TLC: three invocations, typed by scenarios. *)
EXTENDS OpsLab

CONSTANTS p1, p2, p3

After(first, a, b, c, crashes) ==
    [plan |-> p1 :> a @@ p2 :> b @@ p3 :> c, first |-> first, crashes |-> crashes]
Scene(a, b, c, crashes) == After({}, a, b, c, crashes)

\* The gate: a paper run beside an activation, and beside what follows one.
\* Patches: two commands that change the files of a run while it runs.
Patching == {Scene({"paper"}, {"activate"}, {}, 1),
             After({p2}, {"paper"}, {"activate"}, {"clear", "activate"}, 1),
             Scene({"paper"}, {"activate"}, {"readiness"}, 1),
             Scene({"paper"}, {"probe"}, {"readiness"}, 0),
             Scene({}, {"probe", "activate"}, {"readiness"}, 1)}
\* Two lifecycles race for the run_id, next to an activation when one of them is
\* a paper run; a lifecycle next to a command that changes files it uses.
Racing == {Scene(RunOps, RunOps, {}, 1),
           Scene({"paper"}, {"paper", "backtest"}, {"activate"}, 0),
           Scene(RunOps, {}, {"probe"}, 1), Scene({"paper"}, {}, {"activate"}, 1)}
Rerun  == {Scene({"paper"}, {"paper", "init"}, {"clear"}, 0)}
=============================================================================
