----------------------------- MODULE RunPhases -----------------------------
(***************************************************************************)
(* What the lifecycle entries of one journal promise their readers (the    *)
(* metrics exporter, evidence compare, an operator): a run starts once,    *)
(* announces its gate decision before it acts on it, beats only while it   *)
(* executes, and closes once.                                              *)
(***************************************************************************)
EXTENDS Naturals

CONSTANT MaxBeats       \* heartbeats of a complete paper execution

VARIABLES phase, beats

Phases == {"none", "initialized", "started", "checked", "blocked", "executing",
           "backtesting", "executed", "completed", "failed"}

PhaseType == phase \in Phases /\ beats \in 0..MaxBeats

PhaseInit == phase = "none" /\ beats = 0

Move(from, to) == phase \in from /\ phase' = to /\ UNCHANGED beats

Initialize == Move({"none"}, "initialized")
Start      == Move({"none"}, "started")
Check      == Move({"started"}, "checked")
Block      == Move({"checked"}, "blocked")
Execute    == Move({"checked"}, "executing")
Backtest   == Move({"started"}, "backtesting")
Fail       == Move({"executing", "backtesting"}, "failed")
Finish     == /\ phase = "executing" => beats = MaxBeats
              /\ Move({"executing", "backtesting"}, "executed")
Complete   == Move({"executed", "blocked"}, "completed")
Beat       == /\ phase = "executing" /\ beats < MaxBeats
              /\ beats' = beats + 1 /\ UNCHANGED phase

PhaseNext == \/ Initialize \/ Start \/ Check \/ Block \/ Execute \/ Backtest
             \/ Beat \/ Fail \/ Finish \/ Complete

PhaseSpec == PhaseInit /\ [][PhaseNext]_<<phase, beats>>
=============================================================================
