---------------------------- MODULE MCStandalone ----------------------------
(***************************************************************************)
(* Three components that share no file: one probe; three commands on one   *)
(* data set of one row more than the strategy acts on, where an earlier    *)
(* checkout left nothing, a header, or one or two rows less; a server that *)
(* answers twice about two pairs that three comparisons write.  In each    *)
(* behaviour one of them is awake and the others stay as they began.       *)
(***************************************************************************)
EXTENDS Probe, Datasets, EvidenceGauges

MCEarlier == {Absent, 0, ActionBar - 1, ActionBar}

VARIABLE awake
allVars == <<probeVars, dataVars, gaugeVars, awake>>

DataIdle == DataInit /\ candles = Absent
GaugesIdle ==
    /\ GaugesInit
    /\ about \in [Writer -> {CHOOSE d \in Pair : TRUE}]
    /\ found \in [Writer -> {"missing_artifacts"}]

Init ==
    \/ awake = "probe" /\ ProbeInit /\ DataIdle /\ GaugesIdle
    \/ awake = "data" /\ ProbeInit /\ DataInit /\ GaugesIdle
    \/ awake = "gauges" /\ ProbeInit /\ DataIdle /\ GaugesInit

Next ==
    /\ \/ awake = "probe" /\ ProbeNext /\ UNCHANGED <<dataVars, gaugeVars>>
       \/ awake = "data" /\ DataNext /\ UNCHANGED <<probeVars, gaugeVars>>
       \/ awake = "gauges" /\ GaugesNext /\ UNCHANGED <<probeVars, dataVars>>
    /\ UNCHANGED awake

Spec == Init /\ [][Next]_allVars /\ (awake = "probe" => ProbeFairness)

\* The GET ends (ProbeEnds), also when the endpoint never answers, in the
\* behaviours in which the probe is the component that runs.
AwakeProbeEnds == awake = "probe" => ProbeEnds
=============================================================================
