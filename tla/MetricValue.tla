---------------------------- MODULE MetricValue ----------------------------
(***************************************************************************)
(* The numbers behind the gauges (observability/metrics.py): ISO-8601      *)
(* timestamps of metadata.json and reconciliation_result.json as seconds,  *)
(* the run's duration, and the text that a float becomes.                  *)
(*                                                                         *)
(* A number is its whole seconds and its microseconds, all that an         *)
(* isoformat() or a latency in thousandths of a millisecond holds.  What   *)
(* binary floats add, less than a microsecond in a difference of two       *)
(* timestamps, is left out.                                                *)
(***************************************************************************)
EXTENDS Numbers, FiniteSets

CONSTANT Values     \* numbers to be rendered

MicrosPerSecond == 1000000

Moment == [s : Nat, us : 0..(MicrosPerSecond - 1)]

ASSUME ValueAssumption == Values \subseteq Moment

VARIABLES started, completed
valueVars == <<started, completed>>

-----------------------------------------------------------------------------
(* Mutated forms: slips that the code could contain. *)

\* completed_ts - started_ts without max(0.0, ...)
DurationSigned(from, to) ==
    LET borrow == IF to.us < from.us THEN 1 ELSE 0
    IN  [s  |-> to.s - from.s - borrow,
         us |-> to.us - from.us + MicrosPerSecond * borrow]

-----------------------------------------------------------------------------
\* format(value, "g") keeps six significant digits.
Digits == 6

\* The number of digits before the decimal point.  Bound: ten digits, which are
\* enough for seconds until the year 2286 and for microseconds.
Length(n) == Cardinality({k \in 0..9 : n >= TenTo[k]})

\* Halves go up; which way a binary fraction near one goes is left open.
RoundTo(n, unit) == ((n + unit \div 2) \div unit) * unit

Carry(s, us) == [s |-> s + us \div MicrosPerSecond, us |-> us % MicrosPerSecond]

\* _format_metric_value of a float: a whole number is written out, any other one
\* loses the digits behind the sixth; leading zeros of a fraction do not count.
Rendered(v) ==
    LET before == Length(v.s)
        kept == Digits - before
    IN  IF v.us = 0 THEN v
        ELSE IF kept < 0
             THEN [s |-> RoundTo(v.s, TenTo[before - Digits]), us |-> 0]
             ELSE LET after == IF v.s = 0 THEN Digits + (6 - Length(v.us)) ELSE kept
                  IN  IF after >= 6 THEN v
                      ELSE Carry(v.s, RoundTo(v.us, TenTo[6 - after]))

AtMost(v, w) == v.s < w.s \/ (v.s = w.s /\ v.us <= w.us)

\* run_duration_seconds: max(0.0, completed_ts - started_ts)
Duration(from, to) ==
    IF ~AtMost(from, to) THEN [s |-> 0, us |-> 0]
    ELSE LET borrow == IF to.us < from.us THEN 1 ELSE 0
         IN  [s  |-> to.s - from.s - borrow,
              us |-> to.us - from.us + MicrosPerSecond * borrow]

ValueInit == started \in Values /\ completed \in Values

ValueSpec == ValueInit /\ [][UNCHANGED valueVars]_valueVars

-----------------------------------------------------------------------------
(* Properties *)

\* Durations and latencies below a thousand seconds are shown to the millisecond,
\* those below a second to the microsecond, and none is negative, also when the
\* clock was set back during the run.  The gauges of two moments are never in the
\* wrong order, as long as neither is a whole second: only those escape the rounding.
GaugesOfTime ==
    LET d == Duration(started, completed)
    IN  /\ d.s >= 0
        /\ Rendered([s |-> 0, us |-> d.us]) = [s |-> 0, us |-> d.us]
        /\ d.s < 1000 /\ d.us % 1000 = 0 => Rendered(d) = d
        /\ started.us # 0 /\ completed.us # 0 /\ AtMost(started, completed) =>
              AtMost(Rendered(started), Rendered(completed))

-----------------------------------------------------------------------------
\* "operational facts (timestamps, status, mode, identifiers)" (docs/run-model.md on
\* metadata): a gauge called run_started_timestamp_seconds shows the second.
TimestampToTheSecond ==
    Rendered(started).s \in {started.s, started.s + 1}
=============================================================================
