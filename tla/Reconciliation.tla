--------------------------- MODULE Reconciliation ---------------------------
(***************************************************************************)
(* The comparison of an expected with an observed account state            *)
(* (reconciliation/checks.py), as operators on validated payloads.         *)
(*                                                                         *)
(* A decimal string is [neg, coef, exp], as Decimal parses it: 1.0 and 1   *)
(* are [FALSE, 10, -1] and [FALSE, 1, 0].  Bad is a string that does not   *)
(* parse, Null a JSON null or a missing key.  Times are integers in ticks. *)
(***************************************************************************)
EXTENDS Numbers, SequencesExt

CONSTANTS
    Null,
    Bad,
    TicksPerSecond      \* resolution of timestamps

ASSUME TickAssumption == TicksPerSecond \in Nat \ {0}

Decimal == [neg : BOOLEAN, coef : Nat, exp : Int]

Severities == <<"ok", "warning", "unknown", "mismatch">>
Precedence(s) == CHOOSE i \in 1..4 : Severities[i] = s

-----------------------------------------------------------------------------
(* Mutated forms: slips that the code could contain. *)

\* Trailing zeros are stripped without looking for a decimal point, and a
\* negative zero keeps its sign.
CanonZeros(d) ==
    LET strip == Max({k \in 0..4 : d.coef % TenTo[k] = 0})
    IN  [neg |-> d.neg, coef |-> d.coef \div TenTo[strip], exp |-> d.exp + strip]

\* Missing orders are reported, extra ones are not.
SameIdsMissing(e, o) == {e[i].id : i \in DOMAIN e} \subseteq {o[i].id : i \in DOMAIN o}

\* An age equal to the limit is stale.
StaleAt(t, now, limit) == limit * TicksPerSecond <= now - t

\* A check that could not be made does not fail the reconciliation.
PassIgnoresUnknown(severities) == "mismatch" \notin severities

-----------------------------------------------------------------------------
(* _render_decimal: the digits of format(value, "f") without the trailing  *)
(* zeros of the fraction, "-0" and "" being "0".                            *)

Canon(d) ==
    IF d.exp >= 0
    THEN [neg |-> d.neg /\ d.coef # 0, coef |-> d.coef * TenTo[d.exp], exp |-> 0]
    ELSE LET strip == Max({k \in 0..(-d.exp) : d.coef % TenTo[k] = 0})
         IN  [neg  |-> d.neg /\ d.coef # 0,
              coef |-> d.coef \div TenTo[strip],
              exp  |-> d.exp + strip]

CanonOrNull(d) == IF d = Null THEN Null ELSE Canon(d)

-----------------------------------------------------------------------------
(* _compare_position *)

PositionNormalizes(p) ==
    /\ p.qty # Bad /\ p.avg # Bad
    /\ p.side = "flat" => p.qty.coef = 0 /\ p.avg = Null

ComparePosition(e, o) ==
    IF ~PositionNormalizes(e) \/ ~PositionNormalizes(o) THEN "unknown"
    ELSE IF /\ e.symbol = o.symbol /\ e.side = o.side
            /\ Canon(e.qty) = Canon(o.qty)
            /\ CanonOrNull(e.avg) = CanonOrNull(o.avg)
         THEN "ok" ELSE "mismatch"

-----------------------------------------------------------------------------
(* _compare_open_orders.  terms stands for symbol, side and type, tag for   *)
(* the two optional fields, which count only when both sides have them.    *)

OrdersCanonicalize(orders) ==
    \A i \in DOMAIN orders :
        /\ orders[i].qty # Bad /\ orders[i].price # Bad
        /\ \A j \in DOMAIN orders : orders[i].id = orders[j].id => i = j

SameIds(e, o) == {e[i].id : i \in DOMAIN e} = {o[i].id : i \in DOMAIN o}

OrderAgrees(e, o) ==
    /\ e.terms = o.terms
    /\ Canon(e.qty) = Canon(o.qty)
    /\ CanonOrNull(e.price) = CanonOrNull(o.price)
    /\ e.tag # Null /\ o.tag # Null => e.tag = o.tag

CompareOpenOrders(e, o) ==
    IF ~OrdersCanonicalize(e) \/ ~OrdersCanonicalize(o) THEN "unknown"
    ELSE IF /\ SameIds(e, o)
            /\ \A i \in DOMAIN e, j \in DOMAIN o : e[i].id = o[j].id => OrderAgrees(e[i], o[j])
         THEN "ok" ELSE "mismatch"

-----------------------------------------------------------------------------
(* _compare_freshness.  A freshness object is [position, orders, maxAge].   *)

ResolveMaxAge(e, o) ==
    IF o # Null /\ o.maxAge # Null THEN o.maxAge
    ELSE IF e # Null THEN e.maxAge ELSE Null

\* Whole seconds, rounded towards zero, and never below zero.
AgeSeconds(t, now) == IF now < t THEN 0 ELSE (now - t) \div TicksPerSecond

Stale(t, now, limit) == AgeSeconds(t, now) > limit

CompareFreshness(e, o, now) ==
    LET limit == ResolveMaxAge(e, o)
    IN  IF \/ limit = Null \/ o = Null
           \/ {o.position, o.orders} \cap {Null, Bad} # {}
        THEN "unknown"
        ELSE IF Stale(o.position, now, limit) \/ Stale(o.orders, now, limit)
        THEN "warning" ELSE "ok"

-----------------------------------------------------------------------------
(* run_reconciliation_check, without its files *)

\* The severities of the three checks, by name.
Checks(e, o, now) ==
    [position    |-> ComparePosition(e.position, o.position),
     open_orders |-> CompareOpenOrders(e.orders, o.orders),
     freshness   |-> CompareFreshness(e.freshness, o.freshness, now)]

CheckSeverities(checks) == {checks[name] : name \in DOMAIN checks}

\* _rollup_status: the severity that comes last in _SEVERITY_ORDER.
Rollup(severities) ==
    CHOOSE s \in severities : \A t \in severities : Precedence(t) <= Precedence(s)

Status(checks) == Rollup(CheckSeverities(checks))

\* The "pass" flag comes from the counts of the summary, not from the status.
Pass(severities) == "mismatch" \notin severities /\ "unknown" \notin severities

\* `tc reconcile check` decides its exit code by the status.
ExitCode(status) == IF status \in {"mismatch", "unknown"} THEN 1 ELSE 0
=============================================================================
