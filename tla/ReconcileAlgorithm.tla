------------------------- MODULE ReconcileAlgorithm -------------------------
(***************************************************************************)
(* The reconciliation verdict against reference definitions, over every    *)
(* pair of payloads from small sets.                                       *)
(***************************************************************************)
EXTENDS Reconciliation

CONSTANTS
    Families,       \* sets of expected payloads, each with a set of observed ones
    Now             \* the time of the check

\* _validate_freshness: a limit is a positive whole number or null; a timestamp
\* may also be a string that does not parse.
ValidFreshness(f) ==
    \/ f = Null
    \/ /\ f.maxAge \in Nat \ {0} \/ f.maxAge = Null
       /\ \A t \in {f.position, f.orders} : t \in Int \/ t \in {Null, Bad}

\* _validate_position_block, _validate_open_orders: a quantity is a string, an average
\* or a price may also be null.
ValidNumbers(qty, price) == qty \in Decimal \cup {Bad} /\ price \in Decimal \cup {Null, Bad}

ASSUME DecimalAssumption == Null \notin Decimal /\ Bad \notin Decimal /\ Null # Bad

ASSUME PayloadAssumption ==
    /\ Now \in Int
    /\ \A f \in Families : \A p \in f.expected \cup f.observed :
          /\ ValidFreshness(p.freshness)
          /\ ValidNumbers(p.position.qty, p.position.avg)
          /\ \A i \in DOMAIN p.orders : ValidNumbers(p.orders[i].qty, p.orders[i].price)

VARIABLES expected, observed, checks

algVars == <<expected, observed, checks>>

NoChecks == <<>>

AlgInit ==
    /\ checks = NoChecks
    /\ \E f \in Families : expected \in f.expected /\ observed \in f.observed

Check ==
    /\ checks = NoChecks
    /\ checks' = Checks(expected, observed, Now)
    /\ UNCHANGED <<expected, observed>>

AlgNext == Check

AlgSpec == AlgInit /\ [][AlgNext]_algVars

Checked == checks # NoChecks

-----------------------------------------------------------------------------
(* Reference definitions *)

\* The signed value of a decimal, in units of 10^unit.
ValueIn(d, unit) == (IF d.neg THEN -1 ELSE 1) * (d.coef * TenTo[d.exp - unit])

\* The same number, counted in units of the last digit of the finer one.
SameValue(a, b) ==
    LET unit == IF a.exp < b.exp THEN a.exp ELSE b.exp
    IN  ValueIn(a, unit) = ValueIn(b, unit)

Equal(a, b) == IF a = Null \/ b = Null THEN a = b ELSE SameValue(a, b)

\* The position check says "ok" for the same number however it is spelled, and
\* for nothing else; it does not matter which side is which.
PositionByValue ==
    Checked =>
        LET e == expected.position  o == observed.position
        IN  /\ checks.position = ComparePosition(o, e)
            /\ checks.position # "unknown" =>
                 (checks.position = "ok" <=>
                    /\ e.symbol = o.symbol /\ e.side = o.side
                    /\ Equal(e.qty, o.qty) /\ Equal(e.avg, o.avg))

\* The order check says "ok" exactly when the two books have the same ids and the
\* same orders behind them, in any sequence, and it is symmetric.
OrdersByContent ==
    Checked =>
        LET e == expected.orders  o == observed.orders
            Agree(a, b) == /\ a.id = b.id /\ a.terms = b.terms
                           /\ Equal(a.qty, b.qty) /\ Equal(a.price, b.price)
                           /\ a.tag = Null \/ b.tag = Null \/ a.tag = b.tag
        IN  /\ checks.open_orders = CompareOpenOrders(o, e)
            /\ checks.open_orders # "unknown" =>
                 (checks.open_orders = "ok" <=>
                    /\ \A a \in ToSet(e) : \E b \in ToSet(o) : Agree(a, b)
                    /\ \A b \in ToSet(o) : \E a \in ToSet(e) : Agree(a, b))

\* Data is stale from one full second beyond max_age_seconds on: an age of exactly
\* the limit, or a fraction of a second more, is fresh, and so is a timestamp in
\* the future.
StaleBeyondLimit ==
    Checked /\ checks.freshness # "unknown" =>
        LET o == observed.freshness
            limit == IF o.maxAge # Null THEN o.maxAge ELSE expected.freshness.maxAge
            oldest == IF o.position < o.orders THEN o.position ELSE o.orders
        IN  checks.freshness = "warning" <=>
                Now - oldest >= (limit + 1) * TicksPerSecond

\* Three places decide whether a reconciliation passed, each in its own way: the
\* exit code by the rolled up status, the "pass" flag by the summary counts, the
\* status by severity order.  They agree, and nothing milder masks a mismatch.
VerdictsAgree ==
    Checked =>
        LET s == CheckSeverities(checks)
        IN  /\ ExitCode(Status(checks)) = 0 <=> Pass(s)
            /\ "mismatch" \in s => Status(checks) = "mismatch"
            /\ Status(checks) = "ok" => s = {"ok"}
=============================================================================
