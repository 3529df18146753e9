-------------------------- MODULE StandaloneProofs --------------------------
(***************************************************************************)
(* Proofs about the parts that share no file with a run, for inputs of any *)
(* size and not only for the small ones that TLC enumerates: the verdicts  *)
(* of a reconciliation, the names of pair directories and the run spec;    *)
(* the probe's GET, the data commands, the evidence gauges and the numbers *)
(* behind the gauges.                                                      *)
(***************************************************************************)
EXTENDS ReconcileAlgorithm, PairId, RunSpec, Probe, Datasets, EvidenceGauges, MetricValue,
        ReconciliationLemmas, SequenceTheorems, FiniteSetTheorems

-----------------------------------------------------------------------------
(* The three verdicts of a reconciliation *)

\* A verdict is either outstanding or the comparison of the two payloads.
ChecksInv == checks = NoChecks \/ checks = Checks(expected, observed, Now)

LEMMA ChecksInvariant == AlgSpec => []ChecksInv
<1>1. AlgInit => ChecksInv
  BY DEF AlgInit, ChecksInv
<1>2. ChecksInv /\ [AlgNext]_algVars => ChecksInv'
  BY DEF ChecksInv, AlgNext, Check, Checks, algVars
<1> QED
  BY <1>1, <1>2, PTL DEF AlgSpec

\* Exit code, pass flag and status of run_reconciliation_check agree, and no
\* milder severity masks a mismatch: for every family of payloads and every Now.
THEOREM VerdictsAlwaysAgree == AlgSpec => []VerdictsAgree
<1>1. ChecksInv => VerdictsAgree
  <2> SUFFICES ASSUME ChecksInv, Checked
               PROVE  LET s == CheckSeverities(checks)
                      IN  /\ ExitCode(Status(checks)) = 0 <=> Pass(s)
                          /\ "mismatch" \in s => Status(checks) = "mismatch"
                          /\ Status(checks) = "ok" => s = {"ok"}
    BY DEF VerdictsAgree
  <2>1. checks = Checks(expected, observed, Now)
    BY DEF ChecksInv, Checked
  <2>2. /\ CheckSeverities(checks) \subseteq SeveritySet
        /\ CheckSeverities(checks) # {}
    BY <2>1, SeveritiesOfChecks
  <2> QED
    BY <2>2, ExitCodeMatchesPass DEF Status
<1> QED
  BY <1>1, ChecksInvariant, PTL

-----------------------------------------------------------------------------
(* The freshness check *)

\* The payloads passed _validate_payload.
Valid(payload) ==
    /\ ValidFreshness(payload.freshness)
    /\ ValidNumbers(payload.position.qty, payload.position.avg)
    /\ \A i \in DOMAIN payload.orders :
          ValidNumbers(payload.orders[i].qty, payload.orders[i].price)

ValidInv == Valid(expected) /\ Valid(observed)

LEMMA ValidInvariant == AlgSpec => []ValidInv
<1>1. AlgInit => ValidInv
  BY PayloadAssumption DEF AlgInit, ValidInv, Valid
<1>2. ValidInv /\ [AlgNext]_algVars => ValidInv'
  BY DEF ValidInv, AlgNext, Check, algVars
<1> QED
  BY <1>1, <1>2, PTL DEF AlgSpec

\* The older of two moments decides whether one of them is stale.
LEMMA OlderDecides ==
    ASSUME NEW s \in Int, NEW t \in Int, NEW now \in Int, NEW limit \in Nat
    PROVE  Stale(s, now, limit) \/ Stale(t, now, limit) <=>
             now - (IF s < t THEN s ELSE t) >= (limit + 1) * TicksPerSecond
<1> DEFINE bound == (limit + 1) * TicksPerSecond
<1>1. bound \in Nat
  BY TickAssumption, ProductIsNat
<1>2. /\ Stale(s, now, limit) <=> now - s >= bound
      /\ Stale(t, now, limit) <=> now - t >= bound
  BY AgeBeyondLimit
<1> HIDE DEF bound
<1>3. now - s >= bound \/ now - t >= bound <=> now - (IF s < t THEN s ELSE t) >= bound
  BY <1>1
<1> QED
  BY <1>2, <1>3 DEF bound

\* The freshness check of run_reconciliation_check warns from one full second
\* beyond max_age_seconds on and not before: for every resolution of timestamps,
\* every limit, and moments on either side of the time of the check.
THEOREM StalenessIsExact == AlgSpec => []StaleBeyondLimit
<1>1. ChecksInv /\ ValidInv => StaleBeyondLimit
  <2> DEFINE e == expected.freshness
             o == observed.freshness
             limit == ResolveMaxAge(e, o)
  <2> SUFFICES ASSUME ChecksInv, ValidInv, Checked, checks.freshness # "unknown"
               PROVE  checks.freshness = "warning" <=>
                        Now - (IF o.position < o.orders THEN o.position ELSE o.orders)
                          >= ((IF o.maxAge # Null THEN o.maxAge ELSE e.maxAge) + 1)
                               * TicksPerSecond
    BY DEF StaleBeyondLimit
  <2>1. checks.freshness = CompareFreshness(e, o, Now)
    BY DEF ChecksInv, Checked, Checks
  <2>2. o # Null /\ limit # Null /\ {o.position, o.orders} \cap {Null, Bad} = {}
    BY <2>1 DEF CompareFreshness
  <2>3. limit = IF o.maxAge # Null THEN o.maxAge ELSE e.maxAge
    BY <2>2 DEF ResolveMaxAge
  <2>4. limit \in Nat /\ o.position \in Int /\ o.orders \in Int
    BY <2>2 DEF ValidInv, Valid, ValidFreshness, ResolveMaxAge
  <2>5. checks.freshness = "warning" <=>
          Stale(o.position, Now, limit) \/ Stale(o.orders, Now, limit)
    BY <2>1, <2>2 DEF CompareFreshness
  <2> HIDE DEF e, o, limit
  <2> QED
    BY <2>3, <2>4, <2>5, OlderDecides, PayloadAssumption
<1> QED
  BY <1>1, ChecksInvariant, ValidInvariant, PTL

-----------------------------------------------------------------------------
(* Positions and orders: decimals compare as the numbers they spell *)

\* The value of a decimal in its own last digits, and what a finer unit makes of it.
Signed(d) == IF d.neg THEN -d.coef ELSE d.coef

LEMMA ValueIsScaled ==
    ASSUME NEW d \in Decimal, NEW u \in Int, u <= d.exp
    PROVE  Signed(d) \in Int /\ ValueIn(d, u) = Signed(d) * TenTo[d.exp - u]
<1>1. d.coef \in Nat /\ d.exp - u \in Nat
  BY DEF Decimal
<1> DEFINE w == TenTo[d.exp - u]
<1>2. w \in Nat
  BY <1>1, TenToGrows
<1> HIDE DEF w
<1>3. CASE d.neg
  <2>1. Signed(d) = -d.coef
    BY <1>3 DEF Signed
  <2>2. (-1) * (d.coef * w) = (-d.coef) * w
    BY <1>1, <1>2
  <2> QED BY <1>1, <1>3, <2>1, <2>2 DEF ValueIn, w
<1>4. CASE ~d.neg
  <2>1. Signed(d) = d.coef
    BY <1>4 DEF Signed
  <2>2. 1 * (d.coef * w) = d.coef * w
    BY <1>1, <1>2
  <2> QED BY <1>1, <1>4, <2>1, <2>2 DEF ValueIn, w
<1> QED BY <1>3, <1>4

\* Any common unit tells whether two decimals are the same number.
LEMMA AnyUnitDecides ==
    ASSUME NEW a \in Decimal, NEW b \in Decimal, NEW u \in Int, u <= a.exp, u <= b.exp
    PROVE  SameValue(a, b) <=> ValueIn(a, u) = ValueIn(b, u)
<1> DEFINE m == IF a.exp < b.exp THEN a.exp ELSE b.exp
           k == m - u
<1>1. m \in Int /\ m <= a.exp /\ m <= b.exp /\ k \in Nat /\ a.exp \in Int /\ b.exp \in Int
  BY DEF Decimal
<1>2. SameValue(a, b) <=> ValueIn(a, m) = ValueIn(b, m)
  BY DEF SameValue
<1> HIDE DEF m
<1>3. ASSUME NEW d \in Decimal, m <= d.exp, u <= d.exp
      PROVE  ValueIn(d, m) \in Int /\ ValueIn(d, u) = ValueIn(d, m) * TenTo[k]
  <2>1. d.exp \in Int /\ d.exp - m \in Nat /\ d.exp - u = (d.exp - m) + k
    BY <1>1, <1>3 DEF Decimal
  <2> DEFINE v == TenTo[d.exp - m]
             w == TenTo[k]
  <2>2. v \in Nat /\ w \in Nat /\ TenTo[d.exp - u] = v * w
    BY <1>1, <2>1, TenToGrows, TenToAdds
  <2> HIDE DEF k
  <2>3. Signed(d) \in Int /\ ValueIn(d, m) = Signed(d) * v /\ ValueIn(d, u) = Signed(d) * (v * w)
    BY <1>1, <1>3, <2>2, ValueIsScaled
  <2> HIDE DEF v, w
  <2>4. \A x \in Int : x * (v * w) = (x * v) * w /\ x * v \in Int
    BY <2>2
  <2> QED BY <2>3, <2>4 DEF w
<1>4. TenTo[k] \in Nat \ {0}
  BY <1>1, TenToGrows
<1>5. \A x, y \in Int, w \in Nat \ {0} : x * w = y * w => x = y
  OBVIOUS
<1> HIDE DEF k
<1>6. /\ ValueIn(a, m) \in Int /\ ValueIn(a, u) = ValueIn(a, m) * TenTo[k]
      /\ ValueIn(b, m) \in Int /\ ValueIn(b, u) = ValueIn(b, m) * TenTo[k]
  BY <1>1, <1>3
<1> QED BY <1>2, <1>4, <1>5, <1>6

LEMMA SameValueIsTransitive ==
    ASSUME NEW a \in Decimal, NEW b \in Decimal, NEW c \in Decimal,
           SameValue(a, b), SameValue(b, c)
    PROVE  SameValue(a, c)
<1>1. PICK u \in Int : u <= a.exp /\ u <= b.exp /\ u <= c.exp
  <2>1. a.exp \in Int /\ b.exp \in Int /\ c.exp \in Int
    BY DEF Decimal
  <2> QED BY <2>1
<1> QED BY <1>1, AnyUnitDecides

LEMMA SameValueIsSymmetric ==
    ASSUME NEW a \in Decimal, NEW b \in Decimal
    PROVE  SameValue(a, b) <=> SameValue(b, a)
<1>1. PICK u \in Int : u <= a.exp /\ u <= b.exp
  <2>1. a.exp \in Int /\ b.exp \in Int
    BY DEF Decimal
  <2> QED BY <2>1
<1> QED BY <1>1, AnyUnitDecides

\* What _render_decimal leaves: no zeros at the end of a fraction, no sign of zero.
IsCanonical(d) ==
    /\ d \in Decimal /\ d.exp <= 0
    /\ d.neg => d.coef # 0
    /\ d.exp < 0 => d.coef % 10 # 0

\* Two different normal forms are two different numbers.
LEMMA NormalUnique ==
    ASSUME NEW a, NEW b, IsCanonical(a), IsCanonical(b), SameValue(a, b), a.exp <= b.exp
    PROVE  a = b
<1>1. /\ a \in Decimal /\ b \in Decimal
      /\ a.coef \in Nat /\ b.coef \in Nat /\ a.exp \in Int /\ b.exp \in Int
      /\ a.neg \in BOOLEAN /\ b.neg \in BOOLEAN /\ b.exp - a.exp \in Nat
  BY DEF IsCanonical, Decimal
<1> DEFINE w == TenTo[b.exp - a.exp]
<1>2. w \in Nat \ {0}
  BY <1>1, TenToGrows
<1>3. Signed(a) = Signed(b) * w
  <2>1. ValueIn(a, a.exp) = ValueIn(b, a.exp)
    BY <1>1, AnyUnitDecides
  <2>2. a.exp - a.exp = 0 /\ TenTo[0] = 1
    BY <1>1, TenToGrows
  <2>3. Signed(a) \in Int /\ ValueIn(a, a.exp) = Signed(a) * 1
    BY <1>1, <2>2, ValueIsScaled
  <2>4. ValueIn(b, a.exp) = Signed(b) * w
    BY <1>1, ValueIsScaled
  <2>5. Signed(a) * 1 = Signed(a)
    BY <2>3
  <2> QED BY <2>1, <2>3, <2>4, <2>5
<1> HIDE DEF w
<1>4. a.coef = b.coef * w /\ a.neg = b.neg
  <2>1. b.coef * w \in Nat /\ (b.coef # 0 => b.coef * w # 0)
    BY <1>1, <1>2
  <2>2. (-b.coef) * w = -(b.coef * w)
    BY <1>1, <1>2
  <2>3. CASE a.neg /\ b.neg
    BY <1>1, <1>3, <2>1, <2>2, <2>3 DEF Signed
  <2>4. CASE ~a.neg /\ ~b.neg
    BY <1>1, <1>3, <2>1, <2>2, <2>4 DEF Signed
  <2>5. CASE a.neg /\ ~b.neg
    <3>1. a.coef # 0 /\ -a.coef = b.coef * w
      BY <1>3, <2>5 DEF Signed, IsCanonical
    <3> QED BY <1>1, <2>1, <3>1
  <2>6. CASE ~a.neg /\ b.neg
    <3>1. b.coef # 0 /\ a.coef = -(b.coef * w)
      BY <1>3, <2>2, <2>6 DEF Signed, IsCanonical
    <3> QED BY <1>1, <2>1, <3>1
  <2> QED BY <2>3, <2>4, <2>5, <2>6
<1>5. a.exp = b.exp
  <2> SUFFICES ASSUME a.exp # b.exp PROVE FALSE
    OBVIOUS
  <2>1. PICK k \in Nat : b.exp - a.exp = k + 1
    <3>1. b.exp - a.exp # 0
      BY <1>1
    <3>2. (b.exp - a.exp) - 1 \in Nat
      BY <1>1, <3>1
    <3> QED BY <1>1, <3>2
  <2>2. PICK v \in Nat : w = 10 * v
    BY <2>1, TenToGrows DEF w
  <2>3. b.coef * (10 * v) = 10 * (b.coef * v) /\ b.coef * v \in Nat
    BY <1>1
  <2>4. a.coef % 10 = 0
    BY <1>4, <2>2, <2>3, Multiples
  <2>5. a.exp < 0
    BY <1>1 DEF IsCanonical
  <2> QED BY <2>4, <2>5 DEF IsCanonical
<1>6. w = 1
  BY <1>1, <1>5, TenToGrows DEF w
<1> QED BY <1>1, <1>4, <1>5, <1>6 DEF Decimal

LEMMA CanonNormal ==
    ASSUME NEW d \in Decimal
    PROVE  IsCanonical(Canon(d)) /\ SameValue(d, Canon(d))
<1>0. d.coef \in Nat /\ d.neg \in BOOLEAN /\ d.exp \in Int
  BY DEF Decimal
\* What remains to be shown of a coefficient and an exponent that Canon returns.
<1>1. ASSUME NEW c \in Nat, NEW x \in Int, NEW u \in Int, x <= 0, u <= x, u <= d.exp,
             Canon(d) = [neg |-> d.neg /\ d.coef # 0, coef |-> c, exp |-> x],
             c * TenTo[x - u] = d.coef * TenTo[d.exp - u], x < 0 => c % 10 # 0,
             d.coef # 0 => c # 0
      PROVE  IsCanonical(Canon(d)) /\ SameValue(d, Canon(d))
  <2>1. Canon(d) \in Decimal /\ Canon(d).exp = x /\ Canon(d).coef = c
        /\ Canon(d).neg = (d.neg /\ d.coef # 0)
    BY <1>0, <1>1 DEF Decimal
  <2>2. IsCanonical(Canon(d))
    BY <1>1, <2>1 DEF IsCanonical
  <2>3. ValueIn(d, u) = ValueIn(Canon(d), u)
    <3> DEFINE v == d.coef * TenTo[d.exp - u]
    <3>1. d.exp - u \in Nat
      BY <1>0, <1>1
    <3>2. v \in Nat /\ (d.coef = 0 => v = 0)
      BY <1>0, <3>1, TenToGrows
    <3>3. /\ ValueIn(d, u) = (IF d.neg THEN -1 ELSE 1) * v
          /\ ValueIn(Canon(d), u) = (IF Canon(d).neg THEN -1 ELSE 1) * v
      BY <1>1, <2>1 DEF ValueIn
    <3> HIDE DEF v
    <3>4. CASE d.coef = 0
      <4>1. (-1) * 0 = 0 /\ 1 * 0 = 0
        OBVIOUS
      <4> QED BY <3>2, <3>3, <3>4, <4>1
    <3>5. CASE d.coef # 0
      <4>1. Canon(d).neg = d.neg
        BY <1>0, <2>1, <3>5
      <4>2. (IF d.neg THEN -1 ELSE 1) = (IF Canon(d).neg THEN -1 ELSE 1)
        BY <4>1
      <4> QED BY <3>3, <4>2
    <3> QED BY <3>4, <3>5
  <2> QED BY <1>1, <2>1, <2>2, <2>3, AnyUnitDecides
<1>2. CASE d.exp >= 0
  <2> DEFINE w == TenTo[d.exp]
  <2>1. w \in Nat \ {0} /\ TenTo[0] = 1
    BY <1>0, <1>2, TenToGrows
  <2>2. d.coef * w \in Nat /\ (d.coef * w) * 1 = d.coef * w /\ (d.coef # 0 => d.coef * w # 0)
    BY <1>0, <2>1
  <2>3. Canon(d) = [neg |-> d.neg /\ d.coef # 0, coef |-> d.coef * w, exp |-> 0]
    BY <1>2 DEF Canon
  <2>4. d.exp - 0 = d.exp /\ 0 - 0 = 0
    BY <1>0
  <2>5. (d.coef * w) * TenTo[0 - 0] = d.coef * TenTo[d.exp - 0]
    BY <2>1, <2>2, <2>4
  <2> HIDE DEF w
  <2> QED BY <1>1, <1>2, <2>2, <2>3, <2>5
<1>3. CASE d.exp < 0
  <2> DEFINE S == {k \in 0..(-d.exp) : d.coef % TenTo[k] = 0}
             strip == Max(S)
             w == TenTo[strip]
             c == d.coef \div w
  <2>1. -d.exp \in Nat /\ S \subseteq 0..(-d.exp) /\ 0 \in S
    BY <1>0, <1>3, TenToGrows
  <2>2. strip \in S /\ \A k \in S : k <= strip
    <3> HIDE DEF S
    <3> QED BY <2>1, GreatestMember
  <2>3. Canon(d) = [neg |-> d.neg /\ d.coef # 0, coef |-> c, exp |-> d.exp + strip]
    <3>1. ~(d.exp >= 0)
      BY <1>0, <1>3
    <3> QED BY <3>1, Zenon DEF Canon
  <2>4. strip \in Nat /\ strip <= -d.exp /\ d.coef % w = 0
    <3> HIDE DEF strip
    <3>1. strip \in 0..(-d.exp) /\ d.coef % TenTo[strip] = 0
      BY <2>2
    <3> QED BY <2>1, <3>1
  <2>5. w \in Nat \ {0} /\ TenTo[strip + 1] = 10 * w
    <3> HIDE DEF strip
    <3> QED BY <2>4, TenToGrows
  <2>6. c \in Nat /\ w * c = d.coef
    <3> HIDE DEF w
    <3> QED BY <1>0, <2>4, <2>5, Multiples
  <2>7. ASSUME strip < -d.exp PROVE c % 10 # 0
    <3> SUFFICES ASSUME c % 10 = 0 PROVE FALSE
      OBVIOUS
    <3>1. strip + 1 \notin S
      <4> HIDE DEF S
      <4> QED BY <2>2, <2>4
    <3>2. d.coef % TenTo[strip + 1] # 0
      <4> HIDE DEF strip
      <4> QED BY <2>1, <2>4, <2>7, <3>1
    <3> DEFINE r == c \div 10
    <3> HIDE DEF c
    <3>3. r \in Nat /\ 10 * r = c
      BY <2>6, Multiples
    <3> HIDE DEF w, r
    <3>4. w * (10 * r) = (10 * w) * r /\ 10 * w \in Nat \ {0}
      BY <2>5, <3>3
    <3>5. ((10 * w) * r) % (10 * w) = 0
      BY <3>3, <3>4, Multiples
    <3> QED BY <2>5, <2>6, <3>2, <3>3, <3>4, <3>5
  <2> DEFINE x == d.exp + strip
  <2> HIDE DEF S, strip, c, w
  <2>8. x \in Int /\ x <= 0 /\ d.exp <= x /\ (x < 0 => c % 10 # 0)
    BY <1>0, <2>4, <2>7
  <2>9. x - d.exp = strip /\ d.exp - d.exp = 0
    BY <1>0, <2>4
  <2>10. c * TenTo[x - d.exp] = d.coef * TenTo[d.exp - d.exp]
    <3>1. c * w = d.coef /\ d.coef * 1 = d.coef
      BY <1>0, <2>5, <2>6
    <3> HIDE DEF x
    <3> QED BY <2>9, <3>1, TenToGrows DEF w
  <2>11. d.coef # 0 => c # 0
    BY <2>5, <2>6
  <2> HIDE DEF x
  <2> QED BY <1>0, <1>1, <2>3, <2>6, <2>8, <2>10, <2>11 DEF x
<1> QED BY <1>0, <1>2, <1>3

\* Whatever the spelling of two decimals, they are rendered alike if and only if they
\* are the same number.
LEMMA CanonDecides ==
    ASSUME NEW a \in Decimal, NEW b \in Decimal
    PROVE  Canon(a) = Canon(b) <=> SameValue(a, b)
<1>1. /\ IsCanonical(Canon(a)) /\ SameValue(a, Canon(a)) /\ SameValue(Canon(a), a)
      /\ IsCanonical(Canon(b)) /\ SameValue(b, Canon(b)) /\ SameValue(Canon(b), b)
      /\ Canon(a) \in Decimal /\ Canon(b) \in Decimal
      /\ Canon(a).exp \in Int /\ Canon(b).exp \in Int
  BY CanonNormal, SameValueIsSymmetric DEF IsCanonical, Decimal
<1>2. ASSUME Canon(a) = Canon(b) PROVE SameValue(a, b)
  BY <1>1, <1>2, SameValueIsTransitive
<1>3. ASSUME SameValue(a, b) PROVE Canon(a) = Canon(b)
  <2>1. SameValue(Canon(a), Canon(b)) /\ SameValue(Canon(b), Canon(a))
    BY <1>1, <1>3, SameValueIsTransitive, SameValueIsSymmetric
  <2>2. CASE Canon(a).exp <= Canon(b).exp
    BY <1>1, <2>1, <2>2, NormalUnique
  <2>3. CASE Canon(b).exp <= Canon(a).exp
    BY <1>1, <2>1, <2>3, NormalUnique
  <2> QED BY <1>1, <2>2, <2>3
<1> QED BY <1>2, <1>3

\* Rendered or null, decimals compare as numbers do.
LEMMA RenderedDecides ==
    ASSUME NEW a \in Decimal \cup {Null}, NEW b \in Decimal \cup {Null}
    PROVE  CanonOrNull(a) = CanonOrNull(b) <=> Equal(a, b)
<1>1. CASE a = Null \/ b = Null
  <2>1. \A d \in Decimal : Canon(d) # Null
    BY CanonNormal, DecimalAssumption DEF IsCanonical
  <2> QED BY <1>1, <2>1 DEF CanonOrNull, Equal
<1>2. CASE a # Null /\ b # Null
  BY <1>2, CanonDecides DEF CanonOrNull, Equal
<1> QED BY <1>1, <1>2

\* The position check of run_reconciliation_check says "ok" for the same numbers, however
\* many zeros and exponents they are spelled with, and for nothing else, and it does not
\* matter which side is which: for decimals with any number of digits and any exponent.
THEOREM PositionIsByValue == AlgSpec => []PositionByValue
<1>1. ChecksInv /\ ValidInv => PositionByValue
  <2> DEFINE e == expected.position
             o == observed.position
  <2> SUFFICES ASSUME ChecksInv, ValidInv, Checked
               PROVE  /\ checks.position = ComparePosition(o, e)
                      /\ checks.position # "unknown" =>
                           (checks.position = "ok" <=>
                              /\ e.symbol = o.symbol /\ e.side = o.side
                              /\ Equal(e.qty, o.qty) /\ Equal(e.avg, o.avg))
    BY DEF PositionByValue
  <2>1. checks.position = ComparePosition(e, o)
    BY DEF ChecksInv, Checked, Checks
  <2>2. ComparePosition(e, o) = ComparePosition(o, e)
    BY DEF ComparePosition
  <2>3. ASSUME checks.position # "unknown"
        PROVE  checks.position = "ok" <=>
                 /\ e.symbol = o.symbol /\ e.side = o.side
                 /\ Equal(e.qty, o.qty) /\ Equal(e.avg, o.avg)
    <3>1. PositionNormalizes(e) /\ PositionNormalizes(o)
      BY <2>1, <2>3 DEF ComparePosition
    <3>2. /\ e.qty \in Decimal /\ e.avg \in Decimal \cup {Null}
          /\ o.qty \in Decimal /\ o.avg \in Decimal \cup {Null}
      BY <3>1 DEF ValidInv, Valid, ValidNumbers, PositionNormalizes
    <3>3. Canon(e.qty) = Canon(o.qty) <=> Equal(e.qty, o.qty)
      BY <3>2, CanonDecides, DecimalAssumption DEF Equal
    <3>4. CanonOrNull(e.avg) = CanonOrNull(o.avg) <=> Equal(e.avg, o.avg)
      BY <3>2, RenderedDecides
    <3> QED BY <2>1, <3>1, <3>3, <3>4 DEF ComparePosition
  <2> QED BY <2>1, <2>2, <2>3
<1> QED BY <1>1, ChecksInvariant, ValidInvariant, PTL

\* The same order on both sides, by reference to its numbers.
SameOrder(a, b) ==
    /\ a.id = b.id /\ a.terms = b.terms
    /\ Equal(a.qty, b.qty) /\ Equal(a.price, b.price)
    /\ a.tag = Null \/ b.tag = Null \/ a.tag = b.tag

\* The order check of run_reconciliation_check says "ok" exactly when the two books have
\* the same ids and the same orders behind them, in any sequence, and it is symmetric:
\* for books of any length.
THEOREM OrdersAreByContent == AlgSpec => []OrdersByContent
<1>1. ChecksInv /\ ValidInv => OrdersByContent
  <2> DEFINE e == expected.orders
             o == observed.orders
             Both == /\ \A a \in ToSet(e) : \E b \in ToSet(o) : SameOrder(a, b)
                     /\ \A b \in ToSet(o) : \E a \in ToSet(e) : SameOrder(a, b)
  <2> SUFFICES ASSUME ChecksInv, ValidInv, Checked
               PROVE  /\ checks.open_orders = CompareOpenOrders(o, e)
                      /\ checks.open_orders # "unknown" =>
                           (checks.open_orders = "ok" <=> Both)
    BY DEF OrdersByContent, SameOrder
  <2>1. checks.open_orders = CompareOpenOrders(e, o)
    BY DEF ChecksInv, Checked, Checks
  <2>2. CompareOpenOrders(e, o) = CompareOpenOrders(o, e)
    <3>1. SameIds(e, o) <=> SameIds(o, e)
      BY DEF SameIds
    <3>2. \A a, b : OrderAgrees(a, b) <=> OrderAgrees(b, a)
      BY DEF OrderAgrees
    <3> HIDE DEF e, o
    <3>3. (\A i \in DOMAIN e, j \in DOMAIN o : e[i].id = o[j].id => OrderAgrees(e[i], o[j]))
          <=> (\A i \in DOMAIN o, j \in DOMAIN e : o[i].id = e[j].id => OrderAgrees(o[i], e[j]))
      BY <3>2
    <3> QED BY <3>1, <3>3 DEF CompareOpenOrders
  <2>3. ASSUME checks.open_orders # "unknown"
        PROVE  checks.open_orders = "ok" <=> Both
    <3>1. OrdersCanonicalize(e) /\ OrdersCanonicalize(o)
      BY <2>1, <2>3 DEF CompareOpenOrders
    <3>2. /\ \A i \in DOMAIN e : e[i].qty \in Decimal /\ e[i].price \in Decimal \cup {Null}
          /\ \A j \in DOMAIN o : o[j].qty \in Decimal /\ o[j].price \in Decimal \cup {Null}
      BY <3>1 DEF ValidInv, Valid, ValidNumbers, OrdersCanonicalize
    <3>3. checks.open_orders = "ok" <=>
            /\ SameIds(e, o)
            /\ \A i \in DOMAIN e, j \in DOMAIN o : e[i].id = o[j].id => OrderAgrees(e[i], o[j])
      BY <2>1, <3>1 DEF CompareOpenOrders
    <3> HIDE DEF e, o
    <3>4. ASSUME NEW i \in DOMAIN e, NEW j \in DOMAIN o
          PROVE  SameOrder(e[i], o[j]) <=> e[i].id = o[j].id /\ OrderAgrees(e[i], o[j])
      <4>1. Canon(e[i].qty) = Canon(o[j].qty) <=> Equal(e[i].qty, o[j].qty)
        BY <3>2, CanonDecides, DecimalAssumption DEF Equal
      <4>2. CanonOrNull(e[i].price) = CanonOrNull(o[j].price) <=> Equal(e[i].price, o[j].price)
        BY <3>2, RenderedDecides
      <4> QED BY <4>1, <4>2 DEF SameOrder, OrderAgrees
    <3>5. Both <=> /\ \A i \in DOMAIN e : \E j \in DOMAIN o : SameOrder(e[i], o[j])
                   /\ \A j \in DOMAIN o : \E i \in DOMAIN e : SameOrder(e[i], o[j])
      BY DEF ToSet
    <3>6. ASSUME SameIds(e, o),
                 \A i \in DOMAIN e, j \in DOMAIN o : e[i].id = o[j].id => OrderAgrees(e[i], o[j])
          PROVE  Both
      <4>1. /\ \A i \in DOMAIN e : \E j \in DOMAIN o : e[i].id = o[j].id
            /\ \A j \in DOMAIN o : \E i \in DOMAIN e : e[i].id = o[j].id
        BY <3>6 DEF SameIds
      <4> QED BY <3>4, <3>5, <3>6, <4>1
    <3>7. ASSUME Both
          PROVE  /\ SameIds(e, o)
                 /\ \A i \in DOMAIN e, j \in DOMAIN o : e[i].id = o[j].id => OrderAgrees(e[i], o[j])
      <4>1. /\ \A i \in DOMAIN e : \E j \in DOMAIN o : SameOrder(e[i], o[j])
            /\ \A j \in DOMAIN o : \E i \in DOMAIN e : SameOrder(e[i], o[j])
        BY <3>5, <3>7
      <4>2. SameIds(e, o)
        BY <4>1 DEF SameIds, SameOrder
      <4>3. ASSUME NEW i \in DOMAIN e, NEW j \in DOMAIN o, e[i].id = o[j].id
            PROVE  OrderAgrees(e[i], o[j])
        <5>1. PICK k \in DOMAIN o : SameOrder(e[i], o[k])
          BY <4>1
        <5>2. k = j
          BY <3>1, <4>3, <5>1 DEF SameOrder, OrdersCanonicalize
        <5> QED BY <3>4, <5>1, <5>2
      <4> QED BY <4>2, <4>3
    <3> HIDE DEF Both
    <3> QED BY <3>3, <3>6, <3>7
  <2> QED BY <2>1, <2>2, <2>3
<1> QED BY <1>1, ChecksInvariant, ValidInvariant, PTL

-----------------------------------------------------------------------------
(* Evidence directories keep pairs of runs apart, for run ids of any length: *)
(* the first double underscore of a joined name is the separator.            *)

\* Stripping white space leaves a string.
LEMMA StripType ==
    ASSUME NEW s \in Seq(Char)
    PROVE  Strip(s) \in Seq(Char)
<1> DEFINE kept == {i \in DOMAIN s : s[i] # " "}
<1>0. /\ kept \subseteq 1..Len(s) /\ Len(s) \in Nat
      /\ \A i \in 1..Len(s) : s[i] \in Char
  <2>1. DOMAIN s = 1..Len(s) /\ Len(s) \in Nat
    OBVIOUS
  <2>2. \A i \in DOMAIN s : s[i] \in Char
    OBVIOUS
  <2> QED BY <2>1, <2>2
<1> DEFINE first == CHOOSE i \in kept : \A j \in kept : i <= j
           last  == CHOOSE i \in kept : \A j \in kept : j <= i
<1>1. Strip(s) = IF kept = {} THEN <<>> ELSE SubSeq(s, first, last)
  BY DEF Strip
<1> HIDE DEF kept
<1>2. CASE kept = {}
  <2>1. <<>> \in Seq(Char)
    OBVIOUS
  <2> QED BY <1>1, <1>2, <2>1
<1>3. CASE kept # {}
  <2>1. \E i \in kept : \A j \in kept : i <= j
    <3>1. kept \subseteq Nat
      BY <1>0
    <3> QED BY <1>3, <3>1, LeastMember
  <2>2. \E i \in kept : \A j \in kept : j <= i
    <3> DEFINE fromEnd == {Len(s) - i : i \in kept}
    <3>1. fromEnd \subseteq Nat /\ fromEnd # {}
      <4>1. \A i \in kept : Len(s) - i \in Nat
        BY <1>0
      <4> QED BY <1>3, <4>1
    <3>2. PICK x \in fromEnd : \A y \in fromEnd : x <= y
      <4> HIDE DEF fromEnd
      <4> QED BY <3>1, LeastMember
    <3>3. PICK i \in kept : x = Len(s) - i
      OBVIOUS
    <3>4. ASSUME NEW j \in kept PROVE j <= i
      <4>1. Len(s) - i <= Len(s) - j
        BY <3>2, <3>3
      <4>2. i \in Nat /\ j \in Nat /\ Len(s) \in Nat
        BY <1>0
      <4> QED BY <4>1, <4>2
    <3> QED BY <3>4
  <2>3. first \in kept
    BY <2>1
  <2>4. last \in kept
    BY <2>2
  <2> HIDE DEF first, last
  <2>5. first \in Int /\ last \in Int /\ \A i \in first..last : s[i] \in Char
    BY <1>0, <2>3, <2>4
  <2>6. SubSeq(s, first, last) \in Seq(Char)
    BY <2>5, SubSeqProperties
  <2> QED BY <1>1, <1>3, <2>6
<1> QED BY <1>2, <1>3

\* The elements of two sequences with a doubled one between them, by place.
LEMMA ElementsAroundDouble ==
    ASSUME NEW S, NEW u \in S, NEW left \in Seq(S), NEW right \in Seq(S),
           NEW joined, joined = left \o <<u, u>> \o right
    PROVE  /\ Len(joined) = Len(left) + 2 + Len(right)
           /\ \A i \in 1..Len(left) : joined[i] = left[i]
           /\ joined[Len(left) + 1] = u
           /\ joined[Len(left) + 2] = u
           /\ \A i \in 1..Len(right) : joined[Len(left) + 2 + i] = right[i]
<1> DEFINE start == left \o <<u, u>>
<1>1. /\ start \in Seq(S) /\ Len(start) = Len(left) + 2
      /\ \A i \in 1..Len(left) : start[i] = left[i]
      /\ start[Len(left) + 1] = u /\ start[Len(left) + 2] = u
  OBVIOUS
<1>2. joined = start \o right
  OBVIOUS
<1> HIDE DEF start
<1>3. /\ Len(joined) = Len(start) + Len(right)
      /\ \A i \in 1..Len(start) : joined[i] = start[i]
      /\ \A i \in 1..Len(right) : joined[Len(start) + i] = right[i]
  BY <1>1, <1>2
<1> QED BY <1>1, <1>3

\* The characters of a joined name, by place.
LEMMA JoinedCharacters ==
    ASSUME NEW left \in Seq(Char), NEW right \in Seq(Char)
    PROVE  /\ Len(Join(left, right)) = Len(left) + 2 + Len(right)
           /\ \A i \in 1..Len(left) : Join(left, right)[i] = left[i]
           /\ Join(left, right)[Len(left) + 1] = "_"
           /\ Join(left, right)[Len(left) + 2] = "_"
           /\ \A i \in 1..Len(right) : Join(left, right)[Len(left) + 2 + i] = right[i]
<1> DEFINE u == "_"
           joined == Join(left, right)
<1>1. u \in Char /\ joined = left \o <<u, u>> \o right
  BY DEF Char, Join
<1> HIDE DEF u, joined
<1>2. /\ Len(joined) = Len(left) + 2 + Len(right)
      /\ \A i \in 1..Len(left) : joined[i] = left[i]
      /\ joined[Len(left) + 1] = u
      /\ joined[Len(left) + 2] = u
      /\ \A i \in 1..Len(right) : joined[Len(left) + 2 + i] = right[i]
  BY <1>1, ElementsAroundDouble
<1> QED BY <1>2, Zenon DEF u, joined

\* A backtest id that cannot hide the separator ends no later than any other one
\* with which it shares a joined name.
LEMMA SeparatorComesFirst ==
    ASSUME NEW left \in Seq(Char), NEW right \in Seq(Char),
           NEW left2 \in Seq(Char), NEW right2 \in Seq(Char),
           Join(left, right) = Join(left2, right2), Separable(left2)
    PROVE  Len(left2) <= Len(left)
<1> SUFFICES ASSUME Len(left) < Len(left2) PROVE FALSE
  OBVIOUS
<1>0. /\ Join(left, right)[Len(left) + 1] = "_"
      /\ Join(left, right)[Len(left) + 2] = "_"
      /\ \A i \in 1..Len(left2) : Join(left2, right2)[i] = left2[i]
  BY JoinedCharacters
<1>1. Len(left) \in Nat /\ Len(left2) \in Nat /\ left2 # <<>>
  OBVIOUS
<1>2. Len(left) + 1 \in 1..Len(left2)
  BY <1>1
<1>3. left2[Len(left) + 1] = "_"
  BY <1>0, <1>2
<1>4. CASE Len(left) + 1 = Len(left2)
  BY <1>1, <1>3, <1>4 DEF Separable
<1>5. CASE Len(left) + 1 # Len(left2)
  <2>1. Len(left) + 2 \in 1..Len(left2) /\ Len(left) + 1 \in 1..(Len(left2) - 1)
    BY <1>1, <1>5
  <2>2. left2[Len(left) + 2] = "_"
    BY <1>0, <2>1
  <2>3. (Len(left) + 1) + 1 = Len(left) + 2
    BY <1>1
  <2>4. Doubled(left2, "_")
    BY <1>3, <2>1, <2>2, <2>3 DEF Doubled
  <2> QED BY <1>1, <2>4 DEF Separable
<1> QED BY <1>4, <1>5

\* Two pairs whose backtest ids cannot hide the separator have one joined name only
\* if they are one pair.
LEMMA JoinSeparates ==
    ASSUME NEW left \in Seq(Char), NEW right \in Seq(Char),
           NEW left2 \in Seq(Char), NEW right2 \in Seq(Char),
           Join(left, right) = Join(left2, right2), Separable(left), Separable(left2)
    PROVE  left = left2 /\ right = right2
<1> DEFINE joined == Join(left, right)
           joined2 == Join(left2, right2)
<1>1. /\ Len(joined) = Len(left) + 2 + Len(right)
      /\ \A i \in 1..Len(left) : joined[i] = left[i]
      /\ \A i \in 1..Len(right) : joined[Len(left) + 2 + i] = right[i]
  BY JoinedCharacters
<1>2. /\ Len(joined2) = Len(left2) + 2 + Len(right2)
      /\ \A i \in 1..Len(left2) : joined2[i] = left2[i]
      /\ \A i \in 1..Len(right2) : joined2[Len(left2) + 2 + i] = right2[i]
  BY JoinedCharacters
<1>3. Len(left2) <= Len(left) /\ Len(left) <= Len(left2)
  BY SeparatorComesFirst
<1>4. joined = joined2
  OBVIOUS
<1>5. Len(left) \in Nat /\ Len(left2) \in Nat /\ Len(right) \in Nat /\ Len(right2) \in Nat
  OBVIOUS
<1> HIDE DEF joined, joined2
<1>6. Len(left) = Len(left2) /\ Len(right) = Len(right2)
  BY <1>1, <1>2, <1>3, <1>4, <1>5
<1>7. \A i \in 1..Len(left) : left[i] = left2[i]
  BY <1>1, <1>2, <1>4, <1>6
<1>8. \A i \in 1..Len(right) : right[i] = right2[i]
  BY <1>1, <1>2, <1>4, <1>6
<1>9. left = left2
  BY <1>6, <1>7, SeqEqual
<1>10. right = right2
  BY <1>6, <1>8, SeqEqual
<1> QED BY <1>9, <1>10

-----------------------------------------------------------------------------
\* Comparisons of different pairs write to different directories unless a backtest
\* id could hide the separator, for run ids of any length.
THEOREM PairsStayApart == PairIdSpec => []PairsApart
<1>1. given \in RawIds \X RawIds => PairsApart
  <2> SUFFICES ASSUME given \in RawIds \X RawIds, Separable(Strip(given[1])),
                      NEW dir \in Directory(given), NEW raw \in RawIds \X RawIds,
                      Separable(Strip(raw[1])), dir \in Directory(raw),
                      NEW side \in 1..2
               PROVE  Strip(given[side]) = Strip(raw[side])
    BY DEF PairsApart
  <2>1. /\ given[1] \in Seq(Char) /\ given[2] \in Seq(Char)
        /\ raw[1] \in Seq(Char) /\ raw[2] \in Seq(Char)
    BY RawAssumption
  <2>2. Join(Strip(given[1]), Strip(given[2])) = Join(Strip(raw[1]), Strip(raw[2]))
    BY DEF Directory
  <2>3. Strip(given[1]) = Strip(raw[1]) /\ Strip(given[2]) = Strip(raw[2])
    BY <2>1, <2>2, StripType, JoinSeparates
  <2>4. side = 1 \/ side = 2
    OBVIOUS
  <2> QED BY <2>3, <2>4
<1>2. given \in RawIds \X RawIds /\ [UNCHANGED given]_pairVars => (given \in RawIds \X RawIds)'
  BY DEF pairVars
<1> QED BY <1>1, <1>2, PTL DEF PairIdSpec, PairIdInit

-----------------------------------------------------------------------------
(* The run spec *)

SpecTypeOK == spec \in WrittenSpec /\ env \in [EnvName -> EnvValues]

LEMMA SpecTypeCorrect == RunSpecSpec => []SpecTypeOK
<1>1. SpecInit => SpecTypeOK
  BY TextAssumption DEF SpecInit, SpecTypeOK
<1>2. SpecTypeOK /\ [UNCHANGED specVars]_specVars => SpecTypeOK'
  BY DEF SpecTypeOK, specVars
<1> QED BY <1>1, <1>2, PTL DEF RunSpecSpec

\* White space around a string does not make it another string.
LEMMA PlainTextSays ==
    ASSUME NEW v \in AnyText
    PROVE  /\ PlainText(v) \in AnyText
           /\ PlainText(v).word = v.word
           /\ IsText(PlainText(v)) <=> IsText(v)
           /\ RequiredOK(PlainText(v)) <=> RequiredOK(v)
<1>1. CASE v \in Text
  <2>1. IsText(v) /\ PlainText(v) \in Text /\ PlainText(v).word = v.word
    BY <1>1, TextAssumption DEF IsText, PlainText, Text
  <2> QED BY <2>1, TextAssumption DEF IsText, RequiredOK, AnyText
<1>2. CASE v \in {Nil, NotText}
  BY <1>2 DEF IsText, PlainText
<1> QED BY <1>1, <1>2 DEF AnyText

\* A blank optional string says as much as none.
LEMMA PlainOptionalSays ==
    ASSUME NEW v \in AnyText
    PROVE  /\ PlainOptional(v) \in AnyText
           /\ OptionalOK(PlainOptional(v)) <=> OptionalOK(v)
           /\ OptionalOK(v) => Normalized(PlainOptional(v)) = Normalized(v)
<1>1. CASE IsText(v) /\ v.word = ""
  <2>1. v # Nil /\ PlainOptional(v) = Nil
    BY <1>1 DEF IsText, PlainOptional
  <2> QED BY <1>1, <2>1 DEF OptionalOK, Normalized, AnyText
<1>2. CASE ~(IsText(v) /\ v.word = "")
  <2>1. PlainOptional(v) = PlainText(v)
    BY <1>2 DEF PlainOptional
  <2>2. v = Nil <=> PlainText(v) = Nil
    BY PlainTextSays, TextAssumption DEF PlainText, IsText
  <2> QED BY <2>1, <2>2, PlainTextSays DEF OptionalOK, Normalized
<1> QED BY <1>1, <1>2

\* A list of names is the same list, name by name, in its plain spelling.
LEMMA PlainNamesSay ==
    ASSUME NEW v \in NameList
    PROVE  /\ PlainNames(v) \in NameList
           /\ PlainNames(v) # NotList <=> v # NotList
           /\ v # NotList =>
                /\ NamesOf(v) \in Seq(AnyText)
                /\ DOMAIN NamesOf(PlainNames(v)) = DOMAIN NamesOf(v)
                /\ \A i \in DOMAIN NamesOf(v) :
                      NamesOf(PlainNames(v))[i] = PlainText(NamesOf(v)[i])
<1>1. CASE v = NotList
  BY <1>1 DEF PlainNames, NameList
<1>2. CASE v = Nil \/ v = <<>>
  <2>1. v # NotList /\ PlainNames(v) = Nil
    <3>1. <<>> \in Seq(AnyText)
      OBVIOUS
    <3> QED BY <1>2, <3>1, TextAssumption DEF PlainNames
  <2>2. NamesOf(v) = <<>> /\ NamesOf(PlainNames(v)) = <<>>
    BY <1>2, <2>1 DEF NamesOf
  <2>3. PlainNames(v) # NotList
    BY <2>1, TextAssumption
  <2>4. <<>> \in Seq(AnyText) /\ \A i : i \notin DOMAIN <<>>
    OBVIOUS
  <2>5. /\ NamesOf(v) \in Seq(AnyText)
        /\ DOMAIN NamesOf(PlainNames(v)) = DOMAIN NamesOf(v)
        /\ \A i : i \notin DOMAIN NamesOf(v)
    BY <2>2, <2>4
  <2> QED BY <2>1, <2>3, <2>5 DEF NameList
<1>3. CASE v \in Seq(AnyText) /\ v # <<>>
  <2> DEFINE w == [i \in DOMAIN v |-> PlainText(v[i])]
  <2>1. v # NotList /\ v # Nil
    BY <1>3, TextAssumption
  <2>2. PlainNames(v) = w
    BY <1>3, <2>1 DEF PlainNames
  <2>3. w \in Seq(AnyText)
    <3>1. DOMAIN v = 1..Len(v) /\ Len(v) \in Nat /\ \A i \in DOMAIN v : v[i] \in AnyText
      BY <1>3
    <3>2. \A i \in 1..Len(v) : PlainText(v[i]) \in AnyText
      BY <3>1, PlainTextSays
    <3> QED BY <3>1, <3>2
  <2>4. w # NotList /\ w # Nil
    BY <2>3, TextAssumption
  <2>5. NamesOf(v) = v /\ NamesOf(w) = w
    BY <2>1, <2>4 DEF NamesOf
  <2> QED BY <1>3, <2>1, <2>2, <2>3, <2>4, <2>5 DEF NameList
<1> QED BY <1>1, <1>2, <1>3 DEF NameList

LEMMA PlainListOK ==
    ASSUME NEW v \in NameList
    PROVE  /\ NamesOK(PlainNames(v)) <=> NamesOK(v)
           /\ v # NotList =>
                /\ NoRepeats(NamesOf(PlainNames(v))) <=> NoRepeats(NamesOf(v))
                /\ Words(NamesOf(PlainNames(v))) = Words(NamesOf(v))
<1>1. CASE v = NotList
  BY <1>1, PlainNamesSay DEF NamesOK
<1>2. CASE v # NotList
  <2> DEFINE a == NamesOf(v)  b == NamesOf(PlainNames(v))
  <2>1. /\ PlainNames(v) # NotList /\ a \in Seq(AnyText) /\ DOMAIN b = DOMAIN a
        /\ \A i \in DOMAIN a : b[i] = PlainText(a[i])
    BY <1>2, PlainNamesSay
  <2>2. \A i \in DOMAIN a : a[i] \in AnyText
    BY <2>1
  <2>3. \A i \in DOMAIN a : b[i].word = a[i].word /\ (RequiredOK(b[i]) <=> RequiredOK(a[i]))
    BY <2>1, <2>2, PlainTextSays
  <2>4. NamesOK(PlainNames(v)) <=> NamesOK(v)
    BY <1>2, <2>1, <2>3 DEF NamesOK
  <2> HIDE DEF a, b
  <2>5. NoRepeats(b) <=> NoRepeats(a)
    BY <2>1, <2>3 DEF NoRepeats
  <2>6. Words(b) = Words(a)
    BY <2>1, <2>3 DEF Words
  <2> QED BY <2>4, <2>5, <2>6 DEF a, b
<1> QED BY <1>1, <1>2

\* The readiness block.
LEMMA PlainBlockSays ==
    ASSUME NEW b \in Block, NEW w,
           w = [b EXCEPT !.venue = PlainOptional(@),
                         !.required = PlainNames(@), !.optional = PlainNames(@)]
    PROVE  /\ w \in Block
           /\ BlockOK(w) <=> BlockOK(b)
           /\ BlockOK(b) =>
                /\ Normalized(w.venue) = Normalized(b.venue)
                /\ Words(NamesOf(w.required)) = Words(NamesOf(b.required))
                /\ Words(NamesOf(w.optional)) = Words(NamesOf(b.optional))
           /\ w.enabled = b.enabled
<1>1. /\ w.enabled = b.enabled /\ w.venue = PlainOptional(b.venue)
      /\ w.required = PlainNames(b.required) /\ w.optional = PlainNames(b.optional)
      /\ b.venue \in AnyText /\ b.required \in NameList /\ b.optional \in NameList
  BY DEF Block
<1>2. /\ OptionalOK(w.venue) <=> OptionalOK(b.venue)
      /\ OptionalOK(b.venue) => Normalized(w.venue) = Normalized(b.venue)
  BY <1>1, PlainOptionalSays
<1>3. /\ NamesOK(w.required) <=> NamesOK(b.required)
      /\ NamesOK(w.optional) <=> NamesOK(b.optional)
  BY <1>1, PlainListOK
<1>4. ASSUME NamesOK(b.required), NamesOK(b.optional)
      PROVE  /\ NoRepeats(NamesOf(w.required)) <=> NoRepeats(NamesOf(b.required))
             /\ NoRepeats(NamesOf(w.optional)) <=> NoRepeats(NamesOf(b.optional))
             /\ Words(NamesOf(w.required)) = Words(NamesOf(b.required))
             /\ Words(NamesOf(w.optional)) = Words(NamesOf(b.optional))
             /\ NoOverlap(w) <=> NoOverlap(b)
  <2>1. b.required # NotList /\ b.optional # NotList
    BY <1>4 DEF NamesOK
  <2>2. /\ NoRepeats(NamesOf(w.required)) <=> NoRepeats(NamesOf(b.required))
        /\ NoRepeats(NamesOf(w.optional)) <=> NoRepeats(NamesOf(b.optional))
        /\ Words(NamesOf(w.required)) = Words(NamesOf(b.required))
        /\ Words(NamesOf(w.optional)) = Words(NamesOf(b.optional))
    BY <1>1, <2>1, PlainListOK
  <2> DEFINE r == NamesOf(b.required)  q == NamesOf(w.required)
             o == NamesOf(b.optional)  p == NamesOf(w.optional)
  <2>3. Words(q) = Words(r) /\ Words(p) = Words(o)
    BY <2>2
  <2>4. /\ DOMAIN q = DOMAIN r /\ \A i \in DOMAIN r : q[i].word = r[i].word
        /\ DOMAIN p = DOMAIN o /\ \A i \in DOMAIN o : p[i].word = o[i].word
    <3> HIDE DEF r, q, o, p
    <3>1. \A s, t : Words(s) = Words(t) =>
             DOMAIN s = DOMAIN t /\ \A i \in DOMAIN t : s[i].word = t[i].word
      <4> TAKE s, t
      <4> HAVE Words(s) = Words(t)
      <4>1. DOMAIN Words(s) = DOMAIN s /\ DOMAIN Words(t) = DOMAIN t
        BY DEF Words
      <4>2. \A i \in DOMAIN t : Words(s)[i] = s[i].word /\ Words(t)[i] = t[i].word
        BY <4>1 DEF Words
      <4> QED BY <4>1, <4>2
    <3> QED BY <2>3, <3>1
  <2>5. NoOverlap(w) <=> NoOverlap(b)
    <3>1. NoOverlap(w) <=> \A i \in DOMAIN q, j \in DOMAIN p : q[i].word # p[j].word
      BY DEF NoOverlap
    <3>2. NoOverlap(b) <=> \A i \in DOMAIN r, j \in DOMAIN o : r[i].word # o[j].word
      BY DEF NoOverlap
    <3> HIDE DEF r, q, o, p
    <3> QED BY <2>4, <3>1, <3>2
  <2> QED BY <2>2, <2>5
<1>5. BlockOK(w) <=> BlockOK(b)
  BY <1>2, <1>3, <1>4 DEF BlockOK
<1>6. ASSUME BlockOK(b)
      PROVE  /\ Normalized(w.venue) = Normalized(b.venue)
             /\ Words(NamesOf(w.required)) = Words(NamesOf(b.required))
             /\ Words(NamesOf(w.optional)) = Words(NamesOf(b.optional))
  BY <1>2, <1>4, <1>6 DEF BlockOK
<1>7. w \in Block
  <2>1. PlainOptional(b.venue) \in AnyText
    BY <1>1, PlainOptionalSays
  <2>2. PlainNames(b.required) \in NameList /\ PlainNames(b.optional) \in NameList
    BY <1>1, PlainNamesSay
  <2> QED BY <2>1, <2>2 DEF Block
<1> QED BY <1>1, <1>5, <1>6, <1>7

LEMMA PlainSpec ==
    ASSUME NEW s \in WrittenSpec
    PROVE  /\ Loads(s) <=> Loads(Plain(s))
           /\ Loads(s) => ConfigHash(s) = ConfigHash(Plain(s))
<1> DEFINE t == Plain(s)  b == s.readiness  w == t.readiness
<1>1. s.run_id \in AnyText /\ s.venue \in AnyText /\ b \in Block \cup {Nil}
  BY DEF WrittenSpec
<1>2. /\ t.run_id = PlainText(s.run_id) /\ t.venue = PlainText(s.venue)
      /\ t.unknownKey = s.unknownKey
  BY DEF WrittenSpec, Plain
<1>3. w = IF b = Nil THEN Nil
          ELSE [b EXCEPT !.venue = PlainOptional(@),
                         !.required = PlainNames(@), !.optional = PlainNames(@)]
  <2>1. w = PlainBlock(b)
    BY DEF WrittenSpec, Plain
  <2> QED BY <2>1 DEF PlainBlock
<1>4. /\ RequiredOK(t.run_id) <=> RequiredOK(s.run_id)
      /\ RequiredOK(t.venue) <=> RequiredOK(s.venue)
      /\ t.run_id.word = s.run_id.word /\ t.venue.word = s.venue.word
  BY <1>1, <1>2, PlainTextSays
<1> HIDE DEF t, b, w
<1>5. CASE b = Nil
  <2>1. w = Nil
    BY <1>3, <1>5
  <2> QED BY <1>2, <1>4, <1>5, <2>1 DEF Loads, ConfigHash, Normal, t, b, w
<1>6. CASE b # Nil
  <2>1. b \in Block
    BY <1>1, <1>6
  <2>2. w = [b EXCEPT !.venue = PlainOptional(@),
                      !.required = PlainNames(@), !.optional = PlainNames(@)]
    BY <1>3, <1>6
  <2>3. /\ w \in Block
        /\ BlockOK(w) <=> BlockOK(b)
        /\ BlockOK(b) =>
              /\ Normalized(w.venue) = Normalized(b.venue)
              /\ Words(NamesOf(w.required)) = Words(NamesOf(b.required))
              /\ Words(NamesOf(w.optional)) = Words(NamesOf(b.optional))
        /\ w.enabled = b.enabled
    BY <2>1, <2>2, PlainBlockSays
  <2>4. w # Nil
    BY <2>3, TextAssumption
  <2>5. BlockOK(b) => (VenueAgrees(t) <=> VenueAgrees(s))
    BY <1>4, <2>3 DEF VenueAgrees, b, w
  <2>6. Loads(s) <=> Loads(t)
    BY <1>2, <1>4, <1>6, <2>3, <2>4, <2>5 DEF Loads, b, w
  <2>7. Loads(s) => BlockOK(b)
    BY <1>6 DEF Loads, b
  <2>8. Loads(s) => Normal(s) = Normal(t)
    BY <1>4, <1>6, <2>3, <2>4, <2>7 DEF Normal, b, w
  <2> QED BY <2>6, <2>8 DEF ConfigHash, t
<1> QED BY <1>5, <1>6

\* config_sha256 stands for what a run was told, whichever way its YAML spells it:
\* for all names, lists of any length, and every mixture of blank and null values.
THEOREM HashIsOfContent == RunSpecSpec => []HashIgnoresSpelling
<1>1. SpecTypeOK => HashIgnoresSpelling
  BY PlainSpec DEF SpecTypeOK, HashIgnoresSpelling
<1> QED BY <1>1, SpecTypeCorrect, PTL

Chosen(names, P) == {names[i] : i \in P}
Missing(names, e) == {j \in DOMAIN names : ~IsPresent(names[j], e)}
Joined(R, O) == R \o O
Distinct(w) == \A i, j \in DOMAIN w : w[i] = w[j] => i = j
Apart(R, O) == \A i \in DOMAIN R, j \in DOMAIN O : R[i] # O[j]

\* Where a function tells the members of a finite set apart, there are as many values.
LEMMA AsManyValues ==
    ASSUME NEW S, IsFiniteSet(S), NEW f,
           \A i, j \in S : f[i] = f[j] => i = j
    PROVE  Cardinality(Chosen(f, S)) = Cardinality(S)
<1> DEFINE T == {f[i] : i \in S}  g == [i \in S |-> f[i]]
<1>1. g \in Bijection(S, T)
  BY DEF Bijection, Injection, Surjection, IsInjective
<1>2. ExistsBijection(S, T)
  BY <1>1 DEF ExistsBijection
<1> HIDE DEF T
<1>3. Cardinality(T) = Cardinality(S)
  BY <1>2, FS_Bijection
<1> QED BY <1>3 DEF T, Chosen

Lacks(names, e) == {names[i].word : i \in {j \in DOMAIN names : e[names[j].word] # "set"}}

\* The names of a list that loaded.
LEMMA LoadedNames ==
    ASSUME NEW e, NEW v \in NameList, NamesOK(v), NoRepeats(NamesOf(v))
    PROVE  /\ NamesOf(v) \in Seq(AnyText)
           /\ Words(NamesOf(v)) \in Seq(EnvName)
           /\ DOMAIN Words(NamesOf(v)) = 1..Len(NamesOf(v))
           /\ Len(Words(NamesOf(v))) = Len(NamesOf(v))
           /\ \A i \in 1..Len(NamesOf(v)) : Words(NamesOf(v))[i] = NamesOf(v)[i].word
           /\ \A i, j \in 1..Len(NamesOf(v)) :
                Words(NamesOf(v))[i] = Words(NamesOf(v))[j] => i = j
           /\ Lacks(NamesOf(v), e) =
                Chosen(Words(NamesOf(v)), Missing(Words(NamesOf(v)), e))
<1> DEFINE a == NamesOf(v)  w == Words(NamesOf(v))
<1>1. a \in Seq(AnyText)
  BY PlainNamesSay DEF NamesOK
<1>2. \A i \in DOMAIN a : a[i].word \in EnvName
  BY DEF NamesOK
<1>3. \A i, j \in DOMAIN a : a[i].word = a[j].word => i = j
  BY DEF NoRepeats
<1> HIDE DEF a
<1>4. w = [i \in DOMAIN a |-> a[i].word] /\ DOMAIN a = 1..Len(a) /\ Len(a) \in Nat
  BY <1>1 DEF Words, a
<1> HIDE DEF w
<1>5. w \in Seq(EnvName) /\ DOMAIN w = 1..Len(a) /\ Len(w) = Len(a)
  BY <1>2, <1>4
<1>6. \A i \in 1..Len(a) : w[i] = a[i].word
  BY <1>4
<1>7. \A i, j \in 1..Len(a) : w[i] = w[j] => i = j
  BY <1>3, <1>4, <1>6
<1>8. Lacks(a, e) = Chosen(w, Missing(w, e))
  BY <1>4, <1>5, <1>6 DEF Lacks, IsPresent, Chosen, Missing
<1> QED BY <1>1, <1>5, <1>6, <1>7, <1>8 DEF a, w

\* Distinct names fall into two parts that count up to all of them.
LEMMA PartsCountUp ==
    ASSUME NEW n \in Nat, NEW names, \A i, j \in 1..n : names[i] = names[j] => i = j,
           NEW P \in SUBSET (1..n)
    PROVE  Cardinality(Chosen(names, P)) + Cardinality(Chosen(names, (1..n) \ P)) = n
<1> DEFINE Q == (1..n) \ P
<1>1. IsFiniteSet(1..n) /\ Cardinality(1..n) = n
  <2>1. 1 \in Int /\ n \in Int
    OBVIOUS
  <2>2. IsFiniteSet(1..n) /\ Cardinality(1..n) = IF 1 > n THEN 0 ELSE n - 1 + 1
    BY <2>1, FS_Interval
  <2> QED BY <2>2
<1>2. IsFiniteSet(P) /\ IsFiniteSet(Q)
  BY <1>1, FS_Subset
<1>3. Cardinality(Chosen(names, P)) = Cardinality(P)
  <2> DEFINE S == P
  <2>1. IsFiniteSet(S) /\ \A i, j \in S : names[i] = names[j] => i = j
    BY <1>2
  <2> HIDE DEF S
  <2>2. Cardinality(Chosen(names, S)) = Cardinality(S)
    BY <2>1, AsManyValues
  <2> QED BY <2>2 DEF S
<1>4. Cardinality(Chosen(names, Q)) = Cardinality(Q)
  <2>1. \A i, j \in Q : names[i] = names[j] => i = j
    OBVIOUS
  <2> HIDE DEF Q
  <2> QED BY <1>2, <2>1, AsManyValues
<1>5. P \cup Q = 1..n /\ P \cap Q = {}
  OBVIOUS
<1> HIDE DEF Q
<1>6. Cardinality(P \cup Q) = Cardinality(P) + Cardinality(Q) - Cardinality(P \cap Q)
  BY <1>2, FS_Union
<1>7. Cardinality(P) \in Nat /\ Cardinality(Q) \in Nat /\ Cardinality({}) = 0
  BY <1>2, FS_CardinalityType, FS_EmptySet
<1>8. Cardinality(P) + Cardinality(Q) = n
  <2>1. Cardinality(P \cup Q) = n
    BY <1>1, <1>5
  <2>2. Cardinality(P \cap Q) = 0
    BY <1>5, <1>7
  <2> QED BY <1>6, <1>7, <2>1, <2>2
<1> QED BY <1>3, <1>4, <1>8 DEF Q


\* The names of two lists, one behind the other.
LEMMA TwoLists ==
    ASSUME NEW e, NEW R \in Seq(EnvName), NEW O \in Seq(EnvName),
           Distinct(R),
           Distinct(O),
           Apart(R, O),
           NEW names, names = Joined(R, O)
    PROVE  /\ Len(R) + Len(O) \in Nat
           /\ DOMAIN names = 1..(Len(R) + Len(O))
           /\ Distinct(names)
           /\ Chosen(names, Missing(names, e)) = Chosen(R, Missing(R, e)) \cup Chosen(O, Missing(O, e))
<1> DEFINE m == Len(R)  k == Len(O)
<1>1. /\ m \in Nat /\ k \in Nat /\ DOMAIN R = 1..m /\ DOMAIN O = 1..k
      /\ DOMAIN names = 1..(m + k)
      /\ \A i \in 1..m : names[i] = R[i]
      /\ \A i \in (m+1)..(m+k) : names[i] = O[i - m] /\ i - m \in 1..k
  BY DEF Joined
<1>2. \A j \in 1..k : j + m \in 1..(m+k) /\ names[j + m] = O[j]
  BY <1>1
<1> HIDE DEF m, k
<1>3. \A i, j \in 1..(m+k) : names[i] = names[j] => i = j
  <2> SUFFICES ASSUME NEW i \in 1..(m+k), NEW j \in 1..(m+k), names[i] = names[j] PROVE i = j
    OBVIOUS
  <2>0. /\ \A a, b \in 1..m : R[a] = R[b] => a = b
        /\ \A a, b \in 1..k : O[a] = O[b] => a = b
        /\ \A a \in 1..m, b \in 1..k : R[a] # O[b]
    BY <1>1 DEF Distinct, Apart
  <2>1. CASE i <= m /\ j <= m
    <3>1. i \in 1..m /\ j \in 1..m
      BY <1>1, <2>1
    <3> QED BY <1>1, <2>0, <3>1
  <2>2. CASE i > m /\ j > m
    <3>1. names[i] = O[i - m] /\ i - m \in 1..k /\ names[j] = O[j - m] /\ j - m \in 1..k
      BY <1>1, <2>2
    <3>2. i - m = j - m
      BY <2>0, <3>1
    <3> QED BY <1>1, <3>2
  <2>3. CASE i <= m /\ j > m
    <3>1. i \in 1..m /\ j \in (m+1)..(m+k)
      BY <1>1, <2>3
    <3>2. names[i] = R[i] /\ names[j] = O[j - m] /\ j - m \in 1..k
      BY <1>1, <3>1
    <3> QED BY <2>0, <3>1, <3>2
  <2>4. CASE i > m /\ j <= m
    <3>1. j \in 1..m /\ i \in (m+1)..(m+k)
      BY <1>1, <2>4
    <3>2. names[j] = R[j] /\ names[i] = O[i - m] /\ i - m \in 1..k
      BY <1>1, <3>1
    <3> QED BY <2>0, <3>1, <3>2
  <2> QED BY <1>1, <2>1, <2>2, <2>3, <2>4
<1>4. ASSUME NEW x \in Chosen(names, Missing(names, e))
      PROVE  x \in Chosen(R, Missing(R, e)) \cup Chosen(O, Missing(O, e))
  <2>1. PICK i \in 1..(m+k) : ~IsPresent(names[i], e) /\ x = names[i]
    BY <1>1, <1>4 DEF Chosen, Missing
  <2>2. CASE i <= m
    BY <1>1, <2>1, <2>2 DEF Chosen, Missing
  <2>3. CASE i > m
    <3>1. i \in (m+1)..(m+k)
      BY <1>1, <2>3
    <3>2. PICK j \in 1..k : j = i - m /\ x = O[j] /\ ~IsPresent(O[j], e)
      BY <1>1, <2>1, <3>1
    <3>3. x \in Chosen(O, Missing(O, e))
      BY <1>1, <3>2 DEF Chosen, Missing
    <3> QED BY <3>3
  <2> QED BY <1>1, <2>1, <2>2, <2>3
<1>5. ASSUME NEW x \in Chosen(R, Missing(R, e)) PROVE x \in Chosen(names, Missing(names, e))
  <2>1. PICK j \in 1..m : ~IsPresent(R[j], e) /\ x = R[j]
    BY <1>1, <1>5 DEF Chosen, Missing
  <2>2. j \in 1..(m+k) /\ names[j] = R[j]
    BY <1>1
  <2> QED BY <1>1, <2>1, <2>2 DEF Chosen, Missing
<1>6. ASSUME NEW x \in Chosen(O, Missing(O, e)) PROVE x \in Chosen(names, Missing(names, e))
  <2>1. PICK j \in 1..k : ~IsPresent(O[j], e) /\ x = O[j]
    BY <1>1, <1>6 DEF Chosen, Missing
  <2> QED BY <1>1, <1>2, <2>1 DEF Chosen, Missing
<1>7. Distinct(names)
  BY <1>1, <1>3 DEF Distinct
<1>8. Chosen(names, Missing(names, e)) = Chosen(R, Missing(R, e)) \cup Chosen(O, Missing(O, e))
  BY <1>4, <1>5, <1>6
<1>9. Len(R) + Len(O) \in Nat /\ DOMAIN names = 1..(Len(R) + Len(O))
  BY <1>1 DEF m, k
<1> QED BY <1>7, <1>8, <1>9

\* A loaded block says of its lists what the evaluation needs.
LEMMA LoadedBlock ==
    ASSUME NEW e, NEW b \in Block, BlockOK(b), NEW R, NEW O,
           R = Words(NamesOf(b.required)), O = Words(NamesOf(b.optional))
    PROVE  /\ R \in Seq(EnvName) /\ O \in Seq(EnvName)
           /\ Len(R) = Len(NamesOf(b.required)) /\ Len(O) = Len(NamesOf(b.optional))
           /\ Distinct(R)
           /\ Distinct(O)
           /\ Apart(R, O)
           /\ Lacks(NamesOf(b.required), e) = Chosen(R, Missing(R, e))
           /\ Lacks(NamesOf(b.optional), e) = Chosen(O, Missing(O, e))
<1>1. /\ b.required \in NameList /\ NamesOK(b.required) /\ NoRepeats(NamesOf(b.required))
      /\ b.optional \in NameList /\ NamesOK(b.optional) /\ NoRepeats(NamesOf(b.optional))
  BY DEF Block, BlockOK
<1> DEFINE r == NamesOf(b.required)  o == NamesOf(b.optional)
<1>2. \A i \in DOMAIN r, j \in DOMAIN o : r[i].word # o[j].word
  BY DEF BlockOK, NoOverlap
<1>3. /\ r \in Seq(AnyText) /\ R \in Seq(EnvName) /\ DOMAIN R = 1..Len(r) /\ Len(R) = Len(r)
      /\ \A i \in 1..Len(r) : R[i] = r[i].word
      /\ \A i, j \in 1..Len(r) : R[i] = R[j] => i = j
      /\ Lacks(r, e) = Chosen(R, Missing(R, e))
  BY <1>1, LoadedNames
<1>4. /\ o \in Seq(AnyText) /\ O \in Seq(EnvName) /\ DOMAIN O = 1..Len(o) /\ Len(O) = Len(o)
      /\ \A i \in 1..Len(o) : O[i] = o[i].word
      /\ \A i, j \in 1..Len(o) : O[i] = O[j] => i = j
      /\ Lacks(o, e) = Chosen(O, Missing(O, e))
  BY <1>1, LoadedNames
<1> HIDE DEF r, o
<1>5. DOMAIN r = 1..Len(r) /\ DOMAIN o = 1..Len(o)
  BY <1>3, <1>4
<1>6. Distinct(R) /\ Distinct(O)
  BY <1>3, <1>4 DEF Distinct
<1>7. Apart(R, O)
  BY <1>2, <1>3, <1>4, <1>5 DEF Apart
<1> QED BY <1>3, <1>4, <1>6, <1>7 DEF r, o

Verdict(R, names, e) ==
    [enabled |-> TRUE,
     state   |-> IF Missing(R, e) = {} THEN "configured" ELSE "missing_credentials",
     present |-> Chosen(names, DOMAIN names \ Missing(names, e)),
     missing |-> Chosen(names, Missing(names, e)),
     missing_required_count |-> Cardinality(Missing(R, e))]

\* What Evaluate returns for a spec that loads and whose readiness block is enabled.
LEMMA EvaluateSays ==
    ASSUME NEW s, NEW e, NEW b \in Block, BlockOK(b), b.enabled, s.readiness = b,
           NEW R \in Seq(EnvName), NEW O \in Seq(EnvName), NEW names,
           R = Words(NamesOf(b.required)), O = Words(NamesOf(b.optional)), names = Joined(R, O)
    PROVE  Evaluate(s, e) = Verdict(R, names, e)
<1> DEFINE block == Normal(s).readiness
           v == Normalized(b.venue)
<1>0. b # Nil
  BY TextAssumption
<1>1. block = [enabled |-> b.enabled, venue |-> v, required |-> R, optional |-> O]
  BY <1>0 DEF Normal
<1>2. v \in STRING \cup {Nil}
  BY DEF BlockOK, OptionalOK, IsText, Normalized, Block, AnyText, Text
<1>3. R \in Seq(STRING) /\ O \in Seq(STRING)
  <2>1. ASSUME NEW w \in Seq(EnvName) PROVE w \in Seq(STRING)
    <3> DEFINE u == [i \in 1..Len(w) |-> w[i]]
    <3>1. Len(w) \in Nat /\ \A i \in 1..Len(w) : w[i] \in EnvName
      OBVIOUS
    <3>2. \A i \in 1..Len(w) : w[i] \in STRING
      BY <3>1, TextAssumption
    <3>3. u \in Seq(STRING)
      BY <3>1, <3>2
    <3> QED BY <3>3
  <2> QED BY <2>1
<1>4. b.enabled \in BOOLEAN
  BY DEF Block
<1> HIDE DEF v
<1>5. block \in NormalBlock
  BY <1>1, <1>2, <1>3, <1>4 DEF NormalBlock
<1>6. block.enabled /\ block.required = R /\ block.optional = O
  BY <1>1
<1> HIDE DEF block
<1>7. block # Nil
  BY <1>5, TextAssumption
<1>8. Evaluate(s, e) =
        [enabled |-> TRUE,
         state   |-> IF Missing(R, e) = {} THEN "configured" ELSE "missing_credentials",
         present |-> {names[i] : i \in {j \in DOMAIN names : IsPresent(names[j], e)}},
         missing |-> Chosen(names, Missing(names, e)),
         missing_required_count |-> Cardinality(Missing(R, e))]
  BY <1>6, <1>7 DEF Evaluate, Missing, Chosen, Joined, block
<1>9. {names[i] : i \in {j \in DOMAIN names : IsPresent(names[j], e)}}
        = Chosen(names, DOMAIN names \ Missing(names, e))
  BY DEF Chosen, Missing
<1> QED BY <1>8, <1>9 DEF Verdict

\* The verdict's parts are what ReadinessByEnvironment says of them.
LEMMA VerdictOfBlock ==
    ASSUME NEW s, NEW e, NEW b \in Block, BlockOK(b), b.enabled, s.readiness = b,
           NEW r, r = Evaluate(s, e)
    PROVE  /\ r.present \cap r.missing = {}
           /\ Cardinality(r.present) + Cardinality(r.missing)
                = Len(NamesOf(b.required)) + Len(NamesOf(b.optional))
           /\ r.missing_required_count = Cardinality(Lacks(NamesOf(b.required), e))
           /\ r.missing = Lacks(NamesOf(b.required), e) \cup Lacks(NamesOf(b.optional), e)
           /\ r.state = "configured" <=> Lacks(NamesOf(b.required), e) = {}
<1>1. PICK R, O : R = Words(NamesOf(b.required)) /\ O = Words(NamesOf(b.optional))
  OBVIOUS
<1>2. /\ R \in Seq(EnvName) /\ O \in Seq(EnvName)
      /\ Len(R) = Len(NamesOf(b.required)) /\ Len(O) = Len(NamesOf(b.optional))
      /\ Distinct(R)
      /\ Distinct(O)
      /\ Apart(R, O)
      /\ Lacks(NamesOf(b.required), e) = Chosen(R, Missing(R, e))
      /\ Lacks(NamesOf(b.optional), e) = Chosen(O, Missing(O, e))
  BY <1>1, LoadedBlock
<1>3. PICK names : names = Joined(R, O)
  OBVIOUS
<1>4. r = Verdict(R, names, e)
  BY <1>1, <1>2, <1>3, EvaluateSays
<1>5. /\ r.present = Chosen(names, DOMAIN names \ Missing(names, e))
      /\ r.missing = Chosen(names, Missing(names, e))
      /\ r.missing_required_count = Cardinality(Missing(R, e))
      /\ r.state = "configured" <=> Missing(R, e) = {}
  BY <1>4 DEF Verdict
<1>6. /\ Len(R) + Len(O) \in Nat
      /\ DOMAIN names = 1..(Len(R) + Len(O))
      /\ Distinct(names)
      /\ Chosen(names, Missing(names, e)) = Chosen(R, Missing(R, e)) \cup Chosen(O, Missing(O, e))
  BY <1>2, <1>3, TwoLists
<1>7. r.present \cap r.missing = {}
  <2>1. Missing(names, e) \subseteq DOMAIN names
    BY DEF Missing
  <2> QED BY <1>5, <1>6, <2>1 DEF Chosen, Distinct
<1>8. Cardinality(r.present) + Cardinality(r.missing) = Len(R) + Len(O)
  <2>1. PICK n \in Nat : n = Len(R) + Len(O)
    BY <1>6
  <2>2. PICK P : P = DOMAIN names \ Missing(names, e)
    OBVIOUS
  <2>3. P \in SUBSET (1..n) /\ Missing(names, e) = (1..n) \ P
    BY <1>6, <2>1, <2>2 DEF Missing
  <2>4. \A i, j \in 1..n : names[i] = names[j] => i = j
    BY <1>6, <2>1 DEF Distinct
  <2>5. Cardinality(Chosen(names, P)) + Cardinality(Chosen(names, (1..n) \ P)) = n
    BY <2>3, <2>4, PartsCountUp
  <2>6. r.present = Chosen(names, P) /\ r.missing = Chosen(names, (1..n) \ P)
    BY <1>5, <2>2, <2>3
  <2> QED BY <2>1, <2>5, <2>6
<1>9. Cardinality(Missing(R, e)) = Cardinality(Chosen(R, Missing(R, e)))
  <2>1. IsFiniteSet(Missing(R, e))
    <3>1. PICK n \in Nat : n = Len(R) /\ DOMAIN R = 1..n
      BY <1>2
    <3>2. IsFiniteSet(1..n)
      BY FS_Interval
    <3>3. Missing(R, e) \in SUBSET (1..n)
      BY <3>1 DEF Missing
    <3> QED BY <3>2, <3>3, FS_Subset
  <2>2. \A i, j \in Missing(R, e) : R[i] = R[j] => i = j
    BY <1>2 DEF Missing, Distinct
  <2>3. PICK M : M = Missing(R, e)
    OBVIOUS
  <2>4. Cardinality(Chosen(R, M)) = Cardinality(M)
    BY <2>1, <2>2, <2>3, AsManyValues
  <2> QED BY <2>3, <2>4
<1>10. Missing(R, e) = {} <=> Chosen(R, Missing(R, e)) = {}
  BY DEF Chosen
<1> QED BY <1>2, <1>5, <1>6, <1>7, <1>8, <1>9, <1>10

\* The readiness verdict (connectivity/readiness.py) is about the environment and the
\* required names alone; its lists, its counter and its state agree: for lists of any
\* length and every environment.
THEOREM ReadinessIsOfEnvironment == RunSpecSpec => []ReadinessByEnvironment
<1>1. SpecTypeOK => ReadinessByEnvironment
  <2> SUFFICES ASSUME SpecTypeOK, Loads(spec), spec.readiness # Nil, spec.readiness.enabled
               PROVE  ReadinessByEnvironment
    BY DEF ReadinessByEnvironment
  <2>1. PICK s, e, b, r : /\ s = spec /\ e = env /\ b = spec.readiness
                          /\ r = Evaluate(spec, env)
    OBVIOUS
  <2>2. b \in Block /\ BlockOK(b) /\ b.enabled /\ s.readiness = b /\ r = Evaluate(s, e)
    BY <2>1 DEF SpecTypeOK, WrittenSpec, Loads
  <2>3. /\ r.present \cap r.missing = {}
        /\ Cardinality(r.present) + Cardinality(r.missing)
             = Len(NamesOf(b.required)) + Len(NamesOf(b.optional))
        /\ r.missing_required_count = Cardinality(Lacks(NamesOf(b.required), e))
        /\ r.missing = Lacks(NamesOf(b.required), e) \cup Lacks(NamesOf(b.optional), e)
        /\ r.state = "configured" <=> Lacks(NamesOf(b.required), e) = {}
    BY <2>2, VerdictOfBlock
  <2>4. LET q == Evaluate(spec, env)
            c == spec.readiness
        IN  /\ q.present \cap q.missing = {}
            /\ Cardinality(q.present) + Cardinality(q.missing)
                 = Len(NamesOf(c.required)) + Len(NamesOf(c.optional))
            /\ q.missing_required_count = Cardinality(Lacks(NamesOf(c.required), env))
            /\ q.missing = Lacks(NamesOf(c.required), env) \cup Lacks(NamesOf(c.optional), env)
            /\ q.state = "configured" <=> Lacks(NamesOf(c.required), env) = {}
    BY <2>1, <2>3
  <2> QED BY <2>4 DEF ReadinessByEnvironment, Lacks
<1> QED BY <1>1, SpecTypeCorrect, PTL

-----------------------------------------------------------------------------
(* The probe: its time limit and what its states mean *)

\* The phases in which nothing is decided yet say how far the hop came.
PhaseInv ==
    /\ phase = "request" => reached = "nobody" /\ addresses = 0
    /\ phase = "connect" => reached = "nobody" /\ addresses # 0
    /\ phase \in {"handshake", "send"} => reached = "accepted" /\ addresses # 0
    /\ phase = "handshake" => hops # 0
    /\ phase \in {"head", "body"} => reached = "sent" /\ addresses # 0
    /\ phase = "body" => hops < Redirects
    /\ phase = "ftp" => reached = "ftp"
    /\ phase \in {"request", "connect", "handshake", "send"} => pieces = Pieces
    /\ phase \in {"head", "ftp"} => pieces # 0

\* The waits of the earlier hops, and a handshake for each redirection.
PastHops == hops * (PerHop + 1)

\* One of these handshakes may still be to come.
Secured == IF hops = 0 THEN 0 ELSE 1

\* The waits that may lie behind the probe.
Waits ==
    CASE phase = "request"        -> PastHops - Secured
      [] phase = "connect"        -> PastHops - Secured + (Addresses - addresses)
      [] phase = "handshake"      -> PastHops + (Addresses - addresses)
      [] phase = "send"           -> PastHops + (Addresses - addresses) + 1
      [] phase \in {"head", "body"} -> PastHops + (Addresses - addresses) + 2 + (Pieces - pieces)
      [] phase = "ftp"            -> PastHops + (Pieces - pieces)
      [] phase = "done"           -> PastHops + PerHop

BudgetInv == waited <= Waits * Timeout

\* What the bound rests on: a phase decides how many waits there were, and how far
\* the hop came; a state, how it ended.
ProbeInv == ProbeTypeOK /\ PhaseInv /\ StateTellsExchange /\ BudgetInv

-----------------------------------------------------------------------------
\* One more wait fits into the budget of one more.
LEMMA OneMoreWait ==
    ASSUME NEW k \in Nat, NEW n \in Nat, NEW timeout \in Nat, NEW t \in 0..timeout,
           NEW e \in Nat, e <= k * timeout, k + 1 <= n
    PROVE  e + t <= n * timeout
<1>1. (k + 1) * timeout = k * timeout + timeout
  OBVIOUS
<1>2. \A d \in Nat : (k + 1 + d) * timeout = (k + 1) * timeout + d * timeout
  OBVIOUS
<1>3. \A d \in Nat : d * timeout \in Nat
  OBVIOUS
<1>4. /\ n - (k + 1) \in Nat
      /\ k + 1 + (n - (k + 1)) = n
  OBVIOUS
<1>5. /\ (n - (k + 1)) * timeout \in Nat
      /\ n * timeout = (k + 1) * timeout + (n - (k + 1)) * timeout
  BY <1>2, <1>3, <1>4
<1>6. k * timeout \in Nat
  OBVIOUS
<1> DEFINE x == k * timeout
           y == n * timeout
           z == (n - (k + 1)) * timeout
<1>7. x \in Nat /\ z \in Nat /\ y = (x + timeout) + z /\ e <= x
  BY <1>1, <1>5, <1>6
<1> HIDE DEF x, y, z
<1>8. e + t <= y
  BY <1>7
<1> QED BY <1>8 DEF y

\* A larger budget will do as well.
LEMMA LargerBudget ==
    ASSUME NEW k \in Nat, NEW n \in Nat, NEW timeout \in Nat,
           NEW e \in Nat, e <= k * timeout, k <= n
    PROVE  e <= n * timeout
<1>1. CASE k = n
  BY <1>1
<1>2. CASE k # n
  <2>1. k + 1 <= n /\ 0 \in 0..timeout /\ e + 0 = e
    BY <1>2
  <2> HIDE <1>2
  <2>2. e + 0 <= n * timeout
    BY <2>1, OneMoreWait
  <2> QED BY <2>1, <2>2
<1> QED BY <1>1, <1>2

\* What the constants and the earlier hops amount to.
LEMMA PastIs ==
    ASSUME ProbeTypeOK
    PROVE  /\ PastHops \in Nat /\ Secured \in {0, 1} /\ Secured <= PastHops
           /\ PerHop \in Nat /\ PerHop = Addresses + 1 + Pieces
           /\ Addresses \in Nat /\ Pieces \in Nat /\ Timeout \in Nat
           /\ addresses \in 0..Addresses /\ pieces \in 0..Pieces /\ waited \in Nat
<1>1. hops \in Nat /\ PerHop \in Nat
  BY ProbeAssumption DEF ProbeTypeOK, PerHop
<1>2. /\ 0 * (PerHop + 1) = 0
      /\ \A k \in Nat : k * (PerHop + 1) \in Nat
      /\ \A k \in Nat \ {0} : k * (PerHop + 1) >= 1
  <2> DEFINE m == PerHop + 1
  <2>1. m \in Nat \ {0}
    BY <1>1
  <2> HIDE DEF m
  <2>2. /\ 0 * m = 0
        /\ \A k \in Nat : k * m \in Nat
        /\ \A k \in Nat \ {0} : k * m >= 1
    BY <2>1
  <2> QED BY <2>2 DEF m
<1>3. PastHops \in Nat /\ Secured \in {0, 1} /\ Secured <= PastHops
  BY <1>1, <1>2 DEF PastHops, Secured
<1> QED BY <1>1, <1>3, ProbeAssumption DEF ProbeTypeOK, PerHop

\* As long as there is something to wait for, the budget has room for it.
LEMMA WaitsLeft ==
    ASSUME ProbeTypeOK, PhaseInv, phase # "done"
    PROVE  /\ Waits \in Nat /\ PastHops + PerHop \in Nat
           /\ phase # "body" \/ pieces > 0 => Waits + 1 <= PastHops + PerHop
           /\ Waits <= PastHops + PerHop
<1> DEFINE a == Addresses - addresses
           p == Pieces - pieces
<1>1. a \in Nat /\ p \in Nat /\ PastHops \in Nat /\ Secured \in {0, 1} /\ Secured <= PastHops
  BY PastIs
<1>2. /\ PerHop = Addresses + 1 + Pieces /\ a <= Addresses /\ p <= Pieces
      /\ Addresses \in Nat \ {0} /\ Pieces \in Nat \ {0}
      /\ addresses # 0 => a + 1 <= Addresses
      /\ pieces # 0 => p + 1 <= Pieces
  BY PastIs, ProbeAssumption
<1>3. pieces > 0 => pieces # 0
  BY PastIs
<1>4. /\ phase \in {"connect", "handshake", "send", "head", "body"} => a + 1 <= Addresses
      /\ phase \in {"head", "ftp"} => p + 1 <= Pieces
      /\ phase = "handshake" => Secured = 1
  BY <1>2 DEF PhaseInv, Secured
<1>5. Waits = CASE phase = "request"        -> PastHops - Secured
                [] phase = "connect"        -> PastHops - Secured + a
                [] phase = "handshake"      -> PastHops + a
                [] phase = "send"           -> PastHops + a + 1
                [] phase \in {"head", "body"} -> PastHops + a + 2 + p
                [] phase = "ftp"            -> PastHops + p
                [] phase = "done"           -> PastHops + PerHop
  BY DEF Waits
<1>6. phase \in {"request", "connect", "handshake", "send", "head", "body", "ftp"}
  BY DEF ProbeTypeOK
<1> HIDE DEF a, p
<1>7. CASE phase \in {"request", "connect"}
  BY <1>1, <1>2, <1>4, <1>5, <1>7
<1>8. CASE phase \in {"handshake", "send"}
  BY <1>1, <1>2, <1>4, <1>5, <1>8
<1>9. CASE phase \in {"head", "body"}
  BY <1>1, <1>2, <1>3, <1>4, <1>5, <1>9
<1>10. CASE phase = "ftp"
  BY <1>1, <1>2, <1>4, <1>5, <1>10
<1> QED BY <1>6, <1>7, <1>8, <1>9, <1>10

\* A return statement keeps the invariant if its state fits the exchange.
LEMMA ReturnKeepsInv ==
    ASSUME ProbeInv, phase # "done",
           NEW s \in States, NEW t \in Wait, Return(s, t),
           t = 0 \/ phase # "body" \/ pieces > 0,
           s = "probe_timeout" => t \in LongWait,
           s = "probe_unreachable" =>
              reached \in {"accepted", "ftp"} \/ (reached = "nobody" /\ addresses \in {0, 1}),
           s \in {"probe_ok", "probe_http_error"} => reached = "sent",
           s = "probe_unknown" =>
              reached \in {"sent", "ftp"} \/ (reached = "nobody" /\ addresses = 0)
    PROVE  ProbeInv'
<1>1. /\ t \in Nat /\ t \in 0..Timeout /\ Timeout \in Nat /\ SystemTimeout \in Nat
      /\ waited \in Nat /\ waited' = waited + t
  BY ProbeAssumption DEF Wait, ProbeInv, ProbeTypeOK, Return
<1>2. ProbeTypeOK'
  BY <1>1 DEF ProbeInv, ProbeTypeOK, Return, States, None
<1>3. PhaseInv'
  BY DEF Return, PhaseInv
<1>4. StateTellsExchange'
  <2>1. s = "probe_timeout" => t >= Timeout \/ t >= SystemTimeout
    BY <1>1 DEF LongWait
  <2>2. s = "probe_timeout" => waited' >= Timeout \/ waited' >= SystemTimeout
    BY <1>1, <2>1
  <2> QED BY <2>2 DEF Return, StateTellsExchange
<1>5. BudgetInv'
  <2>1. /\ Waits \in Nat /\ PastHops + PerHop \in Nat /\ Waits <= PastHops + PerHop
        /\ phase # "body" \/ pieces > 0 => Waits + 1 <= PastHops + PerHop
    BY WaitsLeft DEF ProbeInv
  <2>2. Waits' = PastHops + PerHop
    BY DEF Return, Waits, PastHops
  <2>3. waited <= Waits * Timeout
    BY DEF ProbeInv, BudgetInv
  <2>4. CASE t = 0
    <3>1. waited' = waited
      BY <1>1, <2>4
    <3>2. waited <= (PastHops + PerHop) * Timeout
      BY <1>1, <2>1, <2>3, LargerBudget
    <3> QED BY <2>2, <3>1, <3>2 DEF BudgetInv
  <2>5. CASE phase # "body" \/ pieces > 0
    <3>1. waited + t <= (PastHops + PerHop) * Timeout
      BY <1>1, <2>1, <2>3, <2>5, OneMoreWait
    <3> QED BY <1>1, <2>2, <3>1 DEF BudgetInv
  <2> QED BY <2>4, <2>5
<1> QED BY <1>2, <1>3, <1>4, <1>5 DEF ProbeInv

\* A step that goes on with the hop keeps the invariant when it takes at most one wait
\* and leaves one more behind.
LEMMA GoOnKeepsInv ==
    ASSUME ProbeInv, phase # "done", NEW p, NEW t \in Wait, GoOn(p, t),
           p \in {"connect", "handshake", "send", "head", "body", "ftp"},
           PhaseInv', addresses' \in 0..Addresses, pieces' \in 0..Pieces,
           reached' \in {"nobody", "accepted", "sent", "ftp"},
           Waits' \in Nat, Waits + 1 <= Waits' \/ (t = 0 /\ Waits <= Waits')
    PROVE  ProbeInv'
<1>1. /\ t \in Nat /\ t \in 0..Timeout /\ Timeout \in Nat
      /\ waited \in Nat /\ waited' = waited + t /\ Waits \in Nat
      /\ waited <= Waits * Timeout
  BY ProbeAssumption, WaitsLeft DEF Wait, ProbeInv, ProbeTypeOK, GoOn, BudgetInv
<1>2. state = None /\ state' = None /\ hops' = hops
  BY DEF GoOn, ProbeInv, ProbeTypeOK
<1>3. ProbeTypeOK'
  BY <1>1, <1>2 DEF ProbeInv, ProbeTypeOK, GoOn
<1>4. StateTellsExchange'
  BY <1>2 DEF StateTellsExchange, None
<1>5. waited + t <= Waits' * Timeout
  <2>1. CASE Waits + 1 <= Waits'
    BY <1>1, <2>1, OneMoreWait
  <2>2. CASE t = 0 /\ Waits <= Waits'
    <3>1. Waits' \in Nat /\ Waits <= Waits'
      BY <2>2
    <3>2. waited <= Waits' * Timeout
      BY <1>1, <3>1, LargerBudget
    <3>3. waited + t = waited
      BY <1>1, <2>2
    <3> QED BY <3>2, <3>3
  <2> QED BY <2>1, <2>2
<1>6. BudgetInv'
  BY <1>1, <1>5 DEF BudgetInv
<1> QED BY <1>3, <1>4, <1>6 DEF ProbeInv

-----------------------------------------------------------------------------
\* A probe begins in the invariant.
LEMMA ProbeInitInv == ProbeInit => ProbeInv
<1> SUFFICES ASSUME ProbeInit PROVE ProbeInv
  OBVIOUS
<1>1. ProbeTypeOK
  BY ProbeAssumption DEF ProbeInit, ProbeTypeOK, States, None
<1>2. PhaseInv /\ StateTellsExchange
  BY DEF ProbeInit, PhaseInv, StateTellsExchange, None
<1>3. BudgetInv
  <2>1. Waits \in Nat
    BY <1>1, <1>2, WaitsLeft DEF ProbeInit
  <2>2. Waits * Timeout >= 0
    BY <2>1, ProbeAssumption
  <2> QED BY <2>2 DEF BudgetInv, ProbeInit
<1> QED BY <1>1, <1>2, <1>3 DEF ProbeInv

\* The steps up to the request keep it.
LEMMA RequestKeepsInv ==
    ASSUME ProbeInv,
           \/ NotARequest \/ LookUp \/ NoAddress \/ Connect
           \/ ConnectRefused \/ ConnectTimesOut \/ Handshake
           \/ Send \/ SendFails \/ SendTimesOut
    PROVE  ProbeInv'
<1>0. /\ 0 \in Wait /\ LongWait \subseteq Wait
      /\ ProbeTypeOK /\ PhaseInv
  BY ProbeAssumption DEF Wait, LongWait, ProbeInv
<1>1. ASSUME NEW p, NEW t, GoOn(p, t)
      PROVE  PastHops' = PastHops /\ Secured' = Secured /\ phase' = p
  BY <1>1 DEF GoOn, PastHops, Secured
<1>2. CASE NotARequest
  <2>1. phase # "done" /\ reached = "nobody" /\ addresses = 0 /\ Return("probe_unknown", 0)
    BY <1>0, <1>2 DEF NotARequest, PhaseInv
  <2> QED BY <1>0, <2>1, ReturnKeepsInv DEF States
<1>3. CASE NoAddress
  <2>1. phase # "done" /\ reached = "nobody" /\ addresses = 0 /\ Return("probe_unreachable", 0)
    BY <1>0, <1>3 DEF NoAddress, PhaseInv
  <2> QED BY <1>0, <2>1, ReturnKeepsInv DEF States
<1>4. CASE LookUp
  <2>1. /\ GoOn("connect", 0) /\ phase = "request" /\ phase' = "connect"
        /\ reached = "nobody" /\ reached' = "nobody"
        /\ addresses' \in 1..Addresses /\ addresses' # 0
        /\ pieces = Pieces /\ pieces' = pieces
    BY <1>0, <1>1, <1>4, ProbeAssumption DEF LookUp, PhaseInv
  <2>2. PhaseInv'
    BY <2>1 DEF PhaseInv
  <2>3. PastHops' = PastHops /\ Secured' = Secured
    BY <1>1, <2>1
  <2>4. Waits' \in Nat /\ Waits <= Waits' /\ addresses' \in 0..Addresses
    BY <1>0, <2>1, <2>3, PastIs DEF Waits
  <2> QED BY <1>0, <2>1, <2>2, <2>4, PastIs, GoOnKeepsInv
<1>5. CASE Connect
  <2>1. PICK t \in Wait, p \in {"send", "handshake"} :
           GoOn(p, t) /\ (p = "handshake" => hops # 0)
    BY <1>5 DEF Connect
  <2>2. /\ phase = "connect" /\ phase' = p /\ hops' = hops
        /\ addresses # 0 /\ addresses' = addresses /\ pieces = Pieces /\ pieces' = pieces
        /\ reached' = "accepted"
    BY <1>0, <1>5, <2>1 DEF Connect, PhaseInv, GoOn
  <2>3. PhaseInv'
    BY <2>1, <2>2 DEF PhaseInv
  <2>4. /\ PastHops' = PastHops /\ Secured' = Secured
        /\ p = "handshake" => Secured = 1
    BY <1>1, <2>1 DEF Secured
  <2>5. Waits' \in Nat /\ Waits + 1 <= Waits'
    <3>1. CASE p = "send"
      BY <2>2, <2>4, <3>1, <1>0, PastIs DEF Waits
    <3>2. CASE p = "handshake"
      BY <2>2, <2>4, <3>2, <1>0, PastIs DEF Waits
    <3> QED BY <3>1, <3>2
  <2> QED BY <1>0, <2>1, <2>2, <2>3, <2>5, PastIs, GoOnKeepsInv
<1>6. ASSUME NEW s \in {"probe_unreachable", "probe_timeout"}, NEW t \in Wait,
             NextAddress(s, t), s = "probe_timeout" => t \in LongWait
      PROVE  ProbeInv'
  <2>1. CASE addresses = 1
    <3>1. /\ Return(s, t) /\ phase # "done" /\ phase # "body" /\ reached = "nobody"
          /\ s \in States
      BY <1>0, <1>6, <2>1 DEF NextAddress, PhaseInv, States
    <3> QED BY <1>6, <2>1, <3>1, ReturnKeepsInv
  <2>2. CASE addresses # 1
    <3>1. /\ GoOn("connect", t) /\ phase = "connect" /\ phase' = "connect"
          /\ addresses # 0 /\ addresses' = addresses - 1
          /\ pieces = Pieces /\ pieces' = pieces
          /\ reached = "nobody" /\ reached' = "nobody"
      BY <1>0, <1>6, <2>2 DEF NextAddress, PhaseInv, GoOn
    <3>2. addresses' # 0 /\ addresses' \in 0..Addresses
      BY <1>0, <2>2, <3>1, PastIs
    <3>3. PhaseInv'
      BY <3>1, <3>2 DEF PhaseInv
    <3>4. PastHops' = PastHops /\ Secured' = Secured
      BY <1>1, <3>1
    <3>5. Waits' \in Nat /\ Waits + 1 <= Waits'
      BY <1>0, <3>1, <3>2, <3>4, PastIs DEF Waits
    <3> QED BY <1>0, <3>1, <3>2, <3>3, <3>5, PastIs, GoOnKeepsInv
  <2> QED BY <2>1, <2>2
<1>7. CASE ConnectRefused
  BY <1>6, <1>7 DEF ConnectRefused
<1>8. CASE ConnectTimesOut
  BY <1>0, <1>6, <1>8 DEF ConnectTimesOut
<1>9. CASE Handshake
  <2>1. PICK t \in Wait : GoOn("send", t)
    BY <1>9 DEF Handshake
  <2>2. /\ phase = "handshake" /\ phase' = "send" /\ PastHops' = PastHops
        /\ addresses # 0 /\ addresses' = addresses /\ pieces = Pieces /\ pieces' = pieces
        /\ reached = "accepted" /\ reached' = "accepted"
    BY <1>0, <1>1, <1>9, <2>1 DEF Handshake, PhaseInv
  <2>3. PhaseInv'
    BY <2>2 DEF PhaseInv
  <2>4. Waits' \in Nat /\ Waits + 1 <= Waits'
    BY <1>0, <2>2, PastIs DEF Waits
  <2> QED BY <1>0, <2>1, <2>2, <2>3, <2>4, PastIs, GoOnKeepsInv
<1>10. CASE Send
  <2>1. PICK t \in Wait : GoOn("head", t)
    BY <1>10 DEF Send
  <2>2. /\ phase = "send" /\ phase' = "head" /\ PastHops' = PastHops
        /\ addresses # 0 /\ addresses' = addresses /\ pieces = Pieces /\ pieces' = pieces
        /\ reached' = "sent"
    BY <1>0, <1>1, <1>10, <2>1 DEF Send, PhaseInv
  <2>3. PhaseInv'
    BY <2>2, ProbeAssumption DEF PhaseInv
  <2>4. Waits' \in Nat /\ Waits + 1 <= Waits'
    BY <1>0, <2>2, PastIs DEF Waits
  <2> QED BY <1>0, <2>1, <2>2, <2>3, <2>4, PastIs, GoOnKeepsInv
<1>11. CASE SendFails
  <2>1. PICK t \in Wait : Return("probe_unreachable", t)
    BY <1>11 DEF SendFails
  <2>2. phase \notin {"body", "done"} /\ reached = "accepted"
    BY <1>0, <1>11 DEF SendFails, PhaseInv
  <2> QED BY <2>1, <2>2, ReturnKeepsInv DEF States
<1>12. CASE SendTimesOut
  <2>1. PICK t \in LongWait : Return("probe_timeout", t)
    BY <1>12 DEF SendTimesOut
  <2>2. phase \notin {"body", "done"} /\ t \in Wait
    BY <1>0, <1>12, <2>1 DEF SendTimesOut
  <2> QED BY <2>1, <2>2, ReturnKeepsInv DEF States
<1> QED BY <1>2, <1>3, <1>4, <1>5, <1>7, <1>8, <1>9, <1>10, <1>11, <1>12

\* So do those that wait for an answer, and those that follow a redirection.
LEMMA AnswerKeepsInv ==
    ASSUME ProbeInv,
           \/ ReadPiece \/ ReadHead \/ ReadRedirection \/ Follow \/ ReadTimesOut \/ BreaksOff
           \/ FtpWaits \/ FtpEnds \/ FtpTimesOut
    PROVE  ProbeInv'
<1>0. LongWait \subseteq Wait /\ ProbeTypeOK /\ PhaseInv
  BY DEF LongWait, ProbeInv
<1>1. ASSUME NEW p, NEW t, GoOn(p, t)
      PROVE  PastHops' = PastHops /\ phase' = p
  BY <1>1 DEF GoOn, PastHops
<1>2. CASE ReadPiece
  <2>1. PICK t \in Wait : GoOn(phase, t)
    BY <1>2 DEF ReadPiece
  <2>2. /\ phase \in {"head", "body"} /\ phase' = phase /\ PastHops' = PastHops
        /\ addresses # 0 /\ addresses' = addresses /\ pieces' = pieces - 1
        /\ pieces > 0 /\ (phase = "head" => pieces > 1)
        /\ reached = "sent" /\ reached' = "sent"
        /\ hops' = hops /\ (phase = "body" => hops < Redirects)
    BY <1>0, <1>1, <1>2, <2>1, PastIs DEF ReadPiece, PhaseInv, GoOn
  <2>3. pieces' \in 0..Pieces /\ (phase = "head" => pieces' # 0)
    BY <1>0, <2>2, PastIs
  <2>4. PhaseInv'
    BY <2>2, <2>3 DEF PhaseInv
  <2>5. Waits' \in Nat /\ Waits + 1 <= Waits'
    BY <1>0, <2>2, PastIs DEF Waits
  <2> QED BY <1>0, <2>1, <2>2, <2>3, <2>4, <2>5, PastIs, GoOnKeepsInv
<1>3. CASE ReadRedirection
  <2>1. PICK t \in Wait : GoOn("body", t)
    BY <1>3 DEF ReadRedirection
  <2>2. /\ phase = "head" /\ phase' = "body" /\ PastHops' = PastHops
        /\ addresses # 0 /\ addresses' = addresses /\ pieces' = pieces - 1 /\ pieces # 0
        /\ reached = "sent" /\ reached' = "sent" /\ hops' = hops /\ hops < Redirects
    BY <1>0, <1>1, <1>3, <2>1 DEF ReadRedirection, PhaseInv, GoOn
  <2>3. pieces' \in 0..Pieces
    BY <1>0, <2>2, PastIs
  <2>4. PhaseInv'
    BY <2>2 DEF PhaseInv
  <2>5. Waits' \in Nat /\ Waits + 1 <= Waits'
    BY <1>0, <2>2, PastIs DEF Waits
  <2> QED BY <1>0, <2>1, <2>2, <2>3, <2>4, <2>5, PastIs, GoOnKeepsInv
<1>4. CASE FtpWaits
  <2>1. PICK t \in Wait : GoOn("ftp", t)
    BY <1>4 DEF FtpWaits
  <2>2. /\ phase = "ftp" /\ phase' = "ftp" /\ PastHops' = PastHops
        /\ addresses' = addresses /\ pieces' = pieces - 1 /\ pieces > 1
        /\ reached = "ftp" /\ reached' = "ftp"
    BY <1>0, <1>1, <1>4, <2>1 DEF FtpWaits, PhaseInv
  <2>3. pieces' \in 0..Pieces /\ pieces' # 0
    BY <1>0, <2>2, PastIs
  <2>4. PhaseInv'
    BY <2>2, <2>3 DEF PhaseInv
  <2>5. Waits' \in Nat /\ Waits + 1 <= Waits'
    BY <1>0, <2>2, PastIs DEF Waits
  <2> QED BY <1>0, <2>1, <2>2, <2>3, <2>4, <2>5, PastIs, GoOnKeepsInv
<1>5. ASSUME NEW s \in States, NEW t \in Wait, Return(s, t),
             phase \in {"head", "ftp"} \/ (phase = "body" /\ pieces > 0),
             s = "probe_timeout" => t \in LongWait,
             s = "probe_unreachable" => phase = "ftp",
             s \in {"probe_ok", "probe_http_error"} => phase = "head"
      PROVE  ProbeInv'
  <2>1. /\ phase # "done" /\ (phase # "body" \/ pieces > 0)
        /\ phase = "ftp" => reached = "ftp"
        /\ phase \in {"head", "body"} => reached = "sent"
    BY <1>0, <1>5 DEF PhaseInv
  <2>2. /\ s = "probe_unreachable" => reached = "ftp"
        /\ s \in {"probe_ok", "probe_http_error"} => reached = "sent"
        /\ reached \in {"sent", "ftp"}
    BY <1>5, <2>1
  <2> QED BY <1>5, <2>1, <2>2, ReturnKeepsInv
<1>6. CASE ReadHead
  BY <1>5, <1>6 DEF ReadHead, States
<1>7. CASE ReadTimesOut
  BY <1>0, <1>5, <1>7 DEF ReadTimesOut, States
<1>8. CASE BreaksOff
  BY <1>5, <1>8 DEF BreaksOff, States
<1>9. CASE FtpEnds
  BY <1>5, <1>9 DEF FtpEnds, States
<1>10. CASE FtpTimesOut
  BY <1>0, <1>5, <1>10 DEF FtpTimesOut, States
<1>11. CASE Follow
  <2>1. /\ phase = "body" /\ phase' \in {"request", "ftp"} /\ hops' = hops + 1
        /\ addresses' = 0 /\ pieces' = Pieces /\ waited' = waited
        /\ phase' = "request" => reached' = "nobody"
        /\ phase' = "ftp" => reached' = "ftp"
        /\ reached' \in {"nobody", "ftp"} /\ state' = state
    BY <1>11 DEF Follow
  <2>2. state = None /\ hops \in Nat /\ hops < Redirects
    BY <1>0, <2>1, ProbeAssumption DEF ProbeTypeOK, PhaseInv
  <2>3. ProbeTypeOK'
    BY <1>0, <2>1, <2>2, ProbeAssumption DEF ProbeTypeOK
  <2>4. PhaseInv'
    BY <2>1, ProbeAssumption DEF PhaseInv
  <2>5. StateTellsExchange'
    BY <2>1, <2>2 DEF StateTellsExchange, None
  <2>6. PastHops' = PastHops + PerHop + 1
    <3>1. PerHop \in Nat
      BY <1>0, PastIs
    <3>2. (hops + 1) * (PerHop + 1) = hops * (PerHop + 1) + (PerHop + 1)
      BY <2>2, <3>1
    <3>3. PastHops' = PastHops + (PerHop + 1)
      BY <2>1, <3>2 DEF PastHops, PerHop
    <3> QED BY <1>0, <3>1, <3>3, PastIs
  <2>7. Secured' = 1
    BY <2>1, <2>2 DEF Secured
  <2>8. Waits \in Nat /\ Waits <= PastHops + PerHop
    BY <1>0, <2>1, WaitsLeft
  <2>9. Waits' \in Nat /\ Waits <= Waits'
    BY <1>0, <2>1, <2>6, <2>7, <2>8, PastIs DEF Waits
  <2>10. waited <= Waits' * Timeout
    BY <1>0, <2>8, <2>9, PastIs, LargerBudget DEF ProbeInv, BudgetInv
  <2> QED BY <2>1, <2>3, <2>4, <2>5, <2>10 DEF ProbeInv, BudgetInv
<1> QED BY <1>2, <1>3, <1>4, <1>6, <1>7, <1>8, <1>9, <1>10, <1>11

\* Every step of the probe keeps the invariant.
LEMMA ProbeNextInv == ProbeInv /\ [ProbeNext]_probeVars => ProbeInv'
<1> SUFFICES ASSUME ProbeInv, [ProbeNext]_probeVars PROVE ProbeInv'
  OBVIOUS
<1>1. CASE ProbeNext
  BY <1>1, RequestKeepsInv, AnswerKeepsInv DEF ProbeNext
<1>2. CASE UNCHANGED probeVars
  BY <1>2 DEF probeVars, ProbeInv, ProbeTypeOK, PhaseInv, StateTellsExchange,
              BudgetInv, Waits, PastHops, Secured
<1> QED BY <1>1, <1>2

\* So it holds throughout.
LEMMA ProbeInvariant == ProbeSpec => []ProbeInv
  BY ProbeInitInv, ProbeNextInv, PTL DEF ProbeSpec

-----------------------------------------------------------------------------
\* The invariant implies the bound: the budget of a phase is never above the waits of
\* the hops so far.
LEMMA InvBounds == ProbeInv => ProbeBounded
<1> SUFFICES ASSUME ProbeInv PROVE waited <= (PastHops + PerHop) * Timeout
  BY DEF ProbeBounded, PastHops
<1>1. CASE phase = "done"
  BY <1>1 DEF ProbeInv, BudgetInv, Waits
<1>2. CASE phase # "done"
  <2>1. Waits \in Nat /\ Waits <= PastHops + PerHop /\ PastHops + PerHop \in Nat
    BY <1>2, WaitsLeft DEF ProbeInv
  <2>2. waited \in Nat /\ Timeout \in Nat /\ waited <= Waits * Timeout
    BY PastIs DEF ProbeInv, BudgetInv
  <2> QED BY <2>1, <2>2, LargerBudget
<1> QED BY <1>1, <1>2

\* A probe waits no longer than one timeout per address, one to send and one per piece
\* of an answer, and for each redirection as long again and a handshake, whatever the
\* timeout, the number of addresses, pieces and redirections, and the hosts.
THEOREM TimeIsBounded == ProbeSpec => []ProbeBounded
  BY ProbeInvariant, InvBounds, PTL

\* The state of a probe tells what became of the last request, for all hosts and
\* redirections: it is unreachable only if that request was not sent, and unknown
\* without a request only if nobody was contacted for it.
THEOREM StatesTellExchange == ProbeSpec => []StateTellsExchange
<1>1. ProbeInv => StateTellsExchange
  BY DEF ProbeInv
<1> QED BY <1>1, ProbeInvariant, PTL

-----------------------------------------------------------------------------
(* Data: what a fingerprint and a backtest saw of the candles *)

PreparePCs == {"make_dir", "open_copy", "flush_copy"}
PrintPCs == {"list", "hash", "stat", "open_output", "flush_output"}
BacktestPCs == {"load", "bars"}
EndPCs == {"done", "failed", "crashed"}

\* Files, memories and histories are well typed, and a step belongs to its command.
DataTypeOK ==
    /\ candles \in Nat \cup NoFile
    /\ pc \in [Proc -> {"idle"} \cup PreparePCs \cup PrintPCs \cup BacktestPCs \cup EndPCs]
    /\ op \in [Proc -> DataOps \cup {NoCommand}]
    /\ taken \in [Proc -> [sha : Nat \cup NoFile, size : Nat \cup NoFile]]
    /\ strategy \in [Proc -> [bars_seen : Nat, triggered : BOOLEAN]]
    /\ before \in [Proc -> SUBSET Proc]

Fits(p) ==
    /\ pc[p] = "idle" <=> op[p] = NoCommand
    /\ pc[p] \in PreparePCs => op[p] = "prepare"
    /\ pc[p] \in PrintPCs => op[p] = "fingerprint"
    /\ pc[p] \in BacktestPCs => op[p] = "backtest"

HistoryOK == \A p \in Proc : \A q \in before[p] : Ended(q)

\* The candles are what an earlier checkout left until a prepare opens them, and then
\* the fixture or nothing.
Copying == \E p \in Proc : op[p] = "prepare" /\ pc[p] \in {"flush_copy", "done"}
CandlesInv ==
    /\ candles \in Earlier \cup {Empty, FixtureRows}
    /\ Copying => candles \in {Empty, FixtureRows}

\* Every other command of p's kind was over when p began.
Alone(p) == \A q \in Proc \ {p} : op[q] = op[p] => q \in before[p]

PrepareInv ==
    \A q \in Proc : op[q] = "prepare" /\ Alone(q) =>
        /\ pc[q] = "flush_copy" => candles = Empty
        /\ pc[q] = "done" => candles = FixtureRows

\* What a fingerprint that began after such a prepare has taken and written.
AfterPrepare(p) == \E q \in before[p] : LastOf("prepare", q)

PrintInv ==
    \A p \in Proc : op[p] = "fingerprint" /\ AfterPrepare(p) =>
        /\ pc[p] \in {"stat", "open_output", "flush_output"} => taken[p].sha = FixtureRows
        /\ pc[p] \in {"open_output", "flush_output"} => taken[p].size = FixtureRows
        /\ Alone(p) /\ pc[p] = "flush_output" => output = Empty
        /\ Alone(p) /\ pc[p] = "done" => output = [sha |-> FixtureRows, size |-> FixtureRows]

\* What a backtest has counted.
Counted(p) ==
    /\ taken[p].sha \in (Earlier \cup {FixtureRows}) \ {Absent, 0}
    /\ taken[p].sha \in Nat
    /\ strategy[p].bars_seen <= taken[p].sha
    /\ strategy[p].triggered <=> strategy[p].bars_seen >= ActionBar

BacktestInv ==
    \A p \in Proc :
        /\ pc[p] = "idle" => strategy[p] = NewStrategy
        /\ op[p] = "backtest" =>
              /\ pc[p] = "load" => strategy[p] = NewStrategy
              /\ pc[p] \in {"bars", "done"} => Counted(p)
              /\ pc[p] = "done" => strategy[p].bars_seen = taken[p].sha
              /\ pc[p] = "failed" => ~AfterPrepare(p)

OwnInv == DataTypeOK /\ (\A p \in Proc : Fits(p)) /\ HistoryOK
DataInv == OwnInv /\ CandlesInv /\ PrepareInv /\ PrintInv /\ BacktestInv
-----------------------------------------------------------------------------

\* What a step of p leaves alone.
LEMMA StepFrame ==
    ASSUME OwnInv, NEW p \in Proc, DataStep(p)
    PROVE  /\ ~Ended(p)
           /\ \A r \in Proc \ {p} :
                /\ pc'[r] = pc[r] /\ op'[r] = op[r] /\ before'[r] = before[r]
                /\ taken'[r] = taken[r] /\ strategy'[r] = strategy[r]
           /\ pc[p] # "idle" => op'[p] = op[p] /\ before'[p] = before[p]
           /\ pc[p] = "idle" => /\ pc'[p] \in {"make_dir", "list", "load"}
                                /\ before'[p] = {q \in Proc : Ended(q)}
                                /\ strategy'[p] = strategy[p]
           /\ candles' # candles => pc[p] \in {"open_copy", "flush_copy"}
           /\ output' # output => pc[p] \in {"open_output", "flush_output"}
<1> USE DEF OwnInv, DataTypeOK, Ended, Goto
<1>1. CASE BeginData(p)
  BY <1>1 DEF BeginData, FirstStep, DataOps
<1>2. CASE MakeDataDir(p)
  BY <1>2 DEF MakeDataDir
<1>3. CASE OpenCopy(p)
  BY <1>3 DEF OpenCopy
<1>4. CASE FlushCopy(p)
  BY <1>4 DEF FlushCopy
<1>5. CASE ListFiles(p)
  BY <1>5 DEF ListFiles
<1>6. CASE HashFile(p)
  BY <1>6 DEF HashFile
<1>7. CASE StatFile(p)
  BY <1>7 DEF StatFile
<1>8. CASE OpenFingerprint(p)
  BY <1>8 DEF OpenFingerprint
<1>9. CASE FlushFingerprint(p)
  BY <1>9 DEF FlushFingerprint
<1>10. CASE LoadCandles(p)
  BY <1>10 DEF LoadCandles
<1>11. CASE OnBar(p)
  BY <1>11 DEF OnBar
<1>12. CASE EngineDone(p)
  BY <1>12 DEF EngineDone
<1>13. CASE CrashData(p)
  BY <1>13 DEF CrashData
<1> QED BY <1>1, <1>2, <1>3, <1>4, <1>5, <1>6, <1>7, <1>8, <1>9, <1>10, <1>11, <1>12,
           <1>13 DEF DataStep

\* Each step keeps the types and goes on in its own command.
LEMMA TypeStep ==
    ASSUME OwnInv, NEW p \in Proc, DataStep(p)
    PROVE  DataTypeOK' /\ Fits(p)'
<1> USE RowAssumption DEF OwnInv, DataTypeOK, Fits, Goto, PreparePCs, PrintPCs, BacktestPCs,
        EndPCs, NoFile
<1>1. CASE BeginData(p)
  BY <1>1 DEF BeginData, FirstStep, DataOps, NoCommand
<1>2. CASE MakeDataDir(p)
  BY <1>2 DEF MakeDataDir
<1>3. CASE OpenCopy(p)
  BY <1>3 DEF OpenCopy
<1>4. CASE FlushCopy(p)
  BY <1>4 DEF FlushCopy, Flush
<1>5. CASE ListFiles(p)
  BY <1>5 DEF ListFiles
<1>6. CASE HashFile(p)
  BY <1>6 DEF HashFile
<1>7. CASE StatFile(p)
  BY <1>7 DEF StatFile
<1>8. CASE OpenFingerprint(p)
  BY <1>8 DEF OpenFingerprint
<1>9. CASE FlushFingerprint(p)
  BY <1>9 DEF FlushFingerprint
<1>10. CASE LoadCandles(p)
  BY <1>10 DEF LoadCandles
<1>11. CASE OnBar(p)
  BY <1>11 DEF OnBar
<1>12. CASE EngineDone(p)
  BY <1>12 DEF EngineDone
<1>13. CASE CrashData(p)
  BY <1>13 DEF CrashData
<1> QED BY <1>1, <1>2, <1>3, <1>4, <1>5, <1>6, <1>7, <1>8, <1>9, <1>10, <1>11, <1>12,
           <1>13 DEF DataStep

\* Types, commands and histories of all invocations survive a step of one.
LEMMA OwnStep ==
    ASSUME OwnInv, NEW p \in Proc, DataStep(p)
    PROVE  OwnInv'
<1>1. DataTypeOK' /\ Fits(p)'
  BY TypeStep
<1>2. ASSUME NEW r \in Proc \ {p} PROVE Fits(r)'
  BY <1>2, StepFrame DEF Fits, OwnInv
<1>3. HistoryOK'
  BY StepFrame DEF HistoryOK, OwnInv, Ended, DataTypeOK
<1> QED BY <1>1, <1>2, <1>3 DEF OwnInv

\* A command that has begun was already alone, or after a prepare, when it is so now.
LEMMA StillAlone ==
    ASSUME OwnInv, NEW p \in Proc, DataStep(p), NEW r \in Proc, pc[r] # "idle"
    PROVE  /\ op'[r] = op[r] /\ before'[r] = before[r]
           /\ Alone(r)' => Alone(r)
           /\ AfterPrepare(r)' => AfterPrepare(r)
<1>1. op'[r] = op[r] /\ before'[r] = before[r]
  BY StepFrame
<1>2. op[r] # NoCommand
  BY DEF OwnInv, Fits
<1>3. ASSUME Alone(r)', NEW q \in Proc \ {r}, op[q] = op[r] PROVE q \in before[r]
  <2>1. pc[q] # "idle"
    BY <1>2, <1>3 DEF OwnInv, Fits
  <2>2. op'[q] = op'[r]
    BY <1>1, <1>3, <2>1, StepFrame
  <2> QED BY <1>1, <1>3, <2>2 DEF Alone
<1>4. ASSUME NEW q \in before[r], LastOf("prepare", q)' PROVE LastOf("prepare", q)
  <2>1. q \in Proc /\ Ended(q) /\ before[r] \subseteq Proc
    BY DEF OwnInv, HistoryOK, DataTypeOK
  <2>2. q # p /\ pc[q] # "idle" /\ q # p
    BY <2>1, StepFrame DEF Ended
  <2>3. op'[q] = op[q] /\ pc'[q] = pc[q] /\ before'[q] = before[q]
    BY <2>1, <2>2, StepFrame
  <2>4. ASSUME NEW s \in Proc \ {q}, op[s] = "prepare" PROVE s \in before[q]
    <3>1. pc[s] # "idle"
      BY <2>4 DEF OwnInv, Fits, NoCommand
    <3>2. op'[s] = "prepare"
      BY <2>4, <3>1, StepFrame
    <3> QED BY <1>4, <2>3, <3>2 DEF LastOf
  <2> QED BY <1>4, <2>3, <2>4 DEF LastOf
<1>5. AfterPrepare(r)' => AfterPrepare(r)
  BY <1>1, <1>4 DEF AfterPrepare
<1> QED BY <1>1, <1>3, <1>5 DEF Alone

\* Only a prepare touches the candles, and it leaves nothing or the fixture.
LEMMA CandlesStep ==
    ASSUME OwnInv, CandlesInv, NEW p \in Proc, DataStep(p)
    PROVE  CandlesInv'
<1>0. /\ OwnInv' /\ op \in [Proc -> DataOps \cup {NoCommand}]
      /\ pc \in [Proc -> {"idle"} \cup PreparePCs \cup PrintPCs \cup BacktestPCs \cup EndPCs]
  BY OwnStep DEF OwnInv, DataTypeOK
<1>1. CASE OpenCopy(p)
  BY <1>1 DEF OpenCopy, CandlesInv
<1>2. CASE FlushCopy(p)
  <2>1. op[p] = "prepare" /\ pc[p] = "flush_copy"
    BY <1>2 DEF FlushCopy, Goto, OwnInv, Fits, PreparePCs
  <2>2. candles \in {Empty, FixtureRows}
    BY <2>1 DEF CandlesInv, Copying
  <2>3. candles' = FixtureRows
    BY <1>2, <2>2 DEF FlushCopy, Flush
  <2> QED BY <2>3 DEF CandlesInv
<1>3. CASE ~OpenCopy(p) /\ ~FlushCopy(p)
  <2>1. candles' = candles
    BY <1>3 DEF DataStep, BeginData, MakeDataDir, ListFiles, HashFile, StatFile,
       OpenFingerprint, FlushFingerprint, LoadCandles, OnBar, EngineDone, CrashData
  <2>2. op[p] = "prepare" /\ pc'[p] \in {"flush_copy", "done"} => pc[p] = "flush_copy"
    BY <1>0, <1>3 DEF DataStep, BeginData, MakeDataDir, ListFiles, HashFile, StatFile,
       OpenFingerprint, FlushFingerprint, LoadCandles, OnBar, EngineDone, CrashData, Goto,
       OwnInv, Fits, PrintPCs, BacktestPCs, FirstStep, NoCommand, DataOps
  <2>3. Copying' => Copying
    <3> SUFFICES ASSUME NEW r \in Proc, op'[r] = "prepare", pc'[r] \in {"flush_copy", "done"}
                 PROVE  Copying
      BY DEF Copying
    <3>1. CASE r = p
      <4>1. pc[p] # "idle"
        BY <3>1, StepFrame
      <4> QED BY <2>2, <3>1, <4>1, StepFrame DEF Copying
    <3>2. CASE r # p
      BY <3>2, StepFrame DEF Copying
    <3> QED BY <3>1, <3>2
  <2> QED BY <2>1, <2>3 DEF CandlesInv
<1> QED BY <1>1, <1>2, <1>3

\* A prepare that no other one overlaps finds its file empty and leaves the fixture.
LEMMA PrepareStep ==
    ASSUME OwnInv, CandlesInv, PrepareInv, NEW p \in Proc, DataStep(p)
    PROVE  PrepareInv'
<1> SUFFICES ASSUME NEW q \in Proc, op'[q] = "prepare", Alone(q)',
                    pc'[q] \in {"flush_copy", "done"}
             PROVE  /\ pc'[q] = "flush_copy" => candles' = Empty
                    /\ pc'[q] = "done" => candles' = FixtureRows
  BY DEF PrepareInv
<1>1. pc[q] # "idle"
  BY StepFrame
<1>2. op[q] = "prepare" /\ Alone(q)
  BY <1>1, StillAlone
<1>3. CASE q = p
  <2>1. pc[p] \notin PrintPCs \cup BacktestPCs
    BY <1>2, <1>3 DEF OwnInv, Fits
  <2>2. CASE OpenCopy(p)
    BY <1>3, <2>2 DEF OpenCopy, Goto, OwnInv, DataTypeOK
  <2>3. CASE FlushCopy(p)
    <3>1. candles = Empty
      BY <1>2, <1>3, <2>3 DEF FlushCopy, Goto, PrepareInv
    <3> QED BY <1>3, <2>3, <3>1 DEF FlushCopy, Flush, Goto, OwnInv, DataTypeOK
  <2>4. CASE MakeDataDir(p) \/ CrashData(p)
    BY <1>3, <2>4 DEF MakeDataDir, CrashData, Goto, OwnInv, DataTypeOK
  <2> QED BY <1>1, <1>3, <2>1, <2>2, <2>3, <2>4 DEF DataStep, BeginData, ListFiles, HashFile,
             StatFile, OpenFingerprint, FlushFingerprint, LoadCandles, OnBar, EngineDone, Goto,
             PrintPCs, BacktestPCs
<1>4. CASE q # p
  <2>1. pc[p] \notin PreparePCs
    <3>1. op[p] = "prepare" => p \in before[q]
      BY <1>2, <1>4 DEF Alone
    <3>2. p \notin before[q]
      BY StepFrame DEF OwnInv, HistoryOK
    <3> QED BY <3>1, <3>2 DEF OwnInv, Fits
  <2>2. candles' = candles /\ pc'[q] = pc[q]
    BY <1>4, <2>1, StepFrame DEF PreparePCs
  <2> QED BY <1>2, <2>2 DEF PrepareInv
<1> QED BY <1>3, <1>4

\* A command that began after such a prepare finds the fixture.
LEMMA FixtureStays ==
    ASSUME OwnInv, PrepareInv, NEW r \in Proc, AfterPrepare(r)
    PROVE  candles = FixtureRows
<1>1. PICK q \in Proc : LastOf("prepare", q)
  BY DEF AfterPrepare, OwnInv, DataTypeOK
<1>2. op[q] = "prepare" /\ pc[q] = "done" /\ Alone(q)
  BY <1>1 DEF LastOf, Alone
<1> QED BY <1>2 DEF PrepareInv

\* A fingerprint after such a prepare takes and writes the fixture's digest and size.
LEMMA PrintStep ==
    ASSUME OwnInv, PrepareInv, PrintInv, NEW p \in Proc, DataStep(p)
    PROVE  PrintInv'
<1> DEFINE Past == {"stat", "open_output", "flush_output", "done"}
<1> SUFFICES ASSUME NEW r \in Proc, op'[r] = "fingerprint", AfterPrepare(r)', pc'[r] \in Past
             PROVE  /\ pc'[r] \in {"stat", "open_output", "flush_output"} =>
                          taken'[r].sha = FixtureRows
                    /\ pc'[r] \in {"open_output", "flush_output"} =>
                          taken'[r].size = FixtureRows
                    /\ Alone(r)' /\ pc'[r] = "flush_output" => output' = Empty
                    /\ Alone(r)' /\ pc'[r] = "done" =>
                          output' = [sha |-> FixtureRows, size |-> FixtureRows]
  BY DEF PrintInv
<1>1. pc[r] # "idle"
  BY StepFrame
<1>2. op[r] = "fingerprint" /\ AfterPrepare(r) /\ (Alone(r)' => Alone(r))
  BY <1>1, StillAlone
<1>3. candles = FixtureRows
  BY <1>2, FixtureStays
<1>4. /\ pc[r] \in {"stat", "open_output", "flush_output"} => taken[r].sha = FixtureRows
      /\ pc[r] \in {"open_output", "flush_output"} => taken[r].size = FixtureRows
      /\ Alone(r) /\ pc[r] = "flush_output" => output = Empty
      /\ Alone(r) /\ pc[r] = "done" => output = [sha |-> FixtureRows, size |-> FixtureRows]
  BY <1>2 DEF PrintInv
<1>5. CASE r = p
  <2>1. pc[p] \notin PreparePCs \cup BacktestPCs
    BY <1>2, <1>5 DEF OwnInv, Fits
  <2>2. /\ pc \in [Proc -> {"idle"} \cup PreparePCs \cup PrintPCs \cup BacktestPCs \cup EndPCs]
        /\ taken \in [Proc -> [sha : Nat \cup NoFile, size : Nat \cup NoFile]]
    BY DEF OwnInv, DataTypeOK
  <2>3. CASE ListFiles(p)
    BY <1>5, <2>2, <2>3 DEF ListFiles, Goto
  <2>4. CASE HashFile(p)
    BY <1>3, <1>5, <2>2, <2>4 DEF HashFile, Goto
  <2>5. CASE StatFile(p)
    BY <1>3, <1>4, <1>5, <2>2, <2>5 DEF StatFile, Goto
  <2>6. CASE OpenFingerprint(p)
    BY <1>4, <1>5, <2>2, <2>6 DEF OpenFingerprint, Goto
  <2>7. CASE FlushFingerprint(p)
    <3>1. taken[p] = [sha |-> FixtureRows, size |-> FixtureRows]
      BY <1>4, <1>5, <2>2, <2>7 DEF FlushFingerprint, Goto
    <3>2. pc'[p] = "done" /\ pc[p] = "flush_output"
      BY <2>2, <2>7 DEF FlushFingerprint, Goto
    <3>3. Alone(p) => output' = taken[p]
      BY <1>4, <1>5, <2>7, <3>2 DEF FlushFingerprint, Flush
    <3> QED BY <1>2, <1>5, <3>1, <3>2, <3>3
  <2>8. CASE CrashData(p)
    BY <1>5, <2>2, <2>8 DEF CrashData
  <2> QED BY <1>1, <1>5, <2>1, <2>3, <2>4, <2>5, <2>6, <2>7, <2>8 DEF DataStep, BeginData,
             MakeDataDir, OpenCopy, FlushCopy, LoadCandles, OnBar, EngineDone, Goto,
             PreparePCs, BacktestPCs
<1>6. CASE r # p
  <2>1. pc'[r] = pc[r] /\ taken'[r] = taken[r]
    BY <1>6, StepFrame
  <2>2. Alone(r) => output' = output
    <3>1. Alone(r) /\ op[p] = "fingerprint" => p \in before[r]
      BY <1>2, <1>6 DEF Alone
    <3>2. p \notin before[r]
      BY StepFrame DEF OwnInv, HistoryOK
    <3>3. pc[p] \in {"open_output", "flush_output"} => op[p] = "fingerprint"
      BY DEF OwnInv, Fits, PrintPCs
    <3> QED BY <3>1, <3>2, <3>3, StepFrame
  <2> QED BY <1>2, <1>4, <2>1, <2>2
<1> QED BY <1>5, <1>6

\* A backtest counts the rows that it loaded, and fails only for want of them.
LEMMA BacktestStep ==
    ASSUME OwnInv, CandlesInv, PrepareInv, BacktestInv, NEW p \in Proc, DataStep(p)
    PROVE  BacktestInv'
<1> SUFFICES ASSUME NEW r \in Proc
             PROVE  /\ pc'[r] = "idle" => strategy'[r] = NewStrategy
                    /\ op'[r] = "backtest" =>
                          /\ pc'[r] = "load" => strategy'[r] = NewStrategy
                          /\ pc'[r] \in {"bars", "done"} => Counted(r)'
                          /\ pc'[r] = "done" => strategy'[r].bars_seen = taken'[r].sha
                          /\ pc'[r] = "failed" => ~AfterPrepare(r)'
  BY DEF BacktestInv
<1>1. /\ pc[r] = "idle" => strategy[r] = NewStrategy
      /\ op[r] = "backtest" =>
            /\ pc[r] = "load" => strategy[r] = NewStrategy
            /\ pc[r] \in {"bars", "done"} => Counted(r)
            /\ pc[r] = "done" => strategy[r].bars_seen = taken[r].sha
            /\ pc[r] = "failed" => ~AfterPrepare(r)
  BY DEF BacktestInv
<1>2. CASE pc[r] = "idle"
  BY <1>1, <1>2, StepFrame
<1>3. CASE pc[r] # "idle" /\ r # p
  <2>1. /\ pc'[r] = pc[r] /\ taken'[r] = taken[r] /\ strategy'[r] = strategy[r]
        /\ op'[r] = op[r] /\ (AfterPrepare(r)' => AfterPrepare(r))
    BY <1>3, StepFrame, StillAlone
  <2>2. Counted(r) => Counted(r)'
    BY <2>1 DEF Counted
  <2> QED BY <1>1, <2>1, <2>2
<1>4. CASE pc[r] # "idle" /\ r = p
  <2>1. op'[p] = op[p] /\ (AfterPrepare(p)' => AfterPrepare(p))
    BY <1>4, StillAlone
  <2>2. CASE op[p] # "backtest"
    BY <1>4, <2>1, <2>2, StepFrame DEF DataStep, BeginData, MakeDataDir, OpenCopy, FlushCopy,
       ListFiles, HashFile, StatFile, OpenFingerprint, FlushFingerprint, LoadCandles, OnBar,
       EngineDone, CrashData, Goto, OwnInv, DataTypeOK
  <2>3. CASE op[p] = "backtest"
    <3>1. pc[p] \notin PreparePCs \cup PrintPCs
      BY <2>3 DEF OwnInv, Fits
    <3>2. /\ pc \in [Proc -> {"idle"} \cup PreparePCs \cup PrintPCs \cup BacktestPCs \cup EndPCs]
          /\ taken \in [Proc -> [sha : Nat \cup NoFile, size : Nat \cup NoFile]]
          /\ strategy \in [Proc -> [bars_seen : Nat, triggered : BOOLEAN]]
      BY DEF OwnInv, DataTypeOK
    <3>3. CASE LoadCandles(p)
      <4>1. pc[p] = "load" /\ strategy[p] = NewStrategy /\ strategy'[p] = strategy[p]
        BY <1>1, <1>4, <2>3, <3>3 DEF LoadCandles, Goto
      <4>2. CASE candles \in Nat \ {0}
        <5>1. pc'[p] = "bars" /\ taken'[p].sha = candles
          BY <3>2, <3>3, <4>2 DEF LoadCandles, Goto
        <5>2. candles \in (Earlier \cup {FixtureRows}) \ {Absent, 0}
          BY <4>2, RowAssumption DEF CandlesInv, NoFile
        <5>3. Counted(p)'
          BY <4>1, <4>2, <5>1, <5>2 DEF Counted, NewStrategy, ActionBar
        <5> QED BY <1>4, <5>1, <5>3
      <4>3. CASE candles \notin Nat \ {0}
        <5>1. pc'[p] = "failed"
          BY <3>2, <3>3, <4>3 DEF LoadCandles, Goto
        <5>2. ~AfterPrepare(p)
          BY <4>3, FixtureStays, RowAssumption
        <5> QED BY <1>4, <2>1, <5>1, <5>2
      <4> QED BY <4>2, <4>3
    <3>4. CASE OnBar(p)
      <4>1. /\ pc[p] = "bars" /\ pc'[p] = "bars" /\ taken'[p] = taken[p]
            /\ strategy[p].bars_seen < taken[p].sha
            /\ strategy'[p].bars_seen = strategy[p].bars_seen + 1
            /\ strategy'[p].triggered <=>
                  strategy[p].triggered \/ strategy[p].bars_seen + 1 = ActionBar
        BY <3>2, <3>4 DEF OnBar
      <4>2. Counted(p) /\ strategy[p].bars_seen \in Nat
        BY <1>1, <1>4, <2>3, <3>2, <4>1
      <4>3. Counted(p)'
        BY <4>1, <4>2 DEF Counted, ActionBar
      <4> QED BY <1>4, <4>1, <4>3
    <3>5. CASE EngineDone(p)
      <4>1. /\ pc[p] = "bars" /\ pc'[p] = "done" /\ taken'[p] = taken[p]
            /\ strategy'[p] = strategy[p] /\ strategy[p].bars_seen = taken[p].sha
        BY <3>2, <3>5 DEF EngineDone, Goto
      <4>2. Counted(p)'
        BY <1>1, <1>4, <2>3, <4>1 DEF Counted
      <4> QED BY <1>4, <4>1, <4>2
    <3>6. CASE CrashData(p)
      BY <1>4, <3>2, <3>6 DEF CrashData
    <3> QED BY <1>4, <3>1, <3>3, <3>4, <3>5, <3>6 DEF DataStep, BeginData, MakeDataDir,
               OpenCopy, FlushCopy, ListFiles, HashFile, StatFile, OpenFingerprint,
               FlushFingerprint, Goto, PreparePCs, PrintPCs
  <2> QED BY <2>2, <2>3
<1> QED BY <1>2, <1>3, <1>4

\* The invariant of the data commands holds at first,
LEMMA DataInitInv == DataInit => DataInv
<1> SUFFICES ASSUME DataInit PROVE DataInv
  OBVIOUS
<1>1. OwnInv
  BY RowAssumption DEF DataInit, OwnInv, DataTypeOK, Fits, HistoryOK, NoFile, NothingTaken,
     NewStrategy, PreparePCs, PrintPCs, BacktestPCs, NoCommand
<1>2. CandlesInv
  BY DEF DataInit, CandlesInv, Copying
<1>3. PrepareInv /\ PrintInv
  BY DEF DataInit, PrepareInv, PrintInv, NoCommand
<1>4. BacktestInv
  BY DEF DataInit, BacktestInv, NoCommand
<1> QED BY <1>1, <1>2, <1>3, <1>4 DEF DataInv

\* survives every step,
LEMMA DataNextInv == DataInv /\ [DataNext]_dataVars => DataInv'
<1> SUFFICES ASSUME DataInv, [DataNext]_dataVars PROVE DataInv'
  OBVIOUS
<1>1. ASSUME NEW p \in Proc, DataStep(p) PROVE DataInv'
  BY <1>1, OwnStep, CandlesStep, PrepareStep, PrintStep, BacktestStep DEF DataInv
<1>2. CASE UNCHANGED dataVars
  BY <1>2 DEF dataVars, DataInv, OwnInv, DataTypeOK, Fits, HistoryOK, Ended, CandlesInv, Copying,
     PrepareInv, Alone, PrintInv, AfterPrepare, LastOf, BacktestInv, Counted
<1> QED BY <1>1, <1>2 DEF DataNext

\* and so holds throughout.
LEMMA DataAlways == DataSpec => []DataInv
BY DataInitInv, DataNextInv, PTL DEF DataSpec

\* A fingerprint is of the fixture, digest and size alike, once a prepare and then a
\* fingerprint ran alone, wherever earlier ones crashed (data/prepare.py,
\* data/fingerprint.py): for any number of commands, and any number of rows.
THEOREM FingerprintsTell == DataSpec => []FingerprintOfFixture
<1>1. DataInv => FingerprintOfFixture
  <2> SUFFICES ASSUME DataInv, NEW q \in Proc, LastOf("prepare", q)
               PROVE  /\ candles = FixtureRows
                      /\ \A p \in Proc : LastOf("fingerprint", p) /\ q \in before[p] =>
                            output = [sha |-> FixtureRows, size |-> FixtureRows]
    BY DEF FingerprintOfFixture
  <2>1. candles = FixtureRows
    BY DEF DataInv, PrepareInv, LastOf, Alone
  <2>2. ASSUME NEW p \in Proc, LastOf("fingerprint", p), q \in before[p]
        PROVE  output = [sha |-> FixtureRows, size |-> FixtureRows]
    <3>1. op[p] = "fingerprint" /\ AfterPrepare(p) /\ pc[p] = "done" /\ Alone(p)
      BY <2>2 DEF AfterPrepare, LastOf, Alone
    <3> QED BY <3>1 DEF DataInv, PrintInv
  <2> QED BY <2>1, <2>2
<1> QED BY <1>1, DataAlways, PTL

\* A backtest that completes saw every row of one content (engines/nautilus), and its
\* strategy acted exactly when there were enough of them.
THEOREM BacktestsSeeAll == DataSpec => []BacktestSeesAll
<1>1. DataInv => BacktestSeesAll
  <2> SUFFICES ASSUME DataInv, NEW p \in Proc, op[p] = "backtest"
               PROVE  /\ pc[p] = "done" =>
                            /\ taken[p].sha \in (Earlier \cup {FixtureRows}) \ {Absent, 0}
                            /\ strategy[p] = [bars_seen |-> taken[p].sha,
                                              triggered |-> taken[p].sha >= ActionBar]
                      /\ pc[p] = "failed" => \A q \in before[p] : ~LastOf("prepare", q)
    BY DEF BacktestSeesAll
  <2>1. strategy[p] \in [bars_seen : Nat, triggered : BOOLEAN]
    BY DEF DataInv, OwnInv, DataTypeOK
  <2>2. CASE pc[p] = "done"
    <3>1. Counted(p) /\ strategy[p].bars_seen = taken[p].sha
      BY <2>2 DEF DataInv, BacktestInv
    <3>2. strategy[p].triggered = (taken[p].sha >= ActionBar)
      BY <2>1, <3>1 DEF Counted
    <3> QED BY <2>1, <2>2, <3>1, <3>2 DEF Counted
  <2>3. CASE pc[p] = "failed"
    BY <2>3 DEF DataInv, BacktestInv, AfterPrepare
  <2> QED BY <2>2, <2>3
<1> QED BY <1>1, DataAlways, PTL

-----------------------------------------------------------------------------
(* The evidence gauges: what became of each pair *)

Sums == [count : [ComparisonStatus -> Nat], skipped : SUBSET Pair]

GaugeTypeOK ==
    /\ json \in [Pair -> NoFile \cup ComparisonStatus]
    /\ wat \in [Writer -> {"idle", "flush", "done", "crashed"}]
    /\ about \in [Writer -> Pair] /\ found \in [Writer -> ComparisonStatus]
    /\ at \in {"idle", "read"} /\ todo \in SUBSET Pair
    /\ sums \in Sums /\ answer \in Sums
    /\ answers \in Nat /\ quiet \in BOOLEAN

\* The pairs that have a file, in whatever state, are those of the comparisons that began.
WrittenPairs == {about[c] : c \in {d \in Writer : wat[d] # "idle"}}
FilesInv == \A d \in Pair : json[d] # Absent <=> d \in WrittenPairs

\* What was read and what is still to be read make up the files, status by status.
With(f, D, s) == {d \in D : f[d] = s}
Torn(f, D) == {d \in D : Malformed(f[d])}
PartsInv ==
    at = "read" /\ quiet =>
        /\ \A s \in ComparisonStatus :
              sums.count[s] + Cardinality(With(json, todo, s)) = Cardinality(With(json, Pair, s))
        /\ sums.skipped \cup Torn(json, todo) = Torn(json, Pair)

AnswerInv ==
    answers > 0 /\ at = "idle" /\ quiet =>
        /\ \A s \in ComparisonStatus : answer.count[s] = Cardinality(With(json, Pair, s))
        /\ answer.skipped = Torn(json, Pair)

\* The listed pairs, by what became of them.
KeptInv ==
    at = "read" =>
        /\ todo \cup sums.skipped \subseteq WrittenPairs
        /\ todo \cap sums.skipped = {}
        /\ Cardinality(todo \cup sums.skipped) + Total(sums) <= Cardinality(WrittenPairs)
        /\ quiet => Cardinality(todo \cup sums.skipped) + Total(sums) = Cardinality(WrittenPairs)

GaugesInv == GaugeTypeOK /\ FilesInv /\ KeptInv /\ PartsInv /\ AnswerInv

-----------------------------------------------------------------------------
\* Sets of pairs are finite, and a subset has no more members than the set.
LEMMA PairSets ==
    ASSUME NEW D \in SUBSET Pair, NEW C \in SUBSET D
    PROVE  /\ IsFiniteSet(D) /\ Cardinality(D) \in Nat
           /\ IsFiniteSet(C) /\ Cardinality(C) \in Nat /\ Cardinality(C) <= Cardinality(D)
<1>1. IsFiniteSet(Pair)
  BY EvidenceAssumption
<1>2. IsFiniteSet(D)
  BY <1>1, FS_Subset
<1>3. IsFiniteSet(C) /\ Cardinality(C) <= Cardinality(D)
  BY <1>2, FS_Subset
<1> QED BY <1>2, <1>3, FS_CardinalityType

\* Taking a member out of a set of pairs takes one from its size.
LEMMA TakeOne ==
    ASSUME NEW D \in SUBSET Pair, NEW d \in D
    PROVE  Cardinality(D \ {d}) \in Nat /\ Cardinality(D) = Cardinality(D \ {d}) + 1
<1>1. IsFiniteSet(D) /\ Cardinality(D) \in Nat
  BY PairSets
<1>2. Cardinality(D \ {d}) = Cardinality(D) - 1
  BY <1>1, FS_RemoveElement
<1>3. IsFiniteSet(D \ {d})
  BY <1>1, FS_Subset
<1>4. Cardinality(D \ {d}) \in Nat
  BY <1>3, FS_CardinalityType
<1> QED BY <1>1, <1>2, <1>4

\* Comparisons write to pair directories.
LEMMA WrittenType == GaugeTypeOK => WrittenPairs \in SUBSET Pair
BY DEF GaugeTypeOK, WrittenPairs

\* The sum over the statuses is a number.
LEMMA TotalType ==
    ASSUME NEW S \in Sums
    PROVE  Total(S) \in Nat
BY DEF Sums, Total, ComparisonStatus

\* A comparison's steps: the sizes of what the server holds stay below.
LEMMA WriterStep ==
    ASSUME GaugesInv, NEW c \in Writer,
           OpenEvidence(c) \/ FlushEvidence(c) \/ CrashEvidence(c)
    PROVE  GaugesInv'
<1>1. GaugeTypeOK'
  <2>1. CASE OpenEvidence(c)
    BY <2>1 DEF OpenEvidence, GaugesInv, GaugeTypeOK, NoFile, serverVars
  <2>2. CASE FlushEvidence(c)
    BY <2>2 DEF FlushEvidence, Flush, GaugesInv, GaugeTypeOK, NoFile, serverVars
  <2>3. CASE CrashEvidence(c)
    BY <2>3 DEF CrashEvidence, GaugesInv, GaugeTypeOK, serverVars
  <2> QED BY <2>1, <2>2, <2>3
<1>2. /\ WrittenPairs \subseteq WrittenPairs' /\ FilesInv'
      /\ ~OpenEvidence(c) => WrittenPairs' = WrittenPairs
  <2>1. CASE OpenEvidence(c)
    <3>1. WrittenPairs' = WrittenPairs \cup {about[c]}
      BY <2>1 DEF OpenEvidence, GaugesInv, GaugeTypeOK, WrittenPairs
    <3> QED BY <2>1, <3>1, EvidenceAssumption DEF OpenEvidence, GaugesInv, GaugeTypeOK, FilesInv
  <2>2. CASE FlushEvidence(c)
    <3>1. WrittenPairs' = WrittenPairs /\ about[c] \in WrittenPairs
      BY <2>2 DEF FlushEvidence, GaugesInv, GaugeTypeOK, WrittenPairs
    <3>2. PICK f : f # Absent /\ json' = [json EXCEPT ![about[c]] = f]
      BY <2>2, EvidenceAssumption DEF FlushEvidence, Flush, GaugesInv, GaugeTypeOK, NoFile
    <3> QED BY <2>2, <3>1, <3>2 DEF GaugesInv, GaugeTypeOK, FilesInv, OpenEvidence, FlushEvidence
  <2>3. CASE CrashEvidence(c)
    <3>1. WrittenPairs' = WrittenPairs /\ json' = json
      BY <2>3 DEF CrashEvidence, GaugesInv, GaugeTypeOK, WrittenPairs
    <3> QED BY <2>3, <3>1 DEF GaugesInv, FilesInv, OpenEvidence, CrashEvidence
  <2> QED BY <2>1, <2>2, <2>3
<1>3. /\ UNCHANGED serverVars
      /\ quiet' => quiet /\ json' = json /\ CrashEvidence(c)
  BY DEF OpenEvidence, FlushEvidence, CrashEvidence
<1>4. KeptInv'
  <2> SUFFICES ASSUME at = "read"
               PROVE  /\ todo \cup sums.skipped \subseteq WrittenPairs'
                      /\ todo \cap sums.skipped = {}
                      /\ Cardinality(todo \cup sums.skipped) + Total(sums)
                            <= Cardinality(WrittenPairs')
                      /\ quiet' => Cardinality(todo \cup sums.skipped) + Total(sums)
                                      = Cardinality(WrittenPairs')
    BY <1>3 DEF KeptInv, Total, serverVars
  <2>1. /\ todo \cup sums.skipped \subseteq WrittenPairs
        /\ todo \cap sums.skipped = {}
        /\ Cardinality(todo \cup sums.skipped) + Total(sums) <= Cardinality(WrittenPairs)
        /\ quiet => Cardinality(todo \cup sums.skipped) + Total(sums) = Cardinality(WrittenPairs)
    BY DEF GaugesInv, KeptInv
  <2>2. /\ Cardinality(todo \cup sums.skipped) \in Nat /\ Total(sums) \in Nat
        /\ Cardinality(WrittenPairs) \in Nat /\ Cardinality(WrittenPairs') \in Nat
        /\ Cardinality(WrittenPairs) <= Cardinality(WrittenPairs')
    <3>1. WrittenPairs \in SUBSET Pair /\ WrittenPairs' \in SUBSET Pair
      BY <1>1, WrittenType DEF GaugesInv, GaugeTypeOK, WrittenPairs
    <3>2. todo \cup sums.skipped \in SUBSET WrittenPairs
      BY <2>1
    <3>3. sums \in Sums
      BY DEF GaugesInv, GaugeTypeOK
    <3> QED BY <1>2, <3>1, <3>2, <3>3, PairSets, TotalType
  <2>3. quiet' => quiet /\ WrittenPairs' = WrittenPairs
    BY <1>2, <1>3 DEF CrashEvidence, OpenEvidence
  <2> QED BY <1>2, <2>1, <2>2, <2>3
<1>5. PartsInv' /\ AnswerInv'
  BY <1>3 DEF GaugesInv, PartsInv, AnswerInv, With, Torn, serverVars
<1> QED BY <1>1, <1>2, <1>4, <1>5 DEF GaugesInv

\* A request that begins lists the pairs that have a file, and counts from nothing.
LEMMA ListStep ==
    ASSUME GaugesInv, ListEvidence
    PROVE  GaugesInv'
<1>1. /\ todo' = WrittenPairs /\ sums' = NoSums /\ at' = "read"
      /\ WrittenPairs' = WrittenPairs /\ json' = json
  BY DEF ListEvidence, GaugesInv, FilesInv, GaugeTypeOK, WrittenPairs, writerVars
<1>2. NoSums \in Sums /\ Total(NoSums) = 0 /\ NoSums.skipped = {}
      /\ \A s \in ComparisonStatus : NoSums.count[s] = 0
  BY DEF NoSums, Sums, Total, ComparisonStatus
<1>3. WrittenPairs \in SUBSET Pair /\ Cardinality(WrittenPairs) \in Nat
  BY WrittenType, PairSets DEF GaugesInv
<1>4. GaugeTypeOK'
  BY <1>1, <1>2, <1>3 DEF ListEvidence, GaugesInv, GaugeTypeOK, writerVars
<1>5. FilesInv'
  BY <1>1 DEF FilesInv, GaugesInv
<1>6. KeptInv'
  <2>1. Total(sums)' = 0 /\ sums'.skipped = {}
    BY <1>1, <1>2 DEF Total
  <2>2. todo' \cup sums'.skipped = WrittenPairs
    BY <1>1, <2>1
  <2> QED BY <1>1, <1>3, <2>1, <2>2 DEF KeptInv
<1>7. PartsInv'
  <2>1. Torn(json, todo') = Torn(json, Pair)
    BY <1>1, <1>3, EvidenceAssumption DEF Torn, Malformed, GaugesInv, FilesInv
  <2>2. ASSUME NEW s \in ComparisonStatus
        PROVE  With(json, todo', s) = With(json, Pair, s)
    BY <1>1, <1>3, <2>2, EvidenceAssumption DEF With, NoFile, GaugesInv, FilesInv
  <2>3. ASSUME NEW s \in ComparisonStatus
        PROVE  sums'.count[s] + Cardinality(With(json, todo', s))
                  = Cardinality(With(json, Pair, s))
    <3>1. sums'.count[s] = 0
      BY <1>1, <1>2
    <3>2. Cardinality(With(json, Pair, s)) \in Nat
      <4>1. With(json, Pair, s) \in SUBSET Pair
        BY DEF With
      <4> QED BY <4>1, PairSets
    <3> QED BY <2>2, <3>1, <3>2
  <2> QED BY <1>1, <1>2, <2>1, <2>3 DEF PartsInv
<1>8. AnswerInv'
  BY <1>1 DEF AnswerInv
<1> QED BY <1>4, <1>5, <1>6, <1>7, <1>8 DEF GaugesInv

\* A file that is read moves its pair from the list to a count or to the comments.
LEMMA ReadStep ==
    ASSUME GaugesInv, ReadEvidence
    PROVE  GaugesInv'
<1>1. PICK d \in todo :
        /\ todo' = todo \ {d}
        /\ sums' = IF Malformed(json[d]) THEN [sums EXCEPT !.skipped = @ \cup {d}]
                   ELSE [sums EXCEPT !.count[json[d]] = @ + 1]
  BY DEF ReadEvidence
<1>2. /\ at = "read" /\ at' = "read" /\ json' = json /\ quiet' = quiet
      /\ WrittenPairs' = WrittenPairs /\ UNCHANGED <<wat, about, found, answer, answers>>
  BY DEF ReadEvidence, writerVars, WrittenPairs
<1>3. /\ todo \in SUBSET Pair /\ d \in Pair /\ sums \in Sums
      /\ json \in [Pair -> NoFile \cup ComparisonStatus]
  BY DEF GaugesInv, GaugeTypeOK
<1>4. /\ todo \cup sums.skipped \subseteq WrittenPairs
      /\ todo \cap sums.skipped = {}
      /\ Cardinality(todo \cup sums.skipped) + Total(sums) <= Cardinality(WrittenPairs)
      /\ quiet => Cardinality(todo \cup sums.skipped) + Total(sums) = Cardinality(WrittenPairs)
  BY <1>2 DEF GaugesInv, KeptInv
<1>5. json[d] # Absent
  BY <1>3, <1>4 DEF GaugesInv, FilesInv
<1>6. FilesInv'
  BY <1>2 DEF FilesInv, GaugesInv
<1>7. AnswerInv'
  BY <1>2 DEF AnswerInv
<1>8. CASE Malformed(json[d])
  <2>1. /\ sums'.skipped = sums.skipped \cup {d} /\ sums'.count = sums.count
        /\ sums' \in Sums
    BY <1>1, <1>3, <1>8 DEF Sums
  <2>2. GaugeTypeOK'
    BY <1>1, <1>2, <2>1 DEF GaugesInv, GaugeTypeOK
  <2>3. todo' \cup sums'.skipped = todo \cup sums.skipped /\ Total(sums)' = Total(sums)
    BY <1>1, <2>1 DEF Total
  <2>4. KeptInv'
    BY <1>1, <1>2, <1>4, <2>1, <2>3 DEF KeptInv
  <2>5. PartsInv'
    <3> SUFFICES ASSUME quiet
                 PROVE  /\ \A s \in ComparisonStatus :
                              sums'.count[s] + Cardinality(With(json, todo', s))
                                 = Cardinality(With(json, Pair, s))
                        /\ sums'.skipped \cup Torn(json, todo') = Torn(json, Pair)
      BY <1>2 DEF PartsInv
    <3>1. ASSUME NEW s \in ComparisonStatus PROVE With(json, todo', s) = With(json, todo, s)
      BY <1>1, <1>8, <3>1, EvidenceAssumption DEF With, Malformed, NoFile
    <3>2. sums'.skipped \cup Torn(json, todo') = sums.skipped \cup Torn(json, todo)
      BY <1>1, <1>8, <2>1 DEF Torn
    <3> QED BY <1>2, <2>1, <3>1, <3>2 DEF GaugesInv, PartsInv
  <2> QED BY <1>6, <1>7, <2>2, <2>4, <2>5 DEF GaugesInv
<1>9. CASE ~Malformed(json[d])
  <2>0. PICK t \in ComparisonStatus : t = json[d]
    BY <1>3, <1>5, <1>9 DEF Malformed, NoFile
  <2>1. /\ sums'.skipped = sums.skipped /\ sums' \in Sums
        /\ sums'.count = [sums.count EXCEPT ![t] = @ + 1]
    BY <1>1, <1>3, <1>9, <2>0 DEF Sums
  <2>2. GaugeTypeOK'
    BY <1>1, <1>2, <2>1 DEF GaugesInv, GaugeTypeOK
  <2>3. Total(sums)' = Total(sums) + 1
    <3>1. sums.count \in [ComparisonStatus -> Nat]
      BY <1>3 DEF Sums
    <3> QED BY <2>0, <2>1, <3>1 DEF Total, ComparisonStatus
  <2>4. KeptInv'
    <3>1. todo' \cup sums'.skipped = (todo \cup sums.skipped) \ {d}
      BY <1>1, <1>4, <2>1
    <3>2. todo \cup sums.skipped \in SUBSET Pair /\ d \in todo \cup sums.skipped
      BY <1>3 DEF Sums
    <3>3. /\ Cardinality(todo' \cup sums'.skipped) \in Nat
          /\ Cardinality(todo \cup sums.skipped) = Cardinality(todo' \cup sums'.skipped) + 1
      BY <3>1, <3>2, TakeOne
    <3>4. Total(sums) \in Nat
      BY <1>3, TotalType
    <3>5. Cardinality(todo' \cup sums'.skipped) + Total(sums)'
             = Cardinality(todo \cup sums.skipped) + Total(sums)
      BY <2>3, <3>3, <3>4
    <3>6. todo' \cup sums'.skipped \subseteq WrittenPairs /\ todo' \cap sums'.skipped = {}
      BY <1>1, <1>4, <2>1
    <3> QED BY <1>2, <1>4, <3>5, <3>6 DEF KeptInv
  <2>5. PartsInv'
    <3> SUFFICES ASSUME quiet
                 PROVE  /\ \A s \in ComparisonStatus :
                              sums'.count[s] + Cardinality(With(json, todo', s))
                                 = Cardinality(With(json, Pair, s))
                        /\ sums'.skipped \cup Torn(json, todo') = Torn(json, Pair)
      BY <1>2 DEF PartsInv
    <3>0. /\ \A s \in ComparisonStatus :
              sums.count[s] + Cardinality(With(json, todo, s)) = Cardinality(With(json, Pair, s))
          /\ sums.skipped \cup Torn(json, todo) = Torn(json, Pair)
      BY <1>2 DEF GaugesInv, PartsInv
    <3>1. Torn(json, todo') = Torn(json, todo)
      BY <1>1, <1>9 DEF Torn
    <3>2. ASSUME NEW s \in ComparisonStatus, s # t
          PROVE  /\ With(json, todo', s) = With(json, todo, s)
                 /\ sums'.count[s] = sums.count[s]
      BY <1>1, <1>3, <2>0, <2>1, <3>2 DEF With, Sums
    <3>3. /\ sums'.count[t] = sums.count[t] + 1 /\ sums.count[t] \in Nat
          /\ Cardinality(With(json, todo', t)) \in Nat
          /\ Cardinality(With(json, todo, t)) = Cardinality(With(json, todo', t)) + 1
      <4>1. With(json, todo', t) = With(json, todo, t) \ {d}
        BY <1>1 DEF With
      <4>2. With(json, todo, t) \in SUBSET Pair /\ d \in With(json, todo, t)
        BY <1>3, <2>0 DEF With
      <4>3. sums'.count[t] = sums.count[t] + 1 /\ sums.count[t] \in Nat
        BY <1>3, <2>1 DEF Sums
      <4> QED BY <4>1, <4>2, <4>3, TakeOne
    <3>4. ASSUME NEW s \in ComparisonStatus
          PROVE  sums'.count[s] + Cardinality(With(json, todo', s))
                    = Cardinality(With(json, Pair, s))
      <4>1. CASE s = t
        BY <3>0, <3>3, <4>1
      <4>2. CASE s # t
        BY <3>0, <3>2, <4>2
      <4> QED BY <4>1, <4>2
    <3> QED BY <2>1, <3>0, <3>1, <3>4
  <2> QED BY <1>6, <1>7, <2>2, <2>4, <2>5 DEF GaugesInv
<1> QED BY <1>8, <1>9

\* An answer has what was read when nothing is left on the list.
LEMMA AnswerStep ==
    ASSUME GaugesInv, AnswerEvidence
    PROVE  GaugesInv'
<1>1. /\ at = "read" /\ todo = {} /\ at' = "idle" /\ answer' = sums /\ quiet' = quiet
      /\ json' = json /\ WrittenPairs' = WrittenPairs
  BY DEF AnswerEvidence, writerVars, WrittenPairs
<1>2. GaugeTypeOK'
  BY DEF AnswerEvidence, writerVars, GaugesInv, GaugeTypeOK
<1>3. FilesInv' /\ KeptInv' /\ PartsInv'
  BY <1>1 DEF FilesInv, KeptInv, PartsInv, GaugesInv
<1>4. AnswerInv'
  <2> SUFFICES ASSUME quiet
               PROVE  /\ \A s \in ComparisonStatus :
                            sums.count[s] = Cardinality(With(json, Pair, s))
                      /\ sums.skipped = Torn(json, Pair)
    BY <1>1 DEF AnswerInv
  <2>1. Torn(json, todo) = {}
    BY <1>1 DEF Torn
  <2>2. ASSUME NEW s \in ComparisonStatus PROVE Cardinality(With(json, todo, s)) = 0
    <3>1. With(json, todo, s) = {}
      BY <1>1 DEF With
    <3> QED BY <3>1, FS_EmptySet
  <2>3. \A s \in ComparisonStatus : sums.count[s] \in Nat
    BY DEF GaugesInv, GaugeTypeOK, Sums
  <2>4. /\ \A s \in ComparisonStatus :
              sums.count[s] + Cardinality(With(json, todo, s)) = Cardinality(With(json, Pair, s))
        /\ sums.skipped \cup Torn(json, todo) = Torn(json, Pair)
    BY <1>1 DEF GaugesInv, PartsInv
  <2>5. ASSUME NEW s \in ComparisonStatus
        PROVE  sums.count[s] = Cardinality(With(json, Pair, s))
    <3>1. sums.count[s] \in Nat /\ Cardinality(With(json, todo, s)) = 0
      BY <2>2, <2>3
    <3>2. sums.count[s] + 0 = Cardinality(With(json, Pair, s))
      BY <2>4, <3>1
    <3> QED BY <3>1, <3>2
  <2> QED BY <2>1, <2>4, <2>5
<1> QED BY <1>2, <1>3, <1>4 DEF GaugesInv

\* The invariant of the gauges holds at first,
LEMMA GaugesInitInv == GaugesInit => GaugesInv
<1> SUFFICES ASSUME GaugesInit PROVE GaugesInv
  OBVIOUS
<1>1. NoSums \in Sums
  BY DEF NoSums, Sums
<1>2. GaugeTypeOK
  BY <1>1 DEF GaugesInit, GaugeTypeOK, NoFile
<1>3. FilesInv /\ KeptInv /\ PartsInv /\ AnswerInv
  BY DEF GaugesInit, FilesInv, WrittenPairs, KeptInv, PartsInv, AnswerInv
<1> QED BY <1>2, <1>3 DEF GaugesInv

\* and survives every step.
LEMMA GaugesNextInv == GaugesInv /\ [GaugesNext]_gaugeVars => GaugesInv'
<1> SUFFICES ASSUME GaugesInv, [GaugesNext]_gaugeVars PROVE GaugesInv'
  OBVIOUS
<1>1. CASE UNCHANGED gaugeVars
  <2>1. GaugeTypeOK' /\ WrittenPairs' = WrittenPairs
    BY <1>1 DEF gaugeVars, writerVars, serverVars, GaugesInv, GaugeTypeOK, WrittenPairs
  <2>2. FilesInv' /\ PartsInv' /\ AnswerInv'
    BY <1>1, <2>1 DEF gaugeVars, writerVars, serverVars, GaugesInv, FilesInv, PartsInv, AnswerInv
  <2>3. KeptInv'
    BY <1>1, <2>1 DEF gaugeVars, writerVars, serverVars, GaugesInv, KeptInv, Total
  <2> QED BY <2>1, <2>2, <2>3 DEF GaugesInv
<1> QED BY <1>1, WriterStep, ListStep, ReadStep, AnswerStep DEF GaugesNext

\* No pair directory is lost or counted twice in the evidence gauges
\* (observability/metrics.py), and an answer that no comparison disturbed is the sum
\* over the files: for any number of pairs, comparisons, crashes and answers.
THEOREM PairsAreAccounted == GaugesSpec => []EveryPairAccounted
<1>1. GaugesInv => EveryPairAccounted
  <2> SUFFICES ASSUME GaugesInv PROVE EveryPairAccounted
    OBVIOUS
  <2>1. ListedPairsKept
    BY DEF GaugesInv, KeptInv, WrittenPairs, ListedPairsKept
  <2> QED BY <2>1 DEF GaugesInv, AnswerInv, EveryPairAccounted, With, Torn
<1> QED BY <1>1, GaugesInitInv, GaugesNextInv, PTL DEF GaugesSpec

-----------------------------------------------------------------------------
(* The text of durations and timestamps *)

LEMMA Powers ==
    /\ TenTo[0] = 1 /\ TenTo[1] = 10 /\ TenTo[2] = 100 /\ TenTo[3] = 1000
    /\ TenTo[4] = 10000 /\ TenTo[5] = 100000 /\ TenTo[6] = 1000000
<1>1. 0 + 1 = 1 /\ 1 + 1 = 2 /\ 2 + 1 = 3 /\ 3 + 1 = 4 /\ 4 + 1 = 5 /\ 5 + 1 = 6
  BY SMT
<1> QED BY <1>1, TenToGrows, SMT

LEMMA PowersRise == \A j, k \in Nat : j <= k => TenTo[j] <= TenTo[k]
<1> SUFFICES ASSUME NEW j \in Nat, NEW k \in Nat, j <= k PROVE TenTo[j] <= TenTo[k]
  OBVIOUS
<1>1. k - j \in Nat /\ j + (k - j) = k
  OBVIOUS
<1>2. TenTo[k] = TenTo[j] * TenTo[k - j]
  BY <1>1, TenToAdds
<1>3. TenTo[j] \in Nat /\ TenTo[k - j] \in Nat \ {0}
  BY <1>1, TenToGrows
<1>4. \A x \in Nat, y \in Nat \ {0} : x <= x * y
  OBVIOUS
<1> QED BY <1>2, <1>3, <1>4

\* A number reaches the powers of ten below its length, and no others.
LEMMA LengthIs ==
    ASSUME NEW n \in Nat
    PROVE  /\ Length(n) \in 0..10
           /\ \A k \in 0..9 : n >= TenTo[k] <=> k < Length(n)
<1> DEFINE S == {k \in 0..9 : n >= TenTo[k]}
<1>1. ASSUME NEW l \in 0..10, S = 0..(l - 1)
      PROVE  /\ Length(n) \in 0..10
             /\ \A k \in 0..9 : n >= TenTo[k] <=> k < Length(n)
  <2>1. Cardinality(0..(l - 1)) = l
    BY FS_Interval
  <2>2. Length(n) = l
    BY <1>1, <2>1 DEF Length
  <2>3. \A k \in 0..9 : k \in S <=> k < l
    BY <1>1
  <2> QED BY <2>2, <2>3
<1>2. CASE S = {}
  <2>1. 0..(0 - 1) = {}
    OBVIOUS
  <2> QED BY <1>1, <1>2, <2>1
<1>3. CASE S # {}
  <2> DEFINE m == Max(S)
  <2>1. S \subseteq 0..9
    OBVIOUS
  <2>2. m \in S /\ \A j \in S : j <= m
    <3> HIDE DEF S
    <3> QED BY <1>3, <2>1, GreatestMember
  <2>3. m \in 0..9 /\ m \in Nat /\ (m + 1) - 1 = m /\ m + 1 \in 0..10
    <3> HIDE DEF S, m
    <3> QED BY <2>1, <2>2
  <2>4. \A k \in 0..9 : k \in Nat /\ TenTo[k] \in Nat
    BY TenToGrows
  <2>5. ASSUME NEW k \in 0..9, k <= m PROVE k \in S
    <3>1. TenTo[k] <= TenTo[m] /\ n >= TenTo[m] /\ m \in 0..9
      <4>1. k \in Nat
        OBVIOUS
      <4> HIDE DEF m
      <4> QED BY <2>2, <2>3, <2>5, <4>1, PowersRise
    <3>2. TenTo[k] <= n
      BY <2>4, <3>1
    <3> QED BY <3>2, <2>4
  <2> HIDE DEF S, m
  <2>6. S = 0..((m + 1) - 1)
    <3>1. S \subseteq 0..m
      BY <2>1, <2>2, <2>3
    <3>2. 0..m \subseteq S
      BY <2>3, <2>5
    <3> QED BY <2>3, <3>1, <3>2
  <2> QED BY <1>1, <2>3, <2>6 DEF S
<1> QED BY <1>2, <1>3

LEMMA MicrosIs == MicrosPerSecond \in Nat \ {0} /\ MicrosPerSecond = TenTo[6]
  BY Powers, SMT DEF MicrosPerSecond

LEMMA MomentIs ==
    ASSUME NEW v \in Moment
    PROVE  v.s \in Nat /\ v.us \in Nat /\ v.us < MicrosPerSecond
  BY MicrosIs DEF Moment

\* Rounding to a unit keeps the order and the multiples of the unit.
LEMMA Rounding ==
    ASSUME NEW k \in 1..6, NEW n \in Nat
    PROVE  /\ RoundTo(n, TenTo[k]) \in Nat
           /\ \A m \in Nat : n <= m => RoundTo(n, TenTo[k]) <= RoundTo(m, TenTo[k])
           /\ n <= MicrosPerSecond => RoundTo(n, TenTo[k]) <= MicrosPerSecond
           /\ n % TenTo[k] = 0 => RoundTo(n, TenTo[k]) = n
<1>1. CASE k = 1
  BY <1>1, Powers, SMT DEF RoundTo, MicrosPerSecond
<1>2. CASE k = 2
  BY <1>2, Powers, SMT DEF RoundTo, MicrosPerSecond
<1>3. CASE k = 3
  BY <1>3, Powers, SMT DEF RoundTo, MicrosPerSecond
<1>4. CASE k = 4
  BY <1>4, Powers, SMT DEF RoundTo, MicrosPerSecond
<1>5. CASE k = 5
  BY <1>5, Powers, SMT DEF RoundTo, MicrosPerSecond
<1>6. CASE k = 6
  BY <1>6, Powers, SMT DEF RoundTo, MicrosPerSecond
<1>7. k = 1 \/ k = 2 \/ k = 3 \/ k = 4 \/ k = 5 \/ k = 6
  OBVIOUS
<1> QED BY <1>1, <1>2, <1>3, <1>4, <1>5, <1>6, <1>7

\* Whole seconds and microseconds of a rounded fraction.
LEMMA CarryIs ==
    ASSUME NEW s \in Nat, NEW x \in Nat, x <= MicrosPerSecond
    PROVE  /\ x < MicrosPerSecond => Carry(s, x) = [s |-> s, us |-> x]
           /\ x = MicrosPerSecond => Carry(s, x) = [s |-> s + 1, us |-> 0]
<1>1. CASE x < MicrosPerSecond
  <2>1. x \div MicrosPerSecond = 0
    BY <1>1, SMT DEF MicrosPerSecond
  <2>2. x % MicrosPerSecond = x
    BY <1>1, SMT DEF MicrosPerSecond
  <2>3. s + 0 = s /\ x # MicrosPerSecond
    BY <1>1, MicrosIs
  <2> QED BY <2>1, <2>2, <2>3 DEF Carry
<1>2. CASE x = MicrosPerSecond
  <2>1. x \div MicrosPerSecond = 1
    BY <1>2, SMT DEF MicrosPerSecond
  <2>2. x % MicrosPerSecond = 0
    BY <1>2, SMT DEF MicrosPerSecond
  <2>3. ~(x < MicrosPerSecond)
    BY <1>2, MicrosIs
  <2> QED BY <2>1, <2>2, <2>3 DEF Carry
<1>3. x < MicrosPerSecond \/ x = MicrosPerSecond
  BY MicrosIs
<1> QED BY <1>1, <1>2, <1>3

\* The fraction of a small number is rounded, or carried into its seconds.
LEMMA CarriedIs ==
    ASSUME NEW v \in Moment, NEW k \in 1..6
    PROVE  LET x == RoundTo(v.us, TenTo[k])  r == Carry(v.s, x)
           IN  /\ x \in Nat
               /\ \/ x < MicrosPerSecond /\ r.s = v.s /\ r.us = x
                  \/ x = MicrosPerSecond /\ r.s = v.s + 1 /\ r.us = 0
<1> DEFINE x == RoundTo(v.us, TenTo[k])
           r == Carry(v.s, x)
<1>1. v.s \in Nat /\ v.us \in Nat /\ v.us <= MicrosPerSecond
  BY MomentIs, MicrosIs
<1>2. x \in Nat /\ x <= MicrosPerSecond
  BY <1>1, Rounding
<1>3. x < MicrosPerSecond \/ x = MicrosPerSecond
  BY <1>2, MicrosIs
<1>4. /\ x < MicrosPerSecond => r = [s |-> v.s, us |-> x]
      /\ x = MicrosPerSecond => r = [s |-> v.s + 1, us |-> 0]
  <2> HIDE DEF x
  <2> QED BY <1>1, <1>2, CarryIs
<1> HIDE DEF x, r
<1> QED BY <1>2, <1>3, <1>4 DEF x, r

\* The three ways to write a number that is not whole.
LEMMA RenderedIs ==
    ASSUME NEW v \in Moment, v.us # 0
    PROVE  LET l == Length(v.s)
           IN  /\ l = 0 => Rendered(v) = v /\ v.s = 0
               /\ l \in 1..6 => Rendered(v) = Carry(v.s, RoundTo(v.us, TenTo[l]))
               /\ l \in 7..10 => Rendered(v) = [s |-> RoundTo(v.s, TenTo[l - 6]), us |-> 0]
<1> DEFINE l == Length(v.s)
           m == Length(v.us)
<1>1. v.s \in Nat /\ v.us \in Nat /\ v.us < MicrosPerSecond
  BY MomentIs
<1>2. l \in 0..10 /\ \A k \in 0..9 : v.s >= TenTo[k] <=> k < l
  BY <1>1, LengthIs
<1>3. m \in 0..10 /\ \A k \in 0..9 : v.us >= TenTo[k] <=> k < m
  BY <1>1, LengthIs
<1> HIDE DEF l, m
<1>4. Rendered(v) =
        IF 6 - l < 0 THEN [s |-> RoundTo(v.s, TenTo[l - 6]), us |-> 0]
        ELSE IF (IF v.s = 0 THEN 6 + (6 - m) ELSE 6 - l) >= 6 THEN v
             ELSE Carry(v.s, RoundTo(v.us, TenTo[6 - (IF v.s = 0 THEN 6 + (6 - m) ELSE 6 - l)]))
  BY DEF Rendered, Digits, l, m
<1>5. CASE l = 0
  <2>1. 0 \in 0..9 /\ ~(0 < l)
    BY <1>5
  <2>2. v.s = 0
    BY <1>1, <1>2, <2>1, Powers
  <2>3. 6 \in 0..9 /\ ~(v.us >= TenTo[6])
    BY <1>1, MicrosIs
  <2>4. 6 + (6 - m) >= 6 /\ ~(6 - l < 0)
    BY <1>3, <1>5, <2>3
  <2> QED BY <1>4, <1>5, <2>2, <2>4 DEF l
<1>6. CASE l \in 1..6
  <2>1. 0 \in 0..9 /\ 0 < l
    BY <1>6
  <2>2. v.s # 0
    BY <1>1, <1>2, <2>1, Powers
  <2>3. ~(6 - l < 0) /\ ~(6 - l >= 6) /\ 6 - (6 - l) = l /\ l # 0 /\ l \notin 7..10
    BY <1>6
  <2> QED BY <1>4, <2>2, <2>3 DEF l
<1>7. CASE l \in 7..10
  <2>1. 6 - l < 0 /\ l # 0 /\ l \notin 1..6
    BY <1>7
  <2> QED BY <1>4, <2>1 DEF l
<1>8. l = 0 \/ l \in 1..6 \/ l \in 7..10
  BY <1>2
<1> QED BY <1>5, <1>6, <1>7, <1>8

\* Rounding never leaves the range of the numbers of one length.
LEMMA RangeIsKept ==
    ASSUME NEW v \in Moment, v.us # 0, Length(v.s) # 0
    PROVE  LET l == Length(v.s)  r == Rendered(v)
           IN  /\ r.s \in Nat /\ r.us \in Nat
               /\ r.s >= TenTo[l - 1]
               /\ l <= 9 => AtMost(r, [s |-> TenTo[l], us |-> 0])
<1> DEFINE l == Length(v.s)
           r == Rendered(v)
<1>1. v.s \in Nat /\ v.us \in Nat
  BY MomentIs
<1>2. l \in 0..10 /\ \A k \in 0..9 : v.s >= TenTo[k] <=> k < l
  BY <1>1, LengthIs
<1> HIDE DEF l, r
<1>3. /\ l \in 1..10 /\ l - 1 \in 0..9 /\ l - 1 < l /\ l - 1 \in Nat /\ l \in Nat
      /\ l <= 9 => l \in 0..9 /\ ~(l < l)
  BY <1>2 DEF l
<1>4. TenTo[l - 1] \in Nat /\ TenTo[l] \in Nat
  BY <1>3, TenToGrows
<1>5. v.s >= TenTo[l - 1] /\ (l <= 9 => v.s < TenTo[l])
  BY <1>1, <1>2, <1>3, <1>4
<1>6. CASE l \in 1..6
  <2> DEFINE x == RoundTo(v.us, TenTo[l])
  <2>1. r = Carry(v.s, x)
    BY <1>6, RenderedIs DEF l, r
  <2>2. /\ x \in Nat
        /\ \/ x < MicrosPerSecond /\ r.s = v.s /\ r.us = x
           \/ x = MicrosPerSecond /\ r.s = v.s + 1 /\ r.us = 0
    BY <1>6, <2>1, CarriedIs
  <2> HIDE DEF x
  <2>3. r.s \in Nat /\ r.us \in Nat /\ (r.s = v.s \/ (r.s = v.s + 1 /\ r.us = 0))
    BY <1>1, <2>2
  <2>4. r.s >= TenTo[l - 1]
    BY <1>1, <1>4, <1>5, <2>3
  <2>5. l <= 9 => r.s < TenTo[l] \/ (r.s = TenTo[l] /\ r.us <= 0)
    BY <1>1, <1>4, <1>5, <2>3
  <2> QED BY <2>3, <2>4, <2>5 DEF AtMost, l, r
<1>7. CASE l \in 7..10
  <2> DEFINE u == TenTo[l - 6]
             x == RoundTo(v.s, u)
  <2>1. l - 6 \in 1..6 /\ l - 6 \in Nat /\ 5 \in Nat /\ 6 \in Nat
        /\ (l - 6) + 5 = l - 1 /\ (l - 6) + 6 = l
    BY <1>7
  <2>2. u \in Nat \ {0} /\ TenTo[5] \in Nat /\ TenTo[6] \in Nat
    BY <2>1, TenToGrows
  <2>3. TenTo[l - 1] = u * TenTo[5] /\ TenTo[l] = u * TenTo[6]
    BY <2>1, TenToAdds
  <2>4. TenTo[l - 1] % u = 0 /\ TenTo[l] % u = 0
    <3> HIDE DEF u
    <3>1. (u * TenTo[5]) % u = 0 /\ (u * TenTo[6]) % u = 0
      BY <2>2, Multiples
    <3> QED BY <2>3, <3>1
  <2>5. x \in Nat /\ RoundTo(TenTo[l - 1], u) <= x
    BY <1>1, <1>4, <1>5, <2>1, Rounding
  <2>6. RoundTo(TenTo[l - 1], u) = TenTo[l - 1] /\ RoundTo(TenTo[l], u) = TenTo[l]
    BY <1>4, <2>1, <2>4, Rounding
  <2>7. l <= 9 => x <= RoundTo(TenTo[l], u)
    <3>1. v.s < TenTo[l] => v.s <= TenTo[l]
      BY <1>1, <1>4
    <3> QED BY <1>1, <1>4, <1>5, <2>1, <3>1, Rounding
  <2>8. r = [s |-> x, us |-> 0]
    BY <1>7, RenderedIs DEF l, r
  <2> HIDE DEF u, x
  <2>9. r.s \in Nat /\ r.us \in Nat /\ r.us <= 0 /\ r.s >= TenTo[l - 1]
    BY <1>4, <2>5, <2>6, <2>8
  <2>10. l <= 9 => r.s < TenTo[l] \/ r.s = TenTo[l]
    BY <1>4, <2>5, <2>6, <2>7, <2>8
  <2> QED BY <2>9, <2>10 DEF AtMost, l, r
<1>8. l \in 1..6 \/ l \in 7..10
  BY <1>3
<1> QED BY <1>6, <1>7, <1>8

\* The gauges of two moments are never in the wrong order.
LEMMA OrderIsKept ==
    ASSUME NEW v \in Moment, NEW w \in Moment, v.us # 0, w.us # 0, AtMost(v, w)
    PROVE  AtMost(Rendered(v), Rendered(w))
<1> DEFINE k == Length(v.s)
           l == Length(w.s)
           q == Rendered(v)
           r == Rendered(w)
<1>1. /\ v.s \in Nat /\ v.us \in Nat /\ w.s \in Nat /\ w.us \in Nat
      /\ v.s < w.s \/ (v.s = w.s /\ v.us <= w.us)
  BY MomentIs DEF AtMost
<1>2. /\ k \in 0..10 /\ \A i \in 0..9 : v.s >= TenTo[i] <=> i < k
      /\ l \in 0..10 /\ \A i \in 0..9 : w.s >= TenTo[i] <=> i < l
  BY <1>1, LengthIs
<1> HIDE DEF k, l, q, r
<1>3. k <= l
  <2> SUFFICES ASSUME l < k PROVE FALSE
    BY <1>2
  <2>1. l \in 0..9 /\ l \in Nat /\ ~(l < l)
    BY <1>2
  <2>2. v.s >= TenTo[l] /\ ~(w.s >= TenTo[l]) /\ TenTo[l] \in Nat
    BY <1>2, <2>1, TenToGrows
  <2> QED BY <1>1, <2>2
<1>4. CASE l = 0
  <2>1. k = 0
    BY <1>2, <1>3, <1>4
  <2>2. q = v /\ r = w
    BY <1>4, <2>1, RenderedIs DEF k, l, q, r
  <2> QED BY <2>2 DEF q, r
<1>5. CASE k = l /\ l \in 1..6
  <2> DEFINE x == RoundTo(v.us, TenTo[l])
             y == RoundTo(w.us, TenTo[l])
  <2>1. v.us <= w.us => x <= y
    BY <1>1, <1>5, Rounding
  <2>2. q = Carry(v.s, x) /\ r = Carry(w.s, y)
    BY <1>5, RenderedIs DEF k, l, q, r
  <2>3. /\ x \in Nat
        /\ \/ x < MicrosPerSecond /\ q.s = v.s /\ q.us = x
           \/ x = MicrosPerSecond /\ q.s = v.s + 1 /\ q.us = 0
    BY <1>5, <2>2, CarriedIs
  <2>4. /\ y \in Nat
        /\ \/ y < MicrosPerSecond /\ r.s = w.s /\ r.us = y
           \/ y = MicrosPerSecond /\ r.s = w.s + 1 /\ r.us = 0
    BY <1>5, <2>2, CarriedIs
  <2> HIDE DEF x, y
  <2>5. q.s < r.s \/ (q.s = r.s /\ q.us <= r.us)
    BY <1>1, <2>1, <2>3, <2>4, MicrosIs
  <2> QED BY <2>5 DEF AtMost, q, r
<1>6. CASE k = l /\ l \in 7..10
  <2> DEFINE x == RoundTo(v.s, TenTo[l - 6])
             y == RoundTo(w.s, TenTo[l - 6])
  <2>1. l - 6 \in 1..6 /\ v.s <= w.s
    BY <1>1, <1>6
  <2>2. x \in Nat /\ y \in Nat /\ x <= y
    BY <1>1, <2>1, Rounding
  <2>3. q = [s |-> x, us |-> 0] /\ r = [s |-> y, us |-> 0]
    BY <1>6, RenderedIs DEF k, l, q, r
  <2> HIDE DEF x, y
  <2>4. q.s < r.s \/ (q.s = r.s /\ q.us <= r.us)
    BY <2>2, <2>3
  <2> QED BY <2>4 DEF AtMost, q, r
<1>7. CASE k < l
  <2>1. l # 0 /\ k <= 9 /\ k \in Nat /\ l - 1 \in Nat /\ k <= l - 1
    BY <1>2, <1>7
  <2>2. r.s \in Nat /\ r.us \in Nat /\ r.s >= TenTo[l - 1]
    BY <2>1, RangeIsKept DEF l, r
  <2>3. /\ TenTo[k] <= TenTo[l - 1]
        /\ TenTo[k] \in Nat \ {0} /\ TenTo[l - 1] \in Nat
    BY <2>1, PowersRise, TenToGrows
  <2>4. CASE k = 0
    <3>1. q.s = 0
      BY <2>4, RenderedIs DEF k, q
    <3>2. q.s < r.s
      BY <2>2, <2>3, <3>1
    <3> QED BY <3>2 DEF AtMost, q, r
  <2>5. CASE k # 0
    <3>1. q.s \in Nat /\ q.us \in Nat /\ AtMost(q, [s |-> TenTo[k], us |-> 0])
      BY <2>1, <2>5, RangeIsKept DEF k, q
    <3>2. q.s < TenTo[k] \/ (q.s = TenTo[k] /\ q.us <= 0)
      BY <3>1 DEF AtMost
    <3>3. q.s < r.s \/ (q.s = r.s /\ q.us <= r.us)
      BY <2>2, <2>3, <3>1, <3>2
    <3> QED BY <3>3 DEF AtMost, q, r
  <2> QED BY <2>4, <2>5
<1>8. l = 0 \/ k < l \/ (k = l /\ l \in 1..6) \/ (k = l /\ l \in 7..10)
  BY <1>2, <1>3
<1> QED BY <1>4, <1>5, <1>6, <1>7, <1>8

\* A difference of two moments is a number of seconds and microseconds again.
LEMMA DurationIs ==
    ASSUME NEW from \in Moment, NEW to \in Moment
    PROVE  Duration(from, to) \in Moment
<1> DEFINE borrow == IF to.us < from.us THEN 1 ELSE 0
           whole == to.s - from.s - borrow
           rest == to.us - from.us + MicrosPerSecond * borrow
<1>1. /\ from.s \in Nat /\ from.us \in Nat /\ from.us < MicrosPerSecond
      /\ to.s \in Nat /\ to.us \in Nat /\ to.us < MicrosPerSecond
      /\ MicrosPerSecond \in Nat \ {0}
  BY MomentIs, MicrosIs
<1>2. CASE ~AtMost(from, to)
  <2>1. 0 \in Nat /\ 0 \in 0..(MicrosPerSecond - 1)
    BY <1>1
  <2> QED BY <1>2, <2>1 DEF Duration, Moment
<1>3. CASE AtMost(from, to)
  <2>1. whole \in Nat
    <3>1. CASE to.us < from.us
      BY <1>1, <1>3, <3>1 DEF AtMost
    <3>2. CASE ~(to.us < from.us)
      BY <1>1, <1>3, <3>2 DEF AtMost
    <3> QED BY <3>1, <3>2
  <2>2. rest \in 0..(MicrosPerSecond - 1)
    <3>1. CASE to.us < from.us
      <4>1. rest = to.us - from.us + MicrosPerSecond
        BY <1>1, <3>1
      <4> HIDE DEF rest
      <4> QED BY <1>1, <3>1, <4>1
    <3>2. CASE ~(to.us < from.us)
      <4>1. rest = to.us - from.us
        BY <1>1, <3>2
      <4> HIDE DEF rest
      <4> QED BY <1>1, <3>2, <4>1
    <3> QED BY <3>1, <3>2
  <2>3. Duration(from, to) = [s |-> whole, us |-> rest]
    BY <1>3 DEF Duration
  <2> HIDE DEF whole, rest
  <2> QED BY <2>1, <2>2, <2>3 DEF Moment
<1> QED BY <1>2, <1>3

\* Below a thousand seconds, three decimals are always among the six digits.
LEMMA MillisecondsAreShown ==
    ASSUME NEW d \in Moment, d.s < 1000, d.us % 1000 = 0
    PROVE  Rendered(d) = d
<1> DEFINE l == Length(d.s)
<1>1. d.s \in Nat /\ d.us \in Nat /\ d.us < MicrosPerSecond /\ d = [s |-> d.s, us |-> d.us]
  BY MomentIs DEF Moment
<1>2. l \in 0..10 /\ \A k \in 0..9 : d.s >= TenTo[k] <=> k < l
  BY <1>1, LengthIs
<1>3. l \in 0..3
  <2> HIDE DEF l
  <2>1. 3 \in 0..9 /\ ~(d.s >= TenTo[3])
    BY <1>1, Powers
  <2> QED BY <1>2, <2>1
<1>4. CASE d.us = 0
  BY <1>4 DEF Rendered
<1>5. CASE d.us # 0 /\ l = 0
  BY <1>5, RenderedIs
<1>6. CASE d.us # 0 /\ l \in 1..3
  <2> HIDE DEF l
  <2>1. TenTo[1] = 10 /\ TenTo[2] = 100 /\ TenTo[3] = 1000
    BY Powers
  <2>2. l = 1 \/ l = 2 \/ l = 3
    BY <1>6
  <2>3. d.us % TenTo[l] = 0
    BY <1>1, <2>1, <2>2
  <2>4. l \in 1..6 /\ RoundTo(d.us, TenTo[l]) = d.us
    BY <1>1, <2>2, <2>3, Rounding
  <2>5. Rendered(d) = Carry(d.s, d.us)
    BY <1>6, <2>4, RenderedIs DEF l
  <2>6. Carry(d.s, d.us) = [s |-> d.s, us |-> d.us]
    <3>1. d.us <= MicrosPerSecond
      BY <1>1, MicrosIs
    <3> QED BY <1>1, <3>1, CarryIs
  <2> QED BY <1>1, <2>5, <2>6
<1>7. l = 0 \/ l \in 1..3
  <2> HIDE DEF l
  <2> QED BY <1>3
<1> QED BY <1>4, <1>5, <1>6, <1>7

\* Below a second, all six digits are behind the point.
LEMMA FractionsAreShown ==
    ASSUME NEW d \in Moment, d.s = 0
    PROVE  Rendered(d) = d
<1>1. CASE d.us = 0
  BY <1>1 DEF Rendered
<1>2. CASE d.us # 0
  <2>1. Length(0) \in 0..10 /\ \A k \in 0..9 : 0 >= TenTo[k] <=> k < Length(0)
    BY LengthIs
  <2>2. 0 \in 0..9 /\ ~(0 >= TenTo[0])
    BY Powers
  <2>3. Length(d.s) = 0
    BY <2>1, <2>2
  <2> QED BY <1>2, <2>3, RenderedIs
<1> QED BY <1>1, <1>2

\* Durations and latencies below a thousand seconds are shown to the millisecond, those
\* below a second to the microsecond, and none is negative; the gauges of two moments
\* that are not whole seconds are never in the wrong order.  For all moments
\* with up to ten digits of seconds, also those with more digits than
\* _format_metric_value keeps.
THEOREM TimesAreShown == ValueSpec => []GaugesOfTime
<1> DEFINE Inv == started \in Moment /\ completed \in Moment
<1>1. ValueInit => Inv
  BY ValueAssumption DEF ValueInit
<1>2. Inv /\ [UNCHANGED valueVars]_valueVars => Inv'
  BY DEF valueVars
<1>3. Inv => GaugesOfTime
  <2> DEFINE d == Duration(started, completed)
             f == [s |-> 0, us |-> d.us]
  <2> SUFFICES ASSUME Inv
               PROVE  /\ d.s >= 0
                      /\ Rendered(f) = f
                      /\ d.s < 1000 /\ d.us % 1000 = 0 => Rendered(d) = d
                      /\ started.us # 0 /\ completed.us # 0 /\ AtMost(started, completed) =>
                            AtMost(Rendered(started), Rendered(completed))
    BY DEF GaugesOfTime
  <2>1. d \in Moment
    BY DurationIs
  <2>2. f \in Moment /\ f.s = 0
    <3> HIDE DEF d
    <3>1. d.us \in 0..(MicrosPerSecond - 1) /\ 0 \in Nat
      BY <2>1 DEF Moment
    <3> QED BY <3>1 DEF Moment
  <2> HIDE DEF d, f
  <2>3. d.s >= 0
    BY <2>1, MomentIs
  <2>4. Rendered(f) = f
    BY <2>2, FractionsAreShown
  <2>5. d.s < 1000 /\ d.us % 1000 = 0 => Rendered(d) = d
    BY <2>1, MillisecondsAreShown
  <2>6. started.us # 0 /\ completed.us # 0 /\ AtMost(started, completed) =>
          AtMost(Rendered(started), Rendered(completed))
    BY OrderIsKept
  <2> QED BY <2>3, <2>4, <2>5, <2>6
<1> QED BY <1>1, <1>2, <1>3, PTL DEF ValueSpec
=============================================================================
