------------------------ MODULE ReconciliationLemmas ------------------------
(***************************************************************************)
(* What the operators of a reconciliation return: the order of severities, *)
(* the roll up, the three ways to tell whether it passed, and the age at   *)
(* which data is stale.  And what they stand on: least and greatest        *)
(* numbers, exact division, and the powers of ten.                         *)
(***************************************************************************)
EXTENDS Reconciliation, WellFoundedInduction, TLAPS

SeveritySet == {"ok", "warning", "unknown", "mismatch"}

LEMMA PrecedenceValues ==
    /\ Precedence("ok") = 1
    /\ Precedence("warning") = 2
    /\ Precedence("unknown") = 3
    /\ Precedence("mismatch") = 4
<1>1. \A i \in 1..4 : i = 1 \/ i = 2 \/ i = 3 \/ i = 4
  OBVIOUS
<1>2. /\ Severities[1] = "ok" /\ Severities[2] = "warning"
      /\ Severities[3] = "unknown" /\ Severities[4] = "mismatch"
  BY DEF Severities
<1>3. Precedence("ok") = 1
  BY <1>1, <1>2 DEF Precedence
<1>4. Precedence("warning") = 2
  BY <1>1, <1>2 DEF Precedence
<1>5. Precedence("unknown") = 3
  BY <1>1, <1>2 DEF Precedence
<1>6. Precedence("mismatch") = 4
  BY <1>1, <1>2 DEF Precedence
<1> QED
  BY <1>3, <1>4, <1>5, <1>6

\* Precedence is a total order on the severities: whichever of them come together,
\* the rolled up status is one of them and the worst.
LEMMA RollupIsWorst ==
    ASSUME NEW S \in SUBSET SeveritySet, S # {}
    PROVE  /\ Rollup(S) \in S
           /\ \A t \in S : Precedence(t) <= Precedence(Rollup(S))
<1> DEFINE Worst(s) == \A t \in S : Precedence(t) <= Precedence(s)
<1>1. \E s \in S : Worst(s)
  <2>1. CASE "mismatch" \in S
    BY <2>1, PrecedenceValues DEF SeveritySet
  <2>2. CASE "mismatch" \notin S /\ "unknown" \in S
    BY <2>2, PrecedenceValues DEF SeveritySet
  <2>3. CASE "mismatch" \notin S /\ "unknown" \notin S /\ "warning" \in S
    BY <2>3, PrecedenceValues DEF SeveritySet
  <2>4. CASE S = {"ok"}
    BY <2>4, PrecedenceValues
  <2> QED
    BY <2>1, <2>2, <2>3, <2>4 DEF SeveritySet
<1>2. Rollup(S) = CHOOSE s \in S : Worst(s)
  BY DEF Rollup
<1> HIDE DEF Worst
<1>3. Rollup(S) \in S /\ Worst(Rollup(S))
  BY <1>1, <1>2
<1> QED
  BY <1>3 DEF Worst

\* Each comparison returns one of the four severities, whatever it is given.
LEMMA SeveritiesOfChecks ==
    ASSUME NEW e, NEW o, NEW now
    PROVE  /\ CheckSeverities(Checks(e, o, now)) \subseteq SeveritySet
           /\ CheckSeverities(Checks(e, o, now)) # {}
<1>1. ComparePosition(e.position, o.position) \in SeveritySet
  BY DEF ComparePosition, SeveritySet
<1>2. CompareOpenOrders(e.orders, o.orders) \in SeveritySet
  BY DEF CompareOpenOrders, SeveritySet
<1>3. CompareFreshness(e.freshness, o.freshness, now) \in SeveritySet
  BY DEF CompareFreshness, SeveritySet
<1>4. CheckSeverities(Checks(e, o, now)) =
        {ComparePosition(e.position, o.position),
         CompareOpenOrders(e.orders, o.orders),
         CompareFreshness(e.freshness, o.freshness, now)}
  <2> DEFINE c == Checks(e, o, now)
  <2>1. DOMAIN c = {"position", "open_orders", "freshness"}
    BY DEF Checks
  <2>2. /\ c["position"] = ComparePosition(e.position, o.position)
        /\ c["open_orders"] = CompareOpenOrders(e.orders, o.orders)
        /\ c["freshness"] = CompareFreshness(e.freshness, o.freshness, now)
    BY DEF Checks
  <2> HIDE DEF c
  <2>3. CheckSeverities(c) = {c["position"], c["open_orders"], c["freshness"]}
    BY <2>1 DEF CheckSeverities
  <2> QED
    BY <2>2, <2>3 DEF c
<1> QED
  BY <1>1, <1>2, <1>3, <1>4

\* The exit code, which looks at the rolled up status, and the pass flag, which
\* looks at the counts, decide alike on every set of severities.
LEMMA ExitCodeMatchesPass ==
    ASSUME NEW S \in SUBSET SeveritySet, S # {}
    PROVE  /\ ExitCode(Rollup(S)) = 0 <=> Pass(S)
           /\ "mismatch" \in S => Rollup(S) = "mismatch"
           /\ Rollup(S) = "ok" => S = {"ok"}
<1> DEFINE r == Rollup(S)
<1>1. r \in S /\ r \in SeveritySet
  BY RollupIsWorst
<1>2. \A t \in S : Precedence(t) <= Precedence(r)
  BY RollupIsWorst
<1> HIDE DEF r
<1>3. "mismatch" \in S => r = "mismatch"
  BY <1>1, <1>2, PrecedenceValues DEF SeveritySet
<1>4. "unknown" \in S => r \in {"unknown", "mismatch"}
  BY <1>1, <1>2, PrecedenceValues DEF SeveritySet
<1>5. r = "ok" => S = {"ok"}
  <2> SUFFICES ASSUME r = "ok" PROVE \A t \in S : t = "ok"
    BY <1>1
  <2>1. \A t \in S : Precedence(t) <= 1
    BY <1>2, PrecedenceValues
  <2>2. \A t \in SeveritySet : Precedence(t) <= 1 => t = "ok"
    BY PrecedenceValues DEF SeveritySet
  <2> QED
    BY <2>1, <2>2
<1>6. ExitCode(r) = 0 <=> Pass(S)
  BY <1>1, <1>3, <1>4 DEF ExitCode, Pass
<1> QED
  BY <1>3, <1>5, <1>6 DEF r

-----------------------------------------------------------------------------
(* The age of data *)

LEMMA ProductIsNat ==
    ASSUME NEW a \in Nat, NEW b \in Nat
    PROVE  a * b \in Nat
OBVIOUS

\* Whole seconds exceed the limit from one full second beyond it on.
LEMMA AgeBeyondLimit ==
    ASSUME NEW t \in Int, NEW now \in Int, NEW limit \in Nat
    PROVE  Stale(t, now, limit) <=> now - t >= (limit + 1) * TicksPerSecond
<1> DEFINE T == TicksPerSecond
<1>0. T \in Nat /\ T > 0
  BY TickAssumption
<1> HIDE DEF T
<1>1. CASE now < t
  <2>1. (limit + 1) * T \in Nat
    BY <1>0, ProductIsNat
  <2>2. now - t < 0
    BY <1>1
  <2> QED
    BY <1>1, <2>1, <2>2 DEF Stale, AgeSeconds, T
<1>2. CASE ~(now < t)
  <2> DEFINE d == now - t
             q == d \div T
             r == d % T
  <2>1. d \in Nat
    BY <1>2
  <2> HIDE DEF d
  <2>2. q \in Int /\ r \in Int /\ 0 <= r /\ r < T /\ d = T * q + r
    BY <2>1, <1>0
  <2> HIDE DEF q, r
  <2>3. q > limit => d >= (limit + 1) * T
    <3> SUFFICES ASSUME q > limit PROVE d >= (limit + 1) * T
      OBVIOUS
    <3>1. (q - (limit + 1)) * T \in Nat
      <4>1. q - (limit + 1) \in Nat
        BY <2>2
      <4> QED
        BY <4>1, <1>0, ProductIsNat
    <3>2. (q - (limit + 1)) * T = T * q - (limit + 1) * T
      BY <2>2, <1>0
    <3> QED
      BY <3>1, <3>2, <2>2, <1>0
  <2>4. q <= limit => d < (limit + 1) * T
    <3> SUFFICES ASSUME q <= limit PROVE d < (limit + 1) * T
      OBVIOUS
    <3>1. (limit - q) * T \in Nat
      <4>1. limit - q \in Nat
        BY <2>2
      <4> QED
        BY <4>1, <1>0, ProductIsNat
    <3>2. (limit - q) * T = (limit + 1) * T - T - T * q
      BY <2>2, <1>0
    <3> QED
      BY <3>1, <3>2, <2>2, <1>0
  <2>5. Stale(t, now, limit) <=> q > limit
    BY <1>2 DEF Stale, AgeSeconds, q, d, T
  <2>6. (limit + 1) * T \in Nat
    BY <1>0, ProductIsNat
  <2>7. Stale(t, now, limit) <=> d >= (limit + 1) * T
    BY <2>1, <2>2, <2>3, <2>4, <2>5, <2>6
  <2> QED
    BY <2>7 DEF d, T
<1> QED
  BY <1>1, <1>2

-----------------------------------------------------------------------------
(* Numbers *)

\* A set of numbers that has a member has a least one.
LEMMA LeastMember ==
    ASSUME NEW N, N \subseteq Nat, N # {}
    PROVE  \E x \in N : \A y \in N : x <= y
<1>1. PICK x \in N : \A y \in N : ~(<<y, x>> \in OpToRel(<, Nat))
  BY NatLessThanWellFounded, WFMin
<1>2. \A y \in N : ~(y < x)
  BY <1>1 DEF OpToRel
<1> QED BY <1>2

\* TenTo is what its definition says: there is such a function.  It is put together
\* from its beginnings, of which there is one of each length.
LEMMA TenToIs ==
    TenTo = [k \in Nat |-> IF k = 0 THEN 1 ELSE 10 * TenTo[k - 1]]
<1> DEFINE Grows(g, n) == g[0] = 1 /\ \A k \in 1..n : g[k] = 10 * g[k - 1]
           Chosen(n) == CHOOSE g : Grows(g, n)
           f == [k \in Nat |-> Chosen(k)[k]]
           Fcn(h) == h = [k \in Nat |-> IF k = 0 THEN 1 ELSE 10 * h[k - 1]]
<1>1. \A n \in Nat : \E g : Grows(g, n)
  <2> DEFINE N == {n \in Nat : ~\E g : Grows(g, n)}
  <2> SUFFICES ASSUME N # {} PROVE FALSE
    OBVIOUS
  <2>1. PICK x \in N : \A y \in N : x <= y
    BY LeastMember
  <2>2. x # 0
    <3>1. Grows([k \in {0} |-> 1], 0)
      OBVIOUS
    <3> QED BY <2>1, <3>1
  <2>3. PICK g : Grows(g, x - 1)
    <3>1. x - 1 \in Nat /\ ~(x <= x - 1)
      BY <2>1, <2>2
    <3>2. x - 1 \notin N
      BY <2>1, <3>1
    <3> QED BY <3>1, <3>2
  <2> DEFINE h == [k \in 0..x |-> IF k = x THEN 10 * g[x - 1] ELSE g[k]]
  <2>4. h[0] = 1
    BY <2>2, <2>3
  <2>5. ASSUME NEW k \in 1..x PROVE h[k] = 10 * h[k - 1]
    <3>1. CASE k = x
      BY <2>2, <2>5, <3>1
    <3>2. CASE k # x
      BY <2>2, <2>3, <2>5, <3>2
    <3> QED BY <3>1, <3>2
  <2> QED BY <2>1, <2>4, <2>5
<1>2. \A n \in Nat : Grows(Chosen(n), n)
  BY <1>1
<1>3. ASSUME NEW n \in Nat, NEW m \in Nat, n <= m, NEW g, NEW h, Grows(g, n), Grows(h, m)
      PROVE  g[n] = h[n]
  <2> DEFINE N == {k \in 0..n : g[k] # h[k]}
  <2> SUFFICES ASSUME N # {} PROVE FALSE
    OBVIOUS
  <2>0. N \subseteq Nat
    OBVIOUS
  <2>1. PICK x \in N : \A y \in N : x <= y
    <3> HIDE DEF N
    <3> QED BY <2>0, LeastMember
  <2>2. x # 0
    BY <1>3, <2>1
  <2>3. g[x - 1] = h[x - 1]
    <3>1. x - 1 \in 0..n /\ ~(x <= x - 1)
      BY <2>1, <2>2
    <3> QED BY <2>1, <3>1
  <2>4. g[x] = 10 * g[x - 1] /\ h[x] = 10 * h[x - 1]
    BY <1>3, <2>1, <2>2
  <2> QED BY <2>1, <2>3, <2>4
<1> HIDE DEF Chosen
<1>4. f[0] = 1
  BY <1>2
<1>5. ASSUME NEW k \in Nat, k # 0 PROVE f[k] = 10 * f[k - 1]
  <2>1. Grows(Chosen(k), k) /\ Grows(Chosen(k - 1), k - 1)
    BY <1>2, <1>5
  <2>2. Chosen(k)[k] = 10 * Chosen(k)[k - 1]
    BY <2>1, <1>5
  <2>3. Chosen(k - 1)[k - 1] = Chosen(k)[k - 1]
    BY <1>3, <1>5, <2>1
  <2> QED BY <1>5, <2>2, <2>3
<1> HIDE DEF f
<1>6. Fcn(f)
  BY <1>4, <1>5 DEF f
<1>7. Fcn(CHOOSE h : Fcn(h))
  BY <1>6
<1> QED BY <1>7 DEF TenTo

LEMMA TenToGrows ==
    /\ TenTo[0] = 1
    /\ \A k \in Nat : TenTo[k + 1] = 10 * TenTo[k] /\ TenTo[k] \in Nat \ {0}
<1>1. TenTo[0] = 1
  BY TenToIs
<1>2. ASSUME NEW k \in Nat PROVE TenTo[k + 1] = 10 * TenTo[k]
  BY TenToIs
<1>3. ASSUME NEW k \in Nat PROVE TenTo[k] \in Nat \ {0}
  <2> DEFINE N == {n \in Nat : TenTo[n] \notin Nat \ {0}}
  <2> SUFFICES ASSUME N # {} PROVE FALSE
    OBVIOUS
  <2>1. PICK x \in N : \A y \in N : x <= y
    BY LeastMember
  <2>2. x # 0
    BY <1>1, <2>1
  <2>3. TenTo[x - 1] \in Nat \ {0}
    BY <2>1, <2>2
  <2>4. TenTo[x] = 10 * TenTo[x - 1]
    BY <1>2, <2>1, <2>2
  <2> QED BY <2>1, <2>3, <2>4
<1> QED BY <1>1, <1>2, <1>3

LEMMA TenToAdds == \A j, k \in Nat : TenTo[j + k] = TenTo[j] * TenTo[k]
<1> SUFFICES ASSUME NEW j \in Nat, {k \in Nat : TenTo[j + k] # TenTo[j] * TenTo[k]} # {}
             PROVE  FALSE
  OBVIOUS
<1>1. PICK x \in Nat : /\ TenTo[j + x] # TenTo[j] * TenTo[x]
                       /\ \A y \in Nat : TenTo[j + y] # TenTo[j] * TenTo[y] => x <= y
  <2> DEFINE N == {k \in Nat : TenTo[j + k] # TenTo[j] * TenTo[k]}
  <2>1. PICK x \in N : \A y \in N : x <= y
    BY LeastMember
  <2> QED BY <2>1
<1>2. x # 0
  BY <1>1, TenToGrows
<1>3. PICK y \in Nat : x = y + 1
  BY <1>1, <1>2
<1>4. TenTo[j + y] = TenTo[j] * TenTo[y]
  BY <1>1, <1>3
<1>5. TenTo[j + x] = 10 * TenTo[j + y] /\ TenTo[x] = 10 * TenTo[y]
  BY <1>3, TenToGrows
<1>6. \A a, b \in Nat : a * (10 * b) = 10 * (a * b)
  OBVIOUS
<1>7. TenTo[j] * (10 * TenTo[y]) = 10 * (TenTo[j] * TenTo[y])
  BY <1>3, <1>6, TenToGrows
<1> QED BY <1>1, <1>4, <1>5, <1>7

\* Exact division.
LEMMA Multiples ==
    ASSUME NEW m \in Nat \ {0}
    PROVE  /\ \A r \in Nat : (m * r) % m = 0
           /\ \A c \in Nat : c % m = 0 => c \div m \in Nat /\ m * (c \div m) = c
<1>1. ASSUME NEW c \in Nat
      PROVE  /\ c \div m \in Nat /\ c % m \in Nat
             /\ c = m * (c \div m) + (c % m) /\ c % m < m
  <2> DEFINE p == m * (c \div m)
             t == c % m
  <2>1. t \in Nat /\ t < m
    OBVIOUS
  <2>2. t = c - p
    BY SMTT(60)
  <2>3. c \div m \in Nat /\ p \in Nat
    OBVIOUS
  <2> HIDE DEF p, t
  <2>4. c = p + t
    BY <2>1, <2>2, <2>3
  <2> QED BY <2>1, <2>3, <2>4 DEF p, t
<1>2. ASSUME NEW r \in Nat PROVE (m * r) % m = 0
  <2> DEFINE q == (m * r) \div m
             t == (m * r) % m
  <2>1. m * r \in Nat
    OBVIOUS
  <2>2. q \in Nat /\ t \in Nat /\ m * r = m * q + t /\ t < m
    BY <1>1, <2>1
  <2> HIDE DEF q, t
  <2>3. m * (r - q) = t
    BY <2>2
  <2>4. CASE r - q <= 0
    <3>1. PICK d \in Nat : r - q = -d
      BY <2>2, <2>4
    <3>2. m * (-d) = -(m * d) /\ m * d \in Nat
      OBVIOUS
    <3> QED BY <2>2, <2>3, <3>1, <3>2 DEF t
  <2>5. CASE r - q >= 1
    <3>1. PICK d \in Nat : r - q = d + 1
      BY <2>2, <2>5
    <3>2. m * (d + 1) = m * d + m /\ m * d \in Nat
      OBVIOUS
    <3> QED BY <2>2, <2>3, <3>1, <3>2
  <2> QED BY <2>2, <2>4, <2>5
<1> QED BY <1>1, <1>2

\* A set of numbers up to a bound that has a member has a greatest one.
LEMMA GreatestMember ==
    ASSUME NEW n \in Nat, NEW S, S \subseteq 0..n, S # {}
    PROVE  Max(S) \in S /\ \A j \in S : j <= Max(S)
<1> DEFINE N == {n - j : j \in S}
<1>0. S \subseteq Nat /\ N \subseteq Nat /\ N # {}
  OBVIOUS
<1>1. PICK x \in N : \A y \in N : x <= y
  <2> HIDE DEF N
  <2> QED BY <1>0, LeastMember
<1>2. PICK s \in S : x = n - s
  BY <1>1
<1>3. ASSUME NEW j \in S PROVE s >= j
  <2>1. n - s <= n - j
    BY <1>1, <1>2
  <2> QED BY <1>0, <2>1
<1> QED BY <1>2, <1>3 DEF Max
=============================================================================
