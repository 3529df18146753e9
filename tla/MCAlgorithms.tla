---------------------------- MODULE MCAlgorithms ----------------------------
(***************************************************************************)
(* The pure parts of the program on bounded inputs: the reconciliation, the *)
(* pair directory, the numbers of the gauges, and the run spec.  They share *)
(* nothing: a behaviour gives inputs to one of them and idle ones to the    *)
(* others.                                                                  *)
(***************************************************************************)
EXTENDS ReconcileAlgorithm, PairId, MetricValue, RunSpec

-----------------------------------------------------------------------------
(* Payloads: zero, signed zero, and numbers with several spellings; no, one   *)
(* and two orders; ages around the limit; all combinations of the verdicts.   *)

Dec(n, c, x) == [neg |-> n, coef |-> c, exp |-> x]
One == Dec(FALSE, 1, 0)
Numbers == {Dec(n, c, x) : n \in BOOLEAN, c \in {0, 1, 10}, x \in {-2, 0, 1}}

Positions ==
    [symbol : {"BTCUSDT"}, side : {"flat", "long"}, qty : Numbers \cup {Bad},
     avg : {Null, Bad, Dec(FALSE, 1, 1), Dec(FALSE, 10, 0)}]
Flat == [symbol |-> "BTCUSDT", side |-> "flat", qty |-> Dec(FALSE, 0, 0), avg |-> Null]

Order(id, qty, price, tag) ==
    [id |-> id, terms |-> "buy limit", qty |-> qty, price |-> price, tag |-> tag]
Orders == {Order("a", q, x, t) : q \in {One, Dec(FALSE, 10, -1), Dec(FALSE, 10, 0), Bad},
                                 x \in {Null, One}, t \in {Null, "open", "new"}}
Others == {Order(id, One, Null, t) : id \in {"a", "b"}, t \in {Null, "open"}}
OrderLists == {<<>>} \cup {<<x>> : x \in Orders} \cup {<<x, y>> : x, y \in Others}
Books == OrderLists \cup {<<y, x>> : x \in Orders, y \in Others}

Freshnesses ==
    {Null} \cup [position : {Null, Bad} \cup 3..12, orders : {Bad, 9}, maxAge : {Null, 1, 2}]

Flats(P, O, F) == [position : P, orders : O, freshness : F]
Pairs(S, T) == [expected |-> S, observed |-> T]

PositionCases == Flats(Positions, {<<>>}, {Null})
OrderCases == Flats({Flat}, Books, {Null})
FreshnessCases == Flats({Flat}, {<<>>}, Freshnesses)

Fresh(t) == [position |-> t, orders |-> t, maxAge |-> 2]
VerdictCases ==
    Flats({Flat, [Flat EXCEPT !.side = "long"], [Flat EXCEPT !.qty = Bad]},
          {<<>>, <<Order("a", One, Null, Null)>>, <<Order("a", Bad, Null, Null)>>},
          {Null, Fresh(9), Fresh(1)})

PayloadFamilies ==
    {Pairs(C, C) : C \in {PositionCases, OrderCases, FreshnessCases}}
    \cup {Pairs(Flats({Flat}, {<<>>}, {Null}), VerdictCases)}

-----------------------------------------------------------------------------
(* All short run ids over every kind of character, and the longer ones of a   *)
(* letter and underscores that the separator can hide in.                     *)

Strings(S, n) == UNION {[1..k -> S] : k \in 0..n}
MCRawIds == Strings(Char, 2) \cup Strings({"a", "_"}, 4)

-----------------------------------------------------------------------------
(* Short latencies, durations around the sixth digit, and moments of 2026.    *)

Seconds == {0, 1, 9, 59, 999, 1000, 99999, 100000, 999999, 1000000,
            1780000000, 1780004999, 1780005000, 1780000001, 1779999999}
Micros == {0, 1, 12, 4999, 12300, 100000, 123000, 123456, 500000, 999000, 999999}
MCValues == [s : Seconds, us : Micros]

-----------------------------------------------------------------------------
(* Specs with up to two names in each list of a readiness block, spelled with *)
(* and without white space; and specs with all kinds of venues.               *)

Spelled(w) == {[word |-> w, padded |-> p] : p \in BOOLEAN}

Names == Spelled("KEY") \cup Spelled("SECRET") \cup
         {[word |-> "key", padded |-> FALSE], [word |-> "", padded |-> TRUE], NotText}
NameLists == Strings(Names, 2) \cup {Nil, NotList}

Blocks(E, V, R, O) == [enabled : E, venue : V, required : R, optional : O]
NameSpecs ==
    [run_id : {[word |-> "run", padded |-> FALSE]},
     venue : {[word |-> "binance", padded |-> FALSE]}, unknownKey : {FALSE},
     readiness : Blocks({TRUE}, {Nil}, NameLists, NameLists)]

Venues == Spelled("binance") \cup Spelled("") \cup {Nil, NotText}
VenueSpecs ==
    [run_id : Spelled("run") \cup Spelled(""), venue : Venues, unknownKey : BOOLEAN,
     readiness : {Nil} \cup
        Blocks(BOOLEAN, Venues \cup Spelled("kraken"), {Nil, <<>>},
               {<<n>> : n \in Spelled("KEY")})]

MCSpecFamilies == {NameSpecs, VenueSpecs}

-----------------------------------------------------------------------------
IdlePayload == [position |-> Flat, orders |-> <<>>, freshness |-> Null]
IdlePayloads == checks = NoChecks /\ expected = IdlePayload /\ observed = IdlePayload
IdleIds == given = << <<>>, <<>> >>
IdleValues == LET zero == [s |-> 0, us |-> 0] IN started = zero /\ completed = zero
IdleSpec ==
    /\ spec = [run_id |-> NotText, venue |-> NotText, unknownKey |-> FALSE, readiness |-> Nil]
    /\ env = [n \in EnvName |-> "unset"]

Init ==
    \/ AlgInit /\ IdleIds /\ IdleValues /\ IdleSpec
    \/ IdlePayloads /\ PairIdInit /\ IdleValues /\ IdleSpec
    \/ IdlePayloads /\ IdleIds /\ ValueInit /\ IdleSpec
    \/ IdlePayloads /\ IdleIds /\ IdleValues /\ SpecInit

Next == AlgNext /\ UNCHANGED <<pairVars, valueVars, specVars>>

Spec == Init /\ [][Next]_<<algVars, pairVars, valueVars, specVars>>
=============================================================================
