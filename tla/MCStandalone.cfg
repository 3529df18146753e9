CONSTANTS
    Timeout = 3
    SystemTimeout = 2
    Addresses = 2
    Pieces = 3
    Redirects = 2
    Proc = {p1, p2, p3}
    FixtureRows = 6
    Earlier <- MCEarlier
    MaxCrashes = 1
    Pair = {d1, d2}
    Writer = {c1, c2, c3}
    MaxAnswers = 2
    MaxDeadWriters = 1
    Absent = Absent
    Empty = Empty
    Garbled = Garbled
SPECIFICATION Spec
INVARIANTS
    StateTellsExchange
    ProbeBounded
    FingerprintOfFixture
    BacktestSeesAll
    EveryPairAccounted
PROPERTIES
    AwakeProbeEnds
CHECK_DEADLOCK FALSE
