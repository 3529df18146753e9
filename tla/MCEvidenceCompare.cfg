CONSTANTS
    p1 = p1
    p2 = p2
    c1 = c1
    c2 = c2
    Proc = {p1, p2}
    Comparer = {c1, c2}
    Side = "paper"
    NoProc = NoProc
    Absent = Absent
    Empty = Empty
    Garbled = Garbled
    Scenarios <- Comparing
SPECIFICATION EvidenceSpec
SYMMETRY SwapComparers
INVARIANTS
    EvidenceFits
    MissingOnlyIfMissing
    PairAgrees
CHECK_DEADLOCK FALSE
