CONSTANTS
    p1 = p1
    p2 = p2
    r1 = r1
    Proc = {p1, p2}
    NoProc = NoProc
    Absent = Absent
    Empty = Empty
    Garbled = Garbled
    Here = here
    Neighbour = {r1}
    Scenarios <- Writing
SPECIFICATION ScrapeSpec
INVARIANTS
    GaugesAgree
    NothingHidden
PROPERTIES
    CountersNeverFall
CHECK_DEADLOCK FALSE
