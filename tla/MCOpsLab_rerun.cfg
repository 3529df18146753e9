CONSTANTS
    p1 = p1
    p2 = p2
    p3 = p3
    Proc = {p1, p2, p3}
    NoProc = NoProc
    Absent = Absent
    Empty = Empty
    Garbled = Garbled
    Scenarios <- Rerun
SPECIFICATION Spec
INVARIANTS
    RerunOverwrites
CHECK_DEADLOCK FALSE
