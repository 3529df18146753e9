CONSTANTS
    p1 = p1
    p2 = p2
    p3 = p3
    Proc = {p1, p2, p3}
    NoProc = NoProc
    Absent = Absent
    Empty = Empty
    Garbled = Garbled
    Scenarios <- Racing
SPECIFICATION Spec
INVARIANTS
    OneOwner
PROPERTIES
    JournalImplementsPhases
    CommandsEnd
    OwnerClosesJournal
CHECK_DEADLOCK FALSE
