CONSTANTS
    Null = Null
    Bad = Bad
    TicksPerSecond = 1
    Absent = Absent
    Empty = Empty
    Garbled = Garbled
    Now <- FirstOfJune
    p1 = p1
    p2 = p2
    p3 = p3
    Proc <- MCProc
    Scenarios <- Sharing
SPECIFICATION DrillScrapeSpec
INVARIANTS
    DrillsPass
    RerunRepairs
    LinesBacked
    CountedLinesShown
CHECK_DEADLOCK FALSE
