CONSTANTS
    Null = Null
    Bad = Bad
    TicksPerSecond = 2
    Families <- PayloadFamilies
    Now = 10
    RawIds <- MCRawIds
    Values <- MCValues
    Nil = Nil
    NotText = NotText
    NotList = NotList
    EnvName = {"KEY", "SECRET"}
    SpecFamilies <- MCSpecFamilies
SPECIFICATION Spec
INVARIANTS
    PositionByValue
    OrdersByContent
    StaleBeyondLimit
    VerdictsAgree
    PairsApart
    GaugesOfTime
    ReadinessByEnvironment
    HashIgnoresSpelling
CHECK_DEADLOCK FALSE
