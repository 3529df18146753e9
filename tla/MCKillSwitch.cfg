CONSTANTS
    Proc = {k1, k2, k3}
    NoProc = NoProc
    Absent = Absent
    Empty = Empty
    Garbled = Garbled
SPECIFICATION KillSpec
SYMMETRY Symm
INVARIANTS
    TypeOK
    AuditBeforeState
    JournalMirrorsAudit
    NoLostActivation
    SerialAuditChain
PROPERTIES
    WedgeIsPermanent
CHECK_DEADLOCK FALSE
