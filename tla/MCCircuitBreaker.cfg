SPECIFICATION CFairSpec
CONSTANTS
    Operations = {o1, o2, o3}
    NoOperation = NoOperation
    FailureThreshold = 3
    RecoveryTimeout = 4
    ProbeTimeout = 7
    LockWait = 2
INVARIANTS
    AuditMatchesState
PROPERTIES
    
    ProbeNeverWedges
