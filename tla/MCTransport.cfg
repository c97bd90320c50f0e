SPECIFICATION TSpec
CONSTANTS
    o1 = o1
    o2 = o2
    h1 = h1
    h2 = h2
    Operations = {o1, o2}
    NoOperation = NoOperation
    FailureThreshold = 1
    RecoveryTimeout = 1
    ProbeTimeout = 1
    LockWait = 0
    Callers = {c1, c2}
    Hashes = {h1, h2}
    Requests <- MCRequests
    Transports = {"opencode", "sciverse"}
    Cost <- UnitCost
    MaxTokens = 1
    Supervised = {}
    MaxRetries = 1
    MaxAttempts = 1
    MaxCrashes = 1
INVARIANTS
    TransmissionsAuthorised
    OneAnswerForAll
PROPERTIES
    CompletedIsFinal
    OneRequestPerOperation
SYMMETRY CallerSymmetry
CHECK_DEADLOCK FALSE
