SPECIFICATION TFairSpec
CONSTANTS
    o1 = o1
    o2 = o2
    h1 = h1
    h2 = h2
    Operations = {o1}
    NoOperation = NoOperation
    FailureThreshold = 2
    RecoveryTimeout = 1
    ProbeTimeout = 1
    LockWait = 0
    Callers = {c1, c2}
    Hashes = {h1}
    Requests <- OneRequest
    Transports = {"claude_code"}
    Cost <- UnitCost
    MaxTokens = 9
    Supervised = {c1}
    MaxRetries = 1
    MaxAttempts = 2
    MaxCrashes = 1
PROPERTIES
    CompletedIsReplayed
CHECK_DEADLOCK FALSE
