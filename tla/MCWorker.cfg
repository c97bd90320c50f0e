SPECIFICATION FairSpec
CONSTANTS
    p1 = p1
    p2 = p2
    w1 = w1
    w2 = w2
    Jobs = {j1}
    Workers = {w1, w2}
    Procs = {p1, p2}
    WorkerIds <- AnyIds
    NoWorker = NoWorker
    RequestKeys = {k1}
    Tasks = {t1}
    Resources = {"calls"}
    Budgets <- MCBudgets
    LastStage = 2
    CheckpointKeys <- MCCheckpointKeys
    Payloads = {}
    ChargeKeys <- MCChargeKeys
    Usages <- MCUsages
    ErrorCodes <- MCErrorCodes
    NoError = NoError
    LeaseSeconds = {1}
    LockWait = 0
    MaxVersion = 0
    Results = {ok, bad}
    UsageOf <- MCUsageOf
    Rejected = {bad}
    MaxAttempts = 2
    MaxCrashes = 1
INVARIANTS
    StagesCommitInOrder
    CheckpointIsBackedByLedger
    
PROPERTIES
    ImplementsLifecycle
    EveryJobSettles
CHECK_DEADLOCK FALSE
