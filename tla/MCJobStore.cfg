SPECIFICATION Spec
CONSTANTS
    Jobs = {j1, j2}
    Workers = {w1, w2}
    NoWorker = NoWorker
    RequestKeys = {k1}
    Tasks = {t1}
    Resources = {"calls", "tokens"}
    Budgets <- MCBudgets
    LastStage = 1
    CheckpointKeys = {c1, c2}
    Payloads = {p1, p2}
    ChargeKeys = {u1, u2}
    Usages <- MCUsages
    ErrorCodes = {e1}
    NoError = NoError
    LeaseSeconds = {1}
    LockWait = 1
    MaxVersion = 6
INVARIANTS
    OneJobPerRequestKey
    BudgetRespected
    SucceededIsValidated
    NoInvisibleJob
    UsedIsLedgerSum
PROPERTIES
    TerminalIsFinal
    LeaseNotStolen
    ProgressIsDurable
