SPECIFICATION OSpec
CONSTANTS
    s1 = s1
    Strategies = {s1}
    Places <- TwoTasks
    Tasks <- TwoTasks
    Family <- FamilyOf
    MinEvaluations = 1
    Wilson <- WilsonTable
    Activation = 200
    Suspension = 50
    Procs = {p1, p2}
    NoProc = NoProc
    Answers <- MCAnswers
    NoValue = NoValue
    MaxCalls = 6
    MaxAttempts = 2
    MaxFaults = 1
    MemoryModes = {"uncredited_replay", "delayed_external_credit"}
    ExplorationPeriod = 3
INVARIANTS
    ExactlyOneDurableEvent
    PlanUsesBoundMemory
    ActiveIsEarned
    

    
CHECK_DEADLOCK FALSE
