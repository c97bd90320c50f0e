SPECIFICATION SSpec
CONSTANTS
    full = full
    thin = thin
    Refused = Refused
    NoQuote = NoQuote
    Nothing = Nothing
    Passages <- MCPassages
    DocOf <- MCDocOf
    Later = {3}
    Long = {1, 2, 3, 4}
    Seminal = {2}
    Says <- MCSays
    Numbers <- MCNumbers
    PageSize = 2
    MaxCandidates = 2
    ShardSize = 1
    BatchSize = 1
    MaxClaims = 2
    MaxPerKind = 1
    MaxExposed = 2
    MaxRead = 1
    Digest <- MCDigest
    Methods <- MCMethods
    Skip = {4}
    Worlds = {full, thin}
    Holds <- MCHolds
    Proposals <- MCProposals
    Verdict <- MCVerdict
    Narration <- MCNarration
    Cost = 2
    Budget = 7
    MaxTries = 2
    MaxFaults = 1
    MaxDrift = 1
INVARIANTS
    FilesAgree
    StagesIdempotent
    NoveltyIsQuoted

    
