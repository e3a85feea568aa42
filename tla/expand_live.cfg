SPECIFICATION FairSpec
CONSTANTS
    s1 = s1
    s2 = s2
    own = own
    unknown = unknown
    Unknown = unknown
    NoId = NoId
    NoReply = NoReply
    Bases <- MCBases
    SeedList <- TwoSeeds
    ExpansionsPerSeed = 1
    MaxRetries = 2
    NumWorkers = 2
    Reasons = {teacher_error}
    Replies <- AnyReplies
    TornWrites = FALSE
    MaxRuns = 2
    TrainFrac = 5
    DevFrac = 5
    FracUnit = 10
INVARIANTS
    QuotaPerSeed
    EveryExpansionAccounted
PROPERTIES
    RunEnds
CHECK_DEADLOCK FALSE
