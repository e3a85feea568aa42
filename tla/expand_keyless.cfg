SPECIFICATION Spec
CONSTANTS
    s1 = s1
    s2 = s2
    own = own
    unknown = unknown
    Unknown = unknown
    NoId = NoId
    NoReply = NoReply
    Bases <- MCBases
    SeedList <- TwoSeeds
    ExpansionsPerSeed = 1
    MaxRetries = 2
    NumWorkers = 2
    Reasons = {}
    Replies <- AnyReplies
    TornWrites = FALSE
    MaxRuns = 2
    TrainFrac = 5
    DevFrac = 5
    FracUnit = 10
INVARIANT
    NoReplyEndsTheRun
CHECK_DEADLOCK FALSE
