SPECIFICATION Spec
CONSTANTS
    s1 = s1
    s2 = s2
    own = own
    unknown = unknown
    Unknown = unknown
    NoId = NoId
    NoReply = NoReply
    Bases <- MCBases
    SeedList <- OneSeed
    ExpansionsPerSeed = 3
    MaxRetries = 1
    NumWorkers = 2
    Reasons = {teacher_error}
    Replies <- TornReplies
    TornWrites = TRUE
    MaxRuns = 2
    TrainFrac = 5
    DevFrac = 5
    FracUnit = 10
INVARIANTS
    RejectionsTally
    LossIsBounded
CHECK_DEADLOCK FALSE
