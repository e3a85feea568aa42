SPECIFICATION Spec
CONSTANTS
    s1 = s1
    s2 = s2
    own = own
    unknown = unknown
    Unknown = unknown
    NoId = NoId
    NoReply = NoReply
    Bases <- MCBases
    SeedList <- OneSeed
    ExpansionsPerSeed = 3
    MaxRetries = 1
    NumWorkers = 2
    Reasons = {}
    Replies <- EchoReplies
    TornWrites = FALSE
    MaxRuns = 3
    TrainFrac = 5
    DevFrac = 5
    FracUnit = 10
INVARIANTS
    TypeOK
    UniqueIds
    AcceptedIsRecoverable
    PublishedSplitsAreDisjoint
PROPERTIES
    IsWriteAheadLog
CHECK_DEADLOCK FALSE
