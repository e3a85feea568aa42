SPECIFICATION Spec
CONSTANTS
    None = None
    Null = Null
    NotText = NotText
    LongText = LongText
    NoMethod = NoMethod
    Unhashable = Unhashable
    Unshaped = Unshaped
    Lost = Lost
    NoId = NoId
    LongId = LongId
    Prose = Prose
    Stepless = Stepless
    Scrap = Scrap
    Empty = ""
    States = {"OPEN", "DONE"}
    Methods = {"close", "get"}
    MethodTriggers <- MCMethodTriggers
    Transition <- MCTransition
    Texts <- MCTexts
    TrainFrac = 1
    DevFrac = 1
    FracUnit = 2
    SeedList <- MCSeeds
    ExpansionsPerSeed = 3
    MaxRetries = 2
    Answers <- MCAnswers
    a = a
    s = s
    t = t
    unknown = unknown
    Bases <- MCBases
    Unknown = unknown
    Faults = TRUE
    OneUnseen = TRUE
    Leftovers <- MCLeftovers
INVARIANTS
    UniqueIds
    AdmittedRowsVerify
    SuccessKeepsRows
    EveryExpansionAccounted
PROPERTY
    RunEnds
CHECK_DEADLOCK FALSE
