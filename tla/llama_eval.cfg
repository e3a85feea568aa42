SPECIFICATION Spec
CONSTANTS
    None = None
    Null = Null
    NotText = NotText
    LongText = LongText
    NoMethod = NoMethod
    Unhashable = Unhashable
    Unshaped = Unshaped
    Lost = Lost
    Unreadable = Unreadable
    Empty = ""
    States <- MCStates
    Methods = {"ticket_get", "ticket_reopen", "resolution_confirm"}
    MethodTriggers <- MCMethodTriggers
    Transition <- MCTransition
    Texts <- MCTexts
    Files <- MCFiles
    Replies <- MCReplies
    K = 3
    MaxListed = 1
INVARIANTS
    LiveGradesLikeVerifyTrajectory
    PassNeedsEveryStep
    MajorityIsWithinK
    ModesAccountForFailures
    EveryFailureIsListed
PROPERTY
    EvalEnds
CHECK_DEADLOCK FALSE
