SPECIFICATION Spec
CONSTANTS
    None = None
    Null = Null
    NotText = NotText
    LongText = LongText
    NoMethod = NoMethod
    Unhashable = Unhashable
    Empty = ""
    States <- MCStates
    Methods = {"ticket_get", "ticket_reopen", "resolution_confirm"}
    MethodTriggers <- MCMethodTriggers
    Transition <- MCTransition
    Texts <- MCTexts
    StepOutputs <- ListOutputs
    RowSteps <- MCSteps
    MaxSteps = 2
INVARIANTS
    SubscoresCascade
    InferenceIsTheBestPin
    GradersAgree
    StepsAgree
PROPERTIES
    StateFollowsArcs
CHECK_DEADLOCK FALSE
