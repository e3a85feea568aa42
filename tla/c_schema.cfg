SPECIFICATION Spec
CONSTANTS
    ByteOrder <- MCByteOrder
    Digits = {"0"}
    Letters = {"a", "b", "c"}
    Spaces = {}
    MaxAtoms = 6
    Continuations = {"~"}
    MaxSchemaDepth = 16
    MaxMembers = 6
    IndexCap = 12
    DynCap = 9
    MaxItems = 3
    MaxChildren = 2
    MaxText = 4
    PatternCap = 4
    PrefixCap = 2
    Cases <- MCCases
    Instances <- MCInstances
    ParamSchemas <- MCParamSchemas
    Params <- MCParams
    Checked <- MCChecked
INVARIANTS
    EvaluatorMeansTheStandard
    
CHECK_DEADLOCK FALSE
