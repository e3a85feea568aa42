SPECIFICATION Spec
CONSTANTS
    ByteOrder <- MCByteOrder
    Digits = {"0"}
    Letters = {"a", "b", "c"}
    Spaces = {}
    MaxAtoms = 4
    Continuations = {"~"}
    MaxSchemaDepth = 16
    MaxMembers = 2
    IndexCap = 9
    DynCap = 9
    MaxItems = 3
    MaxChildren = 2
    MaxText = 3
    PatternCap = 4
    PrefixCap = 2
    Cases <- CapCases
    Instances <- CapInstances
    ParamSchemas = {}
    Params = {}
    Checked <- MCChecked
INVARIANT
    LimitsFailLoud
CHECK_DEADLOCK FALSE
