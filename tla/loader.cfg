\* Directories of schema files, read as C reads them and as a YAML parser does.
CONSTANTS
    Files <- MCFiles
    Subscores <- MCSubscores
    Numerals <- MCNumerals
    Zero = "0"
    StatesRef = "state-machine.states"
    MaxMethods = 3
    MaxTriggers = 2
    MaxStates = 2
    MaxTerminal = 1
    MaxArcs = 2
    MaxPresets = 2
SPECIFICATION Spec
INVARIANTS
    FilesLoadAlike
CHECK_DEADLOCK FALSE
