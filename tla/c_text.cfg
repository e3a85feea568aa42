SPECIFICATION TextSpec
CONSTANTS
    ByteOrder <- MCByteOrder
    Digits <- MCDigits
    Letters <- MCLetters
    Spaces <- MCSpaces
    MaxAtoms = 4
    MaxDepth = 2
    LookupCap = 2
    CollectCap = 1
    EqualKeys = 2
    Pieces <- MCPieces
    Quantifiers <- MCQuantifiers
    MaxPieces = 2
    Subjects <- MCSubjects
    Syntax <- MCSyntax
    MaxSyntax = 4
    Texts <- MCTexts
    ObjectKeys <- MCObjectKeys
    Values <- MCValues
    MaxMembers = 3
    Trees <- MCTrees
    Leads <- MCLeads
    Trails <- MCTrails
    Contents <- MCContents
    MaxContents = 3
    Units <- MCUnits
    MaxUnits = 3
INVARIANTS
    SearchFindsWhatThePatternDenotes
    ScannerAcceptsExactlyJson
    LookupTakesTheLastMember
    EqualIsValueEquality
    CharactersAreUtf8
    WrittenReadsBack
    ReadsUtf8
CHECK_DEADLOCK FALSE
