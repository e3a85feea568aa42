SPECIFICATION FairSpec
CONSTANTS
    t1 = t1
    t2 = t2
    t3 = t3
    NoId = NoId
    None = None
    Cut = Cut
    TestIds <- RowsWithoutId
    Settings = {base, tuned}
    TornWrites = TRUE
    MaxRuns = 3
INVARIANTS
    ReportGradesItsRows
    NoRowIsGeneratedTwice
PROPERTIES
    RunEnds
    ResultsAreKept
CHECK_DEADLOCK FALSE
