SPECIFICATION WindowSpec
CONSTANTS
    FltLines <- FilterLines
    FltLength <- WordLength
    FltExprs <- AllExprs
    FscExprs <- Scanned
    FscInvalid = TRUE
    FscFile <- ScannedFile
    FscFirst = 3
    FscPage = 1
    FscChunk = 2
    FscMaxGen = 2
    FscMaxFail = 1
    AnzProcs = {"p"}
    AnzChunks = 1
    AnzMaxRuns = 2
    AnzBudgets <- AnalyzerBudgets
    TabIds = {"a", "b", "r"}
    TabPath <- TabFiles
    TabChunks <- TabSizes
    TabCalls = 2
    TabBudgets <- TabBudgetSet
    CapMax = 2
    CapLines = 2
    CapBudgets <- CaptureBudgets
    VwLines = 9
    VwRows = 2
    VwAhead = 2
    VwMinFetch = 2
    VwAlloc = 8
    VwLineSets <- ViewerLineSets
    VwBudget <- ViewerBudgets
    RdxReaders = {"agent", "window", "copy"}
    RdxDetectors <- Detectors
    RdxPage <- RedactedPage
    RdxBudget <- RedactionBudgets
    DevTrackers = {"t", "u"}
    DevDumps = {"u"}
    DevQuiet = {"u"}
    DevField <- DeviceFields
    DevFinds <- DeviceFinds
    DevNone = DevNone
    DevFailed = DevFailed
    DevBudget <- DeviceBudgets
INVARIANTS
    WindowTypeOK
    FiltersSound
    AnzWindowSound
    TabsAgree
    CapSettles
    ViewerSound
    RedactionSound
    RdxGateSound
    DevSound
CHECK_DEADLOCK FALSE
