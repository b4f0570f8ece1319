SPECIFICATION DesktopSpec
CONSTANTS
    None = None
    Ids = {a, b}
    Sess = {s, t}
    First = a
    Editors = {"ui", "agent"}
    MaxMut = 2
    MaxSave = 1
    MaxFail = 1
    MaxRename = 0
    MaxChurn = 0
    MaxDelete = 0
    MaxWindow = 0
    MaxEvents = 3
    MayExit = FALSE
    Settled = TRUE
    SlowSwitch = FALSE
    MaxSwitch = 2
    MayAgentLoad = TRUE
    ScnCalls = {"c1"}
    ScnRequests <- Requests
    ScnWatches = {"w1"}
    ScnCriteria <- LogWatch
    ScnFile <- FileLines
    ScnWords = {"x", "y"}
    ScnChunk = 2
    ScnCap = 3
    ScnMaxLines = 3
    ScnMaxOpens = 2
    McpCallers = {"c1", "c2"}
    McpPorts = {"p", "q"}
    McpAttempts = 2
    McpMaxRuns = 2
    McpMaxKids = 2
    McpMaxCalls = 3
    LibNone = LibNone
    LibIds = {"p", "q"}
    LibPackIds = {"small", "large"}
    LibYamlIds = {"p"}
    LibShelf <- TwoPublications
    LibCallers = {"c1", "c2"}
    LibMaxCalls = 2
    LibMaxCrash = 1
    LibMaxFail = 1
    IdxFiles <- ManyFiles
    IdxOverrides = {"", "Kernel", "Bugreport"}
    IdxFirst = 2
    IdxChunkBytes = 2
    IdxRun = 2
    IdxSample = 4
    IdxMaxTags = 5
    IdxNow = 3
    IdxLeap = {1}
    SesOpeners = {"o1"}
    SesLabels = {"detected", "kernel"}
    SesMarks = {"b1"}
    SesMaxVer = 1
    SesMaxGen = 2
    SesChunks <- ShrinkingFile
INVARIANTS
    DesktopTypeOK
    ArtifactsPlaced
    ScnReadingSound
    McpSound
    LibrarySound
    LineIndexSound
    SesSound
PROPERTIES
    FilesKept
CHECK_DEADLOCK FALSE
