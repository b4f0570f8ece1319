SPECIFICATION ProgressSpec
CONSTANTS
    r1 = r1
    t1 = t1
    c1 = c1
    Reporters = {r1}
    Trackers = {t1}
    Transformers = {}
    Excluded = {}
    Callers = {c1}
    MaxBatch = 1
    MaxLines = 2
    MaxStamp = 2
    None = None
    Ids = {a, b}
    Sess = {s}
    First = a
    Editors = {"ui", "agent"}
    MaxMut = 3
    MaxSave = 1
    MaxFail = 0
    MaxRename = 0
    MaxChurn = 0
    MaxDelete = 0
    MaxWindow = 0
    MaxEvents = 3
    MayExit = FALSE
    a1 = a1
    a2 = a2
    Agents = {a1, a2}
    Cap = 2
    MaxSeq = 4
    DirSlots = {s1, s2}
    s1 = s1
    s2 = s2
    DirMaxEdit = 2
    DirMaxFlush = 2
    DirMaxFail = 2
    SesOpeners = {o1}
    o1 = o1
    SesLabels = {"detected"}
    SesMarks = {}
    SesMaxVer = 0
    SesMaxGen = 2
    SesChunks <- TwoChunks
    RunCalls = {"r1","r2"}
    RunProcs = {"p"}
    RunInstalled = {"p"}
    RunChunks = 1
    RunMaxInst = 1
    RunMaxEdits = 0
    ScnCalls = {"q1"}
    ScnRequests <- OneFilter
    ScnWatches = {}
    ScnCriteria = {}
    ScnFile <- FileLines
    ScnWords = {"x", "y"}
    ScnChunk = 2
    ScnCap = 3
    ScnMaxLines = 3
    ScnMaxOpens = 2
INVARIANT
    EveryEventAccountedFor
PROPERTIES
    ImplementsFeed
    EveryEventReachesAgents
    CallsSettle
    EventuallyClean
    DirEditsReachTheFile
    SesUndisturbedCompletes
CHECK_DEADLOCK FALSE
