SPECIFICATION ServicesSpec
CONSTANTS
    r1 = r1
    r2 = r2
    t1 = t1
    x1 = x1
    c1 = c1
    c2 = c2
    Reporters <- OneReporter
    Trackers <- OneTracker
    Transformers <- OneTransformer
    Excluded <- None
    Callers <- TwoCallers
    MaxBatch = 1
    MaxLines = 1
    MaxStamp = 3
    SrcMaxRetained = 2
    SrcCap = 3
    SrcWidths <- ShortOrLong
    SrcMaxWidth = 1
    SrcMaxBatch = 3
    SrcMaxLines = 5
    DirSlots = {"s1", "s2"}
    DirMaxEdit = 3
    DirMaxFlush = 2
    DirMaxFail = 2
    q1 = q1
    q2 = q2
    RunCalls <- TwoRuns
    RunProcs = {"p"}
    RunInstalled = {"p"}
    RunChunks = 1
    RunMaxInst = 2
    RunMaxEdits = 1
    EngHistory = 2
    EngSecrets = {"s"}
    EngTokens <- Tokens
    EngDay = 3
    CoreChains <- Chains
    CoreAlphabet <- Alphabet
    CoreFileCtx <- LogcatFile
    CoreMaxLines = 4
    CoreMaxBatch = 2
    ArtKinds = {"bookmark", "analysis"}
    ArtIds = {"i", "j"}
    ArtAgents = {"g", "h"}
    ArtMaxCalls = 2
    ArtMaxClicks = 1
SYMMETRY CallerSymmetry
INVARIANTS
    ServicesTypeOK
    NoResurrection
    TerminalStaysClean
    ResultsSound
    SrcSound
    SrcSavedInOrder
    DirSound
    RunResultsConsistent
    CoreSound
    ArtCopiesSettle
PROPERTY
    RunStopReaches
CHECK_DEADLOCK FALSE
