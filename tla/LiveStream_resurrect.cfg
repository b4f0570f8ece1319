SPECIFICATION Spec
CONSTANTS
    r1 = r1
    r2 = r2
    t1 = t1
    x1 = x1
    c1 = c1
    c2 = c2
    Reporters <- OneReporter
    Trackers <- OneTracker
    Transformers <- OneTransformer
    Excluded <- None
    Callers <- OneCaller
    MaxBatch = 1
    MaxLines = 2
    MaxStamp = 3
INVARIANT
    NoResurrectionEver
