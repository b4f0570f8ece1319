SPECIFICATION RunSpec
CONSTANTS
 RunCalls = {"r1","r2"}
 RunProcs = {"p"}
 RunInstalled = {"p"}
 RunChunks = 1
 RunMaxInst = 2
 RunMaxEdits = 1
INVARIANT RunOfOneRun
CHECK_DEADLOCK FALSE
