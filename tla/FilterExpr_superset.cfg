SPECIFICATION FscSpec
CONSTANTS
 FltLines <- FilterLines
 FltLength <- WordLength
 FltExprs <- Groups
 FscExprs <- Scanned
 FscInvalid = FALSE
 FscFile <- ScannedFile
 FscFirst = 3
 FscPage = 1
 FscChunk = 2
 FscMaxGen = 1
 FscMaxFail = 0
INVARIANTS FltExtractIsSuperset
CHECK_DEADLOCK FALSE
