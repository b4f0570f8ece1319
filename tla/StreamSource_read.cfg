SPECIFICATION SrcSpec
CONSTANTS
    SrcMaxRetained = 1
    SrcCap = 9
    SrcWidths <- OneByte
    SrcMaxWidth = 1
    SrcMaxBatch = 2
    SrcMaxLines = 4
INVARIANT
    SrcSpilledStaysAccessible
CHECK_DEADLOCK FALSE
