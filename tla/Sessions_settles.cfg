SPECIFICATION SesFairSpec
CONSTANTS
 SesOpeners = {"o1"}
 SesLabels = {"detected"}
 SesMarks = {}
 SesMaxVer = 0
 SesMaxGen = 2
 SesChunks <- TwoChunks
PROPERTY SesIndexingSettles
CHECK_DEADLOCK FALSE
