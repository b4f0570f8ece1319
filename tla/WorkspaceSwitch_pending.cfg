SPECIFICATION SwSpec
CONSTANTS
  None = None
  Ids = {a, b}
  Sess = {s}
  First = a
  Editors = {"ui", "agent"}
  MaxMut = 1
  MaxSave = 0
  MaxFail = 0
  MaxRename = 0
  MaxChurn = 0
  MaxDelete = 0
  MaxWindow = 0
  MaxEvents = 0
  MayExit = FALSE
  Settled = FALSE
  SlowSwitch = FALSE
  MaxSwitch = 1
  MayAgentLoad = FALSE
INVARIANT NothingLost
CHECK_DEADLOCK FALSE
