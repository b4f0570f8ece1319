SPECIFICATION Spec
CONSTANTS
  None = None
  Ids = {a, b}
  Sess = {s}
  First = a
  Editors = {"ui", "agent"}
  MaxMut = 2
  MaxSave = 1
  MaxFail = 1
  MaxRename = 1
  MaxChurn = 1
  MaxDelete = 2
  MaxWindow = 1
  MaxEvents = 2
  MayExit = TRUE
INVARIANTS TypeOK CleanMeansReached SavedIsKept SnapshotsSound
PROPERTY NeverRelisted
CHECK_DEADLOCK FALSE
