CONSTANTS
  Modes = {"alone", "drop"}
  Key = {k1, k2}
  Val = {v1, v2}
  Thread = {t1}
  MaxVer = 2
  Threshold = 2
  BufMax = 2
  Ops = {"insert", "update", "delete", "delete_many", "batch", "snapshot"}
  Faults = {"tear"}
  MaxFaults = 1
  MaxRestarts = 1
  InitSnap = TRUE
  DropOps = {"insert", "delete", "drop", "checkpoint", "close"}
  DropRestarts = 2
  Proc = {}
  None = None
  DirThreshold = 1
  DirMaxLog = 0
  DirMaxStarts = 0
  NoRec = NoRec
  NoPromise = NoPromise
  NoThread = NoThread
SPECIFICATION StoreSpec
INVARIANTS ModePromises
CHECK_DEADLOCK FALSE
SYMMETRY Symmetry
