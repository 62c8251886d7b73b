CONSTANTS
  Modes = {"alone", "shared"}
  Key = {k1, k2}
  Val = {v1, v2}
  Thread = {t1, t2}
  MaxVer = 3
  Threshold = 2
  BufMax = 9
  Ops = {"insert", "update", "delete", "checkpoint"}
  Faults = {"save"}
  MaxFaults = 1
  MaxRestarts = 1
  InitSnap = TRUE
  DropOps = {}
  DropRestarts = 0
  Proc = {p1, p2}
  None = None
  DirThreshold = 1
  DirMaxLog = 1
  DirMaxStarts = 3
  NoRec = NoRec
  NoPromise = NoPromise
  NoThread = NoThread
SPECIFICATION StoreSpec
INVARIANTS TypeOK NoLostWrite NoResurrection QuietDiskIsMemory ReplayExact SavedStays
PROPERTIES MergeAddsOnlyUnknown
SYMMETRY Symmetry
