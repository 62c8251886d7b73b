CONSTANTS
  Key = {k1}
  Val = {v1}
  Thread = {t1}
  MaxVer = 2
  Threshold = 9
  BufMax = 9
  Ops = {"insert"}
  Faults = {}
  MaxFaults = 0
  MaxRestarts = 0
  InitSnap = FALSE
  NoRec = NoRec
  NoPromise = NoPromise
  NoThread = NoThread
SPECIFICATION Spec
INVARIANTS NoLostWrite
