CONSTANTS
  Key = {k1, k2}
  TxKey = {k1}
  Val = {v1, v2}
  Solo = t1
  Thread = {t1, t2}
  NoRec = NoRec
  NoKey = NoKey
  NoThread = NoThread
  MaxVer = 2
  MaxTx = 2
  CacheMax = 2
  SoloCacheMax = 1
SPECIFICATION Spec
INVARIANTS MemoryAgrees
 
SYMMETRY DataSymmetry
