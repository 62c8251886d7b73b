CONSTANTS
  Key = {k1, k2}
  Val = {v1, v2}
  Thread = {t1, t2}
  Txs = {}
  MaxVer = 3
  MaxTx = 0
  CacheMax = 1
  Ops = {"insert", "update", "delete", "get"}
  NoRec = NoRec
  NoKey = NoKey
  NoThread = NoThread
SPECIFICATION MCSpec
INVARIANTS TypeOK CacheIsData IndexIsData    
PROPERTIES ImplementsRecordMap
SYMMETRY Symmetry
