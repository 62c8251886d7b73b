CONSTANTS
  Key = {k1, k2}
  Val = {v1, v2}
  Thread = {t1, t2}
  Txs = {t1}
  MaxVer = 2
  MaxTx = 1
  CacheMax = 2
  Ops = {"insert", "tx"}
  NoRec = NoRec
  NoKey = NoKey
  NoThread = NoThread
SPECIFICATION Spec
PROPERTIES RollbackKeepsOthers
