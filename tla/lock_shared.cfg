CONSTANTS
  c1 = c1
  c2 = c2
  c3 = c3
  t1 = t1
  t2 = t2
  t3 = t3
  t4 = t4
  t5 = t5
  t6 = t6
  shared = shared
  private = private
  NoThread = NoThread
  NoCore = NoCore
  Thread = {t1, t2, t3, t4, t5, t6}
  Core = {c1, c2, c3}
  File = {shared, private}
  Home <- MCHome
  LockFile <- MCLockFile
  Flushers = {t1, t2, t5}
  MaxDepth <- MCMaxDepth
SPECIFICATION FairSpec
INVARIANTS TypeOK MutualExclusion NoOrphanLock
PROPERTIES LockKeptInSection PollEnds ImplementsMutex
