CONSTANTS
  a = a
  b = b
  r1 = r1
  r2 = r2
  NoVal = NoVal
  Zero = Zero
  Val = {a, b}
  Name = {1, 2, 3}
  MaxSize = 2
  Ttl = {1}
  MaxSteps = 3
  MaxPages = 2
  Pages = 3
  Key = {1, 2}
  Label = {"p", "q"}
  MaxOps = 2
  MaxPoints = 2
  Doc = {r1}
  MaxVersions = 3
  MaxWrites = 4
  Record = {r1, r2}
  MaxHistory = 2
  MaxChanges = 3
  MaxTime = 2
SPECIFICATION MCSpec
INVARIANTS EntriesAreFound ReadsAreLatest  OperationsReplay
PROPERTIES BranchesKeepWrites StepsKeep
CHECK_DEADLOCK FALSE
