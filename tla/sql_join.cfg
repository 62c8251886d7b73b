CONSTANTS
  Null = Null
  None = None
  c1 = c1
  c2 = c2
SPECIFICATION JoinSpec
INVARIANT JoinsParse
CHECK_DEADLOCK FALSE
