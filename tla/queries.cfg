CONSTANTS
  Null = Null
  None = None
  c1 = c1
  c2 = c2
SPECIFICATION Spec
INVARIANTS ReadsBack QueriesAreDefined VectorsAreFound
 
CHECK_DEADLOCK FALSE
