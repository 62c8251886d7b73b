CONSTANTS
  Key = {1, 2, 3, 4, 5, 6, 7}
  Val = {a}
  Order = 3
  MaxNodes = 1
  MaxEntries = 1
  MaxLoad = 7
SPECIFICATION Spec
INVARIANTS SearchFindsEntries
