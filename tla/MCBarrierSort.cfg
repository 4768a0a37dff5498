SPECIFICATION SortSpec
CONSTANTS
  NTHR = 3
  TNUM = 2
  LONG_MAX = 3
  Value = {0, 1, 2}
CHECK_DEADLOCK FALSE
INVARIANTS
  Result
PROPERTIES
  Ends
