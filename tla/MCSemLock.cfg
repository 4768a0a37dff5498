SPECIFICATION FairSpec
CHECK_DEADLOCK FALSE
CONSTANTS
  N <- MCN
  Tryers <- MCTryers
  Leftover <- MCLeftover
  None = None
INVARIANTS
  PrintsTotal
  NamesAsFound
PROPERTIES
  Ends
