SPECIFICATION FairSpec
CONSTANTS
  NJOBS <- MCNJOBS
  Finders <- OneFinder
  NULL = NULL
  Wild = Wild
INVARIANTS
  Linked
  DoneOnlyIfShort
PROPERTIES
  ImplementsAtomicQueue
  Termination
