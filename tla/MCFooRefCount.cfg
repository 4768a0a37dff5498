SPECIFICATION Spec
CONSTANTS
  Holds <- MCHolds
  NoOne = NoOne
INVARIANTS
  CountsReferences
  Lifetime
PROPERTIES
  LateIsFirstHold
