SPECIFICATION Spec
CONSTANTS
  MAXSIZE = 3
  Length = {2, 3, 7}
  MaxTyped = 7
  NUL = NUL
  Junk = Junk
CHECK_DEADLOCK FALSE
INVARIANTS
  Echoed
PROPERTIES
  Answered
