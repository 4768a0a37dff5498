SPECIFICATION Spec
CONSTANTS
  c1 = c1
  c2 = c2
  Client = {c1, c2}
  Fd = {4, 5}
  MAXSIZE = 3
  MaxBytes = 3
  None = None
  NUL = NUL
  Junk = Junk
CHECK_DEADLOCK FALSE
INVARIANTS
  EventsFresh
  AtMostOnce
  Echo
PROPERTIES
  Served
