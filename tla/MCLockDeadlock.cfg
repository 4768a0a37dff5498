SPECIFICATION Spec
CONSTANTS
  Chars = 2
  r1 = r1
  r2 = r2
  Run = {r1, r2}
  None = None
CHECK_DEADLOCK FALSE
INVARIANTS
  OneRefused
  HangNeedsTwoRuns
PROPERTIES
  WaitEnds
