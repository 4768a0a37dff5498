SPECIFICATION Spec
CONSTANTS
  NumRt = 3
  NumStd = 2
  QueueLimit = 2
CHECK_DEADLOCK FALSE
INVARIANTS
  RtInOrder
  PrintfAlone
  EchoBack
  StuckOnlyInGap
PROPERTIES
  DoneEnds
