SPECIFICATION InstancesSpec
CONSTANTS
  d1 = d1
  d2 = d2
  Instance = {d1, d2}
  Empty = Empty
  MaxSignals = 2
CHECK_DEADLOCK FALSE
INVARIANTS
  SingleInstance
  PidFile
PROPERTIES
  HupWindow
  TermEnds
