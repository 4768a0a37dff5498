SPECIFICATION Spec
CONSTANTS
  MaxSignals = 3
  MaxSpurious = 2
CHECK_DEADLOCK FALSE
INVARIANTS
  NoLostWakeup
  HandedOver
  Unwound
PROPERTIES
  KilledUnmasked
  AllEnd
