SPECIFICATION Spec
CONSTANTS
  MaxQueue = 1
  Sessions <- McPosition
INVARIANTS
  PositionLostLocks
CHECK_DEADLOCK FALSE
