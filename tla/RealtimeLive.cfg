SPECIFICATION Spec
CONSTANTS
  MaxQueue = 1
  Sessions <- McLive
PROPERTIES
  MotionEnds
  JogCancelEnds
  ProbeEnds
CHECK_DEADLOCK FALSE
