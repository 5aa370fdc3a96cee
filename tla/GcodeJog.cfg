SPECIFICATION GcSpec
CONSTANTS
  GcSetups <- MCSetups
  MM_PER_INCH = 25
  GcMaxWords = 2
  GcMaxLines = 2
PROPERTY JogMovesNamedAxes
CHECK_DEADLOCK FALSE
