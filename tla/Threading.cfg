SPECIFICATION Spec
CONSTANTS
  PERIOD = 2
  PERIODS = 2
  SPINDLE_INDEX_PULSES_BEFORE_START_G33 = 2
  IndexTimeout = 2
  SyncTimeout = 1
  Millimeters = 1
  MaxQueue = 2
  MaxLines = 2
  MaxPulses = 2
  MaxResets = 1
INVARIANTS
  ThreadIsCurrent
  ThSafe
PROPERTIES
  IntervalsExact
  ThreadMeasured
CHECK_DEADLOCK FALSE
