SPECIFICATION Spec
CONSTANTS
  MaxQueue = 2
  Sessions <- McSafety
INVARIANTS
  RtInv
PROPERTIES
  NoStartWithDoorAjar
  AlarmStays
  AlarmLocksSenders
  ResetNeverLost
CHECK_DEADLOCK FALSE
