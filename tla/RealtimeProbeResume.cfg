SPECIFICATION Spec
CONSTANTS
  MaxQueue = 1
  Sessions <- McProbeResume
PROPERTIES
  ProbeStops
CHECK_DEADLOCK FALSE
