SPECIFICATION HmSpec
CONSTANTS
  HmSearch = 5
  HmPulloff = 2
  HmLocateScalar = 2
  HmLength = 4
  HmPlaces <- HmPlacesDef
  HmCommands = {"RESET", "SAFETY_DOOR", "FEED_HOLD", "CYCLE_START"}
  HmMaxCommands = 2
  HmMaxCycles = 2
INVARIANTS
PROPERTIES
  HomingIsNotSuspended
CHECK_DEADLOCK FALSE
