SPECIFICATION ProgramSpec
CONSTANTS
  GcSetups <- MCSetups
  MM_PER_INCH = 25
  GcMaxWords = 4
  GcMaxLines = 2
  OvDefault = 6
  OvMin = 3
  OvMax = 10
  OvCoarse = 3
  OvFine = 1
  OvModulus = 16
  OvMedium = 3
  OvLow = 1
  OvFeedPots <- MCFeedPots
  OvRapidPots <- MCRapidPots
  OvRefresh = 2
  OvMaxCommands = 2
  OvUses <- MCUses
INVARIANTS
  GcInv
  OvInv
PROPERTIES
  LineActsAsProgrammed
CHECK_DEADLOCK FALSE
