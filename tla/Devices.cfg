SPECIFICATION DevicesSpec
CONSTANTS
  UILineBufferSize = 3
  UiMaxLines = 2
  UiAxes = {"X", "Z"}
  UiStates = {"IDLE", "JOG", "ALARM"}
  EdMenu <- MCMenu
  EdForm <- MCForm
  EdFiles <- MCFiles
  EdLengths <- MCLengths
  MAX_TOOL_NUMBER = 1
  RpnDepth = 3
  RpnModulus = 3
  KeyCodes = {0, 1, 15}
  ShiftKey = 15
  WaitKeys = {1}
  LIST_MAX = 2
  UITASK_PHASE_COUNT = 9
  ControlPins = {"reset", "feed_hold", "safety_door"}
  IndicatorPeriod = 2
  VelocityPeriod = 3
  DpChanges = 1
  DpInputs = 3
  LINE_BUFFER_SIZE = 4
  N_STARTUP_LINE = 2
  SETTING_INDEX_NCOORD = 1
  MAX_TOOL = 0
  CoordSize = 2
  ToolSize = 2
  EEPROM_ADDR_PARAMETERS = 12
  EEPROM_ADDR_STARTUP_BLOCK = 19
  EEPROM_ADDR_BUILD_INFO = 22
  EEPROM_ADDR_TOOL_LENGTH = 30
  EEPROM_ADDR_TOOL_DIAMETER = 37
  EEPROM_SIZE = 54
  SeKinds = {"global", "form", "coord", "length", "line", "build", "restore"}
  SeLines <- SeOneLine
  SeLineNumbers = {0, 1, 2, 8}
  SeStarts = {"new", "used"}
  SeMaxStores = 2
  SeMaxLosses = 1
  HmSearch = 5
  HmPulloff = 2
  HmLocateScalar = 2
  HmLength = 4
  HmPlaces <- HmPlacesDef
  HmCommands = {"RESET", "SAFETY_DOOR", "FEED_HOLD", "CYCLE_START"}
  HmMaxCommands = 2
  HmMaxCycles = 2
  Cards = {c, u}
  Formatted = {c}
  Texts <- McTexts
  LineLimit = 6
  ClusterSize = 2
  Insertions = 1
  Lines <- McLines
  Nominal <- McNominal
  Overrides = {"low", "high"}
  BufferSize = 5
  MaxLines = 5
  MaxEvents = 1
  SpAxes = {"x", "z"}
  SpMoves <- SpMovesDef
  SpSetups <- SpSetupsDef
  SpSegments = 2
  SpMaxMoves = 2
  SpMaxKills = 1
INVARIANTS
  SpInv
  TextsInTheirPlaces
  PnInv
PROPERTIES
  UiSafe
  EdSafe
  InSafe
  SeSafe
  HmSafe
  SdSafe
CHECK_DEADLOCK FALSE
