SPECIFICATION LivenessSpec
CONSTANTS
  UILineBufferSize = 3
  UiMaxLines = 2
  UiAxes = {"X"}
  UiStates = {"IDLE", "JOG", "ALARM"}
  KeyCodes = {0, 1, 15}
  ShiftKey = 15
  WaitKeys = {1}
  LIST_MAX = 2
  UITASK_PHASE_COUNT = 9
  ControlPins = {"reset", "safety_door"}
  IndicatorPeriod = 2
  VelocityPeriod = 2
  DpChanges = 1
  DpInputs = 3
  TX_BUFFER_SIZE = 3
  MaxBytes = 8
  TxMaxResets = 1
  LateInterrupts = FALSE
  RX_BUFFER_SIZE = 4
  LineLengths = {1, 3}
  MaxChars = 7
  RxMaxPanels = 1
  RxMaxResets = 1
  HmSearch = 5
  HmPulloff = 2
  HmLocateScalar = 2
  HmLength = 4
  HmPlaces <- HmOnePlace
  HmCommands = {"RESET", "SAFETY_DOOR", "FEED_HOLD"}
  HmMaxCommands = 1
  HmMaxCycles = 1
  Cards = {c, u}
  Formatted = {c}
  Texts <- McShortTexts
  LineLimit = 6
  ClusterSize = 2
  Insertions = 1
INVARIANTS
  SerialInv
  AnswersAddUp
PROPERTIES
  TxImplementsFifo
  RxImplementsFifo
  PanelServed
  WaitsEnd
CHECK_DEADLOCK FALSE
