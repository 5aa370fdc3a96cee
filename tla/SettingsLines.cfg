SPECIFICATION SeSpec
CONSTANTS
  LINE_BUFFER_SIZE = 4
  N_STARTUP_LINE = 2
  SETTING_INDEX_NCOORD = 1
  MAX_TOOL = 1
  CoordSize = 2
  ToolSize = 2
  EEPROM_ADDR_PARAMETERS = 12
  EEPROM_ADDR_STARTUP_BLOCK = 19
  EEPROM_ADDR_BUILD_INFO = 22
  EEPROM_ADDR_TOOL_LENGTH = 30
  EEPROM_ADDR_TOOL_DIAMETER = 37
  EEPROM_SIZE = 54
  SeKinds = {"line", "build"}
  SeLines <- SeLinesDef
  SeLineNumbers = {0, 1}
  SeStarts = {"used"}
  SeMaxStores = 2
  SeMaxLosses = 0
INVARIANT LinesReadBack
CHECK_DEADLOCK FALSE
