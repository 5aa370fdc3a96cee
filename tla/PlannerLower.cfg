SPECIFICATION PnSpec
CONSTANTS
  Lines <- McLines
  Nominal <- McNominal
  Overrides = {"low", "high"}
  BufferSize = 5
  MaxLines = 5
  MaxEvents = 2
INVARIANTS AccelerationKept
CHECK_DEADLOCK FALSE
