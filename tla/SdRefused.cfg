SPECIFICATION SdSpec
CONSTANTS
  Cards = {c, u}
  Formatted = {c}
  Texts <- McMacTexts
  LineLimit = 6
  ClusterSize = 2
  Insertions = 1
INVARIANTS RefusedForAReason
CHECK_DEADLOCK FALSE
