SPECIFICATION Spec
CONSTANTS
  BLOCK_BUFFER_SIZE = 2
  SEGMENT_BUFFER_SIZE = 3
  StepEvents <- MCStepEvents
  StepParts = 2
  CallbackChoices = {FALSE}
  MaxBlocks = 1
  NULL = NULL
INVARIANTS
  SynchronizedMeansExecuted
