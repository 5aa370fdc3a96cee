SPECIFICATION FairSpec
CONSTANTS
  BLOCK_BUFFER_SIZE = 3
  SEGMENT_BUFFER_SIZE = 4
  StepEvents <- MCStepEvents
  StepParts = 2
  CallbackChoices = {TRUE}
  MaxBlocks = 3
  NULL = NULL
INVARIANTS
  CountersMatch
  SegmentsHaveSteps
  StoppedMeansStopped
  IInv
  OrderInv
PROPERTIES
  QueuedDataStable
  ImplementsMotionQueue
  CallbackAfterLastStep
  HoldCompletes
  PlannerDrains
