SPECIFICATION Spec
CONSTANTS
  Clips <- Four
CHECK_DEADLOCK FALSE
INVARIANT EveryClipAssembled
