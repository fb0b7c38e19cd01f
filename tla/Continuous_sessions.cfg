SPECIFICATION Spec
CONSTANTS
  Clips <- ThreeThenOne
CHECK_DEADLOCK FALSE
INVARIANTS
  TypeOK
  OnlyCompleteClips
  AssembledInOrder
  NothingLeftRunning
  HalfIsTranscribed
PROPERTY SessionEnds
