SPECIFICATION FairSpec
CONSTANTS
  Commands = {"toggle", "vad", "continuous", "streaming", "cancel"}
  MaxCaptures = 3
  WhisperMayDie = TRUE
INVARIANTS
  TypeOK
  NoPhantomCapture
  ConsumedOnce
  SessionsEndForCause
PROPERTY
  EveryCaptureEnds
