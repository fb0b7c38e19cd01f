SPECIFICATION FairSpec
CONSTANTS
  NoSink = NoSink
  MaxUtterances = 2
  MaxSinks = 1
  MaxFrames = 0
  Keep = 2
  StoreMayFail = FALSE
  MayPanic = FALSE
  Modes = {"batch"}
PROPERTY
  EveryUtteranceTerminates
