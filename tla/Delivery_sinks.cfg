SPECIFICATION Spec
CONSTANTS
  NoSink = NoSink
  MaxUtterances = 2
  MaxSinks = 3
  MaxFrames = 0
  Keep = 0
  StoreMayFail = FALSE
  MayPanic = TRUE
  Modes = {"batch", "streaming"}
INVARIANT
  HeadPinned
PROPERTY
  OrderedSpec
