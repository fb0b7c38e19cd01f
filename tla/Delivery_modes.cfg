SPECIFICATION FairSpec
CONSTANTS
  NoSink = NoSink
  MaxUtterances = 2
  MaxSinks = 1
  MaxFrames = 1
  Keep = 1
  StoreMayFail = TRUE
  MayPanic = TRUE
  Modes = {"batch", "streaming", "continuous"}
INVARIANTS
  TypeOK
  TablesMatchQueue
  CachedBeforePush
  DeliveriesInOrder
PROPERTY
  SettlesOrStranded
