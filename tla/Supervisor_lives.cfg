SPECIFICATION Spec
CONSTANTS
  Procs = {1, 2, 3}
  Size = 3
  Percents = 2
  MaxProbes = 2
  MaxLives = 3
CHECK_DEADLOCK FALSE
INVARIANTS
  TypeOK
  ModelBeforeServer
  ServersReaped
PROPERTIES
  SupervisionGoesOn
  ServingIsAnnounced
  SignalEnds
