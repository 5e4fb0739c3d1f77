SPECIFICATION FairSpec
CONSTANTS
  Atomic = TRUE
  MaxOpen = 2
  MaxSources = 1
INVARIANTS
  TypeOK
  RequestAnswered
  NoStaleAck
  MixerHasData
PROPERTIES
  AckArrives
  ExitTerminates
CHECK_DEADLOCK FALSE
