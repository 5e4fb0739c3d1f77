SPECIFICATION Spec
CONSTANTS
  Atomic = FALSE
  MaxOpen = 1
  MaxSources = 1
INVARIANT
  RequestAnswered
CHECK_DEADLOCK FALSE
