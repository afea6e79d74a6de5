SPECIFICATION Spec
CONSTANTS
  Levels = 2
  EarlyStop = TRUE
  StopAfter = 2
  None = None
  Leftover = TRUE
INVARIANT AbortIsOwn
CHECK_DEADLOCK FALSE
