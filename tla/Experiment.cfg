SPECIFICATION FairSpec
CONSTANTS
  Levels = 4
  EarlyStop = TRUE
  StopAfter = 2
  None = None
  Leftover = FALSE
INVARIANTS TypeOK GateDiagnosed SmokeLeavesNothing EngineReleased DBIsWhole EarlyStopJustified
PROPERTIES ImplementsJob ExperimentEnds
CHECK_DEADLOCK FALSE
