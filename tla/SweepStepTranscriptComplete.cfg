SPECIFICATION Spec
CONSTANTS
  Sequential = {s1}
  OpenLoop = {o1}
  NTurns = 3
  ZeroThink = {}
  Arrivals = 2
INVARIANT TranscriptComplete
CHECK_DEADLOCK FALSE
