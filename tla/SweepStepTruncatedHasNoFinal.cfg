SPECIFICATION Spec
CONSTANTS
  Sequential = {s1, s2}
  OpenLoop = {}
  NTurns = 3
  ZeroThink = {}
  Arrivals = 2
INVARIANT TruncatedHasNoFinal
CHECK_DEADLOCK FALSE
