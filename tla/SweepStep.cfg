SPECIFICATION FairSpec
CONSTANTS
  Sequential = {s1, s2}
  OpenLoop = {o1}
  NTurns = 3
  ZeroThink = {2}
  Arrivals = 2
INVARIANTS TypeOK IssuedRecorded FinalMeansWhole UntruncatedIsWhole TranscriptSound SequentialTranscript
PROPERTY StepReturns
CHECK_DEADLOCK FALSE
