SPECIFICATION FairSpec
CONSTANTS
  Jobs = {j1, j2}
  OtherRanks = {1}
  MaxKills = 1
  Missing = Missing
  Required = TRUE
  GatePolicies <- MCPolicies
  References <- MCReferences
  OptionalReferences <- MCOptionalReferences
INVARIANTS TypeOK SentinelMeansWhole BuilderIsSmoke EngineVouched SurfacedAborts
PROPERTY GateEnds

CHECK_DEADLOCK FALSE
