SPECIFICATION OperatedSpec
CONSTANTS
  Jobs = {j1}
  None = None
  Platform = "k8s"
  MaxPolls = 0
  MaxRows = 1
  MaxKills = 2
PROPERTIES RunReturns EventuallyTornDown
CHECK_DEADLOCK FALSE
