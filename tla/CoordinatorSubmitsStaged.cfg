SPECIFICATION Spec
CONSTANTS
  Jobs = {j1, j2}
  None = None
  Platform = "slurm"
  MaxPolls = 2
  MaxRows = 1
  MaxKills = 1
INVARIANT SubmitsStaged
CHECK_DEADLOCK FALSE
