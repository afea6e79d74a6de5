SPECIFICATION Spec
CONSTANTS
  Jobs = {j1, j2}
  None = None
  Platform = "slurm"
  MaxPolls = 1
  MaxRows = 2
  MaxKills = 1
SYMMETRY JobSymmetry
INVARIANTS TypeOK KnownReleased CompleteMerge MergedIsLocal
PROPERTY KeepsContract
CHECK_DEADLOCK FALSE
