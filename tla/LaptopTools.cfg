SPECIFICATION Spec
CONSTANTS
  RateLevels <- MCRateLevels
  SLOs <- MCSLOs
  Tables <- MCTables
  StopAfter = 2
  Warmup = 2
  Measured = 6
  Unknown = Unknown
  RunIds = {r1}
  NoRun = NoRun
  Tags <- MCTags
  KeepRecent = 1
  AgeThreshold = 1
  MaxAge = 2
  Catalogues <- MCCatalogues
  Yamls <- MCYamls
  MaxRenders = 2
  Unset = Unset
  Mixes <- MCMixes
  Sizes = {1, 13, 20}
  NoClass = NoClass
  Devices = {"disk"}
  Moves = {0, 3}
  Periods = {1, 2}
  MaxTicks = 4
  Null = Null
INVARIANTS
  ToolsTypeOK BreachMeansFail SkippedIsNotStar StopCostsNoStar LoadFiguresAgree
  LeaksAreReclaimed RecordsWhatItStarts Placed
  PromptsOutlast RatesAddUp
PROPERTIES
  PruneIsSafe RecentTagsKept
CHECK_DEADLOCK FALSE
