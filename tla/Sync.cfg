SPECIFICATION SyncSpec
CONSTANTS
  EpochLength = 2
  Samples = 2
  KeptEpochs = 1
  WhileStopped = 1
  Written = 3
  Patience = 1
  MaxLag = 1
  MaxBlock = 30
  Forks = {12}
  Holes = {{5, 6}}
INVARIANT HistoryBehindCheckpoint
PROPERTIES PassedMeansFollowed HealthyFailsOnlyInRace
CHECK_DEADLOCK FALSE
