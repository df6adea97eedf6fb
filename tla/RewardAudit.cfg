SPECIFICATION AuditSpec
CONSTANTS
  SlotsPerEpoch = 2
  SourceWindow = 2
  OfflineEpochs = 1
  MaxEmpty = 2
  MaxEpoch = 3
INVARIANT AuditIsRight
PROPERTY RewardsAreFinal
CHECK_DEADLOCK FALSE
