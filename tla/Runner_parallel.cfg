SPECIFICATION FairSpec
CONSTANTS
  NumLanes = 3
  MaxParallel = 2
  Requests <- OneRequest
  Tools = {}
  ReportChoices <- TwoReports
  Faults = {"acquire", "cleanup"}
INVARIANT BoundedParallelism
PROPERTY RunEnds
CHECK_DEADLOCK FALSE
