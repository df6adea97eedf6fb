SPECIFICATION Spec
CONSTANTS
  NumLanes = 1
  MaxParallel = 0
  Requests <- AllRequests
  Tools = {"docker"}
  ReportChoices <- AllReports
  Faults = {"acquire", "setup", "command", "report", "log", "diagnostics", "cleanup", "files"}
INVARIANTS DiagnosedOnceWhileAlive PublishedVerdict SnapshotSurvives ReleasedOrReported PassesAreClean
PROPERTY VerdictNeverMasked
CHECK_DEADLOCK FALSE
