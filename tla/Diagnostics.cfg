SPECIFICATION Spec
CONSTANTS
  Uuids <- TwoServices
  NameOf <- OwnNames
  MaxLines = 2
  Faults = {"engine", "stream", "disk"}
INVARIANTS CapturedIsComplete SilenceMeansAll FailuresStayLocal
CHECK_DEADLOCK FALSE
