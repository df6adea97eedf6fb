SPECIFICATION Spec
CONSTANTS
  Uuids <- TwoServices
  NameOf <- SharedName
  MaxLines = 1
  Faults = {}
INVARIANT CapturedIsComplete
CHECK_DEADLOCK FALSE
