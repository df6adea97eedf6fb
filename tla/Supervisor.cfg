SPECIFICATION FairSpec
CONSTANTS
  Capacity = 4
  MaxLines = 2
  Faults = {"read", "docker", "write"}
INVARIANT PassIsGraceful
PROPERTIES RunReturns GoroutinesEnd
CHECK_DEADLOCK FALSE
