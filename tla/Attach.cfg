SPECIFICATION AttachSpec
CONSTANTS
  Positions = 2
  MaxCount = 2
  MaxChanges = 2
  MaxAttached = 0
  MaxEvents = 2
  MaxHead = 1
  None = None
INVARIANTS ResolutionIsExact EnvironmentMatchesProfile ImagesAreTheNetworks
CHECK_DEADLOCK FALSE
