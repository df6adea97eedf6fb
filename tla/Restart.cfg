SPECIFICATION Spec
CONSTANTS
  N = 3
  Signers = {1, 2}
  Outage = 1
  Before = 3
  MaxSlot = 5
  Faults = {"call", "survivor", "loss"}
INVARIANTS DependenciesUp AgreedHeadIsKept VerdictIsRight
CHECK_DEADLOCK FALSE
