SPECIFICATION FairSpec
CONSTANTS
  c1 = c1
  c2 = c2
  n1 = n1
  NoOne = NoOne
  Callers <- TwoCallers
  Names <- OneName
  NameOf <- SameName2
  Overlap = {"start"}
  LostReplies = {"create", "destroy"}
INVARIANTS FailedStartReclaims DiagnosedBeforeDestroyed StoppedMeansFreed
PROPERTIES ImplementsSlot EveryCallReturns
