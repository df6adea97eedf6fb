SPECIFICATION FairSpec
CONSTANTS
  Kinds <- MCKinds
  Faults = {"prepare", "create", "copy", "start", "stop", "remove"}
  Sources <- MCSources
  Keystores <- MCKeystores
  Refused = Refused
INVARIANTS NothingLeftBehind ReadyWhenReturned DependenciesFirst FilesArriveWhole
PROPERTY DeadContainerEndsWait
CHECK_DEADLOCK FALSE
