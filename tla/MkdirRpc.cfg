SPECIFICATION FairSpec
CONSTANTS
  c1 = c1
  c2 = c2
  c3 = c3
  Calls <- MCCalls
  Dirs <- MCDirs
  Parent <- MCParent
  Root = "tmp"
  Target <- MCTarget
  Failures = {1}
  None = None
CHECK_DEADLOCK FALSE
INVARIANTS
  TypeOK
  ExclusiveCreate
  OnePlace
PROPERTIES
  ServiceSpec
  OnlySilentLossHangs
