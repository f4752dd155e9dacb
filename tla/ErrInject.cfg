SPECIFICATION FairSpec
CONSTANTS
  Threads = {t1, t2}
  Addr = {a1, a2}
  NULL = NULL
  Free = Free
  Absent = Absent
  ConfPath = "conf"
  Paths <- MCPaths
  Requests <- MCRequests
  Confs <- AllConfs
  Errnos <- MCErrnos
  Privileged = {2}
  PastEnd = {2}
CHECK_DEADLOCK FALSE
INVARIANTS
  TypeOK
  MemoryAccounted
  LoadedIsCurrent
  OutcomeExplained
  ConfFileExempt
  WalkIsStable
  CertainFaultsHappen
PROPERTIES
  ImplementsFaultService
  MutexReleased
