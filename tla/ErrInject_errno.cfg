SPECIFICATION Spec
CONSTANTS
  Threads = {t1, t2}
  Addr = {a1, a2}
  NULL = NULL
  Free = Free
  Absent = Absent
  ConfPath = "conf"
  Paths <- MCPaths
  Requests <- MCRequests
  Confs <- ErrnoConfs
  Errnos <- MCErrnos
  Privileged = {2}
  PastEnd = {0, 2}
CHECK_DEADLOCK FALSE
INVARIANT ErrnoSupported
