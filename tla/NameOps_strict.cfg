SPECIFICATION Spec
CONSTANTS
  Threads = {t1}
  Names = {"a", "b"}
  Inodes = {"i", "j"}
  Nil = Nil
  Requests <- LinkRequests
  NoopOps = {}
  ErrnoOps = {}
  Injected = {"EIO"}
  InitialFS <- LinkInitial
  MaxRequests = 3
CHECK_DEADLOCK FALSE
PROPERTY ImplementsPassThrough
