SPECIFICATION Spec
CONSTANTS
  Threads = {t1, t2}
  Names = {"a", "b"}
  Inodes = {"i", "j"}
  Nil = Nil
  Requests <- MCRequests
  NoopOps <- NamedOps
  ErrnoOps <- NamedOps
  Injected = {"EIO"}
  InitialFS <- MCInitial
  MaxRequests = 3
CHECK_DEADLOCK FALSE
INVARIANTS
  TypeOK
  ListingComplete
PROPERTIES
  RedirectsAtOneMoment
