SPECIFICATION Spec
CONSTANTS
  Handles = {h1, h2}
  DirHandles = {d1}
  Names = {n1, n2}
  Inodes = {f1, f2}
  MaxFd = 3
  MaxFaked = 0
  NoopOps = {}
  ErrnoOps = {}
  Nil = Nil
  Std = Std
  Dir = Dir
CHECK_DEADLOCK FALSE
INVARIANT LocksExclude
