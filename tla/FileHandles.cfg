SPECIFICATION Spec
CONSTANTS
  Handles = {h1, h2}
  DirHandles = {d1}
  Names = {n1, n2}
  Inodes = {f1, f2}
  MaxFd = 3
  MaxFaked = 1
  NoopOps <- AllOps
  ErrnoOps <- AllOps
  Nil = Nil
  Std = Std
  Dir = Dir
SYMMETRY Symmetry
CHECK_DEADLOCK FALSE
INVARIANTS
  TypeOK
  ActsOnOwnFile
  DescriptorsAccounted
  FlockExcludes
  DescriptorsOwned
