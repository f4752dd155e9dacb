--------------------------- MODULE MCFileHandles ---------------------------
(***************************************************************************)
(* Small instances of FileHandles: the daemon has a few descriptors, so    *)
(* that leaks exhaust them and numbers are reused.                         *)
(***************************************************************************)
EXTENDS FileHandles, TLC

AllOps ==
    {"read", "write", "fsync", "fgetattr", "ioctl", "fallocate", "open",
     "creat", "ftruncate", "flush", "release", "lock", "flock", "opendir",
     "releasedir", "fsyncdir", "rename", "unlink"}

Symmetry == Permutations(Handles) \cup Permutations(Names) \cup Permutations(Inodes)
============================================================================
