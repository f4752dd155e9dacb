------------------------------- MODULE Builds -------------------------------
(***************************************************************************)
(* What the preprocessor makes of unreliablefs on each platform.  Five     *)
(* lists are cut by #ifdef in four files: the handlers registered with     *)
(* FUSE, the fuse_op enumeration, the names that op_regexp is matched      *)
(* with, the cases of op_random_errno() and the errno tables.  A build is  *)
(* right if they are cut alike: an enumerator is an index into the names,  *)
(* a case needs its table, an operation without a case gets rc = -1.       *)
(*                                                                         *)
(* The state machine takes one build and lets the kernel call any handler  *)
(* of it while an errinj_errno entry applies.                              *)
(***************************************************************************)
EXTENDS ErrnoTables, Integers, Sequences, SequencesExt

CONSTANTS
    None,      \* no call
    PastEnd,   \* the word behind a table, whatever the build has put there
    NoCase     \* rc = -1: "Unsupported operation"

Platforms == {"linux", "freebsd", "macosx", "openbsd"}

\* The functions of interest that the C library of a platform may have; older
\* releases of FreeBSD and macOS lack utimensat().
LibC(platform) ==
    CASE platform = "linux"   -> {{"fallocate", "flock", "utimensat", "setxattr"}}
      [] platform = "freebsd" -> {{"flock"}, {"flock", "utimensat"}}
      [] platform = "macosx"  -> {{"flock", "setxattr"},
                                  {"flock", "setxattr", "utimensat"}}
      [] platform = "openbsd" -> {{"flock", "utimensat"}}

\* The macros that #ifdefs test.
HaveMacros == {"HAVE_FALLOCATE", "HAVE_FLOCK", "HAVE_UTIMENSAT", "HAVE_XATTR"}

\* Deviation: setxattr() is taken to be everywhere.
MacrosXattrAlways(functions) ==
    {"HAVE_XATTR"} \cup (IF "utimensat" \in functions THEN {"HAVE_UTIMENSAT"} ELSE {})

\* The check_function_exists() calls.  HAVE_FLOCK depends on fallocate().
Macros(functions) ==
    {m \in HaveMacros :
        \/ m \in {"HAVE_FALLOCATE", "HAVE_FLOCK"} /\ "fallocate" \in functions
        \/ m = "HAVE_UTIMENSAT" /\ "utimensat" \in functions
        \/ m = "HAVE_XATTR" /\ "setxattr" \in functions}

\* v12: __FreeBSD__ is 12 or more.
AllBuilds ==
    {b \in [platform : Platforms, v12 : BOOLEAN, macros : SUBSET HaveMacros] :
        /\ \E functions \in LibC(b.platform) : b.macros = Macros(functions)
        /\ b.v12 => b.platform = "freebsd"}

\* #ifdef macro ... #endif, and #if !defined(__OpenBSD__) ... #endif.
IfDef(b, macro, list) == IF macro \in b.macros THEN list ELSE <<>>
IfNotOpenBSD(b, list) == IF b.platform # "openbsd" THEN list ELSE <<>>

\* The enumeration fuse_op: an enumerator is its position (from 1 here).
fuse_op(b) ==
    <<"getattr", "readlink", "mknod", "mkdir", "unlink", "rmdir", "symlink",
      "rename", "link", "chmod", "chown", "truncate", "open", "read", "write",
      "statfs", "flush", "release", "fsync">>
    \o IfDef(b, "HAVE_XATTR",
             <<"setxattr", "getxattr", "listxattr", "removexattr">>)
    \o <<"opendir", "readdir", "releasedir", "fsyncdir", "access", "creat",
         "ftruncate", "fgetattr", "lock">>
    \o IfNotOpenBSD(b, <<"ioctl">>)
    \o IfDef(b, "HAVE_FLOCK", <<"flock">>)
    \o IfDef(b, "HAVE_FALLOCATE", <<"fallocate">>)
    \o IfDef(b, "HAVE_UTIMENSAT", <<"utimens">>)
    \o <<"lstat">>

\* Deviation: ioctl is named on OpenBSD too.
NamesWithIoctl(b) == fuse_op([b EXCEPT !.platform = "linux"])

\* The array fuse_op_name[].
fuse_op_name(b) ==
    <<"getattr", "readlink", "mknod", "mkdir", "unlink", "rmdir", "symlink",
      "rename", "link", "chmod", "chown", "truncate", "open", "read", "write",
      "statfs", "flush", "release", "fsync">>
    \o IfDef(b, "HAVE_XATTR",
             <<"setxattr", "getxattr", "listxattr", "removexattr">>)
    \o <<"opendir", "readdir", "releasedir", "fsyncdir", "access", "creat",
         "ftruncate", "fgetattr", "lock">>
    \o IfNotOpenBSD(b, <<"ioctl">>)
    \o IfDef(b, "HAVE_FLOCK", <<"flock">>)
    \o IfDef(b, "HAVE_FALLOCATE", <<"fallocate">>)
    \o IfDef(b, "HAVE_UTIMENSAT", <<"utimens">>)
    \o <<"lstat">>

\* The handlers in unreliable_ops, but for init and destroy, which call no
\* error_inject().  unreliable_lstat is not among them.
unreliable_ops(b) ==
    {"getattr", "readlink", "mknod", "mkdir", "unlink", "rmdir", "symlink",
     "rename", "link", "chmod", "chown", "truncate", "open", "read", "write",
     "statfs", "flush", "release", "fsync", "opendir", "readdir",
     "releasedir", "fsyncdir", "access", "create", "ftruncate", "fgetattr",
     "lock"}
    \cup ToSet(IfDef(b, "HAVE_XATTR",
                     <<"setxattr", "getxattr", "listxattr", "removexattr">>)
               \o IfNotOpenBSD(b, <<"ioctl">>)
               \o IfDef(b, "HAVE_FLOCK", <<"flock">>)
               \o IfDef(b, "HAVE_FALLOCATE", <<"fallocate">>)
               \o IfDef(b, "HAVE_UTIMENSAT", <<"utimens">>))

\* The enumerator a handler passes to error_inject().
OpOf(handler) == IF handler = "create" THEN "creat" ELSE handler

\* The cases of the switch in op_random_errno(), as the table of each.
CasesAlways ==
    [lstat |-> "lstat", getattr |-> "lstat", readlink |-> "readlink",
     mknod |-> "mknod", mkdir |-> "mkdir", unlink |-> "unlink",
     rmdir |-> "rmdir", symlink |-> "symlink", rename |-> "rename",
     link |-> "link", chmod |-> "chmod", chown |-> "chmod",
     truncate |-> "truncate", open |-> "creat", read |-> "read",
     write |-> "write", statfs |-> "statfs", flush |-> "close",
     release |-> "close", fsync |-> "fsync", opendir |-> "opendir",
     readdir |-> "readdir", releasedir |-> "close", fsyncdir |-> "fsync",
     access |-> "access", creat |-> "creat", ftruncate |-> "ftruncate",
     fgetattr |-> "lstat", lock |-> "fcntl"]

CasesXattr ==
    [setxattr |-> "setxattr", getxattr |-> "getxattr",
     listxattr |-> "listxattr", removexattr |-> "removexattr"]

\* Deviation: the case of utimens stands inside the #ifdef of fallocate.
CasesUtimensGuarded(b) ==
    CasesAlways
    ++ IfDef(b, "HAVE_XATTR", CasesXattr)
    ++ IfNotOpenBSD(b, [ioctl |-> "ioctl"])
    ++ IfDef(b, "HAVE_FLOCK", [flock |-> "flock"])
    ++ IfDef(b, "HAVE_FALLOCATE", [fallocate |-> "fallocate", utimens |-> "utimensat"])

Cases(b) ==
    CasesAlways
    ++ IfDef(b, "HAVE_XATTR", CasesXattr)
    ++ IfNotOpenBSD(b, [ioctl |-> "ioctl"])
    ++ IfDef(b, "HAVE_FLOCK", [flock |-> "flock"])
    ++ IfDef(b, "HAVE_FALLOCATE", [fallocate |-> "fallocate"])
    ++ IfDef(b, "HAVE_UTIMENSAT", [utimens |-> "utimensat"])

Tables(b) == Header(b.platform, b.v12)

\* An errno is positive; the -1 of a missing case and the word behind a table
\* are told apart from every one.
ASSUME ValuesApart ==
    /\ NoCase \notin {None, PastEnd}
    /\ \A p \in Platforms, v12 \in BOOLEAN : \A name \in DOMAIN Header(p, v12) :
          {NoCase, PastEnd} \cap Header(p, v12)[name] = {}

\* RANDOM_ELEMENT draws an index from 0 .. ARRAY_SIZE, one too many.
RANDOM_ELEMENT(table) == table \cup {PastEnd}

op_random_errno(b, op) ==
    IF op \in DOMAIN Cases(b) THEN RANDOM_ELEMENT(Tables(b)[Cases(b)[op]])
                              ELSE {NoCase}
----------------------------------------------------------------------------
VARIABLES
    build,     \* the build that runs
    handler,   \* the handler the kernel has called, or None
    op_name,   \* the string op_regexp is matched with
    rc         \* what op_random_errno() has returned, or None

vars == <<build, handler, op_name, rc>>

Init ==
    /\ build \in AllBuilds
    /\ handler = None
    /\ op_name = None
    /\ rc = None

\* The position of an enumerator.
Enumerator(b, op) == CHOOSE i \in DOMAIN fuse_op(b) : fuse_op(b)[i] = op

\* A handler calls error_inject(), which looks up the name of the operation.
Call(h) ==
    /\ handler = None
    /\ h \in unreliable_ops(build)
    /\ handler' = h
    /\ op_name' = fuse_op_name(build)[Enumerator(build, OpOf(h))]
    /\ UNCHANGED <<build, rc>>

\* The name matches, and errinj_errno fires.
InjectErrno ==
    /\ handler # None
    /\ rc = None
    /\ rc' \in op_random_errno(build, OpOf(handler))
    /\ UNCHANGED <<build, handler, op_name>>

Return ==
    /\ rc # None
    /\ handler' = None
    /\ op_name' = None
    /\ rc' = None
    /\ UNCHANGED build

Next ==
    \/ \E h \in unreliable_ops(build) : Call(h)
    \/ InjectErrno
    \/ Return

Spec == Init /\ [][Next]_vars
----------------------------------------------------------------------------
(* Properties                                                              *)

\* In every build op_regexp is matched with the name of the operation whose
\* handler runs: fuse_op_name[] and fuse_op are cut alike, so that no #ifdef
\* shifts the names behind it and a fault hits another operation.
NamedAsCalled == handler # None => op_name = OpOf(handler)

\* Every build compiles: each case of op_random_errno() is an enumerator of the
\* build, and the platform's header has the table it draws from.
TablesExist ==
    \A op \in DOMAIN Cases(build) :
        /\ op \in ToSet(fuse_op(build))
        /\ Cases(build)[op] \in DOMAIN Tables(build)

\* An injected errno is never the -1 of an operation without a case, which the
\* handler would negate and return as a success of 1.  On no platform but macOS,
\* whose opendir and readdir tables are empty, is it undefined on every draw.
ErrnoOfEveryHandler ==
    /\ rc # NoCase
    /\ \A h \in unreliable_ops(build) :
         op_random_errno(build, OpOf(h)) = {PastEnd} =>
            build.platform = "macosx" /\ h \in {"opendir", "readdir"}
=============================================================================
