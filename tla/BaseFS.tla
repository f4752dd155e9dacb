------------------------------- MODULE BaseFS -------------------------------
(***************************************************************************)
(* The system calls of the base file system that the name and attribute    *)
(* handlers of unreliablefs_ops.c make: one directory of names, the        *)
(* objects they stand for, and what each call does and answers.  The base  *)
(* file system is not part of the program; it is modelled as far as the    *)
(* handlers tell its calls apart.                                          *)
(*                                                                         *)
(* fs.ino[n] is the object of name n; fs.node[i] its kind, the target if   *)
(* it is a symbolic link, the attribute that was changed last and whether  *)
(* it has an extended attribute.  A symbolic link to another one stands    *)
(* for a chain that is too long.                                           *)
(***************************************************************************)
EXTENDS Integers

CONSTANTS
    Names,    \* names in the base directory
    Inodes,   \* objects
    Nil       \* none

Kinds == {"file", "dir", "link"}
Attrs == {"mode", "owner", "size", "times"}

Blank == [kind |-> Nil, to |-> Nil, attr |-> Nil, xattr |-> FALSE]

Node == [kind : Kinds \cup {Nil}, to : Names \cup {Nil},
         attr : Attrs \cup {Nil}, xattr : BOOLEAN]

FS == [ino : [Names -> Inodes \cup {Nil}], node : [Inodes -> Node]]

\* Size of the value and of the name of an extended attribute.
XattrSize == 3

\* The answer of a call: an errno or "OK", and what it gives back.
Fail(fs, errno) == [fs |-> fs, err |-> errno, val |-> Nil]
Done(fs, val) == [fs |-> fs, err |-> "OK", val |-> val]

Present(fs) == {n \in Names : fs.ino[n] # Nil}
KindAt(fs, n) == fs.node[fs.ino[n]].kind
IsLink(fs, n) == fs.ino[n] # Nil /\ KindAt(fs, n) = "link"

\* The object a call acts on, which follows a symbolic link or does not.
Resolve(fs, n, follow) ==
    IF follow /\ IsLink(fs, n) THEN fs.ino[fs.node[fs.ino[n]].to] ELSE fs.ino[n]

\* Why the path does not resolve, or "OK".
ResolveErr(fs, n, follow) ==
    IF Resolve(fs, n, follow) = Nil
      THEN "ENOENT"
      ELSE IF follow /\ fs.node[Resolve(fs, n, follow)].kind = "link"
             THEN "ELOOP"
             ELSE "OK"

\* Name n no longer stands for its object, which goes with its last name.
Without(fs, n) ==
    LET ino == [fs.ino EXCEPT ![n] = Nil]
    IN  [ino |-> ino,
         node |-> [i \in Inodes |-> IF \E m \in Names : ino[m] = i
                                      THEN fs.node[i] ELSE Blank]]

With(fs, n, i, node) ==
    [ino |-> [fs.ino EXCEPT ![n] = i], node |-> [fs.node EXCEPT ![i] = node]]

\* mknod(), mkdir() and symlink().
Make(fs, n, kind, to) ==
    LET free == {i \in Inodes : \A m \in Names : fs.ino[m] # i} IN
    IF fs.ino[n] # Nil THEN Fail(fs, "EEXIST")
    ELSE IF free = {} THEN Fail(fs, "ENOSPC")
    ELSE Done(With(fs, n, CHOOSE i \in free : TRUE, [Blank EXCEPT !.kind = kind, !.to = to]),
              Nil)

unlink(fs, n) ==
    IF fs.ino[n] = Nil THEN Fail(fs, "ENOENT")
    ELSE IF KindAt(fs, n) = "dir" THEN Fail(fs, "EISDIR")
    ELSE Done(Without(fs, n), Nil)

rmdir(fs, n) ==
    IF fs.ino[n] = Nil THEN Fail(fs, "ENOENT")
    ELSE IF KindAt(fs, n) # "dir" THEN Fail(fs, "ENOTDIR")
    ELSE Done(Without(fs, n), Nil)

rename(fs, old, new) ==
    LET i == fs.ino[old] IN
    IF i = Nil THEN Fail(fs, "ENOENT")
    ELSE IF i = fs.ino[new] THEN Done(fs, Nil)
    ELSE IF fs.ino[new] # Nil /\ KindAt(fs, new) # KindAt(fs, old)
              /\ "dir" \in {KindAt(fs, old), KindAt(fs, new)}
         THEN Fail(fs, IF KindAt(fs, new) = "dir" THEN "EISDIR" ELSE "ENOTDIR")
    ELSE Done(Without(With(fs, new, i, fs.node[i]), old), Nil)

link(fs, old, new) ==
    LET i == fs.ino[old] IN
    IF i = Nil THEN Fail(fs, "ENOENT")
    ELSE IF KindAt(fs, old) = "dir" THEN Fail(fs, "EPERM")
    ELSE IF fs.ino[new] # Nil THEN Fail(fs, "EEXIST")
    ELSE Done(With(fs, new, i, fs.node[i]), Nil)

lstat(fs, n) ==
    IF fs.ino[n] = Nil THEN Fail(fs, "ENOENT") ELSE Done(fs, fs.node[fs.ino[n]])

readlink(fs, n) ==
    IF fs.ino[n] = Nil THEN Fail(fs, "ENOENT")
    ELSE IF ~IsLink(fs, n) THEN Fail(fs, "EINVAL")
    ELSE Done(fs, fs.node[fs.ino[n]].to)

\* Calls that answer 0 if the path resolves: access(), statvfs().
Probe(fs, n) ==
    LET err == ResolveErr(fs, n, TRUE) IN
    IF err # "OK" THEN Fail(fs, err) ELSE Done(fs, Nil)

\* chmod(), chown() or lchown(), truncate(), utimensat().
SetAttr(fs, n, attr, follow) ==
    LET err == ResolveErr(fs, n, follow)
        i == Resolve(fs, n, follow) IN
    IF err # "OK" THEN Fail(fs, err)
    ELSE IF attr = "size" /\ fs.node[i].kind = "dir" THEN Fail(fs, "EISDIR")
    ELSE Done([fs EXCEPT !.node[i].attr = attr], Nil)

\* setxattr() and removexattr(), or their l-variants.
SetXattr(fs, n, on, follow) ==
    LET err == ResolveErr(fs, n, follow)
        i == Resolve(fs, n, follow) IN
    IF err # "OK" THEN Fail(fs, err)
    ELSE IF ~on /\ ~fs.node[i].xattr THEN Fail(fs, "ENODATA")
    ELSE Done([fs EXCEPT !.node[i].xattr = on], Nil)

\* getxattr() and listxattr(): the number of bytes; a list may be empty.
GetXattr(fs, n, follow, list) ==
    LET err == ResolveErr(fs, n, follow)
        has == fs.node[Resolve(fs, n, follow)].xattr IN
    IF err # "OK" THEN Fail(fs, err)
    ELSE IF has THEN Done(fs, XattrSize)
    ELSE IF list THEN Done(fs, 0)
    ELSE Fail(fs, "ENODATA")
=============================================================================
