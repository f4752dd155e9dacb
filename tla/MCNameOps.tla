----------------------------- MODULE MCNameOps -----------------------------
(***************************************************************************)
(* A small instance of NameOps: two names, so that a symbolic link can     *)
(* point to the other name or to itself, and requests that meet in pairs.  *)
(***************************************************************************)
EXTENDS NameOps, TLC

Req(op, path, new) == [op |-> op, path |-> path, new |-> new]

\* Each operation once, and those that change names on either name.
MCRequests ==
    {Req(op, "a", Nil) : op \in NamedOps \ {"symlink", "rename", "link"}}
    \cup {Req("mknod", "b", Nil), Req("unlink", "b", Nil)}
    \cup {Req("symlink", "b", "a"), Req("rename", "a", "b"), Req("rename", "b", "a"),
          Req("link", "a", "b")}

Object(kind, to, xattr) == [kind |-> kind, to |-> to, attr |-> Nil, xattr |-> xattr]

Two(m, n) == [ino |-> ("a" :> "i" @@ "b" :> "j"), node |-> ("i" :> m @@ "j" :> n)]

\* A link to a file, to a directory and to itself; a file without and with an
\* extended attribute, alone; nothing.
MCInitial ==
    {Two(Object("link", "b", FALSE), Object("file", Nil, TRUE)),
     Two(Object("link", "b", FALSE), Object("dir", Nil, FALSE)),
     Two(Object("link", "a", FALSE), Object("file", Nil, FALSE)),
     [ino |-> ("a" :> "i" @@ "b" :> Nil),
      node |-> ("i" :> Object("file", Nil, TRUE) @@ "j" :> Blank)],
     [ino |-> ("a" :> Nil @@ "b" :> Nil), node |-> ("i" :> Blank @@ "j" :> Blank)]}

\* getxattr of a link, whose target has the attribute.
LinkRequests == {Req("getxattr", "a", Nil)}
LinkInitial == {Two(Object("link", "b", FALSE), Object("file", Nil, TRUE))}
============================================================================
