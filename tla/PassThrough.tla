---------------------------- MODULE PassThrough ----------------------------
(***************************************************************************)
(* What unreliablefs promises for the operations on names and attributes:  *)
(* an operation is redirected to the base file system or a fault replaces  *)
(* it.  A redirected operation happens at one moment, on the object that   *)
(* the path names, and answers what the base file system answers.  A fault *)
(* answers in its place and has no effect.                                 *)
(*                                                                         *)
(* With Follows and Valueless empty this is the pass-through file system   *)
(* of unreliablefs(1).  Otherwise less is asked of two sets of operations: *)
(* those in Follows may act on the object behind a symbolic link, and      *)
(* those in Valueless may answer without a value.                          *)
(***************************************************************************)
EXTENDS BaseFS

CONSTANTS
    Threads,     \* worker threads
    Requests,    \* requests the kernel may send
    NoopOps,     \* operations that errinj_noop covers
    ErrnoOps,    \* operations that errinj_errno covers
    Injected,    \* errnos that errinj_errno draws
    Follows,     \* operations that may follow a symbolic link
    Valueless    \* operations whose value may get lost

VARIABLES
    fs,          \* the base file system
    asked,       \* asked[t]: the request in work
    reply        \* reply[t]: its answer, or Nil

vars == <<fs, asked, reply>>

\* What request r means in f, without faults.
Meaning(f, r, follow) ==
    CASE r.op = "getattr"     -> lstat(f, r.path)
      [] r.op = "readlink"    -> readlink(f, r.path)
      [] r.op = "mknod"       -> Make(f, r.path, "file", Nil)
      [] r.op = "mkdir"       -> Make(f, r.path, "dir", Nil)
      [] r.op = "symlink"     -> Make(f, r.new, "link", r.path)
      [] r.op = "unlink"      -> unlink(f, r.path)
      [] r.op = "rmdir"       -> rmdir(f, r.path)
      [] r.op = "rename"      -> rename(f, r.path, r.new)
      [] r.op = "link"        -> link(f, r.path, r.new)
      [] r.op = "chmod"       -> SetAttr(f, r.path, "mode", TRUE)
      [] r.op = "chown"       -> SetAttr(f, r.path, "owner", follow)
      [] r.op = "truncate"    -> SetAttr(f, r.path, "size", TRUE)
      [] r.op = "utimens"     -> SetAttr(f, r.path, "times", follow)
      [] r.op = "setxattr"    -> SetXattr(f, r.path, TRUE, follow)
      [] r.op = "removexattr" -> SetXattr(f, r.path, FALSE, follow)
      [] r.op = "getxattr"    -> GetXattr(f, r.path, follow, FALSE)
      [] r.op = "listxattr"   -> GetXattr(f, r.path, follow, TRUE)
      [] r.op \in {"access", "statfs"} -> Probe(f, r.path)

Init ==
    /\ fs \in FS
    /\ asked = [t \in Threads |-> Nil]
    /\ reply = [t \in Threads |-> Nil]

Answer(t, err, val) ==
    /\ asked[t] # Nil
    /\ reply[t] = Nil
    /\ reply' = [reply EXCEPT ![t] = [err |-> err, val |-> val]]
    /\ UNCHANGED asked

Ask(t, r) ==
    /\ asked[t] = Nil
    /\ asked' = [asked EXCEPT ![t] = r]
    /\ UNCHANGED <<fs, reply>>

\* The operation, at one moment.  A listing is not one moment: only that it
\* changes nothing is promised here.
Redirect(t) ==
    \/ /\ asked[t].op # "readdir"
       /\ \E follow \in BOOLEAN :
            LET m == Meaning(fs, asked[t], follow) IN
            /\ follow => asked[t].op \in Follows
            /\ fs' = m.fs
            /\ \/ Answer(t, m.err, m.val)
               \/ asked[t].op \in Valueless /\ Answer(t, m.err, Nil)
    \/ /\ asked[t].op = "readdir"
       /\ \E names \in SUBSET Names : Answer(t, "OK", names)
       /\ UNCHANGED fs
    \/ /\ asked[t].op = "readdir"
       /\ \E e \in {"EMFILE", "ENOMEM"} : Answer(t, e, Nil)
       /\ UNCHANGED fs

Inject(t) ==
    /\ \/ asked[t].op \in NoopOps /\ Answer(t, "OK", Nil)
       \/ asked[t].op \in ErrnoOps /\ \E e \in Injected : Answer(t, e, Nil)
    /\ UNCHANGED fs

Take(t) ==
    /\ reply[t] # Nil
    /\ asked' = [asked EXCEPT ![t] = Nil]
    /\ reply' = [reply EXCEPT ![t] = Nil]
    /\ UNCHANGED fs

Next ==
    \E t \in Threads :
        \/ \E r \in Requests : Ask(t, r)
        \/ asked[t] # Nil /\ (Redirect(t) \/ Inject(t))
        \/ Take(t)

Spec == Init /\ [][Next]_vars
============================================================================
