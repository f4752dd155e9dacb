------------------------------ MODULE NameOps ------------------------------
(***************************************************************************)
(* The handlers of unreliablefs_ops.c on names and attributes, as several  *)
(* FUSE worker threads run them.                                           *)
(*                                                                         *)
(* A handler first asks error_inject() and then, while other threads run,  *)
(* makes one system call: that is one action for each handler.  readdir    *)
(* makes many: it opens the directory, takes one name after the other and  *)
(* hands it to libfuse, and closes the directory again.  The lstat handler *)
(* is not modelled: unreliable_ops does not register it.                   *)
(***************************************************************************)
EXTENDS BaseFS

CONSTANTS
    Threads,      \* worker threads
    Requests,     \* requests the kernel may send, see Request
    NoopOps,      \* operations that errinj_noop covers
    ErrnoOps,     \* operations that errinj_errno covers
    Injected,     \* errnos that errinj_errno draws
    InitialFS,    \* what the base directory may hold at the start
    MaxRequests   \* bound: requests served in one behaviour

NamedOps ==
    {"getattr", "readlink", "mknod", "mkdir", "unlink", "rmdir", "symlink",
     "rename", "link", "chmod", "chown", "truncate", "statfs", "setxattr",
     "getxattr", "listxattr", "removexattr", "readdir", "access", "utimens"}

\* path is the first path of the handler and new the second, if it has two.  The
\* first of symlink is the target of the link.
Request == [op : NamedOps, path : Names, new : Names \cup {Nil}]
TwoPaths == {"symlink", "rename", "link"}

Errors == Injected \cup
    {"ENOENT", "ELOOP", "EEXIST", "ENOSPC", "EISDIR", "ENOTDIR", "EPERM",
     "EINVAL", "ENODATA", "EMFILE", "ENOMEM"}

\* What a handler answers: -errno or 0, and what it has put into its buffer.
Values == Node \cup Names \cup (SUBSET Names) \cup Nat \cup {Nil}
Answers == [err : Errors \cup {"OK"}, val : Values]

ASSUME NameConstants ==
    /\ Requests \subseteq Request
    /\ \A r \in Requests : r.op \in TwoPaths => r.new \in Names
    /\ InitialFS \subseteq FS
    /\ MaxRequests \in Nat
    /\ {"pass", "noop"} \cap Injected = {}
    /\ Nil \notin Inodes /\ Nil \notin Requests /\ Nil \notin Answers

VARIABLES
    fs,       \* the base file system
    pc,       \* where thread t stands in its handler
    asked,    \* the request thread t serves
    ret,      \* what error_inject() has answered: "pass", "noop" or an errno
    reply,    \* what the handler has answered, or Nil
    todo,     \* readdir: names the directory stream has still to come to
    listing,  \* readdir: names that filler() has taken
    served,   \* number of requests
    must,     \* history: names present at all times of a listing
    may,      \* history: names present at some time of a listing
    failed    \* history: readdir() has failed in a listing

locals == <<pc, asked, ret, reply, todo, listing, failed>>
vars == <<fs, locals, served, must, may>>

\* Every variable is of its type: in particular no handler answers with a value
\* of the wrong kind, a size for a list of names, say.
TypeOK ==
    /\ fs \in FS
    /\ pc \in [Threads -> {"idle", "call", "list", "reply"}]
    /\ asked \in [Threads -> Requests \cup {Nil}]
    /\ ret \in [Threads -> {"pass", "noop", Nil} \cup Injected]
    /\ \A t \in Threads :
         reply[t] # Nil =>
            /\ reply[t].err \in Errors \cup {"OK"}
            /\ reply[t].val # Nil =>
                 CASE asked[t].op = "getattr"  -> reply[t].val \in Node
                   [] asked[t].op = "readlink" -> reply[t].val \in Names
                   [] asked[t].op = "readdir"  -> reply[t].val \subseteq Names
                   [] OTHER -> reply[t].val \in Nat
    /\ todo \in [Threads -> SUBSET Names]
    /\ listing \in [Threads -> SUBSET Names]
    /\ served \in 0 .. MaxRequests
    /\ must \in [Threads -> SUBSET Names]
    /\ may \in [Threads -> SUBSET Names]
    /\ failed \in [Threads -> BOOLEAN]

Init ==
    /\ fs \in InitialFS
    /\ pc = [t \in Threads |-> "idle"]
    /\ asked = [t \in Threads |-> Nil]
    /\ ret = [t \in Threads |-> Nil]
    /\ reply = [t \in Threads |-> Nil]
    /\ todo = [t \in Threads |-> {}]
    /\ listing = [t \in Threads |-> {}]
    /\ served = 0
    /\ must = [t \in Threads |-> {}]
    /\ may = [t \in Threads |-> {}]
    /\ failed = [t \in Threads |-> FALSE]
----------------------------------------------------------------------------
\* The answers error_inject() can give for operation op.
error_inject(op) ==
    {"pass"} \cup (IF op \in NoopOps THEN {"noop"} ELSE {})
             \cup (IF op \in ErrnoOps THEN Injected ELSE {})

\* The kernel sends a request, and the handler calls error_inject().
Receive(t, r) ==
    /\ pc[t] = "idle"
    /\ served < MaxRequests
    /\ served' = served + 1
    /\ pc' = [pc EXCEPT ![t] = "call"]
    /\ asked' = [asked EXCEPT ![t] = r]
    /\ \E a \in error_inject(r.op) : ret' = [ret EXCEPT ![t] = a]
    /\ UNCHANGED <<fs, reply, todo, listing, must, may, failed>>

Answer(t, err, val) ==
    /\ pc' = [pc EXCEPT ![t] = "reply"]
    /\ reply' = [reply EXCEPT ![t] = [err |-> err, val |-> val]]

\* The names a listing in progress has to show, and those it may show, now that
\* the base file system is f.
Watch(f) ==
    /\ must' = [t \in Threads |-> IF pc[t] = "list" THEN must[t] \cap Present(f)
                                                    ELSE must[t]]
    /\ may' = [t \in Threads |-> IF pc[t] = "list" THEN may[t] \cup Present(f)
                                                   ELSE may[t]]

\* Deviation: a handler without the test for -ERRNO_NOOP.
DispatchRaw(t) ==
    /\ pc[t] = "call"
    /\ ret[t] # "pass"
    /\ Answer(t, ret[t], Nil)
    /\ UNCHANGED <<fs, asked, ret, todo, listing, served, must, may, failed>>

\* if (ret == -ERRNO_NOOP) return 0; else if (ret) return ret;
Dispatch(t) ==
    /\ pc[t] = "call"
    /\ ret[t] # "pass"
    /\ Answer(t, IF ret[t] = "noop" THEN "OK" ELSE ret[t], Nil)
    /\ UNCHANGED <<fs, asked, ret, todo, listing, served, must, may, failed>>

\* The handler of op makes the system call whose result is c, and answers -errno
\* or 0, with what the call has put into its buffer.
Handler(t, op, c) ==
    /\ pc[t] = "call"
    /\ ret[t] = "pass"
    /\ asked[t].op = op
    /\ fs' = c.fs
    /\ Watch(c.fs)
    /\ Answer(t, c.err, c.val)
    /\ UNCHANGED <<asked, ret, todo, listing, served, failed>>

Path(t) == asked[t].path
New(t) == asked[t].new

getattr(t) == Handler(t, "getattr", lstat(fs, Path(t)))
Readlink(t) == Handler(t, "readlink", readlink(fs, Path(t)))
mknod(t) == Handler(t, "mknod", Make(fs, Path(t), "file", Nil))
mkdir(t) == Handler(t, "mkdir", Make(fs, Path(t), "dir", Nil))
Unlink(t) == Handler(t, "unlink", unlink(fs, Path(t)))
Rmdir(t) == Handler(t, "rmdir", rmdir(fs, Path(t)))
symlink(t) == Handler(t, "symlink", Make(fs, New(t), "link", Path(t)))
Rename(t) == Handler(t, "rename", rename(fs, Path(t), New(t)))
Link(t) == Handler(t, "link", link(fs, Path(t), New(t)))
chmod(t) == Handler(t, "chmod", SetAttr(fs, Path(t), "mode", TRUE))
chown(t) == Handler(t, "chown", SetAttr(fs, Path(t), "owner", TRUE))
truncate(t) == Handler(t, "truncate", SetAttr(fs, Path(t), "size", TRUE))
statfs(t) == Handler(t, "statfs", Probe(fs, Path(t)))
access(t) == Handler(t, "access", Probe(fs, Path(t)))

\* Deviation: utimes() in place of utimensat() with AT_SYMLINK_NOFOLLOW.
UtimensFollows(t) == Handler(t, "utimens", SetAttr(fs, Path(t), "times", TRUE))

utimens(t) == Handler(t, "utimens", SetAttr(fs, Path(t), "times", FALSE))

\* The calls without "l" follow a link (__APPLE__ is not modelled here).
setxattr(t) == Handler(t, "setxattr", SetXattr(fs, Path(t), TRUE, TRUE))
removexattr(t) == Handler(t, "removexattr", SetXattr(fs, Path(t), FALSE, TRUE))
listxattr(t) == Handler(t, "listxattr", GetXattr(fs, Path(t), TRUE, TRUE))

\* The number of bytes is dropped: "return 0", where listxattr has "return ret".
getxattr(t) ==
    LET c == GetXattr(fs, Path(t), TRUE, FALSE)
    IN  Handler(t, "getxattr", [c EXCEPT !.val = Nil])
----------------------------------------------------------------------------
(* readdir                                                                 *)

\* opendir(path); the directory handle in fi is not used.
readdir_open(t) ==
    /\ pc[t] = "call"
    /\ ret[t] = "pass"
    /\ asked[t].op = "readdir"
    /\ \/ /\ pc' = [pc EXCEPT ![t] = "list"]
          /\ todo' = [todo EXCEPT ![t] = Names]
          /\ must' = [must EXCEPT ![t] = Present(fs)]
          /\ may' = [may EXCEPT ![t] = Present(fs)]
          /\ UNCHANGED reply
       \/ /\ Answer(t, "EMFILE", Nil)
          /\ UNCHANGED <<todo, must, may>>
    /\ UNCHANGED <<fs, asked, ret, listing, served, failed>>

\* Deviation: the test of filler() negated, so that the first name ends the loop.
FillBreaks(t, n) ==
    /\ listing' = [listing EXCEPT ![t] = @ \cup {n}]
    /\ todo' = [todo EXCEPT ![t] = {}]
    /\ UNCHANGED <<pc, reply, failed>>

\* filler() takes name n, or has no memory for it: then it returns 1, the loop
\* ends, and libfuse answers ENOMEM whatever the handler returns.
Fill(t, n) ==
    \/ /\ listing' = [listing EXCEPT ![t] = @ \cup {n}]
       /\ todo' = [todo EXCEPT ![t] = @ \ {n}]
       /\ UNCHANGED <<pc, reply, failed>>
    \/ /\ Answer(t, "ENOMEM", Nil)
       /\ UNCHANGED <<listing, todo, failed>>

\* One turn of the loop.  The stream comes to a name that is still there, passes
\* over one that is gone, or readdir() fails, which the loop takes for the end.
readdir_next(t) ==
    /\ pc[t] = "list"
    /\ \E n \in todo[t] :
         \/ fs.ino[n] # Nil /\ Fill(t, n)
         \/ /\ fs.ino[n] = Nil
            /\ todo' = [todo EXCEPT ![t] = @ \ {n}]
            /\ UNCHANGED <<pc, reply, listing, failed>>
         \/ /\ todo' = [todo EXCEPT ![t] = {}]
            /\ failed' = [failed EXCEPT ![t] = TRUE]
            /\ UNCHANGED <<pc, reply, listing>>
    /\ UNCHANGED <<fs, asked, ret, served, must, may>>

\* closedir(dp); return 0.
readdir_close(t) ==
    /\ pc[t] = "list"
    /\ todo[t] = {}
    /\ Answer(t, "OK", listing[t])
    /\ UNCHANGED <<fs, asked, ret, todo, listing, served, must, may, failed>>

readdir(t) == readdir_open(t) \/ readdir_next(t) \/ readdir_close(t)

\* libfuse passes the answer on, and the thread is free.
Return(t) ==
    /\ pc[t] = "reply"
    /\ pc' = [pc EXCEPT ![t] = "idle"]
    /\ asked' = [asked EXCEPT ![t] = Nil]
    /\ ret' = [ret EXCEPT ![t] = Nil]
    /\ reply' = [reply EXCEPT ![t] = Nil]
    /\ todo' = [todo EXCEPT ![t] = {}]
    /\ listing' = [listing EXCEPT ![t] = {}]
    /\ must' = [must EXCEPT ![t] = {}]
    /\ may' = [may EXCEPT ![t] = {}]
    /\ failed' = [failed EXCEPT ![t] = FALSE]
    /\ UNCHANGED <<fs, served>>

\* The step of the handler in thread t.
Serve(t) ==
    \/ Dispatch(t)
    \/ getattr(t) \/ Readlink(t) \/ mknod(t) \/ mkdir(t) \/ Unlink(t) \/ Rmdir(t)
    \/ symlink(t) \/ Rename(t) \/ Link(t) \/ chmod(t) \/ chown(t) \/ truncate(t)
    \/ statfs(t) \/ access(t) \/ utimens(t)
    \/ setxattr(t) \/ getxattr(t) \/ listxattr(t) \/ removexattr(t)
    \/ readdir(t)
    \/ Return(t)

Next == \E t \in Threads : Serve(t) \/ \E r \in Requests : Receive(t, r)

Spec == Init /\ [][Next]_vars

----------------------------------------------------------------------------
(* Properties                                                              *)

\* What the handlers do with these operations: chown and the calls on extended
\* attributes act on the object behind a symbolic link, and getxattr loses the
\* size of the value.
AsCalled == INSTANCE PassThrough WITH
    Follows <- {"chown", "setxattr", "getxattr", "listxattr", "removexattr"},
    Valueless <- {"getxattr"}

\* Every request is redirected at one moment, with the base file system's answer,
\* or is replaced by a fault without an effect, whatever other threads change
\* between the call of error_inject() and the system call.
RedirectsAtOneMoment == AsCalled!Spec

\* A listing that succeeds shows every name that was there all the time it took,
\* and none that was never there, although other threads create, remove and
\* rename entries between two names.  (If readdir() fails half-way the handler
\* still answers 0: then names may be missing.)
ListingComplete ==
    \A t \in Threads :
        /\ pc[t] = "reply"
        /\ asked[t].op = "readdir"
        /\ ret[t] = "pass"
        /\ reply[t].err = "OK"
        => /\ ~failed[t] => must[t] \subseteq reply[t].val
           /\ reply[t].val \subseteq may[t]
----------------------------------------------------------------------------
(* What the documentation says and the code does not do                    *)

Promise == INSTANCE PassThrough WITH Follows <- {}, Valueless <- {}

\* unreliablefs(1): "Without configuration it works as pass-through filesystem and
\* redirects file operations to a file objects on a real filesystem."  The object
\* is the one that the path of the request names: the kernel has followed the
\* links that were to be followed.  The answer is that of the operation.
ImplementsPassThrough == Promise!Spec
============================================================================
