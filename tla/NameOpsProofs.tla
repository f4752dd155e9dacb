--------------------------- MODULE NameOpsProofs ---------------------------
(***************************************************************************)
(* The handlers on names and attributes implement the promise of           *)
(* unreliablefs(1), for any number of threads, names, objects and requests *)
(* and any configuration.                                                  *)
(***************************************************************************)
EXTENDS NameOps, TLAPS

\* A value that the handler of op may give back.
ValueOK(op, val) ==
    val # Nil =>
      CASE op = "getattr"  -> val \in Node
        [] op = "readlink" -> val \in Names
        [] op = "readdir"  -> val \subseteq Names
        [] OTHER -> val \in Nat

\* The result of a system call is well formed.
ResultOK(c, op) ==
    /\ c.fs \in FS
    /\ c.err \in Errors \cup {"OK"}
    /\ c.val \in Values
    /\ ValueOK(op, c.val)

\* What a call may give back.
LEMMA ValueKinds ==
    /\ Nil \in Values
    /\ \A v \in Node : v \in Values
    /\ \A v \in Names : v \in Values
    /\ \A v \in SUBSET Names : v \in Values
    /\ \A v \in Nat : v \in Values
BY Zenon DEF Values

\* A result that gives nothing back is well formed.
LEMMA NoValueOK == Nil \in Values /\ \A op : ValueOK(op, Nil)
<1>1. \A op : ValueOK(op, Nil)
  BY Zenon DEF ValueOK
<1> QED BY <1>1, ValueKinds

\* A call that fails changes nothing.
LEMMA FailOK ==
    ASSUME NEW f \in FS, NEW e \in Errors, NEW op
    PROVE  ResultOK(Fail(f, e), op)
<1>1. Fail(f, e).fs = f /\ Fail(f, e).err = e /\ Fail(f, e).val = Nil
  BY DEF Fail
<1> QED BY <1>1, NoValueOK DEF ResultOK

\* A call that succeeds and gives nothing back.
LEMMA DoneOK ==
    ASSUME NEW f \in FS, NEW op
    PROVE  ResultOK(Done(f, Nil), op)
<1>1. Done(f, Nil).fs = f /\ Done(f, Nil).err = "OK" /\ Done(f, Nil).val = Nil
  BY DEF Done
<1> QED BY <1>1, NoValueOK DEF ResultOK

\* The errnos of the calls.
LEMMA ErrorNames ==
    /\ "ENOENT" \in Errors /\ "ELOOP" \in Errors /\ "EEXIST" \in Errors
    /\ "ENOSPC" \in Errors /\ "EISDIR" \in Errors /\ "ENOTDIR" \in Errors
    /\ "EPERM" \in Errors /\ "EINVAL" \in Errors /\ "ENODATA" \in Errors
    /\ "EMFILE" \in Errors /\ "ENOMEM" \in Errors
BY DEF Errors

\* Names and objects of a file system.
LEMMA FSFacts ==
    ASSUME NEW f \in FS
    PROVE  /\ f.ino \in [Names -> Inodes \cup {Nil}] /\ f.node \in [Inodes -> Node]
           /\ f = [ino |-> f.ino, node |-> f.node]
BY DEF FS

\* A name that is made to stand for an object.
LEMMA WithOK ==
    ASSUME NEW f \in FS, NEW n \in Names, NEW i \in Inodes, NEW node \in Node
    PROVE  With(f, n, i, node) \in FS
<1>1. [f.ino EXCEPT ![n] = i] \in [Names -> Inodes \cup {Nil}]
  BY FSFacts
<1>2. [f.node EXCEPT ![i] = node] \in [Inodes -> Node]
  BY FSFacts
<1> QED BY <1>1, <1>2 DEF With, FS

\* A name that is removed.
LEMMA WithoutOK ==
    ASSUME NEW f \in FS, NEW n \in Names
    PROVE  Without(f, n) \in FS
<1> DEFINE ino == [f.ino EXCEPT ![n] = Nil]
           node == [i \in Inodes |-> IF \E m \in Names : ino[m] = i THEN f.node[i] ELSE Blank]
<1>1. ino \in [Names -> Inodes \cup {Nil}]
  BY FSFacts
<1>2. Blank \in Node
  BY DEF Blank, Node
<1>3. node \in [Inodes -> Node]
  BY <1>2, FSFacts
<1> QED BY <1>1, <1>3 DEF Without, FS

\* mknod(), mkdir() and symlink() make an object that was free.
LEMMA MakeOK ==
    ASSUME NEW f \in FS, NEW n \in Names, NEW kind \in Kinds, NEW to \in Names \cup {Nil}, NEW op
    PROVE  ResultOK(Make(f, n, kind, to), op)
<1> DEFINE free == {i \in Inodes : \A m \in Names : f.ino[m] # i}
           i == CHOOSE j \in free : TRUE
           node == [Blank EXCEPT !.kind = kind, !.to = to]
<1>1. node \in Node
  BY DEF Blank, Node
<1>2. free # {} => i \in Inodes
  OBVIOUS
<1> HIDE DEF i, node
<1>3. free # {} => With(f, n, i, node) \in FS
  BY <1>1, <1>2, WithOK
<1> USE DEF i, node
<1>4. \/ Make(f, n, kind, to) = Fail(f, "EEXIST")
      \/ Make(f, n, kind, to) = Fail(f, "ENOSPC")
      \/ free # {} /\ Make(f, n, kind, to) = Done(With(f, n, i, node), Nil)
  BY DEF Make
<1> HIDE DEF i, node, free
<1> QED BY <1>3, <1>4, FailOK, DoneOK, ErrorNames

\* unlink() and rmdir().
LEMMA RemoveOK ==
    ASSUME NEW f \in FS, NEW n \in Names, NEW op
    PROVE  ResultOK(unlink(f, n), op) /\ ResultOK(rmdir(f, n), op)
<1>1. Without(f, n) \in FS
  BY WithoutOK
<1>2. unlink(f, n) \in {Fail(f, "ENOENT"), Fail(f, "EISDIR"), Done(Without(f, n), Nil)}
  BY DEF unlink
<1>3. rmdir(f, n) \in {Fail(f, "ENOENT"), Fail(f, "ENOTDIR"), Done(Without(f, n), Nil)}
  BY DEF rmdir
<1> QED BY <1>1, <1>2, <1>3, FailOK, DoneOK, ErrorNames

\* rename() and link().
LEMMA TwoNamesOK ==
    ASSUME NEW f \in FS, NEW old \in Names, NEW new \in Names, NEW op
    PROVE  ResultOK(rename(f, old, new), op) /\ ResultOK(link(f, old, new), op)
<1> DEFINE i == f.ino[old]
           both == With(f, new, i, f.node[i])
<1>1. i # Nil => both \in FS /\ Without(both, old) \in FS
  <2> SUFFICES ASSUME i # Nil PROVE both \in FS /\ Without(both, old) \in FS
    OBVIOUS
  <2>1. i \in Inodes /\ f.node[i] \in Node
    BY FSFacts
  <2>2. both \in FS
    BY <2>1, WithOK
  <2> QED BY <2>2, WithoutOK
<1>2. \/ rename(f, old, new) \in {Fail(f, "ENOENT"), Fail(f, "EISDIR"), Fail(f, "ENOTDIR"),
                                  Done(f, Nil)}
      \/ i # Nil /\ rename(f, old, new) = Done(Without(both, old), Nil)
  BY DEF rename
<1>3. \/ link(f, old, new) \in {Fail(f, "ENOENT"), Fail(f, "EPERM"), Fail(f, "EEXIST")}
      \/ i # Nil /\ link(f, old, new) = Done(both, Nil)
  BY DEF link
<1> HIDE DEF i, both
<1>4. ResultOK(rename(f, old, new), op)
  BY <1>1, <1>2, FailOK, DoneOK, ErrorNames
<1>5. ResultOK(link(f, old, new), op)
  BY <1>1, <1>3, FailOK, DoneOK, ErrorNames
<1> QED BY <1>4, <1>5

\* lstat() gives an object, readlink() a name.
LEMMA LookOK ==
    ASSUME NEW f \in FS, NEW n \in Names
    PROVE  ResultOK(lstat(f, n), "getattr") /\ ResultOK(readlink(f, n), "readlink")
<1>1. f.ino[n] # Nil => f.node[f.ino[n]] \in Node /\ f.node[f.ino[n]].to \in Names \cup {Nil}
  <2>1. f.ino[n] # Nil => f.node[f.ino[n]] \in Node
    BY FSFacts
  <2> QED BY <2>1 DEF Node
<1>2. ASSUME NEW v \in Node PROVE ResultOK(Done(f, v), "getattr")
  <2>1. v \in Values
    BY ValueKinds
  <2>2. ValueOK("getattr", v)
    BY DEF ValueOK
  <2> QED BY <2>1, <2>2 DEF ResultOK, Done
<1>3. ASSUME NEW v \in Names \cup {Nil} PROVE ResultOK(Done(f, v), "readlink")
  <2>1. v \in Values
    BY ValueKinds
  <2>2. ValueOK("readlink", v)
    BY DEF ValueOK
  <2> QED BY <2>1, <2>2 DEF ResultOK, Done
<1>4. ResultOK(lstat(f, n), "getattr")
  BY <1>1, <1>2, FailOK, ErrorNames DEF lstat
<1>5. ResultOK(readlink(f, n), "readlink")
  BY <1>1, <1>3, FailOK, ErrorNames DEF readlink
<1> QED BY <1>4, <1>5

\* A path resolves or not.
LEMMA ResolveNames ==
    ASSUME NEW f, NEW n, NEW follow
    PROVE  ResolveErr(f, n, follow) # "OK" => ResolveErr(f, n, follow) \in Errors
BY ErrorNames DEF ResolveErr

\* Calls on the object of a path.
LEMMA AttrOK ==
    ASSUME NEW f \in FS, NEW n \in Names, NEW follow \in BOOLEAN,
           NEW attr \in Attrs, NEW on \in BOOLEAN, NEW op
    PROVE  /\ ResultOK(Probe(f, n), op)
           /\ ResultOK(SetAttr(f, n, attr, follow), op)
           /\ ResultOK(SetXattr(f, n, on, follow), op)
<1>1. ASSUME NEW i PROVE /\ [f EXCEPT !.node[i].attr = attr] \in FS
                         /\ [f EXCEPT !.node[i].xattr = on] \in FS
  <2>1. f.node \in [Inodes -> Node]
    BY FSFacts
  <2>2. i \in Inodes => /\ [f.node[i] EXCEPT !.attr = attr] \in Node
                        /\ [f.node[i] EXCEPT !.xattr = on] \in Node
    BY <2>1 DEF Node
  <2>3. /\ [f.node EXCEPT ![i].attr = attr] \in [Inodes -> Node]
        /\ [f.node EXCEPT ![i].xattr = on] \in [Inodes -> Node]
    BY <2>1, <2>2
  <2> QED BY <2>3 DEF FS
<1> DEFINE i == Resolve(f, n, follow)
           err == ResolveErr(f, n, follow)
<1>2. err # "OK" => err \in Errors
  BY ResolveNames
<1>3. \/ Probe(f, n) = Done(f, Nil)
      \/ ResolveErr(f, n, TRUE) # "OK" /\ Probe(f, n) = Fail(f, ResolveErr(f, n, TRUE))
  BY DEF Probe
<1>4. \/ err # "OK" /\ SetAttr(f, n, attr, follow) = Fail(f, err)
      \/ SetAttr(f, n, attr, follow) \in
           {Fail(f, "EISDIR"), Done([f EXCEPT !.node[i].attr = attr], Nil)}
  BY DEF SetAttr
<1>5. \/ err # "OK" /\ SetXattr(f, n, on, follow) = Fail(f, err)
      \/ SetXattr(f, n, on, follow) \in
           {Fail(f, "ENODATA"), Done([f EXCEPT !.node[i].xattr = on], Nil)}
  BY DEF SetXattr
<1> HIDE DEF i, err
<1>6. ResultOK(Probe(f, n), op)
  BY <1>3, ResolveNames, FailOK, DoneOK
<1>7. ResultOK(SetAttr(f, n, attr, follow), op)
  BY <1>1, <1>2, <1>4, FailOK, DoneOK, ErrorNames
<1>8. ResultOK(SetXattr(f, n, on, follow), op)
  BY <1>1, <1>2, <1>5, FailOK, DoneOK, ErrorNames
<1> QED BY <1>6, <1>7, <1>8

\* getxattr() and listxattr() give a number.
LEMMA XattrOK ==
    ASSUME NEW f \in FS, NEW n \in Names, NEW list \in BOOLEAN
    PROVE  /\ ResultOK(GetXattr(f, n, TRUE, list), "listxattr")
           /\ ResultOK([GetXattr(f, n, TRUE, list) EXCEPT !.val = Nil], "getxattr")
<1> DEFINE err == ResolveErr(f, n, TRUE)
<1>1. err # "OK" => err \in Errors
  BY ResolveNames
<1>2. \/ err # "OK" /\ GetXattr(f, n, TRUE, list) = Fail(f, err)
      \/ GetXattr(f, n, TRUE, list) \in {Done(f, XattrSize), Done(f, 0), Fail(f, "ENODATA")}
  BY DEF GetXattr
<1>3. ASSUME NEW v \in Nat PROVE ResultOK(Done(f, v), "listxattr")
  <2>1. v \in Values
    BY ValueKinds
  <2>2. ValueOK("listxattr", v)
    BY DEF ValueOK
  <2> QED BY <2>1, <2>2 DEF ResultOK, Done
<1>4. ResultOK(GetXattr(f, n, TRUE, list), "listxattr")
  BY <1>1, <1>2, <1>3, FailOK, ErrorNames DEF XattrSize
<1>5. \A e, v : /\ [Fail(f, e) EXCEPT !.val = Nil] = Fail(f, e)
                /\ [Done(f, v) EXCEPT !.val = Nil] = Done(f, Nil)
  BY DEF Fail, Done
<1>6. ResultOK([GetXattr(f, n, TRUE, list) EXCEPT !.val = Nil], "getxattr")
  <2> DEFINE c == GetXattr(f, n, TRUE, list)
             d == [c EXCEPT !.val = Nil]
  <2>1. \/ err # "OK" /\ d = Fail(f, err)
        \/ d = Done(f, Nil)
        \/ d = Fail(f, "ENODATA")
    <3> HIDE DEF c, err
    <3>1. \/ err # "OK" /\ c = Fail(f, err)
          \/ c \in {Done(f, XattrSize), Done(f, 0), Fail(f, "ENODATA")}
      BY <1>2 DEF c, err
    <3> QED BY <3>1, <1>5
  <2> HIDE DEF d, err
  <2>2. ResultOK(d, "getxattr")
    BY <1>1, <2>1, FailOK, DoneOK, ErrorNames
  <2> QED BY <2>2 DEF d
<1> QED BY <1>4, <1>6
----------------------------------------------------------------------------
(* The inductive invariant                                                 *)

\* Locals of a thread and its histories have their types.
LocalTypes(t) ==
    /\ pc[t] \in {"idle", "call", "list", "reply"}
    /\ asked[t] \in Requests \cup {Nil}
    /\ ret[t] \in {"pass", "noop", Nil} \cup Injected
    /\ reply[t] \in Answers \cup {Nil}
    /\ reply[t] # Nil => ValueOK(asked[t].op, reply[t].val)
    /\ todo[t] \in SUBSET Names
    /\ listing[t] \in SUBSET Names
    /\ must[t] \in SUBSET Names
    /\ may[t] \in SUBSET Names
    /\ failed[t] \in BOOLEAN

\* What a thread has to show for the place where it stands.
Stage(t) ==
    /\ pc[t] = "idle" => asked[t] = Nil /\ reply[t] = Nil /\ listing[t] = {}
    /\ pc[t] = "call" => /\ asked[t] \in Requests /\ reply[t] = Nil /\ listing[t] = {}
                         /\ ret[t] \in error_inject(asked[t].op)
    /\ pc[t] = "list" => /\ asked[t] \in Requests /\ reply[t] = Nil
                         /\ ret[t] = "pass" /\ asked[t].op = "readdir"
    /\ pc[t] = "reply" => asked[t] \in Requests /\ reply[t] # Nil

\* A listing in progress has met, or will meet, every name that has been there
\* from its start.
Listing(t) ==
    pc[t] = "list" =>
        /\ must[t] \subseteq Present(fs) /\ Present(fs) \subseteq may[t]
        /\ listing[t] \subseteq may[t]
        /\ ~failed[t] => must[t] \subseteq listing[t] \cup todo[t]

\* One that has come to its end has met them.
Listed(t) ==
    pc[t] = "reply" /\ asked[t].op = "readdir" /\ ret[t] = "pass" /\ reply[t].err = "OK"
    => /\ ~failed[t] => must[t] \subseteq reply[t].val
       /\ reply[t].val \subseteq may[t]

\* The variables are tables over the threads.
Tables ==
    /\ fs \in FS /\ served \in 0 .. MaxRequests
    /\ pc = [t \in Threads |-> pc[t]]
    /\ asked = [t \in Threads |-> asked[t]]
    /\ ret = [t \in Threads |-> ret[t]]
    /\ reply = [t \in Threads |-> reply[t]]
    /\ todo = [t \in Threads |-> todo[t]]
    /\ listing = [t \in Threads |-> listing[t]]
    /\ must = [t \in Threads |-> must[t]]
    /\ may = [t \in Threads |-> may[t]]
    /\ failed = [t \in Threads |-> failed[t]]

ThreadOK(t) == LocalTypes(t) /\ Stage(t) /\ Listing(t) /\ Listed(t)

NInv == Tables /\ \A t \in Threads : ThreadOK(t)

\* The invariant says what the run checks.
LEMMA NInvImplies == NInv => TypeOK /\ ListingComplete
<1> SUFFICES ASSUME NInv PROVE TypeOK /\ ListingComplete
  OBVIOUS
<1>1. \A t \in Threads : ThreadOK(t)
  BY DEF NInv
<1>2. ListingComplete
  BY <1>1 DEF ThreadOK, Listed, ListingComplete
<1>3. ASSUME NEW t \in Threads, reply[t] # Nil
      PROVE  /\ reply[t].err \in Errors \cup {"OK"}
             /\ ValueOK(asked[t].op, reply[t].val)
  <2>1. reply[t] \in Answers /\ ValueOK(asked[t].op, reply[t].val)
    BY <1>1, <1>3 DEF ThreadOK, LocalTypes
  <2> QED BY <2>1 DEF Answers
<1>4. /\ pc \in [Threads -> {"idle", "call", "list", "reply"}]
      /\ asked \in [Threads -> Requests \cup {Nil}]
      /\ ret \in [Threads -> {"pass", "noop", Nil} \cup Injected]
  BY <1>1 DEF NInv, Tables, ThreadOK, LocalTypes
<1>5. /\ todo \in [Threads -> SUBSET Names] /\ listing \in [Threads -> SUBSET Names]
      /\ must \in [Threads -> SUBSET Names] /\ may \in [Threads -> SUBSET Names]
      /\ failed \in [Threads -> BOOLEAN]
  BY <1>1 DEF NInv, Tables, ThreadOK, LocalTypes
<1>6. fs \in FS /\ served \in 0 .. MaxRequests
  BY DEF NInv, Tables
<1>7. TypeOK
  BY <1>3, <1>4, <1>5, <1>6 DEF TypeOK, ValueOK
<1> QED BY <1>2, <1>7

\* No thread has begun.
LEMMA NInit == Init => NInv
<1> SUFFICES ASSUME Init PROVE NInv
  OBVIOUS
<1>1. Tables
  BY NameConstants DEF NameConstants, Init, Tables
<1>2. ASSUME NEW t \in Threads PROVE ThreadOK(t)
  <2>1. LocalTypes(t)
    BY DEF Init, LocalTypes
  <2>2. Stage(t)
    BY DEF Init, Stage
  <2>3. Listing(t) /\ Listed(t)
    BY DEF Init, Listing, Listed
  <2> QED BY <2>1, <2>2, <2>3 DEF ThreadOK
<1> QED BY <1>1, <1>2 DEF NInv

\* Thread t alone has moved: every other one keeps its locals.
OnlyLocals(t) ==
    \A u \in Threads \ {t} :
        /\ pc'[u] = pc[u] /\ asked'[u] = asked[u] /\ ret'[u] = ret[u] /\ reply'[u] = reply[u]
        /\ todo'[u] = todo[u] /\ listing'[u] = listing[u] /\ failed'[u] = failed[u]

\* The other threads see at most a change of the base file system.
LEMMA OthersKeep ==
    ASSUME NInv, NEW t \in Threads, NEW u \in Threads, u # t, OnlyLocals(t),
           \/ fs' = fs /\ must'[u] = must[u] /\ may'[u] = may[u]
           \/ Watch(fs')
    PROVE  ThreadOK(u)'
<1>1. ThreadOK(u)
  BY DEF NInv
<1>2. /\ pc'[u] = pc[u] /\ asked'[u] = asked[u] /\ ret'[u] = ret[u] /\ reply'[u] = reply[u]
      /\ todo'[u] = todo[u] /\ listing'[u] = listing[u] /\ failed'[u] = failed[u]
  BY DEF OnlyLocals
<1>3. Present(fs') \in SUBSET Names
  BY DEF Present
<1>4. /\ pc[u] # "list" => must'[u] = must[u] /\ may'[u] = may[u]
      /\ must'[u] \in SUBSET Names /\ may'[u] \in SUBSET Names
      /\ must'[u] \subseteq must[u] /\ may[u] \subseteq may'[u]
      /\ pc[u] = "list" => must'[u] \subseteq Present(fs') /\ Present(fs') \subseteq may'[u]
  <2>1. must[u] \in SUBSET Names /\ may[u] \in SUBSET Names
    BY <1>1 DEF ThreadOK, LocalTypes
  <2>2. CASE fs' = fs /\ must'[u] = must[u] /\ may'[u] = may[u]
    BY <1>1, <2>1, <2>2 DEF ThreadOK, Listing
  <2>3. CASE Watch(fs')
    <3>1. must'[u] = (IF pc[u] = "list" THEN must[u] \cap Present(fs') ELSE must[u])
      BY <2>3 DEF Watch
    <3>2. may'[u] = (IF pc[u] = "list" THEN may[u] \cup Present(fs') ELSE may[u])
      BY <2>3 DEF Watch
    <3> QED BY <1>3, <2>1, <3>1, <3>2
  <2> QED BY <2>2, <2>3
<1>5. LocalTypes(u)'
  BY <1>1, <1>2, <1>4 DEF ThreadOK, LocalTypes
<1>6. Stage(u)'
  BY <1>1, <1>2 DEF ThreadOK, Stage
<1>7. Listing(u)'
  BY <1>1, <1>2, <1>4 DEF ThreadOK, Listing
<1>8. Listed(u)'
  BY <1>1, <1>2, <1>4 DEF ThreadOK, Listed
<1> QED BY <1>5, <1>6, <1>7, <1>8 DEF ThreadOK

\* A request and the answer of error_inject().
LEMMA ReceiveStep ==
    ASSUME NInv, NEW t \in Threads, NEW r \in Requests, Receive(t, r)
    PROVE  NInv'
<1>1. ThreadOK(t) /\ Tables
  BY DEF NInv
<1>2. PICK a \in error_inject(r.op) : ret' = [ret EXCEPT ![t] = a]
  BY DEF Receive
<1>3. /\ pc[t] = "idle" /\ pc' = [pc EXCEPT ![t] = "call"]
      /\ asked' = [asked EXCEPT ![t] = r]
      /\ served' = served + 1 /\ served < MaxRequests
      /\ UNCHANGED <<fs, reply, todo, listing, must, may, failed>>
  BY DEF Receive
<1>4. Tables'
  <2>1. served' \in 0 .. MaxRequests
    BY <1>1, <1>3, NameConstants DEF NameConstants, Tables
  <2>2. /\ pc' = [u \in Threads |-> pc'[u]] /\ asked' = [u \in Threads |-> asked'[u]]
        /\ ret' = [u \in Threads |-> ret'[u]]
    BY <1>1, <1>2, <1>3 DEF Tables
  <2> QED BY <1>1, <1>3, <2>1, <2>2 DEF Tables
<1>5. /\ pc'[t] = "call" /\ asked'[t] = r /\ ret'[t] = a
      /\ a \in {"pass", "noop", Nil} \cup Injected
  BY <1>1, <1>2, <1>3 DEF Tables, error_inject
<1>6. reply[t] = Nil /\ listing[t] = {}
  BY <1>1, <1>3 DEF ThreadOK, Stage
<1>7. ThreadOK(t)'
  <2>1. LocalTypes(t)'
    BY <1>1, <1>3, <1>5, <1>6 DEF ThreadOK, LocalTypes
  <2>2. Stage(t)'
    BY <1>3, <1>5, <1>6 DEF Stage
  <2>3. Listing(t)' /\ Listed(t)'
    BY <1>5 DEF Listing, Listed
  <2> QED BY <2>1, <2>2, <2>3 DEF ThreadOK
<1>8. OnlyLocals(t)
  BY <1>1, <1>2, <1>3 DEF OnlyLocals, Tables
<1>9. \A u \in Threads \ {t} : ThreadOK(u)'
  BY <1>3, <1>8, OthersKeep
<1> QED BY <1>4, <1>7, <1>9 DEF NInv

\* An answer, whatever it is: the locals of the thread that gives it.
LEMMA AnswerStep ==
    ASSUME NInv, NEW t \in Threads, NEW err \in Errors \cup {"OK"}, NEW val \in Values,
           ValueOK(asked[t].op, val), pc[t] \in {"call", "list"}, Answer(t, err, val),
           UNCHANGED <<asked, ret, todo, listing, served, failed>>,
           fs' \in FS, UNCHANGED <<fs, must, may>> \/ Watch(fs'),
           asked[t].op = "readdir" /\ ret[t] = "pass" /\ err = "OK"
             => /\ must' = must /\ may' = may
                /\ ~failed[t] => must[t] \subseteq val
                /\ val \subseteq may[t]
    PROVE  NInv'
<1> DEFINE y == [err |-> err, val |-> val]
<1>1. ThreadOK(t) /\ Tables
  BY DEF NInv
<1>2. y \in Answers /\ y # Nil /\ y.err = err /\ y.val = val
  <2>1. y \in Answers
    BY DEF Answers
  <2> QED BY <2>1, NameConstants DEF NameConstants
<1>3. pc'[t] = "reply" /\ reply'[t] = y
  BY <1>1 DEF Answer, Tables
<1> HIDE DEF y
<1>4. Tables'
  <2>1. /\ pc' = [u \in Threads |-> pc'[u]] /\ reply' = [u \in Threads |-> reply'[u]]
    BY <1>1 DEF Answer, Tables
  <2>2. must' = [u \in Threads |-> must'[u]] /\ may' = [u \in Threads |-> may'[u]]
    <3>1. CASE UNCHANGED <<fs, must, may>>
      BY <1>1, <3>1 DEF Tables
    <3>2. CASE Watch(fs')
      BY <3>2 DEF Watch
    <3> QED BY <3>1, <3>2
  <2> QED BY <1>1, <2>1, <2>2 DEF Tables
<1>5. must'[t] \in SUBSET Names /\ may'[t] \in SUBSET Names
  <2>1. must[t] \in SUBSET Names /\ may[t] \in SUBSET Names
    BY <1>1 DEF ThreadOK, LocalTypes
  <2>2. CASE UNCHANGED <<fs, must, may>>
    BY <2>1, <2>2
  <2>3. CASE Watch(fs')
    BY <2>1, <2>3 DEF Watch, Present
  <2> QED BY <2>2, <2>3
<1>6. ThreadOK(t)'
  <2>1. asked[t] \in Requests
    BY <1>1 DEF ThreadOK, Stage
  <2>2. LocalTypes(t)'
    BY <1>1, <1>2, <1>3, <1>5 DEF ThreadOK, LocalTypes
  <2>3. Stage(t)'
    BY <1>2, <1>3, <2>1 DEF Stage
  <2>4. Listing(t)' /\ Listed(t)'
    BY <1>2, <1>3 DEF Listing, Listed
  <2> QED BY <2>2, <2>3, <2>4 DEF ThreadOK
<1>7. OnlyLocals(t)
  BY <1>1 DEF OnlyLocals, Answer, Tables
<1>8. \A u \in Threads \ {t} : ThreadOK(u)'
  BY <1>7, OthersKeep
<1> QED BY <1>4, <1>6, <1>8 DEF NInv

\* An injected result in place of the operation.
LEMMA DispatchStep ==
    ASSUME NInv, NEW t \in Threads, Dispatch(t)
    PROVE  NInv'
<1> DEFINE err == IF ret[t] = "noop" THEN "OK" ELSE ret[t]
<1>1. ThreadOK(t) /\ fs \in FS
  BY DEF NInv, Tables
<1>2. /\ pc[t] = "call" /\ ret[t] # "pass" /\ Answer(t, err, Nil)
      /\ UNCHANGED <<fs, asked, ret, todo, listing, served, must, may, failed>>
  BY DEF Dispatch
<1>3. err \in Errors \cup {"OK"}
  BY <1>1, <1>2 DEF ThreadOK, Stage, error_inject, Errors
<1> HIDE DEF err
<1>4. Nil \in Values /\ ValueOK(asked[t].op, Nil)
  BY NoValueOK
<1> QED BY <1>1, <1>2, <1>3, <1>4, AnswerStep

\* A handler with one system call.
LEMMA HandlerStep ==
    ASSUME NInv, NEW t \in Threads, NEW op \in NamedOps \ {"readdir"}, NEW c,
           ResultOK(c, op), Handler(t, op, c)
    PROVE  NInv'
<1>1. /\ pc[t] = "call" /\ asked[t].op = op /\ fs' = c.fs /\ Watch(fs')
      /\ Answer(t, c.err, c.val)
      /\ UNCHANGED <<asked, ret, todo, listing, served, failed>>
  BY DEF Handler
<1>2. /\ c.err \in Errors \cup {"OK"} /\ c.val \in Values
      /\ ValueOK(asked[t].op, c.val) /\ fs' \in FS
  BY <1>1 DEF ResultOK
<1> QED BY <1>1, <1>2, AnswerStep

\* opendir(): the listing begins with what is there.
LEMMA OpenStep ==
    ASSUME NInv, NEW t \in Threads, readdir_open(t)
    PROVE  NInv'
<1>1. ThreadOK(t) /\ Tables
  BY DEF NInv
<1>2. /\ pc[t] = "call" /\ ret[t] = "pass" /\ asked[t].op = "readdir"
      /\ UNCHANGED <<fs, asked, ret, listing, served, failed>>
  BY DEF readdir_open
<1>3. CASE /\ pc' = [pc EXCEPT ![t] = "list"]
           /\ todo' = [todo EXCEPT ![t] = Names]
           /\ must' = [must EXCEPT ![t] = Present(fs)]
           /\ may' = [may EXCEPT ![t] = Present(fs)]
           /\ UNCHANGED reply
  <2>1. /\ pc'[t] = "list" /\ todo'[t] = Names
        /\ must'[t] = Present(fs) /\ may'[t] = Present(fs)
    BY <1>1, <1>3 DEF Tables
  <2>2. Tables'
    BY <1>1, <1>2, <1>3 DEF Tables
  <2>3. Present(fs) \in SUBSET Names
    BY DEF Present
  <2>4. LocalTypes(t)'
    BY <1>1, <1>2, <1>3, <2>1, <2>3 DEF ThreadOK, LocalTypes
  <2>5. Stage(t)'
    BY <1>1, <1>2, <1>3, <2>1 DEF ThreadOK, Stage
  <2>6. Listing(t)'
    BY <1>1, <1>2, <2>1, <2>3 DEF ThreadOK, Stage, Listing
  <2>7. Listed(t)'
    BY <2>1 DEF Listed
  <2>8. OnlyLocals(t) /\ \A u \in Threads \ {t} : must'[u] = must[u] /\ may'[u] = may[u]
    BY <1>1, <1>2, <1>3 DEF OnlyLocals, Tables
  <2>9. \A u \in Threads \ {t} : ThreadOK(u)'
    BY <1>2, <2>8, OthersKeep
  <2> QED BY <2>2, <2>4, <2>5, <2>6, <2>7, <2>9 DEF NInv, ThreadOK
<1>4. CASE Answer(t, "EMFILE", Nil) /\ UNCHANGED <<todo, must, may>>
  <2>1. Nil \in Values /\ ValueOK(asked[t].op, Nil) /\ "EMFILE" \in Errors /\ fs \in FS
    BY <1>1, NoValueOK, ErrorNames DEF Tables
  <2> QED BY <1>2, <1>4, <2>1, AnswerStep
<1> QED BY <1>3, <1>4 DEF readdir_open

\* A turn of the loop moves a name from what is to come to what is listed, or
\* drops one that has gone.
LEMMA TurnStep ==
    ASSUME NInv, NEW t \in Threads, readdir_next(t)
    PROVE  NInv'
<1>1. ThreadOK(t) /\ Tables
  BY DEF NInv
<1>2. pc[t] = "list" /\ UNCHANGED <<fs, asked, ret, served, must, may>>
  BY DEF readdir_next
<1>3. PICK n \in todo[t] :
        \/ fs.ino[n] # Nil /\ Fill(t, n)
        \/ /\ fs.ino[n] = Nil
           /\ todo' = [todo EXCEPT ![t] = @ \ {n}]
           /\ UNCHANGED <<pc, reply, listing, failed>>
        \/ /\ todo' = [todo EXCEPT ![t] = {}]
           /\ failed' = [failed EXCEPT ![t] = TRUE]
           /\ UNCHANGED <<pc, reply, listing>>
  BY DEF readdir_next
<1>4. /\ n \in Names /\ todo[t] \in SUBSET Names /\ listing[t] \in SUBSET Names
      /\ must[t] \subseteq Present(fs) /\ Present(fs) \subseteq may[t]
      /\ listing[t] \subseteq may[t]
      /\ ~failed[t] => must[t] \subseteq listing[t] \cup todo[t]
  BY <1>1, <1>2 DEF ThreadOK, LocalTypes, Listing
<1>5. ASSUME pc' = pc, reply' = reply,
             todo' = [u \in Threads |-> todo'[u]],
             listing' = [u \in Threads |-> listing'[u]],
             failed' = [u \in Threads |-> failed'[u]],
             \A u \in Threads \ {t} : /\ todo'[u] = todo[u] /\ listing'[u] = listing[u]
                                      /\ failed'[u] = failed[u],
             todo'[t] \in SUBSET Names, failed'[t] \in BOOLEAN,
             listing'[t] \in SUBSET Names, listing'[t] \subseteq may[t],
             ~failed'[t] => must[t] \subseteq listing'[t] \cup todo'[t]
      PROVE  NInv'
  <2>1. Tables'
    BY <1>1, <1>2, <1>5 DEF Tables
  <2>2. LocalTypes(t)'
    BY <1>1, <1>2, <1>5 DEF ThreadOK, LocalTypes
  <2>3. Stage(t)'
    BY <1>1, <1>2, <1>5 DEF ThreadOK, Stage
  <2>4. Listing(t)'
    BY <1>2, <1>4, <1>5 DEF Listing
  <2>5. Listed(t)'
    BY <1>2, <1>5 DEF Listed
  <2>6. OnlyLocals(t)
    BY <1>2, <1>5 DEF OnlyLocals
  <2>7. \A u \in Threads \ {t} : ThreadOK(u)'
    BY <1>2, <2>6, OthersKeep
  <2> QED BY <2>1, <2>2, <2>3, <2>4, <2>5, <2>7 DEF NInv, ThreadOK
<1>6. CASE /\ fs.ino[n] # Nil
           /\ listing' = [listing EXCEPT ![t] = @ \cup {n}]
           /\ todo' = [todo EXCEPT ![t] = @ \ {n}]
           /\ UNCHANGED <<pc, reply, failed>>
  <2>1. n \in Present(fs)
    BY <1>4, <1>6 DEF Present
  <2>2. listing'[t] = listing[t] \cup {n} /\ todo'[t] = todo[t] \ {n}
    BY <1>1, <1>6 DEF Tables
  <2>3. /\ todo' = [u \in Threads |-> todo'[u]] /\ listing' = [u \in Threads |-> listing'[u]]
        /\ failed' = [u \in Threads |-> failed'[u]] /\ failed'[t] \in BOOLEAN
        /\ \A u \in Threads \ {t} : /\ todo'[u] = todo[u] /\ listing'[u] = listing[u]
                                    /\ failed'[u] = failed[u]
    BY <1>1, <1>6 DEF Tables, ThreadOK, LocalTypes
  <2>4. /\ todo'[t] \in SUBSET Names /\ listing'[t] \in SUBSET Names
        /\ listing'[t] \subseteq may[t]
        /\ ~failed'[t] => must[t] \subseteq listing'[t] \cup todo'[t]
    BY <1>4, <1>6, <2>1, <2>2
  <2> QED BY <1>5, <1>6, <2>3, <2>4
<1>7. CASE Answer(t, "ENOMEM", Nil) /\ UNCHANGED <<listing, todo, failed>>
  <2>1. Nil \in Values /\ ValueOK(asked[t].op, Nil) /\ "ENOMEM" \in Errors /\ fs \in FS
    BY <1>1, NoValueOK, ErrorNames DEF Tables
  <2> QED BY <1>2, <1>7, <2>1, AnswerStep
<1>8. CASE /\ fs.ino[n] = Nil
           /\ todo' = [todo EXCEPT ![t] = @ \ {n}]
           /\ UNCHANGED <<pc, reply, listing, failed>>
  <2>1. n \notin must[t]
    BY <1>4, <1>8 DEF Present
  <2>2. todo'[t] = todo[t] \ {n}
    BY <1>1, <1>8 DEF Tables
  <2>3. /\ todo' = [u \in Threads |-> todo'[u]] /\ listing' = [u \in Threads |-> listing'[u]]
        /\ failed' = [u \in Threads |-> failed'[u]] /\ failed'[t] \in BOOLEAN
        /\ \A u \in Threads \ {t} : /\ todo'[u] = todo[u] /\ listing'[u] = listing[u]
                                    /\ failed'[u] = failed[u]
    BY <1>1, <1>8 DEF Tables, ThreadOK, LocalTypes
  <2>4. /\ todo'[t] \in SUBSET Names /\ listing'[t] \in SUBSET Names
        /\ listing'[t] \subseteq may[t]
        /\ ~failed'[t] => must[t] \subseteq listing'[t] \cup todo'[t]
    BY <1>4, <1>8, <2>1, <2>2
  <2> QED BY <1>5, <1>8, <2>3, <2>4
<1>9. CASE /\ todo' = [todo EXCEPT ![t] = {}]
           /\ failed' = [failed EXCEPT ![t] = TRUE]
           /\ UNCHANGED <<pc, reply, listing>>
  <2>1. todo'[t] = {} /\ failed'[t] = TRUE
    BY <1>1, <1>9 DEF Tables
  <2>2. /\ todo' = [u \in Threads |-> todo'[u]] /\ listing' = [u \in Threads |-> listing'[u]]
        /\ failed' = [u \in Threads |-> failed'[u]]
        /\ \A u \in Threads \ {t} : /\ todo'[u] = todo[u] /\ listing'[u] = listing[u]
                                    /\ failed'[u] = failed[u]
    BY <1>1, <1>9 DEF Tables
  <2> QED BY <1>4, <1>5, <1>9, <2>1, <2>2
<1> QED BY <1>3, <1>6, <1>7, <1>8, <1>9 DEF Fill

\* closedir(): every name was met.
LEMMA CloseStep ==
    ASSUME NInv, NEW t \in Threads, readdir_close(t)
    PROVE  NInv'
<1>1. ThreadOK(t) /\ fs \in FS
  BY DEF NInv, Tables
<1>2. /\ pc[t] = "list" /\ todo[t] = {} /\ Answer(t, "OK", listing[t])
      /\ UNCHANGED <<fs, asked, ret, todo, listing, served, must, may, failed>>
  BY DEF readdir_close
<1>3. asked[t].op = "readdir" /\ listing[t] \in SUBSET Names
  BY <1>1, <1>2 DEF ThreadOK, Stage, LocalTypes
<1>4. listing[t] \in Values
  BY <1>3, ValueKinds
<1>5. ValueOK(asked[t].op, listing[t])
  BY <1>3 DEF ValueOK
<1>6. /\ ~failed[t] => must[t] \subseteq listing[t]
      /\ listing[t] \subseteq may[t]
  BY <1>1, <1>2 DEF ThreadOK, Listing
<1> QED BY <1>1, <1>2, <1>4, <1>5, <1>6, AnswerStep

\* The answer is passed on.
LEMMA ReturnStep ==
    ASSUME NInv, NEW t \in Threads, Return(t)
    PROVE  NInv'
<1>1. ThreadOK(t) /\ Tables
  BY DEF NInv
<1>2. Tables'
  BY <1>1 DEF Return, Tables
<1>3. /\ pc'[t] = "idle" /\ asked'[t] = Nil /\ ret'[t] = Nil /\ reply'[t] = Nil
      /\ todo'[t] = {} /\ listing'[t] = {} /\ must'[t] = {} /\ may'[t] = {}
      /\ failed'[t] = FALSE
  BY <1>1 DEF Return, Tables
<1>4. LocalTypes(t)'
  BY <1>3 DEF LocalTypes
<1>5. Stage(t)' /\ Listing(t)' /\ Listed(t)'
  BY <1>3 DEF Stage, Listing, Listed
<1>6. OnlyLocals(t) /\ \A u \in Threads \ {t} : must'[u] = must[u] /\ may'[u] = may[u]
  BY <1>1 DEF Return, OnlyLocals, Tables
<1>7. \A u \in Threads \ {t} : ThreadOK(u)'
  BY <1>6, OthersKeep DEF Return
<1> QED BY <1>2, <1>4, <1>5, <1>7 DEF NInv, ThreadOK
----------------------------------------------------------------------------
(* What each handler calls                                                 *)

\* The calls of the base file system that the promise names are those that the
\* handlers make.
LEMMA SameCalls ==
    ASSUME NEW f, NEW n, NEW m, NEW kind, NEW to, NEW attr, NEW on, NEW follow, NEW list
    PROVE  /\ AsCalled!lstat(f, n) = lstat(f, n)
           /\ AsCalled!readlink(f, n) = readlink(f, n)
           /\ AsCalled!Make(f, n, kind, to) = Make(f, n, kind, to)
           /\ AsCalled!unlink(f, n) = unlink(f, n)
           /\ AsCalled!rmdir(f, n) = rmdir(f, n)
           /\ AsCalled!rename(f, n, m) = rename(f, n, m)
           /\ AsCalled!link(f, n, m) = link(f, n, m)
           /\ AsCalled!Probe(f, n) = Probe(f, n)
           /\ AsCalled!SetAttr(f, n, attr, follow) = SetAttr(f, n, attr, follow)
           /\ AsCalled!SetXattr(f, n, on, follow) = SetXattr(f, n, on, follow)
           /\ AsCalled!GetXattr(f, n, follow, list) = GetXattr(f, n, follow, list)
<1> USE DEF AsCalled!Fail, Fail, AsCalled!Done, Done, AsCalled!KindAt, KindAt,
            AsCalled!IsLink, IsLink
<1>1. AsCalled!lstat(f, n) = lstat(f, n)
  BY DEF AsCalled!lstat, lstat
<1>2. AsCalled!readlink(f, n) = readlink(f, n)
  BY DEF AsCalled!readlink, readlink
<1>3. AsCalled!Make(f, n, kind, to) = Make(f, n, kind, to)
  BY DEF AsCalled!Make, Make, AsCalled!With, With, AsCalled!Blank, Blank
<1>4. AsCalled!unlink(f, n) = unlink(f, n) /\ AsCalled!rmdir(f, n) = rmdir(f, n)
  BY DEF AsCalled!unlink, unlink, AsCalled!rmdir, rmdir, AsCalled!Without, Without,
         AsCalled!Blank, Blank
<1>5. AsCalled!rename(f, n, m) = rename(f, n, m) /\ AsCalled!link(f, n, m) = link(f, n, m)
  BY DEF AsCalled!rename, rename, AsCalled!link, link, AsCalled!With, With,
         AsCalled!Without, Without, AsCalled!Blank, Blank
<1> USE DEF AsCalled!ResolveErr, ResolveErr, AsCalled!Resolve, Resolve
<1>6. AsCalled!Probe(f, n) = Probe(f, n)
  BY DEF AsCalled!Probe, Probe
<1>7. AsCalled!SetAttr(f, n, attr, follow) = SetAttr(f, n, attr, follow)
  BY DEF AsCalled!SetAttr, SetAttr
<1>8. AsCalled!SetXattr(f, n, on, follow) = SetXattr(f, n, on, follow)
  BY DEF AsCalled!SetXattr, SetXattr
<1>9. AsCalled!GetXattr(f, n, follow, list) = GetXattr(f, n, follow, list)
  BY DEF AsCalled!GetXattr, GetXattr, AsCalled!XattrSize, XattrSize
<1> QED BY <1>1, <1>2, <1>3, <1>4, <1>5, <1>6, <1>7, <1>8, <1>9

\* The result c of the system call of a handler of op is well formed and, except
\* where less is promised, what the request r means.
Means(c, op, r) ==
    /\ ResultOK(c, op)
    /\ r.op = op =>
         \E follow \in BOOLEAN :
            LET m == AsCalled!Meaning(fs, r, follow) IN
            /\ follow => op \in {"chown", "setxattr", "getxattr", "listxattr", "removexattr"}
            /\ c.fs = m.fs /\ c.err = m.err
            /\ c.val = m.val \/ (op = "getxattr" /\ c.val = Nil)

\* A call whose result is the meaning itself.
LEMMA MeansDirectly ==
    ASSUME NEW c, NEW op, NEW r, NEW follow \in BOOLEAN, ResultOK(c, op),
           r.op = op => c = AsCalled!Meaning(fs, r, follow),
           follow => op \in {"chown", "setxattr", "getxattr", "listxattr", "removexattr"}
    PROVE  Means(c, op, r)
BY DEF Means

\* Each handler makes the call that its request means.
LEMMA CallsMean ==
    ASSUME NEW r \in Requests, fs \in FS
    PROVE
      /\ Means(lstat(fs, r.path), "getattr", r)
      /\ Means(readlink(fs, r.path), "readlink", r)
      /\ Means(Make(fs, r.path, "file", Nil), "mknod", r)
      /\ Means(Make(fs, r.path, "dir", Nil), "mkdir", r)
      /\ Means(unlink(fs, r.path), "unlink", r)
      /\ Means(rmdir(fs, r.path), "rmdir", r)
      /\ r.new \in Names => Means(Make(fs, r.new, "link", r.path), "symlink", r)
      /\ r.new \in Names => Means(rename(fs, r.path, r.new), "rename", r)
      /\ r.new \in Names => Means(link(fs, r.path, r.new), "link", r)
      /\ Means(SetAttr(fs, r.path, "mode", TRUE), "chmod", r)
      /\ Means(SetAttr(fs, r.path, "owner", TRUE), "chown", r)
      /\ Means(SetAttr(fs, r.path, "size", TRUE), "truncate", r)
      /\ Means(Probe(fs, r.path), "statfs", r)
      /\ Means(Probe(fs, r.path), "access", r)
      /\ Means(SetAttr(fs, r.path, "times", FALSE), "utimens", r)
      /\ Means(SetXattr(fs, r.path, TRUE, TRUE), "setxattr", r)
      /\ Means(SetXattr(fs, r.path, FALSE, TRUE), "removexattr", r)
      /\ Means(GetXattr(fs, r.path, TRUE, TRUE), "listxattr", r)
      /\ Means([GetXattr(fs, r.path, TRUE, FALSE) EXCEPT !.val = Nil], "getxattr", r)
<1>0. /\ r.path \in Names /\ Nil \in Names \cup {Nil}
      /\ "file" \in Kinds /\ "dir" \in Kinds /\ "link" \in Kinds
      /\ "mode" \in Attrs /\ "owner" \in Attrs /\ "size" \in Attrs /\ "times" \in Attrs
  BY NameConstants DEF NameConstants, Request, Kinds, Attrs
<1>1. Means(lstat(fs, r.path), "getattr", r)
  <2>1. ResultOK(lstat(fs, r.path), "getattr")
    BY <1>0, LookOK
  <2>2. r.op = "getattr" => lstat(fs, r.path) = AsCalled!Meaning(fs, r, FALSE)
    BY SameCalls DEF AsCalled!Meaning
  <2> QED BY <2>1, <2>2, MeansDirectly
<1>2. Means(readlink(fs, r.path), "readlink", r)
  <2>1. ResultOK(readlink(fs, r.path), "readlink")
    BY <1>0, LookOK
  <2>2. r.op = "readlink" => readlink(fs, r.path) = AsCalled!Meaning(fs, r, FALSE)
    BY SameCalls DEF AsCalled!Meaning
  <2> QED BY <2>1, <2>2, MeansDirectly
<1>3. Means(Make(fs, r.path, "file", Nil), "mknod", r)
  <2>1. ResultOK(Make(fs, r.path, "file", Nil), "mknod")
    BY <1>0, MakeOK
  <2>2. r.op = "mknod" => Make(fs, r.path, "file", Nil) = AsCalled!Meaning(fs, r, FALSE)
    BY SameCalls DEF AsCalled!Meaning
  <2> QED BY <2>1, <2>2, MeansDirectly
<1>4. Means(Make(fs, r.path, "dir", Nil), "mkdir", r)
  <2>1. ResultOK(Make(fs, r.path, "dir", Nil), "mkdir")
    BY <1>0, MakeOK
  <2>2. r.op = "mkdir" => Make(fs, r.path, "dir", Nil) = AsCalled!Meaning(fs, r, FALSE)
    BY SameCalls DEF AsCalled!Meaning
  <2> QED BY <2>1, <2>2, MeansDirectly
<1>5. Means(unlink(fs, r.path), "unlink", r)
  <2>1. ResultOK(unlink(fs, r.path), "unlink")
    BY <1>0, RemoveOK
  <2>2. r.op = "unlink" => unlink(fs, r.path) = AsCalled!Meaning(fs, r, FALSE)
    BY SameCalls DEF AsCalled!Meaning
  <2> QED BY <2>1, <2>2, MeansDirectly
<1>6. Means(rmdir(fs, r.path), "rmdir", r)
  <2>1. ResultOK(rmdir(fs, r.path), "rmdir")
    BY <1>0, RemoveOK
  <2>2. r.op = "rmdir" => rmdir(fs, r.path) = AsCalled!Meaning(fs, r, FALSE)
    BY SameCalls DEF AsCalled!Meaning
  <2> QED BY <2>1, <2>2, MeansDirectly
<1>7. r.new \in Names => Means(Make(fs, r.new, "link", r.path), "symlink", r)
  <2>1. r.new \in Names => ResultOK(Make(fs, r.new, "link", r.path), "symlink")
    BY <1>0, MakeOK
  <2>2. r.op = "symlink" => Make(fs, r.new, "link", r.path) = AsCalled!Meaning(fs, r, FALSE)
    BY SameCalls DEF AsCalled!Meaning
  <2> QED BY <2>1, <2>2, MeansDirectly
<1>8. r.new \in Names => Means(rename(fs, r.path, r.new), "rename", r)
  <2>1. r.new \in Names => ResultOK(rename(fs, r.path, r.new), "rename")
    BY <1>0, TwoNamesOK
  <2>2. r.op = "rename" => rename(fs, r.path, r.new) = AsCalled!Meaning(fs, r, FALSE)
    BY SameCalls DEF AsCalled!Meaning
  <2> QED BY <2>1, <2>2, MeansDirectly
<1>9. r.new \in Names => Means(link(fs, r.path, r.new), "link", r)
  <2>1. r.new \in Names => ResultOK(link(fs, r.path, r.new), "link")
    BY <1>0, TwoNamesOK
  <2>2. r.op = "link" => link(fs, r.path, r.new) = AsCalled!Meaning(fs, r, FALSE)
    BY SameCalls DEF AsCalled!Meaning
  <2> QED BY <2>1, <2>2, MeansDirectly
<1>10. Means(SetAttr(fs, r.path, "mode", TRUE), "chmod", r)
  <2>1. ResultOK(SetAttr(fs, r.path, "mode", TRUE), "chmod")
    BY <1>0, AttrOK
  <2>2. r.op = "chmod" => SetAttr(fs, r.path, "mode", TRUE) = AsCalled!Meaning(fs, r, FALSE)
    BY SameCalls DEF AsCalled!Meaning
  <2> QED BY <2>1, <2>2, MeansDirectly
<1>11. Means(SetAttr(fs, r.path, "owner", TRUE), "chown", r)
  <2>1. ResultOK(SetAttr(fs, r.path, "owner", TRUE), "chown")
    BY <1>0, AttrOK
  <2>2. r.op = "chown" => SetAttr(fs, r.path, "owner", TRUE) = AsCalled!Meaning(fs, r, TRUE)
    BY SameCalls DEF AsCalled!Meaning
  <2> QED BY <2>1, <2>2, MeansDirectly
<1>12. Means(SetAttr(fs, r.path, "size", TRUE), "truncate", r)
  <2>1. ResultOK(SetAttr(fs, r.path, "size", TRUE), "truncate")
    BY <1>0, AttrOK
  <2>2. r.op = "truncate" => SetAttr(fs, r.path, "size", TRUE) = AsCalled!Meaning(fs, r, FALSE)
    BY SameCalls DEF AsCalled!Meaning
  <2> QED BY <2>1, <2>2, MeansDirectly
<1>13. Means(Probe(fs, r.path), "statfs", r)
  <2>1. ResultOK(Probe(fs, r.path), "statfs")
    BY <1>0, AttrOK
  <2>2. r.op = "statfs" => Probe(fs, r.path) = AsCalled!Meaning(fs, r, FALSE)
    BY SameCalls DEF AsCalled!Meaning
  <2> QED BY <2>1, <2>2, MeansDirectly
<1>14. Means(Probe(fs, r.path), "access", r)
  <2>1. ResultOK(Probe(fs, r.path), "access")
    BY <1>0, AttrOK
  <2>2. r.op = "access" => Probe(fs, r.path) = AsCalled!Meaning(fs, r, FALSE)
    BY SameCalls DEF AsCalled!Meaning
  <2> QED BY <2>1, <2>2, MeansDirectly
<1>15. Means(SetAttr(fs, r.path, "times", FALSE), "utimens", r)
  <2>1. ResultOK(SetAttr(fs, r.path, "times", FALSE), "utimens")
    BY <1>0, AttrOK
  <2>2. r.op = "utimens" => SetAttr(fs, r.path, "times", FALSE) = AsCalled!Meaning(fs, r, FALSE)
    BY SameCalls DEF AsCalled!Meaning
  <2> QED BY <2>1, <2>2, MeansDirectly
<1>16. Means(SetXattr(fs, r.path, TRUE, TRUE), "setxattr", r)
  <2>1. ResultOK(SetXattr(fs, r.path, TRUE, TRUE), "setxattr")
    BY <1>0, AttrOK
  <2>2. r.op = "setxattr" => SetXattr(fs, r.path, TRUE, TRUE) = AsCalled!Meaning(fs, r, TRUE)
    BY SameCalls DEF AsCalled!Meaning
  <2> QED BY <2>1, <2>2, MeansDirectly
<1>17. Means(SetXattr(fs, r.path, FALSE, TRUE), "removexattr", r)
  <2>1. ResultOK(SetXattr(fs, r.path, FALSE, TRUE), "removexattr")
    BY <1>0, AttrOK
  <2>2. r.op = "removexattr" => SetXattr(fs, r.path, FALSE, TRUE) = AsCalled!Meaning(fs, r, TRUE)
    BY SameCalls DEF AsCalled!Meaning
  <2> QED BY <2>1, <2>2, MeansDirectly
<1>18. Means(GetXattr(fs, r.path, TRUE, TRUE), "listxattr", r)
  <2>1. ResultOK(GetXattr(fs, r.path, TRUE, TRUE), "listxattr")
    BY <1>0, XattrOK
  <2>2. r.op = "listxattr" => GetXattr(fs, r.path, TRUE, TRUE) = AsCalled!Meaning(fs, r, TRUE)
    BY SameCalls DEF AsCalled!Meaning
  <2> QED BY <2>1, <2>2, MeansDirectly
<1>19. Means([GetXattr(fs, r.path, TRUE, FALSE) EXCEPT !.val = Nil], "getxattr", r)
  <2> DEFINE c == GetXattr(fs, r.path, TRUE, FALSE)
             d == [c EXCEPT !.val = Nil]
  <2>1. ResultOK(d, "getxattr")
    BY <1>0, XattrOK
  <2>2. r.op = "getxattr" => c = AsCalled!Meaning(fs, r, TRUE)
    BY SameCalls DEF AsCalled!Meaning
  <2>3. d.fs = c.fs /\ d.err = c.err /\ d.val = Nil
    BY DEF GetXattr, Fail, Done
  <2> HIDE DEF c, d
  <2>4. Means(d, "getxattr", r)
    BY <2>1, <2>2, <2>3 DEF Means
  <2> QED BY <2>4 DEF c, d
<1> QED BY <1>1, <1>2, <1>3, <1>4, <1>5, <1>6, <1>7, <1>8, <1>9, <1>10, <1>11, <1>12, <1>13, <1>14, <1>15, <1>16, <1>17, <1>18, <1>19
----------------------------------------------------------------------------
(* Every step keeps the invariant and is a step of the promise             *)

\* A handler that makes its call redirects the request.
LEMMA Redirected ==
    ASSUME NInv, NEW t \in Threads, NEW op \in NamedOps \ {"readdir"}, NEW c,
           Means(c, op, asked[t]), Handler(t, op, c)
    PROVE  NInv' /\ AsCalled!Next
<1>1. /\ pc[t] = "call" /\ asked[t].op = op /\ fs' = c.fs /\ asked' = asked
      /\ reply' = [reply EXCEPT ![t] = [err |-> c.err, val |-> c.val]]
  BY DEF Handler, Answer
<1>2. asked[t] \in Requests /\ reply[t] = Nil /\ asked[t] # Nil
  BY <1>1, NameConstants DEF NameConstants, NInv, ThreadOK, Stage
<1>3. NInv'
  BY HandlerStep DEF Means
<1>4. PICK follow \in BOOLEAN :
        LET m == AsCalled!Meaning(fs, asked[t], follow) IN
        /\ follow => op \in {"chown", "setxattr", "getxattr", "listxattr", "removexattr"}
        /\ c.fs = m.fs /\ c.err = m.err
        /\ c.val = m.val \/ (op = "getxattr" /\ c.val = Nil)
  BY <1>1 DEF Means
<1> DEFINE m == AsCalled!Meaning(fs, asked[t], follow)
<1>5. c.fs = m.fs /\ c.err = m.err /\ (c.val = m.val \/ (op = "getxattr" /\ c.val = Nil))
  BY <1>4
<1>6. AsCalled!Answer(t, c.err, c.val)
  BY <1>1, <1>2 DEF AsCalled!Answer
<1> HIDE DEF m
<1>7. /\ fs' = m.fs
      /\ AsCalled!Answer(t, m.err, m.val)
           \/ (asked[t].op \in {"getxattr"} /\ AsCalled!Answer(t, m.err, Nil))
  BY <1>1, <1>5, <1>6
<1>8. AsCalled!Redirect(t)
  BY <1>1, <1>4, <1>7 DEF AsCalled!Redirect, m
<1> QED BY <1>2, <1>3, <1>8 DEF AsCalled!Next

\* The handlers with one call.
LEMMA CallSteps ==
    ASSUME NInv, NEW t \in Threads,
           \/ getattr(t) \/ Readlink(t) \/ mknod(t) \/ mkdir(t) \/ Unlink(t) \/ Rmdir(t) \/ symlink(t)
           \/ Rename(t) \/ Link(t) \/ chmod(t) \/ chown(t) \/ truncate(t) \/ statfs(t)
           \/ access(t) \/ utimens(t) \/ setxattr(t) \/ getxattr(t) \/ listxattr(t) \/ removexattr(t)
    PROVE  NInv' /\ AsCalled!Next
<1>1. fs \in FS /\ ThreadOK(t)
  BY DEF NInv, Tables
<1>2. pc[t] = "call"
  BY DEF getattr, Readlink, mknod, mkdir, Unlink, Rmdir, symlink, Rename, Link, chmod, chown, truncate, statfs, access, utimens, setxattr, getxattr, listxattr, removexattr, Handler
<1>3. asked[t] \in Requests
  BY <1>1, <1>2 DEF ThreadOK, Stage
<1>4. asked[t].op \in TwoPaths => asked[t].new \in Names
  BY <1>3, NameConstants DEF NameConstants
<1> USE DEF Path, New
<1>5. CASE getattr(t)
  BY <1>1, <1>3, <1>5, CallsMean, Redirected DEF getattr, NamedOps
<1>6. CASE Readlink(t)
  BY <1>1, <1>3, <1>6, CallsMean, Redirected DEF Readlink, NamedOps
<1>7. CASE mknod(t)
  BY <1>1, <1>3, <1>7, CallsMean, Redirected DEF mknod, NamedOps
<1>8. CASE mkdir(t)
  BY <1>1, <1>3, <1>8, CallsMean, Redirected DEF mkdir, NamedOps
<1>9. CASE Unlink(t)
  BY <1>1, <1>3, <1>9, CallsMean, Redirected DEF Unlink, NamedOps
<1>10. CASE Rmdir(t)
  BY <1>1, <1>3, <1>10, CallsMean, Redirected DEF Rmdir, NamedOps
<1>11. CASE symlink(t)
  <2>1. asked[t].new \in Names
    BY <1>4, <1>11 DEF symlink, Handler, TwoPaths
  <2> QED BY <1>1, <1>3, <1>11, <2>1, CallsMean, Redirected DEF symlink, NamedOps
<1>12. CASE Rename(t)
  <2>1. asked[t].new \in Names
    BY <1>4, <1>12 DEF Rename, Handler, TwoPaths
  <2> QED BY <1>1, <1>3, <1>12, <2>1, CallsMean, Redirected DEF Rename, NamedOps
<1>13. CASE Link(t)
  <2>1. asked[t].new \in Names
    BY <1>4, <1>13 DEF Link, Handler, TwoPaths
  <2> QED BY <1>1, <1>3, <1>13, <2>1, CallsMean, Redirected DEF Link, NamedOps
<1>14. CASE chmod(t)
  BY <1>1, <1>3, <1>14, CallsMean, Redirected DEF chmod, NamedOps
<1>15. CASE chown(t)
  BY <1>1, <1>3, <1>15, CallsMean, Redirected DEF chown, NamedOps
<1>16. CASE truncate(t)
  BY <1>1, <1>3, <1>16, CallsMean, Redirected DEF truncate, NamedOps
<1>17. CASE statfs(t)
  BY <1>1, <1>3, <1>17, CallsMean, Redirected DEF statfs, NamedOps
<1>18. CASE access(t)
  BY <1>1, <1>3, <1>18, CallsMean, Redirected DEF access, NamedOps
<1>19. CASE utimens(t)
  BY <1>1, <1>3, <1>19, CallsMean, Redirected DEF utimens, NamedOps
<1>20. CASE setxattr(t)
  BY <1>1, <1>3, <1>20, CallsMean, Redirected DEF setxattr, NamedOps
<1>21. CASE getxattr(t)
  BY <1>1, <1>3, <1>21, CallsMean, Redirected DEF getxattr, NamedOps
<1>22. CASE listxattr(t)
  BY <1>1, <1>3, <1>22, CallsMean, Redirected DEF listxattr, NamedOps
<1>23. CASE removexattr(t)
  BY <1>1, <1>3, <1>23, CallsMean, Redirected DEF removexattr, NamedOps
<1> QED BY <1>5, <1>6, <1>7, <1>8, <1>9, <1>10, <1>11, <1>12, <1>13, <1>14, <1>15, <1>16, <1>17, <1>18, <1>19, <1>20, <1>21, <1>22, <1>23

\* Every step, by the handler it belongs to.
LEMMA Simulation == NInv /\ [Next]_vars => NInv' /\ [AsCalled!Next]_(AsCalled!vars)
<1> SUFFICES ASSUME NInv, [Next]_vars PROVE NInv' /\ [AsCalled!Next]_(AsCalled!vars)
  OBVIOUS
<1>0. Tables /\ \A t \in Threads : ThreadOK(t)
  BY DEF NInv
<1>1. ASSUME NEW t \in Threads, NEW r \in Requests, Receive(t, r)
      PROVE  NInv' /\ AsCalled!Next
  <2>1. asked[t] = Nil
    BY <1>0, <1>1 DEF Receive, ThreadOK, Stage
  <2>2. AsCalled!Ask(t, r)
    BY <1>1, <2>1 DEF Receive, AsCalled!Ask
  <2> QED BY <1>1, <2>2, ReceiveStep DEF AsCalled!Next
<1>2. ASSUME NEW t \in Threads, Dispatch(t) PROVE NInv' /\ AsCalled!Next
  <2> DEFINE err == IF ret[t] = "noop" THEN "OK" ELSE ret[t]
  <2>1. /\ asked[t] \in Requests /\ asked[t] # Nil /\ reply[t] = Nil
        /\ ret[t] \in error_inject(asked[t].op) /\ ret[t] # "pass"
    BY <1>0, <1>2, NameConstants DEF NameConstants, Dispatch, ThreadOK, Stage
  <2>2. AsCalled!Answer(t, err, Nil) /\ fs' = fs
    BY <1>2, <2>1 DEF Dispatch, Answer, AsCalled!Answer
  <2>3. \/ ret[t] = "noop" /\ asked[t].op \in NoopOps
        \/ ret[t] # "noop" /\ ret[t] \in Injected /\ asked[t].op \in ErrnoOps
    BY <2>1, NameConstants DEF NameConstants, error_inject
  <2>4. AsCalled!Inject(t)
    <3>1. CASE ret[t] = "noop" /\ asked[t].op \in NoopOps
      BY <2>2, <3>1 DEF AsCalled!Inject
    <3>2. CASE ret[t] # "noop" /\ ret[t] \in Injected /\ asked[t].op \in ErrnoOps
      BY <2>2, <3>2 DEF AsCalled!Inject
    <3> QED BY <2>3, <3>1, <3>2
  <2> QED BY <1>2, <2>1, <2>4, DispatchStep DEF AsCalled!Next
<1>3. ASSUME NEW t \in Threads, readdir(t) PROVE NInv' /\ [AsCalled!Next]_(AsCalled!vars)
  <2>1. /\ asked[t] \in Requests /\ asked[t] # Nil /\ reply[t] = Nil
        /\ asked[t].op = "readdir" /\ listing[t] \in SUBSET Names /\ fs' = fs /\ asked' = asked
    BY <1>0, <1>3, NameConstants DEF NameConstants, readdir, readdir_open, readdir_next,
       readdir_close, ThreadOK, Stage, LocalTypes
  <2>2. ASSUME NEW e \in {"EMFILE", "ENOMEM"}, Answer(t, e, Nil) PROVE AsCalled!Next
    <3>1. AsCalled!Answer(t, e, Nil)
      BY <2>1, <2>2 DEF Answer, AsCalled!Answer
    <3>2. AsCalled!Redirect(t)
      BY <2>1, <3>1 DEF AsCalled!Redirect
    <3> QED BY <2>1, <3>2 DEF AsCalled!Next
  <2>3. CASE readdir_open(t)
    <3>1. Answer(t, "EMFILE", Nil) \/ reply' = reply
      BY <2>3 DEF readdir_open
    <3>2. AsCalled!Next \/ UNCHANGED AsCalled!vars
      BY <2>1, <2>2, <3>1 DEF AsCalled!vars
    <3> QED BY <2>3, <3>2, OpenStep
  <2>4. CASE readdir_next(t)
    <3>1. Answer(t, "ENOMEM", Nil) \/ reply' = reply
      BY <2>4 DEF readdir_next, Fill
    <3>2. AsCalled!Next \/ UNCHANGED AsCalled!vars
      BY <2>1, <2>2, <3>1 DEF AsCalled!vars
    <3> QED BY <2>4, <3>2, TurnStep
  <2>5. CASE readdir_close(t)
    <3>1. AsCalled!Answer(t, "OK", listing[t])
      BY <2>1, <2>5 DEF readdir_close, Answer, AsCalled!Answer
    <3>2. AsCalled!Redirect(t)
      BY <2>1, <3>1 DEF AsCalled!Redirect
    <3> QED BY <2>1, <2>5, <3>2, CloseStep DEF AsCalled!Next
  <2> QED BY <1>3, <2>3, <2>4, <2>5 DEF readdir
<1>4. ASSUME NEW t \in Threads, Return(t) PROVE NInv' /\ AsCalled!Next
  <2>1. reply[t] # Nil
    BY <1>0, <1>4 DEF Return, ThreadOK, Stage
  <2>2. AsCalled!Take(t)
    BY <1>4, <2>1 DEF Return, AsCalled!Take
  <2> QED BY <1>4, <2>2, ReturnStep DEF AsCalled!Next
<1>5. ASSUME NEW t \in Threads, Serve(t) PROVE NInv' /\ [AsCalled!Next]_(AsCalled!vars)
  BY <1>2, <1>3, <1>4, <1>5, CallSteps DEF Serve
<1>6. CASE UNCHANGED vars
  <2> USE <1>6 DEF vars, locals
  <2>1. Tables'
    BY <1>0 DEF Tables
  <2>2. ASSUME NEW t \in Threads PROVE ThreadOK(t)'
    BY <1>0 DEF ThreadOK, LocalTypes, Stage, Listing, Listed
  <2> QED BY <2>1, <2>2 DEF NInv, AsCalled!vars
<1> QED BY <1>1, <1>5, <1>6 DEF Next

\* The invariant of the handlers holds throughout.
THEOREM NInvariance == Spec => []NInv
BY NInit, Simulation, PTL DEF Spec

\* Locals keep their types and no handler answers with a value of the wrong kind,
\* whatever the other threads do to the object meanwhile.
THEOREM TypeCorrect == Spec => []TypeOK
BY NInvariance, NInvImplies, PTL

\* A listing that succeeds shows every name that was there all the time it took
\* and none that was never there, for any number of threads that create, remove
\* and rename entries between two calls of readdir().
THEOREM CompleteListing == Spec => []ListingComplete
BY NInvariance, NInvImplies, PTL

\* The handlers implement the promise of unreliablefs(1): a request happens at one
\* moment, or a fault replaces it.
THEOREM PassThroughImplemented == Spec => RedirectsAtOneMoment
<1>1. Init => AsCalled!Init
  BY NameConstants DEF NameConstants, Init, AsCalled!Init, FS, AsCalled!FS, Node, AsCalled!Node,
     Kinds, AsCalled!Kinds, Attrs, AsCalled!Attrs
<1> QED BY <1>1, NInit, Simulation, PTL DEF Spec, RedirectsAtOneMoment, AsCalled!Spec
=============================================================================
