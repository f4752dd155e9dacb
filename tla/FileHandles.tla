---------------------------- MODULE FileHandles ----------------------------
(***************************************************************************)
(* The handlers of unreliablefs_ops.c that work on open files: the file    *)
(* descriptors of the daemon, the handle fi->fh that open, create and      *)
(* opendir give to the kernel, the locks taken through them, and the path  *)
(* that ftruncate uses instead.                                            *)
(*                                                                         *)
(* Every handler first asks error_inject(), whose answer is "pass" (make   *)
(* the system call), "noop" (return 0 at once) or "errno" (return an       *)
(* error at once); NoopOps and ErrnoOps say for which operations the       *)
(* configuration can make it give the last two.  A handler makes its       *)
(* system calls outside any lock, and each acts atomically.  Descriptors   *)
(* other handlers hold for a moment may take the lowest number, so an open *)
(* can get any free one.                                                   *)
(***************************************************************************)
EXTENDS Integers

CONSTANTS
    Handles,     \* open files of applications, one process each
    DirHandles,  \* open directories of applications
    Names,       \* file names
    Inodes,      \* files of the base file system
    MaxFd,       \* largest descriptor number (RLIMIT_NOFILE - 1)
    NoopOps,     \* operations an errinj_noop entry matches
    ErrnoOps,    \* operations an errinj_errno entry matches
    MaxFaked,    \* bound: such answers in one behaviour to the operations that
                 \* give a handle, a name or a lock
    Nil,         \* none
    Std,         \* what descriptor 0 is when fuse_main() has daemonized
    Dir          \* an open directory

Fds == 0 .. MaxFd

\* closedir(NULL) and the like: fi->fh of a directory that was never opened.
NullDir == -1

ASSUME HandleConstants ==
    /\ MaxFd \in Nat
    /\ MaxFaked \in Nat
    /\ Nil \notin Inodes \cup Fds \cup Handles \cup Names \cup {Std, Dir, NullDir}
    /\ Std \notin Inodes
    /\ Dir \notin Inodes
    /\ Std # Dir

VARIABLES
    ino,      \* ino[n]: the file that name n has in the base file system
    fds,      \* fds[i]: what descriptor i of the daemon refers to, or Nil
    fh,       \* fh[h]: fi->fh of an open file, or Nil
    dh,       \* dh[d]: the descriptor of fi->fh of an open directory,
              \* NullDir, or Nil
    node,     \* node[h]: the path libfuse passes for h
    plocks,   \* files on which the daemon process holds a POSIX lock
    flocks,   \* descriptors with an exclusive flock()
    target,   \* history: the file that h was opened on
    granted,  \* history: handles that were told they have a POSIX lock
    flocked,  \* history: handles that were told they have an flock() lock
    leaked,   \* history: descriptors that nobody will close
    acted,    \* history: the handle operation done last, and on which file
    faked     \* history: how often errinj_noop has answered in place of an
              \* operation that gives a handle, a name or a lock

vars == <<ino, fds, fh, dh, node, plocks, flocks, target, granted, flocked,
          leaked, acted, faked>>

Grants == {"open", "creat", "rename", "flock"}

NoAct == [handle |-> Nil, file |-> Nil]

TypeOK ==
    /\ ino \in [Names -> Inodes \cup {Nil}]
    /\ fds \in [Fds -> Inodes \cup {Nil, Std, Dir}]
    /\ fh \in [Handles -> Fds \cup {Nil}]
    /\ dh \in [DirHandles -> Fds \cup {NullDir, Nil}]
    /\ node \in [Handles -> Names \cup {Nil}]
    /\ plocks \subseteq Inodes
    /\ flocks \subseteq Fds
    /\ target \in [Handles -> Inodes \cup {Nil}]
    /\ granted \subseteq Handles
    /\ flocked \subseteq Handles
    /\ leaked \subseteq Fds
    /\ acted \in [handle : Handles \cup {Nil}, file : Inodes \cup {Nil, Std, Dir}]
    /\ faked \in [Grants -> Nat]

Init ==
    /\ ino \in {f \in [Names -> Inodes \cup {Nil}] :
                  \A m, n \in Names : f[m] = f[n] => m = n \/ f[m] = Nil}
    /\ fds = [i \in Fds |-> IF i = 0 THEN Std ELSE Nil]
    /\ fh = [h \in Handles |-> Nil]
    /\ dh = [d \in DirHandles |-> Nil]
    /\ node = [h \in Handles |-> Nil]
    /\ plocks = {}
    /\ flocks = {}
    /\ target = [h \in Handles |-> Nil]
    /\ granted = {}
    /\ flocked = {}
    /\ leaked = {}
    /\ acted = NoAct
    /\ faked = [op \in Grants |-> 0]
----------------------------------------------------------------------------
\* The answers error_inject() can give for operation op.
error_inject(op) ==
    {"pass"} \cup (IF op \in NoopOps THEN {"noop"} ELSE {})
             \cup (IF op \in ErrnoOps THEN {"errno"} ELSE {})

\* The handler of op returns 0 without the handle, the name or the lock.
Fake(op) ==
    /\ "noop" \in error_inject(op)
    /\ faked["open"] + faked["creat"] + faked["rename"] + faked["flock"] < MaxFaked
    /\ faked' = [faked EXCEPT ![op] = @ + 1]

FreeFds == {i \in Fds : fds[i] = Nil}
IsOpen(h) == fh[h] # Nil

\* The file that a call on the descriptor of h acts on; Nil is EBADF.
FileOf(h) == fds[fh[h]]

Act(h, file) == acted' = [handle |-> h, file |-> file]

\* close(i): the descriptor, its flock(), and every POSIX lock the daemon has on
\* the file go.
Close(i) ==
    /\ fds' = [fds EXCEPT ![i] = Nil]
    /\ flocks' = flocks \ {i}
    /\ plocks' = plocks \ {fds[i]}

\* open(2) succeeds on file f: the handle gets a free descriptor.
Opened(h, f) ==
    \E i \in FreeFds :
        /\ fds' = [fds EXCEPT ![i] = f]
        /\ fh' = [fh EXCEPT ![h] = i]

\* The kernel takes the file for open on name n; the application has opened f.
Deem(h, n, f) ==
    /\ node' = [node EXCEPT ![h] = n]
    /\ target' = [target EXCEPT ![h] = f]

\* Deviation: the result of open(2) is stored without a test.
OpenUnchecked(h, n) ==
    /\ ~IsOpen(h)
    /\ ino[n] # Nil
    /\ Deem(h, n, ino[n])
    /\ fh' = [fh EXCEPT ![h] = -1]
    /\ acted' = NoAct
    /\ UNCHANGED <<ino, fds, dh, plocks, flocks, granted, flocked, leaked, faked>>

\* unreliable_open: a "noop" answer leaves fi->fh at 0, as libfuse set it.  An
\* error, injected or not, leaves no handle.
open(h, n) ==
    /\ ~IsOpen(h)
    /\ ino[n] # Nil
    /\ Deem(h, n, ino[n])
    /\ \/ "pass" \in error_inject("open") /\ Opened(h, ino[n]) /\ UNCHANGED faked
       \/ /\ Fake("open")
          /\ fh' = [fh EXCEPT ![h] = 0]
          /\ UNCHANGED fds
    /\ acted' = NoAct
    /\ UNCHANGED <<ino, dh, plocks, flocks, granted, flocked, leaked>>

\* A file that no name, descriptor or handle refers to.
Unused(f) ==
    /\ \A n \in Names : ino[n] # f
    /\ \A i \in Fds : fds[i] # f
    /\ \A h \in Handles : target[h] # f

\* unreliable_create: the kernel sends it for a name it found missing.  After a
\* "noop" the name is still missing.
create(h, n) ==
    /\ ~IsOpen(h)
    /\ ino[n] = Nil
    /\ \E f \in Inodes :
         /\ Unused(f)
         /\ Deem(h, n, f)
         /\ \/ /\ "pass" \in error_inject("creat")
               /\ Opened(h, f)
               /\ ino' = [ino EXCEPT ![n] = f]
               /\ UNCHANGED faked
            \/ /\ Fake("creat")
               /\ fh' = [fh EXCEPT ![h] = 0]
               /\ UNCHANGED <<fds, ino>>
    /\ acted' = NoAct
    /\ UNCHANGED <<dh, plocks, flocks, granted, flocked, leaked>>

\* The handler passes fi->fh to its system call.
UseDescriptor(h, op) ==
    /\ IsOpen(h)
    /\ "pass" \in error_inject(op)
    /\ Act(h, FileOf(h))
    /\ UNCHANGED <<ino, fds, fh, dh, node, plocks, flocks, target, granted,
                   flocked, leaked, faked>>

\* libfuse passes a file info for an open file, so that none of these opens the
\* path.
read(h) == UseDescriptor(h, "read")
write(h) == UseDescriptor(h, "write")
fsync(h) == UseDescriptor(h, "fsync")
fgetattr(h) == UseDescriptor(h, "fgetattr")
ioctl(h) == UseDescriptor(h, "ioctl")
fallocate(h) == UseDescriptor(h, "fallocate")

\* unreliable_ftruncate calls truncate() with the path.
ftruncate(h) ==
    /\ IsOpen(h)
    /\ "pass" \in error_inject("ftruncate")
    /\ Act(h, ino[node[h]])
    /\ UNCHANGED <<ino, fds, fh, dh, node, plocks, flocks, target, granted,
                   flocked, leaked, faked>>

\* Deviation: flush closes the descriptor itself.
FlushCloses(h) ==
    /\ IsOpen(h)
    /\ Close(fh[h])
    /\ Act(h, FileOf(h))
    /\ granted' = granted \ {h}
    /\ UNCHANGED <<ino, fh, dh, node, target, flocked, leaked, faked>>

\* unreliable_flush, once for every close(2) of the application, which gives up
\* its POSIX locks by it: close(dup(fh)).  Without a free descriptor dup() fails,
\* and so does the close(-1).
flush(h) ==
    /\ IsOpen(h)
    /\ \/ /\ "pass" \in error_inject("flush")
          /\ FreeFds # {}
          /\ Act(h, FileOf(h))
          /\ plocks' = plocks \ {FileOf(h)}
       \/ /\ error_inject("flush") # {"pass"} \/ FreeFds = {}
          /\ acted' = NoAct
          /\ UNCHANGED plocks
    /\ granted' = granted \ {h}
    /\ UNCHANGED <<ino, fds, fh, dh, node, flocks, target, flocked, leaked, faked>>

\* The kernel has sent the last request on h: it forgets the handle, whatever
\* the handler of release answers.
Forget(h) ==
    /\ fh' = [fh EXCEPT ![h] = Nil]
    /\ node' = [node EXCEPT ![h] = Nil]
    /\ target' = [target EXCEPT ![h] = Nil]
    /\ granted' = granted \ {h}
    /\ flocked' = flocked \ {h}
    /\ acted' = NoAct

\* unreliable_release: an injected answer leaves the descriptor open for good.
release(h) ==
    /\ IsOpen(h)
    /\ \/ /\ "pass" \in error_inject("release")
          /\ Close(fh[h])
          /\ UNCHANGED leaked
       \/ /\ error_inject("release") # {"pass"}
          /\ leaked' = leaked \cup {fh[h]}
          /\ UNCHANGED <<fds, flocks, plocks>>
    /\ Forget(h)
    /\ UNCHANGED <<ino, dh, faked>>
----------------------------------------------------------------------------
(* Locks                                                                   *)

\* unreliable_lock, F_SETLK with a write lock: fcntl() acts for the daemon, which
\* never conflicts with itself.
lock(h) ==
    /\ IsOpen(h)
    /\ \/ /\ "pass" \in error_inject("lock")
          /\ FileOf(h) \in Inodes
          /\ plocks' = plocks \cup {FileOf(h)}
          /\ Act(h, FileOf(h))
       \/ /\ "noop" \in error_inject("lock")
          /\ acted' = NoAct
          /\ UNCHANGED plocks
    /\ granted' = granted \cup {h}
    /\ UNCHANGED <<ino, fds, fh, dh, node, flocks, target, flocked, leaked, faked>>

\* unreliable_lock, F_SETLK with F_UNLCK.
unlock(h) ==
    /\ IsOpen(h)
    /\ h \in granted
    /\ \/ /\ "pass" \in error_inject("lock")
          /\ plocks' = plocks \ {FileOf(h)}
          /\ Act(h, FileOf(h))
       \/ /\ "noop" \in error_inject("lock")
          /\ acted' = NoAct
          /\ UNCHANGED plocks
    /\ granted' = granted \ {h}
    /\ UNCHANGED <<ino, fds, fh, dh, node, flocks, target, flocked, leaked, faked>>

\* Deviation: fcntl() in place of flock().
FlockByProcess(h) ==
    /\ IsOpen(h)
    /\ flocks' = flocks \cup {fh[h]}
    /\ flocked' = flocked \cup {h}
    /\ Act(h, FileOf(h))
    /\ UNCHANGED <<ino, fds, fh, dh, node, plocks, target, granted, leaked, faked>>

\* unreliable_flock with LOCK_EX | LOCK_NB: the lock belongs to the descriptor's
\* own open file, so another descriptor of the same file conflicts.
flock(h) ==
    /\ IsOpen(h)
    /\ \/ /\ "pass" \in error_inject("flock")
          /\ FileOf(h) \in Inodes
          /\ \A i \in flocks : fds[i] = FileOf(h) => i = fh[h]
          /\ flocks' = flocks \cup {fh[h]}
          /\ Act(h, FileOf(h))
          /\ UNCHANGED faked
       \/ /\ Fake("flock")
          /\ acted' = NoAct
          /\ UNCHANGED flocks
    /\ flocked' = flocked \cup {h}
    /\ UNCHANGED <<ino, fds, fh, dh, node, plocks, target, granted, leaked>>

\* unreliable_flock with LOCK_UN.
funlock(h) ==
    /\ IsOpen(h)
    /\ h \in flocked
    /\ \/ /\ "pass" \in error_inject("flock")
          /\ flocks' = flocks \ {fh[h]}
          /\ Act(h, FileOf(h))
          /\ UNCHANGED faked
       \/ /\ Fake("flock")
          /\ acted' = NoAct
          /\ UNCHANGED flocks
    /\ flocked' = flocked \ {h}
    /\ UNCHANGED <<ino, fds, fh, dh, node, plocks, target, granted, leaked>>
----------------------------------------------------------------------------
(* Directories                                                             *)

\* unreliable_opendir: "noop" leaves a null DIR pointer in fi->fh.
opendir(d) ==
    /\ dh[d] = Nil
    /\ \/ /\ "pass" \in error_inject("opendir")
          /\ \E i \in FreeFds : /\ fds' = [fds EXCEPT ![i] = Dir]
                                /\ dh' = [dh EXCEPT ![d] = i]
       \/ /\ "noop" \in error_inject("opendir")
          /\ dh' = [dh EXCEPT ![d] = NullDir]
          /\ UNCHANGED fds
    /\ acted' = NoAct
    /\ UNCHANGED <<ino, fh, node, plocks, flocks, target, granted, flocked, leaked, faked>>

\* unreliable_fsyncdir opens the directory again, and closes what it has opened;
\* but when fsync() fails it returns without closedir().
fsyncdir(d) ==
    /\ dh[d] # Nil
    /\ "pass" \in error_inject("fsyncdir")
    /\ \/ UNCHANGED <<fds, leaked>>
       \/ \E i \in FreeFds : /\ fds' = [fds EXCEPT ![i] = Dir]
                             /\ leaked' = leaked \cup {i}
    /\ acted' = NoAct
    /\ UNCHANGED <<ino, fh, dh, node, plocks, flocks, target, granted, flocked, faked>>

\* Deviation: releasedir without closedir().
ReleasedirForgets(d) ==
    /\ dh[d] # Nil
    /\ dh' = [dh EXCEPT ![d] = Nil]
    /\ acted' = NoAct
    /\ UNCHANGED <<ino, fds, fh, node, plocks, flocks, target, granted, flocked, leaked, faked>>

\* unreliable_releasedir: closedir(NULL) fails and changes nothing.
releasedir(d) ==
    /\ dh[d] # Nil
    /\ \/ /\ "pass" \in error_inject("releasedir")
          /\ IF dh[d] = NullDir
               THEN UNCHANGED <<fds, flocks, plocks>>
               ELSE Close(dh[d])
          /\ UNCHANGED leaked
       \/ /\ error_inject("releasedir") # {"pass"}
          /\ leaked' = leaked \cup ({dh[d]} \ {NullDir})
          /\ UNCHANGED <<fds, flocks, plocks>>
    /\ dh' = [dh EXCEPT ![d] = Nil]
    /\ acted' = NoAct
    /\ UNCHANGED <<ino, fh, node, target, granted, flocked, faked>>
----------------------------------------------------------------------------
(* Names                                                                   *)

\* Deviation: the two names swapped.
RenameSwapped(m, n) ==
    /\ m # n
    /\ ino[m] # Nil
    /\ \A h \in Handles : node[h] # n
    /\ ino' = [ino EXCEPT ![m] = ino[n], ![n] = Nil]
    /\ node' = [h \in Handles |-> IF node[h] = m THEN n ELSE node[h]]
    /\ acted' = NoAct
    /\ UNCHANGED <<fds, fh, dh, plocks, flocks, target, granted, flocked, leaked, faked>>

\* unreliable_rename.  libfuse moves its own entry whenever the handler returns
\* 0, "noop" included.  It has hidden an open destination before, by a rename
\* of this kind to a name of its own.
rename(m, n) ==
    /\ m # n
    /\ ino[m] # Nil
    /\ \A h \in Handles : node[h] # n
    /\ \/ /\ "pass" \in error_inject("rename")
          /\ ino' = [ino EXCEPT ![n] = ino[m], ![m] = Nil]
          /\ UNCHANGED faked
       \/ /\ Fake("rename")
          /\ UNCHANGED ino
    /\ node' = [h \in Handles |-> IF node[h] = m THEN n ELSE node[h]]
    /\ acted' = NoAct
    /\ UNCHANGED <<fds, fh, dh, plocks, flocks, target, granted, flocked, leaked>>

\* unreliable_unlink of a file that is not open; libfuse renames one that is.
unlink(n) ==
    /\ ino[n] # Nil
    /\ \A h \in Handles : node[h] # n
    /\ "pass" \in error_inject("unlink")
    /\ ino' = [ino EXCEPT ![n] = Nil]
    /\ acted' = NoAct
    /\ UNCHANGED <<fds, fh, dh, node, plocks, flocks, target, granted, flocked, leaked, faked>>

Next ==
    \/ \E h \in Handles :
         \/ \E n \in Names : open(h, n) \/ create(h, n)
         \/ read(h) \/ write(h) \/ fsync(h) \/ fgetattr(h) \/ ioctl(h) \/ fallocate(h)
         \/ ftruncate(h) \/ flush(h) \/ release(h)
         \/ lock(h) \/ unlock(h) \/ flock(h) \/ funlock(h)
    \/ \E d \in DirHandles : opendir(d) \/ fsyncdir(d) \/ releasedir(d)
    \/ \E m, n \in Names : rename(m, n)
    \/ \E n \in Names : unlink(n)

Spec == Init /\ [][Next]_vars
----------------------------------------------------------------------------
(* Properties                                                              *)

\* So far every handle came with a descriptor; libfuse's names are those of the
\* base file system, too; who was told of a lock has got it, too.
SparesOpen == faked["open"] = 0 /\ faked["creat"] = 0
SparesRename == SparesOpen /\ faked["rename"] = 0
SparesFlock == SparesRename /\ faked["flock"] = 0

\* Until errinj_noop answers an open, create or rename: a system call made for an
\* open file acts on the file the application opened, and never on a closed
\* descriptor, although descriptors are reused and names move in between.
ActsOnOwnFile ==
    SparesRename /\ acted.handle # Nil => acted.file = target[acted.handle]

\* Until errinj_noop answers an open or create: every descriptor above the standard
\* ones has one owner, an open file, an open directory, or the leak of an injected
\* release.  Nothing is closed twice, so no handler closes the descriptor of
\* another.
DescriptorsAccounted ==
    LET files == {fh[h] : h \in Handles} \ {Nil}
        directories == {dh[d] : d \in DirHandles} \ {Nil, NullDir}
    IN  SparesOpen =>
          /\ {i \in Fds : fds[i] \notin {Nil, Std}} = files \cup directories \cup leaked
          /\ files \cap directories = {}
          /\ leaked \cap (files \cup directories) = {}
          /\ \A g, h \in Handles : fh[g] = fh[h] => g = h \/ fh[g] = Nil

\* Whatever errinj_noop does, open and create included: no descriptor is lost
\* except by an injected release or the error path of fsyncdir, and no lock
\* stays on a file of which the daemon has no descriptor left.
DescriptorsOwned ==
    LET owned == {fh[h] : h \in Handles} \cup {dh[d] : d \in DirHandles} \cup leaked
    IN  /\ {i \in Fds : fds[i] \notin {Nil, Std}} \subseteq owned
        /\ plocks \cup {fds[i] : i \in flocks} \subseteq {fds[i] : i \in Fds} \ {Nil}

\* Until errinj_noop answers an open, create, rename or flock: two applications
\* that were both told they have the flock() of a file do not have the same file,
\* and a lock outlives its handle only by a leak.
FlockExcludes ==
    SparesFlock =>
      /\ \A g, h \in flocked : target[g] = target[h] => g = h
      /\ flocks \subseteq {fh[h] : h \in flocked} \cup leaked
----------------------------------------------------------------------------
(* What the documentation says and the code does not do                    *)

\* unreliablefs.1 lists lock among the operations redirected to the real file
\* system.  There, two processes never both have a write lock on one file.
LocksExclude == \A g, h \in granted : target[g] = target[h] => g = h
============================================================================
