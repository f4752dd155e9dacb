------------------------- MODULE FileHandlesProofs -------------------------
(***************************************************************************)
(* What the handlers on open files keep true, for any number of handles,   *)
(* files and descriptors.  DescriptorsOwned holds whatever is injected;    *)
(* the others hold until errinj_noop answers an operation they depend on.  *)
(***************************************************************************)
EXTENDS FileHandles, TLAPS

\* An open file has a name and a file.
OpenNamed ==
    \A h \in Handles : fh[h] # Nil => node[h] \in Names /\ target[h] \in Inodes

\* The steps of the handlers, those that only use the descriptor as one.
HandleStep(h) ==
    \/ \E n \in Names : open(h, n)
    \/ \E n \in Names : create(h, n)
    \/ \E op : UseDescriptor(h, op)
    \/ ftruncate(h) \/ flush(h) \/ release(h)
    \/ lock(h) \/ unlock(h) \/ flock(h) \/ funlock(h)

\* Every step is one of these.
LEMMA Steps ==
    ASSUME [Next]_vars
    PROVE  \/ \E h \in Handles : HandleStep(h)
           \/ \E d \in DirHandles : opendir(d) \/ fsyncdir(d) \/ releasedir(d)
           \/ \E m, n \in Names : rename(m, n)
           \/ \E n \in Names : unlink(n)
           \/ UNCHANGED vars
BY DEF Next, HandleStep, read, write, fsync, fgetattr, ioctl, fallocate

\* Initially no file is open.
LEMMA TypeInit == Init => TypeOK /\ OpenNamed
<1> USE HandleConstants DEF HandleConstants
<1>1. 0 \in Fds
  BY DEF Fds
<1> QED BY <1>1 DEF Init, TypeOK, OpenNamed, NoAct

\* The types, and the name of an open file, in each step.
LEMMA TypeStep == TypeOK /\ OpenNamed /\ [Next]_vars => TypeOK' /\ OpenNamed'
<1> SUFFICES ASSUME TypeOK, OpenNamed, [Next]_vars PROVE TypeOK' /\ OpenNamed'
  OBVIOUS
<1>0. TypeOK /\ OpenNamed
  OBVIOUS
<1>c. /\ 0 \in Fds
      /\ Nil \notin Inodes \cup Fds \cup Handles \cup Names \cup {Std, Dir, NullDir}
  BY HandleConstants DEF HandleConstants, Fds
<1>f. \A op \in {"open", "creat", "rename", "flock"} : Fake(op) => faked' \in [Grants -> Nat]
  BY <1>0 DEF TypeOK, Fake, Grants
<1> USE <1>c, <1>f DEF TypeOK, OpenNamed, NoAct
<1>1. ASSUME NEW h \in Handles, NEW n \in Names, open(h, n) PROVE TypeOK' /\ OpenNamed'
  <2>1. CASE Opened(h, ino[n])
    BY <1>0, <1>1, <2>1 DEF open, Opened, FreeFds, Deem
  <2>2. CASE fh' = [fh EXCEPT ![h] = 0] /\ UNCHANGED fds
    BY <1>0, <1>1, <2>2 DEF open, Deem
  <2> QED BY <1>1, <2>1, <2>2 DEF open
<1>2. ASSUME NEW h \in Handles, NEW n \in Names, create(h, n) PROVE TypeOK' /\ OpenNamed'
  <2>1. PICK f \in Inodes :
          /\ Deem(h, n, f)
          /\ \/ Opened(h, f) /\ ino' = [ino EXCEPT ![n] = f]
             \/ fh' = [fh EXCEPT ![h] = 0] /\ UNCHANGED <<fds, ino>>
    BY <1>2 DEF create
  <2>2. CASE Opened(h, f) /\ ino' = [ino EXCEPT ![n] = f]
    BY <1>0, <1>2, <2>1, <2>2 DEF create, Opened, FreeFds, Deem
  <2>3. CASE fh' = [fh EXCEPT ![h] = 0] /\ UNCHANGED <<fds, ino>>
    BY <1>0, <1>2, <2>1, <2>3 DEF create, Deem
  <2> QED BY <2>1, <2>2, <2>3
<1>3. ASSUME NEW h \in Handles, NEW op, UseDescriptor(h, op) PROVE TypeOK' /\ OpenNamed'
  BY <1>0, <1>3 DEF UseDescriptor, IsOpen, FileOf, Act
<1>4. ASSUME NEW h \in Handles, ftruncate(h) PROVE TypeOK' /\ OpenNamed'
  BY <1>0, <1>4 DEF ftruncate, IsOpen, Act
<1>5. ASSUME NEW h \in Handles, flush(h) PROVE TypeOK' /\ OpenNamed'
  BY <1>0, <1>5 DEF flush, IsOpen, FileOf, Act
<1>6. ASSUME NEW h \in Handles, release(h) PROVE TypeOK' /\ OpenNamed'
  BY <1>0, <1>6 DEF release, Forget, Close, IsOpen
<1>7. ASSUME NEW h \in Handles, lock(h) PROVE TypeOK' /\ OpenNamed'
  BY <1>0, <1>7 DEF lock, IsOpen, FileOf, Act
<1>8. ASSUME NEW h \in Handles, unlock(h) PROVE TypeOK' /\ OpenNamed'
  BY <1>0, <1>8 DEF unlock, IsOpen, FileOf, Act
<1>9. ASSUME NEW h \in Handles, flock(h) PROVE TypeOK' /\ OpenNamed'
  BY <1>0, <1>9 DEF flock, IsOpen, FileOf, Act
<1>10. ASSUME NEW h \in Handles, funlock(h) PROVE TypeOK' /\ OpenNamed'
  BY <1>0, <1>10 DEF funlock, IsOpen, FileOf, Act
<1>11. ASSUME NEW d \in DirHandles, opendir(d) PROVE TypeOK' /\ OpenNamed'
  BY <1>0, <1>11 DEF opendir, FreeFds
<1>12. ASSUME NEW d \in DirHandles, fsyncdir(d) PROVE TypeOK' /\ OpenNamed'
  BY <1>0, <1>12 DEF fsyncdir, FreeFds
<1>13. ASSUME NEW d \in DirHandles, releasedir(d) PROVE TypeOK' /\ OpenNamed'
  BY <1>0, <1>13 DEF releasedir, Close
<1>14. ASSUME NEW m \in Names, NEW n \in Names, rename(m, n) PROVE TypeOK' /\ OpenNamed'
  BY <1>0, <1>14 DEF rename
<1>15. ASSUME NEW n \in Names, unlink(n) PROVE TypeOK' /\ OpenNamed'
  BY <1>0, <1>15 DEF unlink
<1>16. CASE UNCHANGED vars
  BY <1>0, <1>16 DEF vars
<1> QED
  BY Steps, <1>1, <1>2, <1>3, <1>4, <1>5, <1>6, <1>7, <1>8, <1>9, <1>10, <1>11,
     <1>12, <1>13, <1>14, <1>15, <1>16 DEF HandleStep

\* Every variable of the handlers keeps its type: a descriptor that is used is a
\* descriptor, and a path that is used is a name, whatever is injected.
THEOREM TypeCorrect == Spec => []TypeOK
<1>1. TypeOK /\ OpenNamed /\ [Next]_vars => (TypeOK /\ OpenNamed)'
  BY TypeStep
<1> QED BY <1>1, TypeInit, PTL DEF Spec
----------------------------------------------------------------------------
(* Whatever is injected                                                    *)

\* DescriptorsOwned, element by element.
LEMMA OwnedParts ==
    DescriptorsOwned <=>
      /\ \A i \in Fds : fds[i] \notin {Nil, Std} =>
            \/ \E h \in Handles : fh[h] = i
            \/ \E d \in DirHandles : dh[d] = i
            \/ i \in leaked
      /\ \A f \in plocks : f # Nil /\ \E i \in Fds : fds[i] = f
      /\ \A i \in flocks : fds[i] # Nil /\ \E j \in Fds : fds[j] = fds[i]
BY DEF DescriptorsOwned

\* The same after a step.
LEMMA OwnedPartsNext ==
    ASSUME \A i \in Fds : fds'[i] \notin {Nil, Std} =>
              \/ \E h \in Handles : fh'[h] = i
              \/ \E d \in DirHandles : dh'[d] = i
              \/ i \in leaked',
           \A f \in plocks' : f # Nil /\ \E i \in Fds : fds'[i] = f,
           \A i \in flocks' : fds'[i] # Nil /\ \E j \in Fds : fds'[j] = fds'[i]
    PROVE  DescriptorsOwned'
BY DEF DescriptorsOwned

\* A descriptor is lost only by an injected release or by fsyncdir, and a lock
\* goes with the last descriptor of its file.
LEMMA OwnedStep ==
    TypeOK /\ OpenNamed /\ DescriptorsOwned /\ [Next]_vars => DescriptorsOwned'
<1> SUFFICES ASSUME TypeOK, OpenNamed, DescriptorsOwned, [Next]_vars
             PROVE  DescriptorsOwned'
  OBVIOUS
<1>0. TypeOK /\ OpenNamed
  OBVIOUS
<1>o. /\ \A i \in Fds : fds[i] \notin {Nil, Std} =>
            \/ \E h \in Handles : fh[h] = i
            \/ \E d \in DirHandles : dh[d] = i
            \/ i \in leaked
      /\ \A f \in plocks : f # Nil /\ \E i \in Fds : fds[i] = f
      /\ \A i \in flocks : fds[i] # Nil /\ \E j \in Fds : fds[j] = fds[i]
  BY OwnedParts
<1>c. /\ 0 \in Fds
      /\ Nil \notin Inodes \cup Fds \cup Handles \cup Names \cup {Std, Dir, NullDir}
  BY HandleConstants DEF HandleConstants, Fds
<1> USE <1>c, OwnedPartsNext DEF TypeOK
<1>1. ASSUME NEW h \in Handles, NEW f \in Inodes, Opened(h, f), ~IsOpen(h),
             UNCHANGED <<dh, plocks, flocks, leaked>>
      PROVE  DescriptorsOwned'
  BY <1>0, <1>o, <1>1 DEF Opened, FreeFds, IsOpen
<1>2. ASSUME NEW h \in Handles, fh' = [fh EXCEPT ![h] = 0], ~IsOpen(h),
             UNCHANGED <<fds, dh, plocks, flocks, leaked>>
      PROVE  DescriptorsOwned'
  BY <1>0, <1>o, <1>2 DEF IsOpen
<1>3. ASSUME NEW h \in Handles, NEW n \in Names, open(h, n) PROVE DescriptorsOwned'
  BY <1>0, <1>1, <1>2, <1>3 DEF open
<1>4. ASSUME NEW h \in Handles, NEW n \in Names, create(h, n) PROVE DescriptorsOwned'
  BY <1>0, <1>1, <1>2, <1>4 DEF create
<1>5. ASSUME NEW h \in Handles, NEW op, UseDescriptor(h, op) PROVE DescriptorsOwned'
  BY <1>0, <1>o, <1>5 DEF UseDescriptor
<1>6. ASSUME NEW h \in Handles, ftruncate(h) PROVE DescriptorsOwned'
  BY <1>0, <1>o, <1>6 DEF ftruncate
<1>7. ASSUME NEW h \in Handles, flush(h) PROVE DescriptorsOwned'
  BY <1>0, <1>o, <1>7 DEF flush
<1>8. ASSUME NEW h \in Handles, release(h) PROVE DescriptorsOwned'
  BY <1>0, <1>o, <1>8 DEF release, Forget, Close, IsOpen
<1>9. ASSUME NEW h \in Handles, lock(h) PROVE DescriptorsOwned'
  BY <1>0, <1>o, <1>9 DEF lock, IsOpen, FileOf
<1>10. ASSUME NEW h \in Handles, unlock(h) PROVE DescriptorsOwned'
  BY <1>0, <1>o, <1>10 DEF unlock
<1>11. ASSUME NEW h \in Handles, flock(h) PROVE DescriptorsOwned'
  BY <1>0, <1>o, <1>11 DEF flock, IsOpen, FileOf
<1>12. ASSUME NEW h \in Handles, funlock(h) PROVE DescriptorsOwned'
  BY <1>0, <1>o, <1>12 DEF funlock
<1>13. ASSUME NEW d \in DirHandles, opendir(d) PROVE DescriptorsOwned'
  BY <1>0, <1>o, <1>13 DEF opendir, FreeFds
<1>14. ASSUME NEW d \in DirHandles, fsyncdir(d) PROVE DescriptorsOwned'
  BY <1>0, <1>o, <1>14 DEF fsyncdir, FreeFds
<1>15. ASSUME NEW d \in DirHandles, releasedir(d) PROVE DescriptorsOwned'
  <2>1. NullDir \notin Fds
    BY DEF NullDir, Fds
  <2> QED BY <1>0, <1>o, <1>15, <2>1 DEF releasedir, Close
<1>16. ASSUME NEW m \in Names, NEW n \in Names, rename(m, n) PROVE DescriptorsOwned'
  BY <1>0, <1>o, <1>16 DEF rename
<1>17. ASSUME NEW n \in Names, unlink(n) PROVE DescriptorsOwned'
  BY <1>0, <1>o, <1>17 DEF unlink
<1>18. CASE UNCHANGED vars
  BY <1>0, <1>o, <1>18 DEF vars
<1> QED
  BY Steps, <1>3, <1>4, <1>5, <1>6, <1>7, <1>8, <1>9, <1>10, <1>11, <1>12, <1>13,
     <1>14, <1>15, <1>16, <1>17, <1>18 DEF HandleStep

\* Whatever errinj_noop and errinj_errno do, a descriptor of the daemon belongs to
\* a handle or is one that an injected release or a failing fsyncdir has lost, and
\* no lock stays on a file that the daemon has not open.
THEOREM OwnedDescriptors == Spec => []DescriptorsOwned
<1>1. Init => DescriptorsOwned
  BY OwnedParts DEF Init
<1>2. TypeOK /\ OpenNamed /\ DescriptorsOwned /\ [Next]_vars
        => (TypeOK /\ OpenNamed /\ DescriptorsOwned)'
  BY TypeStep, OwnedStep
<1> QED BY <1>1, <1>2, TypeInit, PTL DEF Spec
----------------------------------------------------------------------------
(* Until errinj_noop answers an open or a create                           *)

\* What errinj_noop has answered once stays in the history.
LEMMA SparedSoFar ==
    ASSUME TypeOK, [Next]_vars
    PROVE  /\ SparesOpen' => SparesOpen
           /\ SparesRename' => SparesRename
           /\ SparesFlock' => SparesFlock
<1>1. faked' = faked \/ \E op \in Grants : Fake(op)
  <2>1. \A op \in {"open", "creat", "rename", "flock"} : op \in Grants
    BY DEF Grants
  <2>2. ASSUME NEW h \in Handles, HandleStep(h) PROVE faked' = faked \/ \E op \in Grants : Fake(op)
    BY <2>1, <2>2 DEF HandleStep, open, create, UseDescriptor, ftruncate, flush, release,
                      lock, unlock, flock, funlock
  <2>3. ASSUME NEW d \in DirHandles, opendir(d) \/ fsyncdir(d) \/ releasedir(d)
        PROVE  faked' = faked
    BY <2>3 DEF opendir, fsyncdir, releasedir
  <2>4. ASSUME NEW m \in Names, NEW n \in Names, rename(m, n)
        PROVE  faked' = faked \/ \E op \in Grants : Fake(op)
    BY <2>1, <2>4 DEF rename
  <2>5. ASSUME NEW n \in Names, unlink(n) PROVE faked' = faked
    BY <2>5 DEF unlink
  <2> QED BY Steps, <2>2, <2>3, <2>4, <2>5 DEF vars
<1>2. \A o \in Grants : faked'[o] = 0 => faked[o] = 0
  BY <1>1 DEF Fake, TypeOK
<1> QED BY <1>2 DEF SparesOpen, SparesRename, SparesFlock, Grants

\* An answer of errinj_noop to one of these operations shows.
LEMMA FakeShows ==
    ASSUME TypeOK
    PROVE  /\ Fake("open") \/ Fake("creat") => ~SparesOpen'
           /\ Fake("rename") => ~SparesRename'
           /\ Fake("flock") => ~SparesFlock'
BY DEF TypeOK, Fake, Grants, SparesOpen, SparesRename, SparesFlock

\* DescriptorsAccounted element by element, and what it leaves open: no two
\* directories share a descriptor.
Accounted ==
    /\ \A i \in Fds : fds[i] \notin {Nil, Std} =>
          \/ \E h \in Handles : fh[h] = i
          \/ \E d \in DirHandles : dh[d] = i
          \/ i \in leaked
    /\ \A h \in Handles : fh[h] # Nil => fds[fh[h]] \notin {Nil, Std} /\ fh[h] \notin leaked
    /\ \A d \in DirHandles : dh[d] \notin {Nil, NullDir} =>
          fds[dh[d]] \notin {Nil, Std} /\ dh[d] \notin leaked
    /\ \A i \in leaked : fds[i] \notin {Nil, Std}
    /\ \A g, h \in Handles : fh[g] = fh[h] => g = h \/ fh[g] = Nil
    /\ \A c, d \in DirHandles : dh[c] = dh[d] => c = d \/ dh[c] \in {Nil, NullDir}
    /\ \A h \in Handles, d \in DirHandles : fh[h] = dh[d] => fh[h] = Nil

\* This is more than the property.
LEMMA AccountedImplies == TypeOK /\ Accounted => DescriptorsAccounted
<1> SUFFICES ASSUME TypeOK, Accounted PROVE DescriptorsAccounted
  OBVIOUS
<1>c. NullDir \notin Fds /\ Nil \notin Fds /\ Nil # NullDir
  BY HandleConstants DEF HandleConstants, NullDir, Fds
<1> DEFINE files == {fh[h] : h \in Handles} \ {Nil}
           directories == {dh[d] : d \in DirHandles} \ {Nil, NullDir}
<1>1. {i \in Fds : fds[i] \notin {Nil, Std}} = files \cup directories \cup leaked
  BY <1>c DEF TypeOK, Accounted
<1>2. files \cap directories = {} /\ leaked \cap (files \cup directories) = {}
  BY <1>c DEF TypeOK, Accounted
<1>3. \A g, h \in Handles : fh[g] = fh[h] => g = h \/ fh[g] = Nil
  BY DEF Accounted
<1> QED BY <1>1, <1>2, <1>3 DEF DescriptorsAccounted

\* A step that touches no descriptor and no handle.
LEMMA AccountedSame ==
    Accounted /\ UNCHANGED <<fds, fh, dh, leaked>> => Accounted'
BY DEF Accounted

\* Every descriptor keeps its one owner.
LEMMA AccountedStep ==
    ASSUME SparesOpen'
    PROVE  TypeOK /\ OpenNamed /\ Accounted /\ [Next]_vars => Accounted'
<1> SUFFICES ASSUME TypeOK, OpenNamed, Accounted, [Next]_vars PROVE Accounted'
  OBVIOUS
<1>0. TypeOK /\ OpenNamed /\ Accounted
  OBVIOUS
<1>c. /\ Nil \notin Inodes \cup Fds \cup {Std, Dir, NullDir}
      /\ NullDir \notin Fds
      /\ Std \notin Inodes /\ Dir # Std
  BY HandleConstants DEF HandleConstants, Fds, NullDir
<1> USE <1>c DEF TypeOK, Accounted
<1>1. ASSUME NEW h \in Handles, NEW f \in Inodes, Opened(h, f), ~IsOpen(h),
             UNCHANGED <<dh, leaked>>
      PROVE  Accounted'
  <2>1. PICK i \in Fds : /\ fds[i] = Nil
                         /\ fds' = [fds EXCEPT ![i] = f]
                         /\ fh' = [fh EXCEPT ![h] = i]
    BY <1>1 DEF Opened, FreeFds
  <2> QED BY <1>0, <1>1, <2>1 DEF IsOpen
<1>2. ASSUME NEW h \in Handles, NEW n \in Names, open(h, n) PROVE Accounted'
  <2>1. Opened(h, ino[n]) /\ ino[n] \in Inodes
    BY <1>0, <1>2, FakeShows DEF open
  <2> QED BY <1>1, <1>2, <2>1 DEF open
<1>3. ASSUME NEW h \in Handles, NEW n \in Names, create(h, n) PROVE Accounted'
  <2>1. \E f \in Inodes : Opened(h, f)
    BY <1>3, <1>0, FakeShows DEF create
  <2> QED BY <1>1, <1>3, <2>1 DEF create
<1>4. ASSUME NEW h \in Handles, release(h) PROVE Accounted'
  <2>1. fh' = [fh EXCEPT ![h] = Nil] /\ UNCHANGED dh /\ fh[h] \in Fds
    BY <1>0, <1>4 DEF release, Forget, IsOpen
  <2>2. CASE fds' = [fds EXCEPT ![fh[h]] = Nil] /\ UNCHANGED leaked
    BY <1>0, <2>1, <2>2
  <2>3. CASE leaked' = leaked \cup {fh[h]} /\ UNCHANGED fds
    BY <1>0, <2>1, <2>3
  <2> QED BY <1>4, <2>2, <2>3 DEF release, Close
<1>5. ASSUME NEW d \in DirHandles, opendir(d) PROVE Accounted'
  <2>1. CASE dh' = [dh EXCEPT ![d] = NullDir] /\ UNCHANGED fds
    BY <1>0, <1>5, <2>1 DEF opendir
  <2>2. ASSUME NEW i \in Fds, fds[i] = Nil, fds' = [fds EXCEPT ![i] = Dir],
               dh' = [dh EXCEPT ![d] = i]
        PROVE  Accounted'
    BY <1>0, <1>5, <2>2 DEF opendir
  <2> QED BY <1>5, <2>1, <2>2 DEF opendir, FreeFds
<1>6. ASSUME NEW d \in DirHandles, fsyncdir(d) PROVE Accounted'
  <2>1. CASE UNCHANGED <<fds, leaked>>
    BY <1>0, <1>6, <2>1, AccountedSame DEF fsyncdir
  <2>2. ASSUME NEW i \in Fds, fds[i] = Nil, fds' = [fds EXCEPT ![i] = Dir],
               leaked' = leaked \cup {i}
        PROVE  Accounted'
    BY <1>0, <1>6, <2>2 DEF fsyncdir
  <2> QED BY <1>6, <2>1, <2>2 DEF fsyncdir, FreeFds
<1>7. ASSUME NEW d \in DirHandles, releasedir(d) PROVE Accounted'
  <2>1. dh' = [dh EXCEPT ![d] = Nil] /\ UNCHANGED fh
    BY <1>7 DEF releasedir
  <2>2. CASE dh[d] = NullDir
    <3>1. UNCHANGED <<fds, leaked>>
      BY <1>0, <1>7, <2>2 DEF releasedir
    <3> QED BY <1>0, <2>1, <2>2, <3>1
  <2>3. CASE dh[d] # NullDir
    <3>1. dh[d] \in Fds
      BY <1>0, <1>7, <2>3 DEF releasedir
    <3>2. CASE fds' = [fds EXCEPT ![dh[d]] = Nil] /\ UNCHANGED leaked
      BY <1>0, <2>1, <2>3, <3>1, <3>2
    <3>3. CASE leaked' = leaked \cup {dh[d]} /\ UNCHANGED fds
      BY <1>0, <2>1, <2>3, <3>1, <3>3
    <3> QED BY <1>7, <2>3, <3>2, <3>3 DEF releasedir, Close
  <2> QED BY <2>2, <2>3
<1>8. ASSUME NEW h \in Handles, \/ \E op : UseDescriptor(h, op)
                                \/ ftruncate(h) \/ flush(h) \/ lock(h) \/ unlock(h)
                                \/ flock(h) \/ funlock(h)
      PROVE  Accounted'
  BY <1>0, <1>8, AccountedSame
     DEF UseDescriptor, ftruncate, flush, lock, unlock, flock, funlock
<1>9. ASSUME NEW m \in Names, NEW n \in Names, rename(m, n) PROVE Accounted'
  BY <1>0, <1>9, AccountedSame DEF rename
<1>10. ASSUME NEW n \in Names, unlink(n) PROVE Accounted'
  BY <1>0, <1>10, AccountedSame DEF unlink
<1>11. CASE UNCHANGED vars
  BY <1>0, <1>11, AccountedSame DEF vars
<1> QED
  BY Steps, <1>2, <1>3, <1>4, <1>5, <1>6, <1>7, <1>8, <1>9, <1>10, <1>11 DEF HandleStep

\* The inductive invariant of descriptors and handles.
HInv == TypeOK /\ OpenNamed /\ Accounted

\* Only descriptor 0 is open at the start, and it is not a file.
LEMMA HInit == Init => HInv
<1>1. Init => Accounted
  BY HandleConstants DEF Init, Accounted, HandleConstants, Fds
<1> QED BY <1>1, TypeInit DEF HInv

\* Each step keeps it.
LEMMA HStep == SparesOpen' => (HInv /\ [Next]_vars => HInv')
BY TypeStep, AccountedStep DEF HInv

\* Until errinj_noop answers an open or create, every descriptor has exactly one
\* owner, so that no handler closes or uses the descriptor of another.
THEOREM AccountedDescriptors == Spec => []DescriptorsAccounted
<1>1. TypeOK /\ OpenNamed /\ (SparesOpen => HInv) /\ [Next]_vars
        => (TypeOK /\ OpenNamed /\ (SparesOpen => HInv))'
  BY HStep, SparedSoFar, TypeStep
<1>2. (SparesOpen => HInv) => DescriptorsAccounted
  BY AccountedImplies DEF HInv, DescriptorsAccounted
<1> QED BY <1>1, <1>2, TypeInit, HInit, PTL DEF Spec
----------------------------------------------------------------------------
(* Until it answers a rename, either                                       *)

\* Descriptor and name of an open file lead to the file that was opened.
OwnFile ==
    \A h \in Handles : fh[h] # Nil => /\ fds[fh[h]] = target[h]
                                      /\ ino[node[h]] = target[h]

\* A call for an open file has been on the file that was opened.
ActedOnOwn == acted.handle # Nil => acted.file = target[acted.handle]

\* The inductive invariant of open files.
OInv == HInv /\ OwnFile /\ ActedOnOwn

\* No descriptor is reused and no name is moved under an open file.
LEMMA OwnFileStep ==
    ASSUME SparesRename'
    PROVE  HInv /\ OwnFile /\ [Next]_vars => OwnFile'
<1> SUFFICES ASSUME HInv, OwnFile, [Next]_vars PROVE OwnFile'
  OBVIOUS
<1>0. TypeOK /\ OpenNamed /\ Accounted /\ OwnFile
  BY DEF HInv
<1>c. /\ Nil \notin Inodes \cup Fds \cup Names \cup {Std, Dir, NullDir}
      /\ NullDir \notin Fds
  BY HandleConstants DEF HandleConstants, Fds, NullDir
<1> USE <1>c DEF TypeOK, OpenNamed, Accounted, OwnFile
<1>1. ASSUME NEW h \in Handles, NEW n \in Names, open(h, n) PROVE OwnFile'
  <2>1. /\ Opened(h, ino[n]) /\ Deem(h, n, ino[n]) /\ ino[n] \in Inodes /\ fh[h] = Nil
        /\ UNCHANGED ino
    BY <1>0, <1>1, FakeShows DEF open, SparesRename, IsOpen
  <2>2. PICK i \in Fds : /\ fds[i] = Nil
                         /\ fds' = [fds EXCEPT ![i] = ino[n]]
                         /\ fh' = [fh EXCEPT ![h] = i]
    BY <2>1 DEF Opened, FreeFds
  <2> QED BY <1>0, <2>1, <2>2 DEF Deem
<1>2. ASSUME NEW h \in Handles, NEW n \in Names, create(h, n) PROVE OwnFile'
  <2>1. PICK f \in Inodes : /\ Opened(h, f) /\ Deem(h, n, f)
                            /\ ino' = [ino EXCEPT ![n] = f]
    BY <1>2, <1>0, FakeShows DEF create, SparesRename
  <2>2. PICK i \in Fds : /\ fds[i] = Nil
                         /\ fds' = [fds EXCEPT ![i] = f]
                         /\ fh' = [fh EXCEPT ![h] = i]
    BY <2>1 DEF Opened, FreeFds
  <2>3. fh[h] = Nil /\ ino[n] = Nil
    BY <1>2, <1>0, FakeShows DEF create, IsOpen
  <2> QED BY <1>0, <2>1, <2>2, <2>3 DEF Deem
<1>3. ASSUME NEW h \in Handles, release(h) PROVE OwnFile'
  <2>1. /\ fh' = [fh EXCEPT ![h] = Nil] /\ node' = [node EXCEPT ![h] = Nil]
        /\ target' = [target EXCEPT ![h] = Nil] /\ UNCHANGED ino /\ fh[h] \in Fds
        /\ fds' = [fds EXCEPT ![fh[h]] = Nil] \/ UNCHANGED fds
    BY <1>0, <1>3 DEF release, Forget, Close, IsOpen
  <2> QED BY <1>0, <2>1
<1>4. ASSUME NEW d \in DirHandles, opendir(d) PROVE OwnFile'
  BY <1>0, <1>4 DEF opendir, FreeFds
<1>5. ASSUME NEW d \in DirHandles, fsyncdir(d) PROVE OwnFile'
  BY <1>0, <1>5 DEF fsyncdir, FreeFds
<1>6. ASSUME NEW d \in DirHandles, releasedir(d) PROVE OwnFile'
  BY <1>0, <1>6 DEF releasedir, Close
<1>7. ASSUME NEW h \in Handles, \/ \E op : UseDescriptor(h, op)
                                \/ ftruncate(h) \/ flush(h) \/ lock(h) \/ unlock(h)
                                \/ flock(h) \/ funlock(h)
      PROVE  OwnFile'
  <2>1. UNCHANGED <<ino, fds, fh, node, target>>
    BY <1>7 DEF UseDescriptor, ftruncate, flush, lock, unlock, flock, funlock
  <2> QED BY <1>0, <2>1
<1>8. ASSUME NEW m \in Names, NEW n \in Names, rename(m, n) PROVE OwnFile'
  BY <1>0, <1>8, FakeShows DEF rename
<1>9. ASSUME NEW n \in Names, unlink(n) PROVE OwnFile'
  BY <1>0, <1>9 DEF unlink
<1>10. CASE UNCHANGED vars
  BY <1>0, <1>10 DEF vars
<1> QED
  BY Steps, <1>1, <1>2, <1>3, <1>4, <1>5, <1>6, <1>7, <1>8, <1>9, <1>10 DEF HandleStep

\* A call for an open file uses its descriptor or its name.
LEMMA ActsStep == HInv /\ OwnFile /\ ActedOnOwn /\ [Next]_vars => ActedOnOwn'
<1> SUFFICES ASSUME HInv, OwnFile, ActedOnOwn, [Next]_vars PROVE ActedOnOwn'
  OBVIOUS
<1>0. TypeOK /\ OwnFile /\ ActedOnOwn
  BY DEF HInv
<1>1. ASSUME acted' = NoAct PROVE ActedOnOwn'
  BY <1>1 DEF ActedOnOwn, NoAct
<1>2. ASSUME NEW h \in Handles, fh[h] # Nil, UNCHANGED target,
             \/ acted' = [handle |-> h, file |-> fds[fh[h]]]
             \/ acted' = [handle |-> h, file |-> ino[node[h]]]
      PROVE  ActedOnOwn'
  BY <1>0, <1>2 DEF ActedOnOwn, OwnFile
<1>3. ASSUME NEW h \in Handles, HandleStep(h) PROVE ActedOnOwn'
  <2>1. \/ acted' = NoAct
        \/ /\ fh[h] # Nil /\ UNCHANGED target
           /\ \/ acted' = [handle |-> h, file |-> fds[fh[h]]]
              \/ acted' = [handle |-> h, file |-> ino[node[h]]]
    BY <1>3 DEF HandleStep, open, create, UseDescriptor, ftruncate, flush, release,
                Forget, lock, unlock, flock, funlock, IsOpen, FileOf, Act
  <2> QED BY <1>1, <1>2, <2>1
<1>4. ASSUME NEW d \in DirHandles, opendir(d) \/ fsyncdir(d) \/ releasedir(d)
      PROVE  ActedOnOwn'
  BY <1>1, <1>4 DEF opendir, fsyncdir, releasedir
<1>5. ASSUME NEW m \in Names, NEW n \in Names, rename(m, n) PROVE ActedOnOwn'
  BY <1>1, <1>5 DEF rename
<1>6. ASSUME NEW n \in Names, unlink(n) PROVE ActedOnOwn'
  BY <1>1, <1>6 DEF unlink
<1>7. CASE UNCHANGED vars
  BY <1>0, <1>7 DEF vars, ActedOnOwn
<1> QED BY Steps, <1>3, <1>4, <1>5, <1>6, <1>7

\* Nothing is open, and nothing was done.
LEMMA OInit == Init => OInv
BY HInit DEF Init, OInv, OwnFile, ActedOnOwn, NoAct

\* Each step keeps it.
LEMMA OStep == SparesRename' => (OInv /\ [Next]_vars => OInv')
BY HStep, OwnFileStep, ActsStep DEF OInv, SparesRename

\* Until errinj_noop answers an open, create or rename, a system call for an open
\* file acts on the file that the application has opened, ftruncate by its path
\* included.
THEOREM OwnFileOnly == Spec => []ActsOnOwnFile
<1>1. TypeOK /\ OpenNamed /\ (SparesRename => OInv) /\ [Next]_vars
        => (TypeOK /\ OpenNamed /\ (SparesRename => OInv))'
  BY OStep, SparedSoFar, TypeStep
<1>2. (SparesRename => OInv) => ActsOnOwnFile
  BY DEF OInv, ActedOnOwn, ActsOnOwnFile
<1> QED BY <1>1, <1>2, TypeInit, OInit, PTL DEF Spec
----------------------------------------------------------------------------
(* Until it answers a flock, either                                        *)

\* The locks of the kernel: one descriptor of a file has it; who was told of a
\* lock has it by an open descriptor; one without a holder is leaked.
FlockHeld ==
    /\ \A i \in flocks : fds[i] \in Inodes
    /\ \A i, j \in flocks : fds[i] = fds[j] => i = j
    /\ \A h \in flocked : fh[h] # Nil /\ fh[h] \in flocks
    /\ \A i \in flocks : (\E h \in flocked : fh[h] = i) \/ i \in leaked

\* This is more than the property.
LEMMA FlockImplies == OInv /\ FlockHeld => FlockExcludes
<1> SUFFICES ASSUME OInv, FlockHeld PROVE FlockExcludes
  OBVIOUS
<1>1. \A g, h \in flocked : target[g] = target[h] => g = h
  BY DEF OInv, HInv, TypeOK, Accounted, OwnFile, FlockHeld
<1>2. flocks \subseteq {fh[h] : h \in flocked} \cup leaked
  BY DEF FlockHeld
<1> QED BY <1>1, <1>2 DEF FlockExcludes

\* flock() refuses a second descriptor of a locked file, and a lock goes with its
\* descriptor.
LEMMA FlockStep ==
    ASSUME SparesFlock'
    PROVE  OInv /\ FlockHeld /\ [Next]_vars => FlockHeld'
<1> SUFFICES ASSUME OInv, FlockHeld, [Next]_vars PROVE FlockHeld'
  OBVIOUS
<1>0. TypeOK /\ Accounted /\ OwnFile /\ FlockHeld
  BY DEF OInv, HInv
<1>c. /\ Nil \notin Inodes \cup Fds \cup {Std, Dir, NullDir}
      /\ NullDir \notin Fds /\ Dir \notin Inodes
  BY HandleConstants DEF HandleConstants, Fds, NullDir
<1> USE <1>c DEF TypeOK, FlockHeld
<1>1. ASSUME NEW h \in Handles, NEW f \in Inodes, Opened(h, f), fh[h] = Nil,
             UNCHANGED <<flocks, flocked, leaked>>
      PROVE  FlockHeld'
  <2>1. PICK i \in Fds : /\ fds[i] = Nil
                         /\ fds' = [fds EXCEPT ![i] = f]
                         /\ fh' = [fh EXCEPT ![h] = i]
    BY <1>1 DEF Opened, FreeFds
  <2> QED BY <1>0, <1>1, <2>1
<1>2. ASSUME NEW h \in Handles, NEW n \in Names, open(h, n) PROVE FlockHeld'
  <2>1. Opened(h, ino[n]) /\ ino[n] \in Inodes /\ fh[h] = Nil
    BY <1>0, <1>2, FakeShows DEF open, SparesRename, SparesFlock, IsOpen
  <2> QED BY <1>1, <1>2, <2>1 DEF open
<1>3. ASSUME NEW h \in Handles, NEW n \in Names, create(h, n) PROVE FlockHeld'
  <2>1. fh[h] = Nil /\ \E f \in Inodes : Opened(h, f)
    BY <1>3, <1>0, FakeShows DEF create, SparesRename, SparesFlock, IsOpen
  <2> QED BY <1>1, <1>3, <2>1 DEF create
<1>4. ASSUME NEW h \in Handles, release(h) PROVE FlockHeld'
  <2>1. /\ fh' = [fh EXCEPT ![h] = Nil] /\ flocked' = flocked \ {h} /\ fh[h] \in Fds
    BY <1>0, <1>4 DEF release, Forget, IsOpen
  <2>2. CASE Close(fh[h]) /\ UNCHANGED leaked
    BY <1>0, <2>1, <2>2 DEF Close, Accounted
  <2>3. CASE leaked' = leaked \cup {fh[h]} /\ UNCHANGED <<fds, flocks>>
    BY <1>0, <2>1, <2>3 DEF Accounted
  <2> QED BY <1>4, <2>2, <2>3 DEF release
<1>5. ASSUME NEW h \in Handles, flock(h) PROVE FlockHeld'
  <2>1. /\ fds[fh[h]] \in Inodes
        /\ \A i \in flocks : fds[i] = fds[fh[h]] => i = fh[h]
        /\ flocks' = flocks \cup {fh[h]} /\ flocked' = flocked \cup {h} /\ fh[h] # Nil
        /\ UNCHANGED <<fds, fh, leaked>>
    BY <1>5, <1>0, FakeShows DEF flock, IsOpen, FileOf
  <2> QED BY <1>0, <2>1
<1>6. ASSUME NEW h \in Handles, funlock(h) PROVE FlockHeld'
  <2>1. /\ flocks' = flocks \ {fh[h]} /\ flocked' = flocked \ {h}
        /\ UNCHANGED <<fds, fh, leaked>>
    BY <1>6, <1>0, FakeShows DEF funlock
  <2> QED BY <1>0, <2>1 DEF Accounted
<1>7. ASSUME NEW d \in DirHandles, opendir(d) PROVE FlockHeld'
  BY <1>0, <1>7 DEF opendir, FreeFds
<1>8. ASSUME NEW d \in DirHandles, fsyncdir(d) PROVE FlockHeld'
  BY <1>0, <1>8 DEF fsyncdir, FreeFds
<1>9. ASSUME NEW d \in DirHandles, releasedir(d) PROVE FlockHeld'
  <2>1. UNCHANGED <<fh, flocked>>
    BY <1>9 DEF releasedir
  <2>2. CASE UNCHANGED <<fds, flocks>> /\ leaked \subseteq leaked'
    BY <1>0, <2>1, <2>2
  <2>3. CASE dh[d] \notin {Nil, NullDir} /\ Close(dh[d]) /\ UNCHANGED leaked
    BY <1>0, <2>1, <2>3 DEF Close, Accounted
  <2> QED BY <1>9, <2>2, <2>3 DEF releasedir
<1>10. ASSUME NEW h \in Handles, \/ \E op : UseDescriptor(h, op)
                                 \/ ftruncate(h) \/ flush(h) \/ lock(h) \/ unlock(h)
       PROVE  FlockHeld'
  <2>1. UNCHANGED <<fds, fh, flocks, flocked, leaked>>
    BY <1>10 DEF UseDescriptor, ftruncate, flush, lock, unlock
  <2> QED BY <1>0, <2>1
<1>11. ASSUME NEW m \in Names, NEW n \in Names, rename(m, n) PROVE FlockHeld'
  BY <1>0, <1>11 DEF rename
<1>12. ASSUME NEW n \in Names, unlink(n) PROVE FlockHeld'
  BY <1>0, <1>12 DEF unlink
<1>13. CASE UNCHANGED vars
  BY <1>0, <1>13 DEF vars
<1> QED
  BY Steps, <1>2, <1>3, <1>4, <1>5, <1>6, <1>7, <1>8, <1>9, <1>10, <1>11, <1>12,
     <1>13 DEF HandleStep

\* Until errinj_noop answers an open, create, rename or flock, no two applications
\* are told that they have the flock() of one file, and a lock outlives its handle
\* only by a leaked descriptor.
THEOREM ExclusiveFlock == Spec => []FlockExcludes
<1> DEFINE Inv == OInv /\ FlockHeld
<1>1. Init => Inv
  BY OInit DEF Init, FlockHeld
<1>2. TypeOK /\ OpenNamed /\ (SparesFlock => Inv) /\ [Next]_vars
        => (TypeOK /\ OpenNamed /\ (SparesFlock => Inv))'
  BY OStep, FlockStep, SparedSoFar, TypeStep DEF SparesFlock
<1>3. (SparesFlock => Inv) => FlockExcludes
  BY FlockImplies DEF FlockExcludes
<1> QED BY <1>1, <1>2, <1>3, TypeInit, PTL DEF Spec
============================================================================
