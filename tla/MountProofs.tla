---------------------------- MODULE MountProofs ----------------------------
(***************************************************************************)
(* The life of the process, for every command line and every tree of       *)
(* directories, any number of processes that use the configuration file,   *)
(* and any number of descriptors.                                          *)
(***************************************************************************)
EXTENDS Mount, FiniteSetTheorems, SequenceTheorems, WellFoundedInduction, TLAPS

----------------------------------------------------------------------------
(* Paths                                                                   *)

\* What a path is made of.
Parts == STRING \cup {"/", ConfName}

\* The real path of a directory is a text that is not empty.
LEMMA CanonText ==
    ASSUME NEW d \in Seq(STRING)
    PROVE  Canon(d) \in Seq(Parts) /\ Len(Canon(d)) > 0
<1>1. CASE d = <<>>
  BY <1>1 DEF Canon, Parts
<1>2. CASE d # <<>>
  <2> DEFINE n == 2 * Len(d)
             c == [k \in 1 .. n |-> IF k % 2 = 1 THEN "/" ELSE d[k \div 2]]
  <2>1. Len(d) \in Nat /\ Len(d) > 0 /\ n \in Nat /\ n > 0
    BY <1>2
  <2>2. \A k \in 1 .. n : k % 2 # 1 => k \div 2 \in 1 .. Len(d)
    BY <2>1
  <2>3. \A k \in 1 .. n : c[k] \in Parts
    BY <2>2 DEF Parts
  <2> HIDE DEF n
  <2>4. c \in [1 .. n -> Parts]
    BY <2>3
  <2>5. c \in Seq(Parts) /\ Len(c) = n
    BY <2>1, <2>4
  <2> QED BY <1>2, <2>1, <2>5 DEF Canon, n
<1> QED BY <1>1, <1>2

\* The path that a handler receives, for subdir option s.
Received(s) == s \o (IF s[Len(s)] = "/" THEN <<>> ELSE <<"/">>) \o <<ConfName>>

\* A path without the slash behind it.
Trimmed(s) == IF Len(s) > 1 /\ s[Len(s)] = "/" THEN SubSeq(s, 1, Len(s) - 1) ELSE s

\* A set of natural numbers has a least one.
LEMMA LeastNatural ==
    ASSUME NEW C \in SUBSET Nat, C # {}
    PROVE  \E i \in C : \A j \in C : i <= j
<1> DEFINE Less == OpToRel(<, Nat)
<1>1. \A m, n \in Nat : <<m, n>> \in Less <=> m < n
  BY DEF OpToRel
<1>2. IsWellFoundedOn(Less, Nat)
  BY NatLessThanWellFounded
<1> HIDE DEF Less
<1>3. \E i \in C : \A j \in C : ~(<<j, i>> \in Less)
  BY <1>2, WFMin
<1>4. PICK i \in C : \A j \in C : ~(<<j, i>> \in Less)
  BY <1>3
<1>5. \A j \in C : ~(j < i)
  BY <1>1, <1>4
<1>6. \A m, n \in Nat : ~(m < n) => n <= m
  OBVIOUS
<1>7. \A j \in C : i <= j
  BY <1>5, <1>6
<1> QED BY <1>7

\* A text with a slash at its end is the rest of it and the slash.
LEMMA TrailingSlash ==
    ASSUME NEW s \in Seq(Parts), NEW c \in Seq(Parts), Len(s) > 1, s[Len(s)] = "/"
    PROVE  s = c \o <<"/">> <=> SubSeq(s, 1, Len(s) - 1) = c
<1> DEFINE n == Len(s)
           f == SubSeq(s, 1, n - 1)
<1>1. n \in Nat /\ n > 1 /\ \A i \in 1 .. n : s[i] \in Parts
  OBVIOUS
<1>2. <<"/">> \in Seq(Parts) /\ Len(<<"/">>) = 1 /\ <<"/">>[1] = "/"
  BY DEF Parts
<1>3. f \in Seq(Parts) /\ Len(f) = n - 1 /\ \A i \in 1 .. n - 1 : f[i] = s[i]
  BY <1>1
<1> HIDE DEF f
<1>4. f \o <<"/">> \in Seq(Parts) /\ Len(f \o <<"/">>) = n
  BY <1>1, <1>2, <1>3, ConcatProperties
<1>5. \A i \in 1 .. n : (f \o <<"/">>)[i] = s[i]
  BY <1>1, <1>2, <1>3, ConcatProperties
<1>6. s = f \o <<"/">>
  BY <1>1, <1>4, <1>5, SeqEqual
<1>7. f \o <<"/">> = c \o <<"/">> => f = c
  BY <1>2, <1>3, ConcatSimplifications
<1> QED BY <1>6, <1>7 DEF f

\* Texts are put together in either order.
LEMMA Concatenation ==
    ASSUME NEW x \in Seq(Parts), NEW y \in Seq(Parts), NEW z \in Seq(Parts)
    PROVE  x \o (y \o z) = (x \o y) \o z
<1> DEFINE Joined(s, t, u) ==
             /\ Len(u) = Len(s) + Len(t)
             /\ \A i \in 1 .. Len(s) + Len(t) :
                  u[i] = IF i <= Len(s) THEN s[i] ELSE t[i - Len(s)]
<1>1. \A s, t \in Seq(Parts) : s \o t \in Seq(Parts) /\ Joined(s, t, s \o t)
  BY ConcatProperties
<1> HIDE DEF Joined
<1>2. PICK yz \in Seq(Parts) : yz = y \o z /\ Joined(y, z, yz)
  BY <1>1
<1>3. PICK xy \in Seq(Parts) : xy = x \o y /\ Joined(x, y, xy)
  BY <1>1
<1>4. PICK l \in Seq(Parts) : l = x \o yz /\ Joined(x, yz, l)
  BY <1>1
<1>5. PICK r \in Seq(Parts) : r = xy \o z /\ Joined(xy, z, r)
  BY <1>1
<1>6. Len(x) \in Nat /\ Len(y) \in Nat /\ Len(z) \in Nat
  BY LenProperties
<1>7. Len(l) = Len(r) /\ Len(l) = Len(x) + Len(y) + Len(z)
  BY <1>2, <1>3, <1>4, <1>5, <1>6 DEF Joined
<1>8. ASSUME NEW i \in 1 .. Len(l)
      PROVE  l[i] = r[i]
  BY <1>2, <1>3, <1>4, <1>5, <1>6, <1>7 DEF Joined
<1>9. l = r
  BY <1>7, <1>8, SeqEqual
<1> QED BY <1>2, <1>3, <1>4, <1>5, <1>9

\* The path received is config_path exactly if the text is canonical.
LEMMA SamePath ==
    ASSUME NEW s \in Seq(Parts), Len(s) > 0, NEW c \in Seq(Parts), Len(c) > 0
    PROVE  Received(s) = c \o <<"/", ConfName>> <=> s # <<"/">> /\ Trimmed(s) = c
<1> DEFINE slash == <<"/">>
           name == <<ConfName>>
           sep == IF s[Len(s)] = "/" THEN <<>> ELSE slash
<1>1. slash \in Seq(Parts) /\ name \in Seq(Parts) /\ <<"/", ConfName>> = slash \o name
  BY DEF Parts
<1>2. sep \in Seq(Parts)
  <2> HIDE DEF slash, name
  <2>1. <<>> \in Seq(Parts)
    OBVIOUS
  <2> QED BY <1>1, <2>1
<1>3. c \o <<"/", ConfName>> = (c \o slash) \o name
  BY <1>1, Concatenation
<1>4. s \o sep \in Seq(Parts) /\ c \o slash \in Seq(Parts)
  <2> HIDE DEF slash, sep
  <2> QED BY <1>1, <1>2, ConcatProperties
<1>5. Received(s) = c \o <<"/", ConfName>> <=> s \o sep = c \o slash
  <2>1. Received(s) = (s \o sep) \o name
    BY DEF Received
  <2> HIDE DEF slash, sep, name
  <2> QED BY <1>1, <1>3, <1>4, <2>1, ConcatSimplifications
<1>6. CASE s[Len(s)] # "/"
  <2>1. s \o slash = c \o slash <=> s = c
    <3> HIDE DEF slash
    <3> QED BY <1>1, ConcatSimplifications
  <2>2. s # <<"/">> /\ Trimmed(s) = s
    BY <1>6 DEF Trimmed
  <2> QED BY <1>5, <1>6, <2>1, <2>2
<1>7. CASE s[Len(s)] = "/" /\ Len(s) > 1
  <2>1. s \o sep = s
    BY <1>7, ConcatEmptySeq
  <2>2. s # <<"/">> /\ Trimmed(s) = SubSeq(s, 1, Len(s) - 1)
    BY <1>7 DEF Trimmed
  <2> QED BY <1>5, <1>7, <2>1, <2>2, TrailingSlash
<1>8. CASE s[Len(s)] = "/" /\ Len(s) = 1
  <2>1. s = <<"/">>
    BY <1>8
  <2>2. s \o sep = s
    BY <1>8, ConcatEmptySeq
  <2>3. Len(c \o slash) = Len(c) + 1 /\ Len(c) \in Nat
    BY <1>1, ConcatProperties
  <2> QED BY <1>5, <1>8, <2>1, <2>2, <2>3
<1>9. \A n \in Nat : n > 0 => n > 1 \/ n = 1
  OBVIOUS
<1>10. Len(s) > 1 \/ Len(s) = 1
  <2> HIDE DEF slash, name, sep
  <2>1. Len(s) \in Nat
    BY LenProperties
  <2> QED BY <1>9, <2>1
<1> QED BY <1>6, <1>7, <1>8, <1>10

\* What libfuse leaves of a path is a path: it has a name before its end.
LEMMA CutText ==
    ASSUME NEW s \in Seq(Parts), Len(s) > 0
    PROVE  UpToComma(s) \in Seq(Parts) /\ Len(UpToComma(s)) > 0
<1>1. CASE ~HasComma(s)
  BY <1>1 DEF UpToComma
<1>2. CASE HasComma(s)
  <2> DEFINE Comma(i) == s[i] \in DOMAIN Stem
             First(i) == Comma(i) /\ \A j \in 1 .. i - 1 : ~Comma(j)
             k == CHOOSE i \in DOMAIN s : First(i)
             c == [i \in 1 .. k |-> IF i = k THEN Stem[s[k]] ELSE s[i]]
  <2>1. DOMAIN s = 1 .. Len(s) /\ Len(s) \in Nat
    BY LenProperties
  <2>2. \E i \in DOMAIN s : First(i)
    <3> DEFINE C == {i \in 1 .. Len(s) : Comma(i)}
    <3>1. C \subseteq Nat /\ C # {}
      BY <1>2, <2>1 DEF HasComma
    <3>2. PICK i \in C : \A j \in C : i <= j
      BY <3>1, LeastNatural
    <3>3. \A j \in 1 .. i - 1 : ~Comma(j)
      BY <2>1, <3>2
    <3> QED BY <2>1, <3>2, <3>3
  <2>3. k \in DOMAIN s /\ First(k)
    BY <2>2
  <2>4. UpToComma(s) = c
    BY <1>2 DEF UpToComma
  <2> HIDE DEF k
  <2>5. k \in 1 .. Len(s) /\ Stem[s[k]] \in Parts
    BY <2>1, <2>3, MountConstants DEF Parts
  <2>6. c \in [1 .. k -> Parts] /\ k \in Nat /\ k > 0
    BY <2>1, <2>5
  <2>7. c \in Seq(Parts) /\ Len(c) = k
    BY <2>6
  <2> QED BY <2>4, <2>6, <2>7
<1> QED BY <1>1, <1>2
----------------------------------------------------------------------------
(* The inductive invariant                                                 *)

\* The directory of a command line.
Given == IF args.basedir = NULL THEN <<"/">> ELSE args.basedir

\* The stages of main() before the mount.
Before == {"parse", "is_dir", "realpath", "malloc", "mutex", "fuse_main"}

\* What main() has found out about the directory, and from which texts: the two
\* names of it are made of the same option, looked up in the same directory.
Prepared ==
    /\ stage \in Before => cwd = Home /\ changed = NULL
    /\ stage \in {"is_dir", "realpath"} => basedir = Given
    /\ stage \in {"realpath", "malloc", "mutex", "fuse_main", "serving"} =>
         subdir = UpToComma(Given) /\ dir = Lookup(Given, Home) /\ dir \in Dirs
    /\ stage \in {"malloc", "mutex", "fuse_main", "serving"} =>
         config_path = Canon(dir) \o <<"/", ConfName>>
    /\ stage = "serving" => cwd = IF args.foreground THEN Home ELSE <<>>

\* No handler runs but under the mount; those that write or flush work on an open
\* file, and those that release it on one that is closed.
Handlers ==
    /\ stage # "serving" => \A p \in Procs : doing[p] = NULL
    /\ \A p \in Procs : doing[p] \in {"write", "flush"} => at[p] \in {"open", "detached"}
    /\ \A p \in Procs : doing[p] = "release" => at[p] \in {"flushed", "detached"}

\* p has not sent the flush of its close() yet.
Unflushed(p) == at[p] = "open" /\ doing[p] # "flush"

\* A written file is in force, or the flush that will see to it is yet to come.
Edited ==
    stage = "serving" /\ Recognised /\ changed = "write" =>
      errors \in {QueueOf(file), NULL} \/ \E p \in Procs : Unflushed(p)

\* The inductive invariant of the process.
MInv ==
    /\ TypeOK
    /\ Prepared
    /\ Handlers
    /\ Edited
----------------------------------------------------------------------------
(* Descriptors                                                             *)

\* What a process has of the file.
States == {"closed", "open", "flushed", "detached"}

\* The descriptors are within the bound.
Bounded ==
    /\ data \in 0 .. MaxFds
    /\ leaked \in 0 .. MaxFds
    /\ NumOpen <= MaxFds

\* The open handles can be counted.
LEMMA OpenCounted == IsFiniteSet(Open) /\ Cardinality(Open) \in Nat
<1>1. Open \subseteq Procs
  BY DEF Open
<1>2. IsFiniteSet(Open)
  BY <1>1, FS_Subset, MountConstants
<1> QED BY <1>2, FS_CardinalityType

\* What one assignment to at[p] does to the number of open handles.
LEMMA OpenUpdated ==
    ASSUME TypeOK, NEW p \in Procs, NEW v \in States, at' = [at EXCEPT ![p] = v]
    PROVE  /\ at' \in [Procs -> States]
           /\ Cardinality(Open') <= Cardinality(Open) + 1
           /\ v = "closed" \/ at[p] # "closed" => Cardinality(Open') <= Cardinality(Open)
           /\ v = "closed" /\ at[p] # "closed" =>
                Cardinality(Open') + 1 = Cardinality(Open)
<1>1. at' \in [Procs -> States] /\ at'[p] = v /\ \A q \in Procs \ {p} : at'[q] = at[q]
  BY DEF TypeOK, States
<1>2. IsFiniteSet(Open) /\ Cardinality(Open) \in Nat
  BY OpenCounted
<1>3. CASE v = "closed"
  <2>1. Open' = Open \ {p}
    BY <1>1, <1>3 DEF Open
  <2>2. p \in Open <=> at[p] # "closed"
    BY DEF Open
  <2>3. IsFiniteSet(Open \ {p})
        /\ Cardinality(Open \ {p}) = IF p \in Open THEN Cardinality(Open) - 1
                                                    ELSE Cardinality(Open)
    BY <1>2, FS_RemoveElement
  <2> QED BY <1>1, <1>2, <1>3, <2>1, <2>2, <2>3
<1>4. CASE v # "closed"
  <2>1. Open' = Open \cup {p}
    BY <1>1, <1>4 DEF Open
  <2>2. p \in Open <=> at[p] # "closed"
    BY DEF Open
  <2>3. IsFiniteSet(Open \cup {p})
        /\ Cardinality(Open \cup {p}) = IF p \in Open THEN Cardinality(Open)
                                                       ELSE Cardinality(Open) + 1
    BY <1>2, FS_AddElement
  <2> QED BY <1>1, <1>2, <1>4, <2>1, <2>2, <2>3
<1> QED BY <1>3, <1>4

\* Fewer handles and the rest as it was keep the bound, and so does a descriptor
\* that passes from one hand to another.
LEMMA BoundKept ==
    ASSUME TypeOK, data' \in Nat, leaked' \in Nat,
           Cardinality(Open') + data' + leaked' <= Cardinality(Open) + data + leaked
             \/ Cardinality(Open') + data' + leaked' <= MaxFds
    PROVE  Bounded'
<1>1. Cardinality(Open) \in Nat
  BY OpenCounted
<1>2. (IsFiniteSet(Open) /\ Cardinality(Open) \in Nat)'
  BY OpenCounted, PTL
<1>3. data \in Nat /\ leaked \in Nat /\ Cardinality(Open) + data + leaked <= MaxFds
  BY DEF TypeOK, NumOpen
<1>4. MaxFds \in Nat
  BY MountConstants
<1>5. Cardinality(Open') + data' + leaked' <= MaxFds
  BY <1>1, <1>2, <1>3, <1>4
<1> QED BY <1>2, <1>4, <1>5 DEF Bounded, NumOpen
----------------------------------------------------------------------------
(* Types                                                                   *)

\* What config_init() returns is a queue, or nothing.
LEMMA QueueType ==
    ASSUME TypeOK
    PROVE  QueueOf(file) \in Contents /\ config_init \in {QueueOf(file), NULL}
BY MountConstants DEF TypeOK, QueueOf, config_init

\* A request keeps the types and the bound on descriptors: an injected release
\* only passes one from the open handles to the leaked ones.
LEMMA TypeOfRequest ==
    ASSUME TypeOK, NEW p \in Procs, NEW op \in OpTypes, Request(p, op)
    PROVE  TypeOK'
<1>1. CASE /\ doing' = [doing EXCEPT ![p] = op]
           /\ errors' = IF Recognised THEN ReloadFor(p, op) ELSE errors
           /\ UNCHANGED <<at, leaked>>
  <2>1. errors' \in Contents \cup {NULL}
    BY <1>1, QueueType DEF TypeOK, ReloadFor
  <2>2. doing' \in [Procs -> OpTypes \cup {NULL}]
    BY <1>1 DEF TypeOK
  <2>3. NumOpen' = NumOpen
    BY <1>1 DEF Request, NumOpen, Open
  <2> QED BY <1>1, <2>1, <2>2, <2>3 DEF TypeOK, Request, start
<1>2. CASE Injected(p, op)
  <2> DEFINE v == IF op = "flush" THEN "flushed"
                  ELSE IF op = "release" THEN "closed" ELSE at[p]
  <2>1. at' = [at EXCEPT ![p] = v] /\ v \in States
    BY <1>2 DEF Injected, TypeOK, States
  <2>2. op \in {"flush", "release"} => at[p] # "closed"
    BY DEF Request, May
  <2>3. op = "release" <=> v = "closed" /\ at[p] # "closed"
    BY <2>2 DEF TypeOK
  <2>4. v = "closed" \/ at[p] # "closed"
    BY <2>2
  <2> HIDE DEF v
  <2>5. /\ at' \in [Procs -> States]
        /\ Cardinality(Open') <= Cardinality(Open)
        /\ op = "release" => Cardinality(Open') + 1 = Cardinality(Open)
    BY <2>1, <2>3, <2>4, OpenUpdated
  <2>6. leaked' = (IF op = "release" THEN leaked + 1 ELSE leaked) /\ data' = data
    BY <1>2 DEF Injected, Request
  <2>7. data \in Nat /\ leaked \in Nat
    BY DEF TypeOK
  <2>8. Cardinality(Open) \in Nat
    BY OpenCounted
  <2>9. (IsFiniteSet(Open) /\ Cardinality(Open) \in Nat)'
    BY OpenCounted, PTL
  <2>10. Cardinality(Open') + data' + leaked' <= Cardinality(Open) + data + leaked
    BY <2>5, <2>6, <2>7, <2>8, <2>9
  <2>11. Bounded'
    BY <2>6, <2>7, <2>10, BoundKept
  <2> QED BY <1>2, <2>5, <2>11 DEF TypeOK, Bounded, Request, Injected, start, States
<1> QED BY <1>1, <1>2 DEF Request

\* Handles that lose their name are still open.
LEMMA OpenDetached ==
    ASSUME TypeOK, at' = Detached
    PROVE  at' \in [Procs -> States] /\ Open' = Open
BY DEF TypeOK, Detached, Open, States

\* So does the system call of a handler: only open takes a descriptor, if one is
\* free.
LEMMA TypeOfSystemCall ==
    ASSUME TypeOK, NEW p \in Procs, SystemCall(p)
    PROVE  TypeOK'
<1>1. doing' \in [Procs -> OpTypes \cup {NULL}]
  BY DEF TypeOK, SystemCall
<1>2. file' \in Contents \cup {Absent} /\ changed' \in {"write", "other", NULL}
  BY MountConstants DEF TypeOK, SystemCall, Change, Release
<1>3. data' = data /\ leaked' = leaked /\ data \in Nat /\ leaked \in Nat
  BY DEF TypeOK, SystemCall, Release
<1>4. Cardinality(Open) \in Nat /\ MaxFds \in Nat
  BY OpenCounted, MountConstants
<1>5. (IsFiniteSet(Open) /\ Cardinality(Open) \in Nat)'
  BY OpenCounted, PTL
<1>6. at' \in [Procs -> States] /\ Bounded'
  <2>1. CASE doing[p] = "open" /\ NumOpen < MaxFds /\ at' = [at EXCEPT ![p] = "open"]
    <3>1. at' \in [Procs -> States] /\ Cardinality(Open') <= Cardinality(Open) + 1
      BY <2>1, OpenUpdated DEF States
    <3>2. Cardinality(Open) + data + leaked < MaxFds
      BY <2>1 DEF NumOpen
    <3>3. Cardinality(Open') + data' + leaked' <= MaxFds
      BY <1>3, <1>4, <1>5, <3>1, <3>2
    <3> QED BY <1>3, <3>1, <3>3, BoundKept
  <2>2. CASE UNCHANGED at
    <3>1. Open' = Open
      BY <2>2 DEF Open
    <3>2. Cardinality(Open') + data' + leaked' <= Cardinality(Open) + data + leaked
      BY <1>3, <1>4, <3>1
    <3> QED BY <1>3, <2>2, <3>2, BoundKept DEF TypeOK, States
  <2>3. CASE at' = Detached
    <3>1. at' \in [Procs -> States] /\ Open' = Open
      BY <2>3, OpenDetached
    <3>2. Cardinality(Open') + data' + leaked' <= Cardinality(Open) + data + leaked
      BY <1>3, <1>4, <3>1
    <3> QED BY <1>3, <3>1, <3>2, BoundKept
  <2>4. CASE \E v \in States : /\ at' = [at EXCEPT ![p] = v]
                               /\ v = "closed" \/ at[p] # "closed"
    <3>0. PICK v \in States : /\ at' = [at EXCEPT ![p] = v]
                              /\ v = "closed" \/ at[p] # "closed"
      BY <2>4
    <3>1. at' \in [Procs -> States] /\ Cardinality(Open') <= Cardinality(Open)
      BY <3>0, OpenUpdated
    <3>2. Cardinality(Open') + data' + leaked' <= Cardinality(Open) + data + leaked
      BY <1>3, <1>4, <1>5, <3>1
    <3> QED BY <1>3, <3>1, <3>2, BoundKept
  <2>5. CASE /\ doing[p] = "flush"
             /\ at' = [at EXCEPT ![p] = IF @ = "open" THEN "flushed" ELSE @]
    <3> DEFINE v == IF at[p] = "open" THEN "flushed" ELSE at[p]
    <3>1. at' = [at EXCEPT ![p] = v] /\ v \in States
      BY <2>5 DEF TypeOK, States
    <3>2. v = "closed" \/ at[p] # "closed"
      OBVIOUS
    <3> QED BY <2>4, <3>1, <3>2
  <2>6. CASE at' = [at EXCEPT ![p] = "closed"]
    BY <2>4, <2>6 DEF States
  <2> QED BY <2>1, <2>2, <2>3, <2>5, <2>6 DEF SystemCall, Release
<1> QED BY <1>1, <1>2, <1>6 DEF TypeOK, Bounded, SystemCall, start, States

\* And so does every step of main(), and the use of other files.
LEMMA TypeOfRest ==
    ASSUME TypeOK, Main \/ Unmount \/ ChangeOutside \/ OpenData \/ ReleaseData
    PROVE  TypeOK'
<1>1. data \in Nat /\ leaked \in Nat
  BY DEF TypeOK
<1>2. Cardinality(Open) \in Nat /\ MaxFds \in Nat
  BY OpenCounted, MountConstants
<1>3. Open' = Open
  BY DEF Open, Main, fuse_opt_parse, is_dir, realpath, malloc, pthread_mutex_init,
         fuse_main, cleanup, Unmount, ChangeOutside, OpenData, ReleaseData, files
<1>4. CASE Main \/ Unmount
  <2>1. UNCHANGED <<args, files>>
    BY <1>4 DEF Main, fuse_opt_parse, is_dir, realpath, malloc, pthread_mutex_init,
         fuse_main, cleanup, Unmount
  <2>2. NumOpen' = NumOpen
    BY <1>3, <2>1 DEF NumOpen, files
  <2>3. stage' \in {"is_dir", "realpath", "malloc", "mutex", "fuse_main", "serving",
                    "cleanup", "exited"}
    BY <1>4 DEF Main, fuse_opt_parse, is_dir, realpath, malloc, pthread_mutex_init,
         fuse_main, cleanup, Unmount, Goto, Exit
  <2>4. status' \in {0, 1, NULL}
    BY <1>4 DEF TypeOK, Main, fuse_opt_parse, is_dir, realpath, malloc,
         pthread_mutex_init, fuse_main, cleanup, Unmount, Exit
  <2>5. errors' \in Contents \cup {NULL}
    BY <1>4, QueueType DEF TypeOK, Main, fuse_opt_parse, is_dir, realpath, malloc,
         pthread_mutex_init, fuse_main, cleanup, Unmount
  <2> QED BY <2>1, <2>2, <2>3, <2>4, <2>5 DEF TypeOK, files
<1>5. CASE ChangeOutside
  <2>1. NumOpen' = NumOpen
    BY <1>3, <1>5 DEF NumOpen, ChangeOutside
  <2> QED BY <1>5, <2>1 DEF TypeOK, ChangeOutside, Change, start
<1>6. CASE OpenData
  <2>1. data' = data + 1 /\ leaked' = leaked /\ Cardinality(Open) + data + leaked < MaxFds
    BY <1>6 DEF OpenData, NumOpen
  <2>2. Cardinality(Open') + data' + leaked' <= MaxFds
    BY <1>1, <1>2, <1>3, <2>1
  <2>3. Bounded'
    BY <1>1, <2>1, <2>2, BoundKept
  <2> QED BY <1>6, <2>3 DEF TypeOK, Bounded, OpenData, start
<1>7. CASE ReleaseData
  <2>1. data > 0 /\ data' = data - 1 /\ leaked' \in {leaked, leaked + 1}
    BY <1>7 DEF ReleaseData
  <2>2. Cardinality(Open') + data' + leaked' <= Cardinality(Open) + data + leaked
        /\ data' \in Nat /\ leaked' \in Nat
    BY <1>1, <1>2, <1>3, <2>1
  <2>3. Bounded'
    BY <2>2, BoundKept
  <2> QED BY <1>7, <2>3 DEF TypeOK, Bounded, ReleaseData, start
<1> QED BY <1>4, <1>5, <1>6, <1>7
----------------------------------------------------------------------------
(* The steps                                                               *)

\* Nothing that happens under the mount changes what main() has prepared.
LEMMA PreparedUnderMount ==
    ASSUME Handlers, Prepared,
           \/ \E p \in Procs : SystemCall(p) \/ \E op \in OpTypes : Request(p, op)
           \/ ChangeOutside \/ OpenData \/ ReleaseData
    PROVE  stage = "serving" /\ UNCHANGED <<stage, start>> /\ Prepared'
<1>1. stage = "serving"
  BY DEF Handlers, SystemCall, Request, ChangeOutside, OpenData, ReleaseData
<1>2. UNCHANGED <<stage, start>>
  BY DEF SystemCall, Request, ChangeOutside, OpenData, ReleaseData
<1> QED BY <1>1, <1>2 DEF Prepared, Given, Before, start

\* main() works on one option and one directory from the parsing of the command
\* line to the mount.
LEMMA PreparedByMain ==
    ASSUME TypeOK, Prepared, Main \/ Unmount
    PROVE  Prepared'
<1> USE DEF Prepared, Given, Before, Goto, Exit, files
<1>1. CASE fuse_opt_parse
  BY <1>1 DEF fuse_opt_parse
<1>2. CASE is_dir
  BY <1>2 DEF is_dir, SubdirOption
<1>3. CASE realpath
  BY <1>3 DEF realpath, ConfigPath
<1>4. CASE malloc
  BY <1>4 DEF malloc
<1>5. CASE pthread_mutex_init
  BY <1>5 DEF pthread_mutex_init
<1>6. CASE fuse_main
  BY <1>6 DEF fuse_main
<1>7. CASE cleanup
  BY <1>7 DEF cleanup
<1>8. CASE Unmount
  BY <1>8 DEF Unmount
<1> QED BY <1>1, <1>2, <1>3, <1>4, <1>5, <1>6, <1>7, <1>8 DEF Main

\* No handler is left when the stage changes.
LEMMA HandlersByMain ==
    ASSUME Handlers, Main \/ Unmount
    PROVE  Handlers'
<1>1. UNCHANGED <<at, doing>>
  BY DEF Main, fuse_opt_parse, is_dir, realpath, malloc, pthread_mutex_init, fuse_main,
         cleanup, Unmount, files
<1>2. \A p \in Procs : doing[p] = NULL
  BY DEF Handlers, Main, fuse_opt_parse, is_dir, realpath, malloc, pthread_mutex_init,
         fuse_main, cleanup, Unmount
<1> QED BY <1>1, <1>2 DEF Handlers

\* A request to write or flush comes from a process that has the file open.
LEMMA HandlersOfRequest ==
    ASSUME TypeOK, Handlers, NEW p \in Procs, NEW op \in OpTypes, Request(p, op)
    PROVE  Handlers'
<1>1. stage = "serving" /\ stage' = "serving"
  BY DEF Request
<1>2. doing[p] = NULL /\ NULL \notin {"write", "flush", "release"}
  BY MountConstants DEF Request, May, OpTypes
<1>3. CASE doing' = [doing EXCEPT ![p] = op] /\ UNCHANGED at
  <2>1. /\ op \in {"write", "flush"} => at[p] = "open"
        /\ op = "release" => at[p] \in {"flushed", "detached"}
    BY DEF Request, May
  <2> QED BY <1>1, <1>3, <2>1 DEF Handlers, TypeOK
<1>4. CASE Injected(p, op)
  BY <1>1, <1>2, <1>4 DEF Handlers, TypeOK, Injected
<1> QED BY <1>3, <1>4 DEF Request

\* A system call ends its own handler and takes from others no more than the name.
LEMMA HandlersOfSystemCall ==
    ASSUME TypeOK, Handlers, NEW p \in Procs, SystemCall(p)
    PROVE  Handlers'
<1>1. stage = "serving" /\ stage' = "serving"
  BY DEF Handlers, SystemCall
<1>2. doing' = [doing EXCEPT ![p] = NULL]
  BY DEF SystemCall
<1>3. NULL \notin {"write", "flush", "release"}
  BY MountConstants DEF OpTypes
<1>4. \A q \in Procs \ {p} : \/ at'[q] = at[q]
                             \/ at[q] # "closed" /\ at'[q] = "detached"
  BY DEF TypeOK, SystemCall, Release, Detached
<1> QED BY <1>1, <1>2, <1>3, <1>4 DEF Handlers, TypeOK

\* A flush that is let through reloads the file, and no flush of a recognised
\* file is injected.
LEMMA EditedOfRequest ==
    ASSUME TypeOK, Edited, NEW p \in Procs, NEW op \in OpTypes, Request(p, op)
    PROVE  Edited'
<1> SUFFICES ASSUME Recognised, changed = "write"
             PROVE  errors' \in {QueueOf(file), NULL} \/ \E q \in Procs : Unflushed(q)'
  BY DEF Edited, Request, start, Recognised, HandlerPath, QueueOf
<1>1. errors \in {QueueOf(file), NULL} \/ \E q \in Procs : Unflushed(q)
  BY DEF Edited, Request
<1>2. CASE OnConfPath(p, op)
  BY <1>2, QueueType DEF Request, ReloadFor
<1>3. CASE ~OnConfPath(p, op)
  <2>1. errors' = errors
    BY <1>3 DEF Request, ReloadFor, Injected
  <2>2. op # "flush"
    BY <1>3 DEF Request, OnConfPath, May
  <2>3. \A q \in Procs : at[q] = "open" => at'[q] = "open"
    BY <2>2 DEF Request, Injected, May, TypeOK
  <2>4. \A q \in Procs : doing'[q] = "flush" => doing[q] = "flush"
    BY <2>2 DEF Request, Injected, TypeOK
  <2> QED BY <1>1, <2>1, <2>3, <2>4 DEF Unflushed
<1> QED BY <1>2, <1>3

\* Whoever writes the file has it open, and has still to flush it.
LEMMA EditedOfSystemCall ==
    ASSUME TypeOK, Handlers, Edited, NEW p \in Procs, SystemCall(p)
    PROVE  Edited'
<1>1. stage = "serving" /\ NULL # "flush"
  BY MountConstants DEF Handlers, SystemCall, OpTypes
<1>2. doing' = [doing EXCEPT ![p] = NULL] /\ UNCHANGED <<stage, start, errors>>
  BY DEF SystemCall
<1> SUFFICES ASSUME Recognised, changed' = "write"
             PROVE  errors \in {QueueOf(file'), NULL} \/ \E q \in Procs : Unflushed(q)'
  BY <1>2 DEF Edited, start, Recognised, HandlerPath, QueueOf
<1>3. CASE UNCHANGED <<file, changed>>
  <2>1. errors \in {QueueOf(file), NULL} \/ \E q \in Procs : Unflushed(q)
    BY <1>1, <1>3 DEF Edited
  <2>2. \A q \in Procs : Unflushed(q) => Unflushed(q)'
    <3> SUFFICES ASSUME NEW q \in Procs, Unflushed(q)
                 PROVE  Unflushed(q)'
      OBVIOUS
    <3>1. doing'[q] # "flush"
      BY <1>1, <1>2 DEF Unflushed, TypeOK
    <3>2. q = p => doing[p] \notin {"flush", "release"}
      BY DEF Unflushed, Handlers
    <3>3. CASE doing[p] \in {"unlink", "replace"}
      BY <1>3, <3>3 DEF SystemCall, Change
    <3>4. CASE doing[p] \notin {"unlink", "replace"}
      <4>1. at'[q] = "open"
        BY <3>2, <3>4 DEF SystemCall, Release, TypeOK, Unflushed
      <4> QED BY <3>1, <4>1 DEF Unflushed
    <3> QED BY <3>3, <3>4
  <2> QED BY <1>3, <2>1, <2>2
<1>4. CASE ~UNCHANGED <<file, changed>>
  <2>1. doing[p] = "open" \/ (doing[p] = "write" /\ at[p] # "detached")
    <3>1. ~(file' = file /\ changed' = changed) /\ changed' # "other"
      BY <1>4
    <3>2. doing[p] \notin {"truncate", "unlink", "replace"}
      BY <3>1 DEF SystemCall, Change
    <3>3. doing[p] \notin {"flush", "release"}
      BY <3>1 DEF SystemCall, Release
    <3>4. doing[p] \in OpTypes
      BY DEF SystemCall, TypeOK
    <3>5. doing[p] \in {"open", "write"}
      BY <3>2, <3>3, <3>4 DEF OpTypes
    <3>6. CASE doing[p] = "write"
      BY <3>1, <3>6 DEF SystemCall
    <3> QED BY <3>5, <3>6
  <2>2. at'[p] = "open"
    BY <1>4, <2>1 DEF SystemCall, Handlers, TypeOK
  <2>3. doing'[p] # "flush"
    BY <1>1, <1>2 DEF TypeOK
  <2> QED BY <2>2, <2>3 DEF Unflushed
<1> QED BY <1>3, <1>4
----------------------------------------------------------------------------
(* The theorems                                                            *)

\* Init establishes the invariant and every step keeps it.
LEMMA MInvariance == Spec => []MInv
<1>1. Init => MInv
  <2> SUFFICES ASSUME Init
               PROVE  MInv
    OBVIOUS
  <2>1. TypeOK
    <3>1. Open = {}
      BY DEF Init, Open
    <3>2. Cardinality(Open) = 0
      BY <3>1, FS_EmptySet
    <3>3. NumOpen <= MaxFds /\ 0 \in 0 .. MaxFds
      BY <3>2, MountConstants DEF Init, NumOpen
    <3> QED BY <3>3 DEF Init, TypeOK
  <2>2. Prepared
    BY DEF Init, Prepared, Before
  <2>3. Handlers
    BY MountConstants DEF Init, Handlers, OpTypes
  <2>4. Edited
    BY DEF Init, Edited
  <2> QED BY <2>1, <2>2, <2>3, <2>4 DEF MInv
<1>2. MInv /\ [Next]_vars => MInv'
  <2> SUFFICES ASSUME MInv, [Next]_vars
               PROVE  MInv'
    OBVIOUS
  <2> USE DEF MInv
  <2>1. CASE Main \/ Unmount
    <3>1. Edited'
      <4>1. stage' # "serving" \/ changed' # "write"
        BY <2>1, MountConstants
           DEF Main, fuse_opt_parse, is_dir, realpath, malloc, pthread_mutex_init,
               fuse_main, cleanup, Unmount, Goto, Exit, Prepared, Before, files, OpTypes
      <4> QED BY <4>1 DEF Edited
    <3> QED BY <2>1, <3>1, TypeOfRest, PreparedByMain, HandlersByMain
  <2>2. ASSUME NEW p \in Procs, SystemCall(p)
        PROVE  MInv'
    BY <2>2, TypeOfSystemCall, PreparedUnderMount, HandlersOfSystemCall,
       EditedOfSystemCall
  <2>3. ASSUME NEW p \in Procs, NEW op \in OpTypes, Request(p, op)
        PROVE  MInv'
    BY <2>3, TypeOfRequest, PreparedUnderMount, HandlersOfRequest, EditedOfRequest
  <2>4. CASE ChangeOutside \/ OpenData \/ ReleaseData
    <3>1. UNCHANGED <<stage, start, errors, at, doing>>
      BY <2>4 DEF ChangeOutside, OpenData, ReleaseData
    <3>2. changed' = "other" \/ UNCHANGED <<file, changed>>
      BY <2>4 DEF ChangeOutside, OpenData, ReleaseData, Change
    <3>3. Handlers'
      BY <3>1 DEF Handlers
    <3>4. Edited'
      BY <3>1, <3>2 DEF Edited, Recognised, HandlerPath, QueueOf, Unflushed, start
    <3> QED BY <2>4, <3>3, <3>4, TypeOfRest, PreparedUnderMount
  <2>5. CASE UNCHANGED vars
    BY <2>5 DEF vars, start, files, TypeOK, NumOpen, Open, Prepared, Given, Before,
                Handlers, Edited, Recognised, HandlerPath, QueueOf, Unflushed
  <2> QED BY <2>1, <2>2, <2>3, <2>4, <2>5 DEF Next
<1> QED BY <1>1, <1>2, PTL DEF Spec

\* Every variable has its type, and the process never has more descriptors than
\* it may: those of open handles, of other files and the ones that injected
\* releases have left open add up to MaxFds at most.
THEOREM TypeCorrect == Spec => []TypeOK
<1>1. MInv => TypeOK
  BY DEF MInv
<1> QED BY <1>1, MInvariance, PTL

\* Whatever the directories, the links and the text of -basedir, strcmp() in
\* error_inject() recognises unreliablefs.conf exactly if the text is the real
\* path of the directory, other than "/", or that and one slash.
THEOREM RecognisedExactly == Spec => []RecognisedIfCanonical
<1>1. MInv => RecognisedIfCanonical
  <2> SUFFICES ASSUME MInv, stage = "serving"
               PROVE  Recognised <=> Canonical
    BY DEF RecognisedIfCanonical
  <2> DEFINE cut == UpToComma(Given)
  <2>1. /\ subdir = cut
        /\ dir \in Dirs
        /\ config_path = Canon(dir) \o <<"/", ConfName>>
    BY DEF MInv, Prepared
  <2>2. Canon(dir) \in Seq(Parts) /\ Len(Canon(dir)) > 0
    BY <2>1, CanonText, MountConstants
  <2>3. Given \in Seq(Parts) /\ Len(Given) > 0
    <3>1. CASE args.basedir = NULL
      BY <3>1 DEF Given, Parts
    <3>2. CASE args.basedir # NULL
      <4>1. args.basedir \in Seq(STRING) /\ Len(args.basedir) > 0
        BY <3>2, MountConstants DEF MInv, TypeOK, ArgsType
      <4>2. \A i \in 1 .. Len(args.basedir) : args.basedir[i] \in Parts
        BY <4>1 DEF Parts
      <4>3. args.basedir \in Seq(Parts)
        BY <4>1, <4>2
      <4> QED BY <3>2, <4>1, <4>3 DEF Given
    <3> QED BY <3>1, <3>2
  <2>4. Recognised <=> Received(cut) = Canon(dir) \o <<"/", ConfName>>
    BY <2>1 DEF Recognised, HandlerPath, Received
  <2>5. cut \in Seq(Parts) /\ Len(cut) > 0
    BY <2>3, CutText
  <2>6. Recognised <=> cut # <<"/">> /\ Trimmed(cut) = Canon(dir)
    <3> HIDE DEF cut
    <3> QED BY <2>2, <2>4, <2>5, SamePath
  <2>7. CASE args.basedir = NULL
    <3>1. ~HasComma(Given)
      BY <2>7, MountConstants DEF HasComma, Given
    <3>2. cut = <<"/">>
      BY <2>7, <3>1 DEF UpToComma, Given
    <3> QED BY <2>6, <2>7, <3>2 DEF Canonical
  <2>8. CASE args.basedir # NULL
    <3>1. cut = UpToComma(args.basedir)
      BY <2>8 DEF Given
    <3> QED BY <2>6, <2>8, <3>1 DEF Canonical, Trimmed
  <2> QED BY <2>7, <2>8
<1> QED BY <1>1, MInvariance, PTL

\* Whatever the directories and links, the handlers work in the directory that
\* is_dir() has checked, unless the path is relative and the process has gone to
\* the background, or the path has a comma.
THEOREM CheckedDirectoryServed == Spec => []ServesCheckedDirectory
<1>1. MInv => ServesCheckedDirectory
  <2> SUFFICES ASSUME MInv, stage = "serving", args.foreground \/ subdir[1] = "/",
                      args.basedir # NULL => ~HasComma(args.basedir)
               PROVE  Lookup(subdir, cwd) = dir
    BY DEF ServesCheckedDirectory, Reaches
  <2>0. ~HasComma(Given)
    BY MountConstants DEF HasComma, Given
  <2>1. subdir = Given /\ dir = Lookup(Given, Home)
    BY <2>0 DEF MInv, Prepared, UpToComma
  <2>2. CASE args.foreground
    BY <2>1, <2>2 DEF MInv, Prepared
  <2>3. CASE subdir[1] = "/"
    BY <2>1, <2>3 DEF Lookup
  <2> QED BY <2>2, <2>3
<1> QED BY <1>1, MInvariance, PTL

\* However many processes edit, truncate, remove and replace the file at once, an
\* edit of it through open, write and close is in force once nobody is at it.
THEOREM EditInForce == Spec => []EditTakesEffect
<1>1. MInv => EditTakesEffect
  BY DEF MInv, Edited, EditTakesEffect, Unflushed
<1> QED BY <1>1, MInvariance, PTL
============================================================================
