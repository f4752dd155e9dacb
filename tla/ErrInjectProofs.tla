-------------------------- MODULE ErrInjectProofs --------------------------
(***************************************************************************)
(* Safety of the fault-injection engine for any number of threads, any     *)
(* requests and any configurations.                                        *)
(***************************************************************************)
EXTENDS ErrInject, TLAPS

\* The mutex belongs to the thread whose program counter is between lock and
\* unlock, so that there is at most one such thread.
Exclusion == \A t \in Threads : pc[t] \in Holding <=> mutex = t

\* What a thread that is not idle serves, and which branch of error_inject() it
\* is in: the reload for the configuration file, the walk for any other path.
Branches ==
    \A t \in Threads :
        /\ pc[t] # "idle" => req[t] \in Requests
        /\ pc[t] \in Reloading => req[t].path = ConfPath
        /\ pc[t] \in Walking => req[t].path # ConfPath

\* The queue config_init() has allocated is empty until it is filled.
FreshQueue ==
    \A t \in Threads :
        pc[t] \in Initializing => q[t] \in Addr /\ heap[q[t]] = <<>>

\* The file that a load has opened is still there, unless it has changed since.
OpenFile == \A t \in Threads : pc[t] = "parse" /\ ~dirty => file # Absent

\* rc stays 0 until the walk begins.
ZeroUntilWalk ==
    \A t \in Threads :
        /\ pc[t] \in {"idle", "lock"} \cup Reloading => rc[t] = 0
        /\ pc[t] # "idle" /\ req[t].path = ConfPath => rc[t] = 0

\* A walk is on an allocated queue.
WalksAllocated == \A t \in Threads : pc[t] \in Walking => q[t] \in Addr

IInv ==
    /\ VariableTypes
    /\ Exclusion
    /\ Branches
    /\ FreshQueue
    /\ OpenFile
    /\ ZeroUntilWalk
    /\ WalksAllocated
    /\ WalkIsStable
    /\ MemoryAccounted
    /\ LoadedIsCurrent

\* What the assumptions give, in the form the steps use.
LEMMA RequestFacts ==
    ASSUME NEW r \in Requests
    PROVE  r.pid \in Nat /\ \A e \in op_random_errno(r.op) : -e \in Int
<1>1. r.pid \in Nat /\ r.op \in Ops
  BY ConstantsOK DEF ConstantsOK, Request
<1>2. op_random_errno(r.op) \subseteq Int
  BY <1>1, ConstantsOK DEF ConstantsOK, op_random_errno
<1> QED BY <1>1, <1>2

\* Configurations are sequences, and the empty one is among them.
LEMMA ConfFacts ==
    /\ <<>> \in Confs
    /\ \A c \in Confs : Len(c) \in Nat /\ DOMAIN c = 1 .. Len(c)
    /\ Len(<<>>) = 0
BY ConstantsOK DEF ConstantsOK

USE DistinctValues, ConfFacts DEF DistinctValues, is_conf

\* main() leaves the engine in a state of the invariant.
LEMMA InitIInv == Init => IInv
<1> SUFFICES ASSUME Init PROVE IInv
  OBVIOUS
<1>1. VariableTypes
  <2>1. heap \in [Addr -> Confs \cup {Free}] /\ leaked \subseteq Addr
    <3>1. CASE errors = NULL
      BY <3>1 DEF Init
    <3>2. CASE errors \in Addr
      BY <3>2 DEF Init, QueueOf, Files
    <3> QED BY <3>1, <3>2 DEF Init
  <2>2. errors \in Addr \cup {NULL}
    BY DEF Init
  <2>3. mutex \in Threads \cup {NULL} /\ file \in Files /\ killed \subseteq Nat /\ dirty \in BOOLEAN
    BY DEF Init
  <2>4. /\ pc \in [Threads -> PC] /\ req \in [Threads -> Requests \cup {NULL}]
        /\ rc \in [Threads -> Int] /\ idx \in [Threads -> Nat]
    BY DEF Init, PC
  <2>5. /\ q \in [Threads -> Addr \cup {NULL}] /\ snap \in [Threads -> Confs]
        /\ slept \in [Threads -> BOOLEAN]
    BY DEF Init
  <2> QED BY <2>1, <2>2, <2>3, <2>4, <2>5 DEF VariableTypes
<1>2. Exclusion /\ Branches /\ FreshQueue /\ OpenFile /\ ZeroUntilWalk /\ WalksAllocated /\ WalkIsStable
  BY DEF Init, Exclusion, Branches, FreshQueue, OpenFile, ZeroUntilWalk, WalksAllocated,
         WalkIsStable, Holding, Reloading, Walking, Initializing
<1>3. MemoryAccounted
  BY DEF Init, MemoryAccounted, Allocated, Current, InProgress, Dangling, Initializing,
         QueueOf, Files
<1>4. LoadedIsCurrent
  BY DEF Init, LoadedIsCurrent, Dangling, Initializing
<1> QED BY <1>1, <1>2, <1>3, <1>4 DEF IInv

\* While nobody has the mutex, conf.errors is NULL or an allocated queue.
LEMMA ErrorsAllocated ==
    ASSUME IInv, mutex = NULL, errors # NULL
    PROVE  errors \in Addr /\ heap[errors] \in Confs
<1>1. ~Dangling
  BY DEF IInv, Exclusion, Dangling, Initializing, Holding, Reloading
<1>2. errors \in {a \in Addr : heap[a] # Free}
  BY <1>1 DEF IInv, VariableTypes, MemoryAccounted, Allocated, Current
<1> QED BY <1>2 DEF IInv, VariableTypes

\* Every step of a handler or of error_inject() keeps the types.
LEMMA TypeStep == IInv /\ [Next]_vars => VariableTypes'
<1> SUFFICES ASSUME IInv, [Next]_vars PROVE VariableTypes'
  OBVIOUS
<1> USE DEF VariableTypes, Goto, PC, shared, Files
<1>0. VariableTypes
  BY DEF IInv
<1>1. ASSUME NEW t \in Threads, NEW r \in Requests, Call(t, r) PROVE VariableTypes'
  BY <1>0, <1>1 DEF Call
<1>2. ASSUME NEW t \in Threads, Lock(t) PROVE VariableTypes'
  <2>1. CASE req[t].path = ConfPath
    BY <1>0, <1>2, <2>1 DEF Lock
  <2>2. CASE req[t].path # ConfPath /\ errors = NULL
    BY <1>0, <1>2, <2>2 DEF Lock
  <2>3. CASE req[t].path # ConfPath /\ errors # NULL
    <3>1. errors \in Addr /\ heap[errors] \in Confs
      BY <1>2, <2>3, ErrorsAllocated DEF Lock
    <3>2. /\ snap' = [snap EXCEPT ![t] = heap[errors]] /\ q' = [q EXCEPT ![t] = errors]
          /\ idx' = [idx EXCEPT ![t] = 1] /\ pc' = [pc EXCEPT ![t] = "scan"] /\ mutex' = t
          /\ UNCHANGED <<errors, heap, file, killed, leaked, dirty, req, rc, slept>>
      BY <1>2, <2>3 DEF Lock
    <3> QED BY <1>0, <3>1, <3>2
  <2> QED BY <2>1, <2>2, <2>3
<1>3. ASSUME NEW t \in Threads, config_delete(t) PROVE VariableTypes'
  BY <1>0, <1>3 DEF config_delete
<1>4. ASSUME NEW t \in Threads, config_init_calloc(t) PROVE VariableTypes'
  <2>1. CASE errors' = NULL /\ UNCHANGED <<heap, q>>
    BY <1>0, <1>4, <2>1 DEF config_init_calloc
  <2>2. ASSUME NEW a \in Addr, heap' = [heap EXCEPT ![a] = <<>>],
               q' = [q EXCEPT ![t] = a], UNCHANGED errors
        PROVE  VariableTypes'
    BY <1>0, <1>4, <2>2 DEF config_init_calloc
  <2> QED BY <1>4, <2>1, <2>2 DEF config_init_calloc
<1>5. ASSUME NEW t \in Threads, config_init_access(t) PROVE VariableTypes'
  BY <1>0, <1>5 DEF config_init_access
<1>5a. ASSUME NEW t \in Threads, config_init_open(t) PROVE VariableTypes'
  <2>1. q[t] \in Addr
    BY <1>5a DEF IInv, FreshQueue, Initializing, config_init_open
  <2>2. leaked' \subseteq Addr /\ errors' \in Addr \cup {NULL}
    BY <1>0, <1>5a, <2>1 DEF config_init_open
  <2> QED BY <1>0, <1>5a, <2>2 DEF config_init_open
<1>6. ASSUME NEW t \in Threads, config_init_parse(t) PROVE VariableTypes'
  <2>1. q[t] \in Addr
    BY <1>6 DEF IInv, FreshQueue, Initializing, config_init_parse
  <2>2. heap' \in [Addr -> Confs \cup {Free}]
    BY <1>0, <1>6, <2>1 DEF config_init_parse
  <2> QED BY <1>0, <1>6, <2>1, <2>2 DEF config_init_parse
<1>7. ASSUME NEW t \in Threads, Skip(t) PROVE VariableTypes'
  BY <1>0, <1>7 DEF Skip, AtEntry, NextEntry
<1>8. ASSUME NEW t \in Threads, InjectNoop(t) PROVE VariableTypes'
  BY <1>0, <1>8 DEF InjectNoop, AtEntry, NextEntry, NOOP
<1>9. ASSUME NEW t \in Threads, InjectKillCaller(t) PROVE VariableTypes'
  <2>1. req[t] \in Requests
    BY <1>9 DEF IInv, Branches, InjectKillCaller, AtEntry
  <2>2. killed' \subseteq killed \cup {req[t].pid}
    BY <1>9 DEF InjectKillCaller
  <2>3. killed' \subseteq Nat
    BY <1>0, <2>1, <2>2, RequestFacts
  <2> QED BY <1>0, <1>9, <2>3 DEF InjectKillCaller, NextEntry
<1>10. ASSUME NEW t \in Threads, InjectErrno(t) PROVE VariableTypes'
  <2>1. req[t] \in Requests
    BY <1>10 DEF IInv, Branches, InjectErrno, AtEntry
  <2>2. rc' \in [Threads -> Int]
    BY <1>0, <1>10, <2>1, RequestFacts DEF InjectErrno
  <2> QED BY <1>0, <1>10, <2>2 DEF InjectErrno, NextEntry
<1>11. ASSUME NEW t \in Threads, InjectSlowdown(t) PROVE VariableTypes'
  <2>1. CASE Sleeps(Entry(t).duration)
    BY <1>0, <1>11, <2>1 DEF InjectSlowdown
  <2>2. CASE ~Sleeps(Entry(t).duration)
    <3>1. UNCHANGED <<pc, slept>> /\ idx' = [idx EXCEPT ![t] = @ + 1]
      BY <1>11, <2>2 DEF InjectSlowdown, NextEntry
    <3> QED BY <1>0, <1>11, <3>1 DEF InjectSlowdown
  <2> QED BY <2>1, <2>2
<1>12. ASSUME NEW t \in Threads, Wake(t) PROVE VariableTypes'
  BY <1>0, <1>12 DEF Wake, NextEntry
<1>13. ASSUME NEW t \in Threads, EndWalk(t) PROVE VariableTypes'
  BY <1>0, <1>13 DEF EndWalk
<1>14. ASSUME NEW t \in Threads, Unlock(t) PROVE VariableTypes'
  BY <1>0, <1>14 DEF Unlock
<1>15. ASSUME NEW t \in Threads, ReturnInjected(t) PROVE VariableTypes'
  BY <1>0, <1>15 DEF ReturnInjected, Return
<1>16. ASSUME NEW t \in Threads, SystemCall(t) PROVE VariableTypes'
  BY <1>0, <1>16 DEF SystemCall, Return
<1>17. CASE UNCHANGED vars
  BY <1>0, <1>17 DEF vars, locals
<1> QED
  BY <1>1, <1>2, <1>3, <1>4, <1>5, <1>5a, <1>6, <1>7, <1>8, <1>9, <1>10, <1>11, <1>12, <1>13, <1>14, <1>15, <1>16, <1>17 DEF Next, InMutex, Reload, Walk

\* Only the owner of the mutex leaves the critical section, and only a thread
\* that finds it free enters.
LEMMA ExclusionStep == IInv /\ [Next]_vars => Exclusion'
<1> SUFFICES ASSUME IInv, [Next]_vars PROVE Exclusion'
  OBVIOUS
<1> USE DEF VariableTypes, Goto, shared, Exclusion, Holding, Reloading, Walking
<1>0. IInv
  OBVIOUS
<1>1. ASSUME NEW t \in Threads, NEW r \in Requests, Call(t, r) PROVE Exclusion'
  BY <1>0, <1>1 DEF Call, IInv
<1>2. ASSUME NEW t \in Threads, Lock(t) PROVE Exclusion'
  BY <1>0, <1>2 DEF IInv, Lock
<1>3. ASSUME NEW t \in Threads, config_delete(t) PROVE Exclusion'
  BY <1>0, <1>3 DEF IInv, config_delete
<1>4. ASSUME NEW t \in Threads, config_init_calloc(t) PROVE Exclusion'
  BY <1>0, <1>4 DEF IInv, config_init_calloc
<1>5. ASSUME NEW t \in Threads, config_init_access(t) PROVE Exclusion'
  BY <1>0, <1>5 DEF IInv, config_init_access
<1>5a. ASSUME NEW t \in Threads, config_init_open(t) PROVE Exclusion'
  BY <1>0, <1>5a DEF IInv, config_init_open
<1>6. ASSUME NEW t \in Threads, config_init_parse(t) PROVE Exclusion'
  BY <1>0, <1>6 DEF IInv, config_init_parse
<1>7. ASSUME NEW t \in Threads, Skip(t) PROVE Exclusion'
  BY <1>0, <1>7 DEF IInv, Skip, AtEntry, NextEntry
<1>8. ASSUME NEW t \in Threads, InjectNoop(t) PROVE Exclusion'
  BY <1>0, <1>8 DEF IInv, InjectNoop, AtEntry, NextEntry
<1>9. ASSUME NEW t \in Threads, InjectKillCaller(t) PROVE Exclusion'
  BY <1>0, <1>9 DEF IInv, InjectKillCaller, AtEntry, NextEntry
<1>10. ASSUME NEW t \in Threads, InjectErrno(t) PROVE Exclusion'
  BY <1>0, <1>10 DEF IInv, InjectErrno, AtEntry, NextEntry
<1>11. ASSUME NEW t \in Threads, InjectSlowdown(t) PROVE Exclusion'
  BY <1>0, <1>11 DEF IInv, InjectSlowdown, AtEntry, NextEntry
<1>12. ASSUME NEW t \in Threads, Wake(t) PROVE Exclusion'
  BY <1>0, <1>12 DEF IInv, Wake, NextEntry
<1>13. ASSUME NEW t \in Threads, EndWalk(t) PROVE Exclusion'
  BY <1>0, <1>13 DEF IInv, EndWalk
<1>14. ASSUME NEW t \in Threads, Unlock(t) PROVE Exclusion'
  BY <1>0, <1>14 DEF IInv, Unlock
<1>15. ASSUME NEW t \in Threads, ReturnInjected(t) PROVE Exclusion'
  BY <1>0, <1>15 DEF IInv, ReturnInjected, Return
<1>16. ASSUME NEW t \in Threads, SystemCall(t) PROVE Exclusion'
  BY <1>0, <1>16 DEF IInv, SystemCall, Return
<1>17. CASE UNCHANGED vars
  BY <1>0, <1>17 DEF IInv, vars, locals
<1> QED
  BY <1>1, <1>2, <1>3, <1>4, <1>5, <1>5a, <1>6, <1>7, <1>8, <1>9, <1>10, <1>11, <1>12, <1>13, <1>14, <1>15, <1>16, <1>17 DEF Next, InMutex, Reload, Walk

\* A thread keeps its request from the call to the return.
LEMMA BranchesStep == IInv /\ [Next]_vars => Branches'
<1> SUFFICES ASSUME IInv, [Next]_vars PROVE Branches'
  OBVIOUS
<1> USE DEF VariableTypes, Goto, shared, Branches, Reloading, Walking
<1>0. IInv
  OBVIOUS
<1>1. ASSUME NEW t \in Threads, NEW r \in Requests, Call(t, r) PROVE Branches'
  BY <1>0, <1>1 DEF Call, IInv
<1>2. ASSUME NEW t \in Threads, Lock(t) PROVE Branches'
  BY <1>0, <1>2 DEF IInv, Lock
<1>3. ASSUME NEW t \in Threads, config_delete(t) PROVE Branches'
  BY <1>0, <1>3 DEF IInv, config_delete
<1>4. ASSUME NEW t \in Threads, config_init_calloc(t) PROVE Branches'
  BY <1>0, <1>4 DEF IInv, config_init_calloc
<1>5. ASSUME NEW t \in Threads, config_init_access(t) PROVE Branches'
  BY <1>0, <1>5 DEF IInv, config_init_access
<1>5a. ASSUME NEW t \in Threads, config_init_open(t) PROVE Branches'
  BY <1>0, <1>5a DEF IInv, config_init_open
<1>6. ASSUME NEW t \in Threads, config_init_parse(t) PROVE Branches'
  BY <1>0, <1>6 DEF IInv, config_init_parse
<1>7. ASSUME NEW t \in Threads, Skip(t) PROVE Branches'
  BY <1>0, <1>7 DEF IInv, Skip, AtEntry, NextEntry
<1>8. ASSUME NEW t \in Threads, InjectNoop(t) PROVE Branches'
  BY <1>0, <1>8 DEF IInv, InjectNoop, AtEntry, NextEntry
<1>9. ASSUME NEW t \in Threads, InjectKillCaller(t) PROVE Branches'
  BY <1>0, <1>9 DEF IInv, InjectKillCaller, AtEntry, NextEntry
<1>10. ASSUME NEW t \in Threads, InjectErrno(t) PROVE Branches'
  BY <1>0, <1>10 DEF IInv, InjectErrno, AtEntry, NextEntry
<1>11. ASSUME NEW t \in Threads, InjectSlowdown(t) PROVE Branches'
  BY <1>0, <1>11 DEF IInv, InjectSlowdown, AtEntry, NextEntry
<1>12. ASSUME NEW t \in Threads, Wake(t) PROVE Branches'
  BY <1>0, <1>12 DEF IInv, Wake, NextEntry
<1>13. ASSUME NEW t \in Threads, EndWalk(t) PROVE Branches'
  BY <1>0, <1>13 DEF IInv, EndWalk
<1>14. ASSUME NEW t \in Threads, Unlock(t) PROVE Branches'
  BY <1>0, <1>14 DEF IInv, Unlock
<1>15. ASSUME NEW t \in Threads, ReturnInjected(t) PROVE Branches'
  BY <1>0, <1>15 DEF IInv, ReturnInjected, Return
<1>16. ASSUME NEW t \in Threads, SystemCall(t) PROVE Branches'
  BY <1>0, <1>16 DEF IInv, SystemCall, Return
<1>17. CASE UNCHANGED vars
  BY <1>0, <1>17 DEF IInv, vars, locals
<1> QED
  BY <1>1, <1>2, <1>3, <1>4, <1>5, <1>5a, <1>6, <1>7, <1>8, <1>9, <1>10, <1>11, <1>12, <1>13, <1>14, <1>15, <1>16, <1>17 DEF Next, InMutex, Reload, Walk

\* Only the walk assigns rc.
LEMMA ZeroStep == IInv /\ [Next]_vars => ZeroUntilWalk'
<1> SUFFICES ASSUME IInv, [Next]_vars PROVE ZeroUntilWalk'
  OBVIOUS
<1> USE DEF VariableTypes, Goto, shared, ZeroUntilWalk, Branches, Reloading, Walking
<1>0. IInv
  OBVIOUS
<1>1. ASSUME NEW t \in Threads, NEW r \in Requests, Call(t, r) PROVE ZeroUntilWalk'
  BY <1>0, <1>1 DEF Call, IInv
<1>2. ASSUME NEW t \in Threads, Lock(t) PROVE ZeroUntilWalk'
  BY <1>0, <1>2 DEF IInv, Lock
<1>3. ASSUME NEW t \in Threads, config_delete(t) PROVE ZeroUntilWalk'
  BY <1>0, <1>3 DEF IInv, config_delete
<1>4. ASSUME NEW t \in Threads, config_init_calloc(t) PROVE ZeroUntilWalk'
  BY <1>0, <1>4 DEF IInv, config_init_calloc
<1>5. ASSUME NEW t \in Threads, config_init_access(t) PROVE ZeroUntilWalk'
  BY <1>0, <1>5 DEF IInv, config_init_access
<1>5a. ASSUME NEW t \in Threads, config_init_open(t) PROVE ZeroUntilWalk'
  BY <1>0, <1>5a DEF IInv, config_init_open
<1>6. ASSUME NEW t \in Threads, config_init_parse(t) PROVE ZeroUntilWalk'
  BY <1>0, <1>6 DEF IInv, config_init_parse
<1>7. ASSUME NEW t \in Threads, Skip(t) PROVE ZeroUntilWalk'
  BY <1>0, <1>7 DEF IInv, Skip, AtEntry, NextEntry
<1>8. ASSUME NEW t \in Threads, InjectNoop(t) PROVE ZeroUntilWalk'
  BY <1>0, <1>8 DEF IInv, InjectNoop, AtEntry, NextEntry
<1>9. ASSUME NEW t \in Threads, InjectKillCaller(t) PROVE ZeroUntilWalk'
  BY <1>0, <1>9 DEF IInv, InjectKillCaller, AtEntry, NextEntry
<1>10. ASSUME NEW t \in Threads, InjectErrno(t) PROVE ZeroUntilWalk'
  BY <1>0, <1>10 DEF IInv, InjectErrno, AtEntry, NextEntry
<1>11. ASSUME NEW t \in Threads, InjectSlowdown(t) PROVE ZeroUntilWalk'
  BY <1>0, <1>11 DEF IInv, InjectSlowdown, AtEntry, NextEntry
<1>12. ASSUME NEW t \in Threads, Wake(t) PROVE ZeroUntilWalk'
  BY <1>0, <1>12 DEF IInv, Wake, NextEntry
<1>13. ASSUME NEW t \in Threads, EndWalk(t) PROVE ZeroUntilWalk'
  BY <1>0, <1>13 DEF IInv, EndWalk
<1>14. ASSUME NEW t \in Threads, Unlock(t) PROVE ZeroUntilWalk'
  BY <1>0, <1>14 DEF IInv, Unlock
<1>15. ASSUME NEW t \in Threads, ReturnInjected(t) PROVE ZeroUntilWalk'
  BY <1>0, <1>15 DEF IInv, ReturnInjected, Return
<1>16. ASSUME NEW t \in Threads, SystemCall(t) PROVE ZeroUntilWalk'
  BY <1>0, <1>16 DEF IInv, SystemCall, Return
<1>17. CASE UNCHANGED vars
  BY <1>0, <1>17 DEF IInv, vars, locals
<1> QED
  BY <1>1, <1>2, <1>3, <1>4, <1>5, <1>5a, <1>6, <1>7, <1>8, <1>9, <1>10, <1>11, <1>12, <1>13, <1>14, <1>15, <1>16, <1>17 DEF Next, InMutex, Reload, Walk

\* Nobody else touches the heap while config_init() runs.
LEMMA FreshQueueStep == IInv /\ [Next]_vars => FreshQueue'
<1> SUFFICES ASSUME IInv, [Next]_vars PROVE FreshQueue'
  OBVIOUS
<1> USE DEF VariableTypes, Goto, shared, FreshQueue, Exclusion, Holding, Reloading, Walking, Initializing
<1>0. IInv
  OBVIOUS
<1>1. ASSUME NEW t \in Threads, NEW r \in Requests, Call(t, r) PROVE FreshQueue'
  BY <1>0, <1>1 DEF Call, IInv
<1>2. ASSUME NEW t \in Threads, Lock(t) PROVE FreshQueue'
  BY <1>0, <1>2 DEF IInv, Lock
<1>3. ASSUME NEW t \in Threads, config_delete(t) PROVE FreshQueue'
  BY <1>0, <1>3 DEF IInv, config_delete
<1>4. ASSUME NEW t \in Threads, config_init_calloc(t) PROVE FreshQueue'
  BY <1>0, <1>4 DEF IInv, config_init_calloc
<1>5. ASSUME NEW t \in Threads, config_init_access(t) PROVE FreshQueue'
  BY <1>0, <1>5 DEF IInv, config_init_access
<1>5a. ASSUME NEW t \in Threads, config_init_open(t) PROVE FreshQueue'
  BY <1>0, <1>5a DEF IInv, config_init_open
<1>6. ASSUME NEW t \in Threads, config_init_parse(t) PROVE FreshQueue'
  BY <1>0, <1>6 DEF IInv, config_init_parse
<1>7. ASSUME NEW t \in Threads, Skip(t) PROVE FreshQueue'
  BY <1>0, <1>7 DEF IInv, Skip, AtEntry, NextEntry
<1>8. ASSUME NEW t \in Threads, InjectNoop(t) PROVE FreshQueue'
  BY <1>0, <1>8 DEF IInv, InjectNoop, AtEntry, NextEntry
<1>9. ASSUME NEW t \in Threads, InjectKillCaller(t) PROVE FreshQueue'
  BY <1>0, <1>9 DEF IInv, InjectKillCaller, AtEntry, NextEntry
<1>10. ASSUME NEW t \in Threads, InjectErrno(t) PROVE FreshQueue'
  BY <1>0, <1>10 DEF IInv, InjectErrno, AtEntry, NextEntry
<1>11. ASSUME NEW t \in Threads, InjectSlowdown(t) PROVE FreshQueue'
  BY <1>0, <1>11 DEF IInv, InjectSlowdown, AtEntry, NextEntry
<1>12. ASSUME NEW t \in Threads, Wake(t) PROVE FreshQueue'
  BY <1>0, <1>12 DEF IInv, Wake, NextEntry
<1>13. ASSUME NEW t \in Threads, EndWalk(t) PROVE FreshQueue'
  BY <1>0, <1>13 DEF IInv, EndWalk
<1>14. ASSUME NEW t \in Threads, Unlock(t) PROVE FreshQueue'
  BY <1>0, <1>14 DEF IInv, Unlock
<1>15. ASSUME NEW t \in Threads, ReturnInjected(t) PROVE FreshQueue'
  BY <1>0, <1>15 DEF IInv, ReturnInjected, Return
<1>16. ASSUME NEW t \in Threads, SystemCall(t) PROVE FreshQueue'
  BY <1>0, <1>16 DEF IInv, SystemCall, Return
<1>17. CASE UNCHANGED vars
  BY <1>0, <1>17 DEF IInv, vars, locals
<1> QED
  BY <1>1, <1>2, <1>3, <1>4, <1>5, <1>5a, <1>6, <1>7, <1>8, <1>9, <1>10, <1>11, <1>12, <1>13, <1>14, <1>15, <1>16, <1>17 DEF Next, InMutex, Reload, Walk

\* A step that removes the file marks it as changed.
LEMMA OpenFileStep == IInv /\ [Next]_vars => OpenFile'
<1> SUFFICES ASSUME IInv, [Next]_vars PROVE OpenFile'
  OBVIOUS
<1> USE DEF VariableTypes, Goto, shared, OpenFile, Exclusion, Holding, Reloading, Walking
<1>0. IInv
  OBVIOUS
<1>1. ASSUME NEW t \in Threads, NEW r \in Requests, Call(t, r) PROVE OpenFile'
  BY <1>0, <1>1 DEF Call, IInv
<1>2. ASSUME NEW t \in Threads, Lock(t) PROVE OpenFile'
  BY <1>0, <1>2 DEF IInv, Lock
<1>3. ASSUME NEW t \in Threads, config_delete(t) PROVE OpenFile'
  BY <1>0, <1>3 DEF IInv, config_delete
<1>4. ASSUME NEW t \in Threads, config_init_calloc(t) PROVE OpenFile'
  BY <1>0, <1>4 DEF IInv, config_init_calloc
<1>5. ASSUME NEW t \in Threads, config_init_access(t) PROVE OpenFile'
  BY <1>0, <1>5 DEF IInv, config_init_access
<1>5a. ASSUME NEW t \in Threads, config_init_open(t) PROVE OpenFile'
  BY <1>0, <1>5a DEF IInv, config_init_open
<1>6. ASSUME NEW t \in Threads, config_init_parse(t) PROVE OpenFile'
  BY <1>0, <1>6 DEF IInv, config_init_parse
<1>7. ASSUME NEW t \in Threads, Skip(t) PROVE OpenFile'
  BY <1>0, <1>7 DEF IInv, Skip, AtEntry, NextEntry
<1>8. ASSUME NEW t \in Threads, InjectNoop(t) PROVE OpenFile'
  BY <1>0, <1>8 DEF IInv, InjectNoop, AtEntry, NextEntry
<1>9. ASSUME NEW t \in Threads, InjectKillCaller(t) PROVE OpenFile'
  BY <1>0, <1>9 DEF IInv, InjectKillCaller, AtEntry, NextEntry
<1>10. ASSUME NEW t \in Threads, InjectErrno(t) PROVE OpenFile'
  BY <1>0, <1>10 DEF IInv, InjectErrno, AtEntry, NextEntry
<1>11. ASSUME NEW t \in Threads, InjectSlowdown(t) PROVE OpenFile'
  BY <1>0, <1>11 DEF IInv, InjectSlowdown, AtEntry, NextEntry
<1>12. ASSUME NEW t \in Threads, Wake(t) PROVE OpenFile'
  BY <1>0, <1>12 DEF IInv, Wake, NextEntry
<1>13. ASSUME NEW t \in Threads, EndWalk(t) PROVE OpenFile'
  BY <1>0, <1>13 DEF IInv, EndWalk
<1>14. ASSUME NEW t \in Threads, Unlock(t) PROVE OpenFile'
  BY <1>0, <1>14 DEF IInv, Unlock
<1>15. ASSUME NEW t \in Threads, ReturnInjected(t) PROVE OpenFile'
  BY <1>0, <1>15 DEF IInv, ReturnInjected, Return
<1>16. ASSUME NEW t \in Threads, SystemCall(t) PROVE OpenFile'
  BY <1>0, <1>16 DEF IInv, SystemCall, Return
<1>17. CASE UNCHANGED vars
  BY <1>0, <1>17 DEF IInv, vars, locals
<1> QED
  BY <1>1, <1>2, <1>3, <1>4, <1>5, <1>5a, <1>6, <1>7, <1>8, <1>9, <1>10, <1>11, <1>12, <1>13, <1>14, <1>15, <1>16, <1>17 DEF Next, InMutex, Reload, Walk

\* A walk starts on conf.errors and keeps its queue.
LEMMA WalksAllocatedStep == IInv /\ [Next]_vars => WalksAllocated'
<1> SUFFICES ASSUME IInv, [Next]_vars PROVE WalksAllocated'
  OBVIOUS
<1> USE DEF VariableTypes, Goto, shared, WalksAllocated, Walking
<1>0. IInv
  OBVIOUS
<1>1. ASSUME NEW t \in Threads, NEW r \in Requests, Call(t, r) PROVE WalksAllocated'
  BY <1>0, <1>1 DEF Call, IInv
<1>2. ASSUME NEW t \in Threads, Lock(t) PROVE WalksAllocated'
  BY <1>0, <1>2 DEF IInv, Lock
<1>3. ASSUME NEW t \in Threads, config_delete(t) PROVE WalksAllocated'
  BY <1>0, <1>3 DEF IInv, config_delete
<1>4. ASSUME NEW t \in Threads, config_init_calloc(t) PROVE WalksAllocated'
  BY <1>0, <1>4 DEF IInv, config_init_calloc
<1>5. ASSUME NEW t \in Threads, config_init_access(t) PROVE WalksAllocated'
  BY <1>0, <1>5 DEF IInv, config_init_access
<1>5a. ASSUME NEW t \in Threads, config_init_open(t) PROVE WalksAllocated'
  BY <1>0, <1>5a DEF IInv, config_init_open
<1>6. ASSUME NEW t \in Threads, config_init_parse(t) PROVE WalksAllocated'
  BY <1>0, <1>6 DEF IInv, config_init_parse
<1>7. ASSUME NEW t \in Threads, Skip(t) PROVE WalksAllocated'
  BY <1>0, <1>7 DEF IInv, Skip, AtEntry, NextEntry
<1>8. ASSUME NEW t \in Threads, InjectNoop(t) PROVE WalksAllocated'
  BY <1>0, <1>8 DEF IInv, InjectNoop, AtEntry, NextEntry
<1>9. ASSUME NEW t \in Threads, InjectKillCaller(t) PROVE WalksAllocated'
  BY <1>0, <1>9 DEF IInv, InjectKillCaller, AtEntry, NextEntry
<1>10. ASSUME NEW t \in Threads, InjectErrno(t) PROVE WalksAllocated'
  BY <1>0, <1>10 DEF IInv, InjectErrno, AtEntry, NextEntry
<1>11. ASSUME NEW t \in Threads, InjectSlowdown(t) PROVE WalksAllocated'
  BY <1>0, <1>11 DEF IInv, InjectSlowdown, AtEntry, NextEntry
<1>12. ASSUME NEW t \in Threads, Wake(t) PROVE WalksAllocated'
  BY <1>0, <1>12 DEF IInv, Wake, NextEntry
<1>13. ASSUME NEW t \in Threads, EndWalk(t) PROVE WalksAllocated'
  BY <1>0, <1>13 DEF IInv, EndWalk
<1>14. ASSUME NEW t \in Threads, Unlock(t) PROVE WalksAllocated'
  BY <1>0, <1>14 DEF IInv, Unlock
<1>15. ASSUME NEW t \in Threads, ReturnInjected(t) PROVE WalksAllocated'
  BY <1>0, <1>15 DEF IInv, ReturnInjected, Return
<1>16. ASSUME NEW t \in Threads, SystemCall(t) PROVE WalksAllocated'
  BY <1>0, <1>16 DEF IInv, SystemCall, Return
<1>17. CASE UNCHANGED vars
  BY <1>0, <1>17 DEF IInv, vars, locals
<1> QED
  BY <1>1, <1>2, <1>3, <1>4, <1>5, <1>5a, <1>6, <1>7, <1>8, <1>9, <1>10, <1>11, <1>12, <1>13, <1>14, <1>15, <1>16, <1>17 DEF Next, InMutex, Reload, Walk

\* Whoever changes conf.errors or the heap has the mutex, hence no walk is on.
LEMMA StableStep == IInv /\ [Next]_vars => WalkIsStable'
<1> SUFFICES ASSUME IInv, [Next]_vars PROVE WalkIsStable'
  OBVIOUS
<1> USE DEF VariableTypes, Goto, shared, WalkIsStable, Exclusion, Holding, Reloading, Walking
<1>0. IInv
  OBVIOUS
<1>1. ASSUME NEW t \in Threads, NEW r \in Requests, Call(t, r) PROVE WalkIsStable'
  BY <1>0, <1>1 DEF Call, IInv
<1>2. ASSUME NEW t \in Threads, Lock(t) PROVE WalkIsStable'
  BY <1>0, <1>2 DEF IInv, Lock
<1>3. ASSUME NEW t \in Threads, config_delete(t) PROVE WalkIsStable'
  BY <1>0, <1>3 DEF IInv, config_delete
<1>4. ASSUME NEW t \in Threads, config_init_calloc(t) PROVE WalkIsStable'
  BY <1>0, <1>4 DEF IInv, config_init_calloc
<1>5. ASSUME NEW t \in Threads, config_init_access(t) PROVE WalkIsStable'
  BY <1>0, <1>5 DEF IInv, config_init_access
<1>5a. ASSUME NEW t \in Threads, config_init_open(t) PROVE WalkIsStable'
  BY <1>0, <1>5a DEF IInv, config_init_open
<1>6. ASSUME NEW t \in Threads, config_init_parse(t) PROVE WalkIsStable'
  BY <1>0, <1>6 DEF IInv, config_init_parse
<1>7. ASSUME NEW t \in Threads, Skip(t) PROVE WalkIsStable'
  BY <1>0, <1>7 DEF IInv, Skip, AtEntry, NextEntry
<1>8. ASSUME NEW t \in Threads, InjectNoop(t) PROVE WalkIsStable'
  BY <1>0, <1>8 DEF IInv, InjectNoop, AtEntry, NextEntry
<1>9. ASSUME NEW t \in Threads, InjectKillCaller(t) PROVE WalkIsStable'
  BY <1>0, <1>9 DEF IInv, InjectKillCaller, AtEntry, NextEntry
<1>10. ASSUME NEW t \in Threads, InjectErrno(t) PROVE WalkIsStable'
  BY <1>0, <1>10 DEF IInv, InjectErrno, AtEntry, NextEntry
<1>11. ASSUME NEW t \in Threads, InjectSlowdown(t) PROVE WalkIsStable'
  BY <1>0, <1>11 DEF IInv, InjectSlowdown, AtEntry, NextEntry
<1>12. ASSUME NEW t \in Threads, Wake(t) PROVE WalkIsStable'
  BY <1>0, <1>12 DEF IInv, Wake, NextEntry
<1>13. ASSUME NEW t \in Threads, EndWalk(t) PROVE WalkIsStable'
  BY <1>0, <1>13 DEF IInv, EndWalk
<1>14. ASSUME NEW t \in Threads, Unlock(t) PROVE WalkIsStable'
  BY <1>0, <1>14 DEF IInv, Unlock
<1>15. ASSUME NEW t \in Threads, ReturnInjected(t) PROVE WalkIsStable'
  BY <1>0, <1>15 DEF IInv, ReturnInjected, Return
<1>16. ASSUME NEW t \in Threads, SystemCall(t) PROVE WalkIsStable'
  BY <1>0, <1>16 DEF IInv, SystemCall, Return
<1>17. CASE UNCHANGED vars
  BY <1>0, <1>17 DEF IInv, vars, locals
<1> QED
  BY <1>1, <1>2, <1>3, <1>4, <1>5, <1>5a, <1>6, <1>7, <1>8, <1>9, <1>10, <1>11, <1>12, <1>13, <1>14, <1>15, <1>16, <1>17 DEF Next, InMutex, Reload, Walk

\* The load and the file are compared at the step that reads the file.
LEMMA CurrentStep == IInv /\ [Next]_vars => LoadedIsCurrent'
<1> SUFFICES ASSUME IInv, [Next]_vars PROVE LoadedIsCurrent'
  OBVIOUS
<1> USE DEF VariableTypes, Goto, shared, LoadedIsCurrent, FreshQueue, OpenFile, Dangling, Initializing, QueueOf, Exclusion, Holding, Reloading, Walking
<1>0. IInv
  OBVIOUS
<1>1. ASSUME NEW t \in Threads, NEW r \in Requests, Call(t, r) PROVE LoadedIsCurrent'
  BY <1>0, <1>1 DEF Call, IInv
<1>2. ASSUME NEW t \in Threads, Lock(t) PROVE LoadedIsCurrent'
  BY <1>0, <1>2 DEF IInv, Lock
<1>3. ASSUME NEW t \in Threads, config_delete(t) PROVE LoadedIsCurrent'
  BY <1>0, <1>3 DEF IInv, config_delete
<1>4. ASSUME NEW t \in Threads, config_init_calloc(t) PROVE LoadedIsCurrent'
  BY <1>0, <1>4 DEF IInv, config_init_calloc
<1>5. ASSUME NEW t \in Threads, config_init_access(t) PROVE LoadedIsCurrent'
  BY <1>0, <1>5 DEF IInv, config_init_access
<1>5a. ASSUME NEW t \in Threads, config_init_open(t) PROVE LoadedIsCurrent'
  BY <1>0, <1>5a DEF IInv, config_init_open
<1>6. ASSUME NEW t \in Threads, config_init_parse(t) PROVE LoadedIsCurrent'
  BY <1>0, <1>6 DEF IInv, config_init_parse
<1>7. ASSUME NEW t \in Threads, Skip(t) PROVE LoadedIsCurrent'
  BY <1>0, <1>7 DEF IInv, Skip, AtEntry, NextEntry
<1>8. ASSUME NEW t \in Threads, InjectNoop(t) PROVE LoadedIsCurrent'
  BY <1>0, <1>8 DEF IInv, InjectNoop, AtEntry, NextEntry
<1>9. ASSUME NEW t \in Threads, InjectKillCaller(t) PROVE LoadedIsCurrent'
  BY <1>0, <1>9 DEF IInv, InjectKillCaller, AtEntry, NextEntry
<1>10. ASSUME NEW t \in Threads, InjectErrno(t) PROVE LoadedIsCurrent'
  BY <1>0, <1>10 DEF IInv, InjectErrno, AtEntry, NextEntry
<1>11. ASSUME NEW t \in Threads, InjectSlowdown(t) PROVE LoadedIsCurrent'
  BY <1>0, <1>11 DEF IInv, InjectSlowdown, AtEntry, NextEntry
<1>12. ASSUME NEW t \in Threads, Wake(t) PROVE LoadedIsCurrent'
  BY <1>0, <1>12 DEF IInv, Wake, NextEntry
<1>13. ASSUME NEW t \in Threads, EndWalk(t) PROVE LoadedIsCurrent'
  BY <1>0, <1>13 DEF IInv, EndWalk
<1>14. ASSUME NEW t \in Threads, Unlock(t) PROVE LoadedIsCurrent'
  BY <1>0, <1>14 DEF IInv, Unlock
<1>15. ASSUME NEW t \in Threads, ReturnInjected(t) PROVE LoadedIsCurrent'
  BY <1>0, <1>15 DEF IInv, ReturnInjected, Return
<1>16. ASSUME NEW t \in Threads, SystemCall(t) PROVE LoadedIsCurrent'
  BY <1>0, <1>16 DEF IInv, SystemCall, Return
<1>17. CASE UNCHANGED vars
  BY <1>0, <1>17 DEF IInv, vars, locals
<1> QED
  BY <1>1, <1>2, <1>3, <1>4, <1>5, <1>5a, <1>6, <1>7, <1>8, <1>9, <1>10, <1>11, <1>12, <1>13, <1>14, <1>15, <1>16, <1>17 DEF Next, InMutex, Reload, Walk

\* Which queues have an owner depends on the thread in the mutex alone.
LEMMA OwnersByHolder ==
    ASSUME Exclusion, NEW t \in Threads, pc[t] \in Holding
    PROVE  /\ InProgress = IF pc[t] \in Initializing THEN {q[t]} ELSE {}
           /\ Dangling <=> pc[t] \in {"calloc"} \cup Initializing
<1>1. \A u \in Threads : pc[u] \in Holding => u = t
  BY DEF Exclusion
<1> QED
  BY <1>1 DEF InProgress, Dangling, Initializing, Holding, Reloading

\* A step that takes no thread into or out of config_init() and changes neither
\* the heap, nor conf.errors, nor the leak keeps the account.
LEMMA SameAccount ==
    ASSUME IInv, UNCHANGED <<errors, heap, leaked>>,
           \A u \in Threads : pc[u] \in {"calloc"} \cup Initializing <=> pc'[u] \in {"calloc"} \cup Initializing,
           \A u \in Threads : pc[u] \in Initializing <=> pc'[u] \in Initializing,
           \A u \in Threads : pc[u] \in Initializing => q'[u] = q[u]
    PROVE  MemoryAccounted'
<1>1. Dangling' <=> Dangling
  BY DEF Dangling
<1>2. InProgress' = InProgress
  BY DEF InProgress
<1> QED
  BY <1>1, <1>2 DEF IInv, MemoryAccounted, Allocated, Current

\* OwnersByHolder in the state after a step.
LEMMA OwnersByHolderNext ==
    ASSUME Exclusion', NEW t \in Threads, pc'[t] \in Holding
    PROVE  /\ InProgress' = IF pc'[t] \in Initializing THEN {q'[t]} ELSE {}
           /\ Dangling' <=> pc'[t] \in {"calloc"} \cup Initializing
<1>1. \A u \in Threads : pc'[u] \in Holding => u = t
  BY DEF Exclusion
<1> QED
  BY <1>1 DEF InProgress, Dangling, Initializing, Holding, Reloading

\* A queue passes from config_init() to conf.errors, to the leak or to free().
LEMMA MemoryStep == IInv /\ [Next]_vars => MemoryAccounted'
<1> SUFFICES ASSUME IInv, [Next]_vars PROVE MemoryAccounted'
  OBVIOUS
<1>0. IInv /\ Exclusion /\ Exclusion' /\ VariableTypes /\ MemoryAccounted
  BY ExclusionStep DEF IInv
<1> USE DEF Goto, Holding, Reloading, Initializing
<1>1. ASSUME NEW t \in Threads, NEW r \in Requests, Call(t, r) PROVE MemoryAccounted'
  BY <1>0, <1>1, SameAccount DEF Call, VariableTypes, shared
<1>2. ASSUME NEW t \in Threads, Lock(t) PROVE MemoryAccounted'
  BY <1>0, <1>2, SameAccount DEF Lock, VariableTypes
<1>3. ASSUME NEW t \in Threads, config_delete(t) PROVE MemoryAccounted'
  <2>1. InProgress = {} /\ ~Dangling
    BY <1>0, <1>3, OwnersByHolder DEF config_delete
  <2>2. pc'[t] = "calloc"
    BY <1>0, <1>3 DEF config_delete, VariableTypes
  <2>3. InProgress' = {} /\ Dangling'
    BY <1>0, <2>2, OwnersByHolderNext
  <2>4. Allocated' = Allocated \ {errors}
    BY <1>0, <1>3 DEF config_delete, VariableTypes, Allocated
  <2>5. Allocated = ({errors} \ {NULL}) \cup leaked /\ errors \notin leaked
    BY <1>0, <2>1 DEF MemoryAccounted, Current, VariableTypes
  <2>6. Current' = {} /\ leaked' = leaked /\ Allocated' = leaked
    BY <1>3, <2>3, <2>4, <2>5, <1>0 DEF config_delete, Current, VariableTypes
  <2> QED BY <2>3, <2>6 DEF MemoryAccounted
<1>4. ASSUME NEW t \in Threads, config_init_calloc(t) PROVE MemoryAccounted'
  <2>1. InProgress = {} /\ Dangling
    BY <1>0, <1>4, OwnersByHolder DEF config_init_calloc
  <2>2. ASSUME NEW a \in Addr, heap[a] = Free, heap' = [heap EXCEPT ![a] = <<>>],
               q' = [q EXCEPT ![t] = a], pc' = [pc EXCEPT ![t] = "access"]
        PROVE  MemoryAccounted'
    <3>1. pc'[t] = "access" /\ q'[t] = a
      BY <1>0, <2>2 DEF VariableTypes
    <3>2. InProgress' = {a} /\ Dangling'
      BY <1>0, <3>1, OwnersByHolderNext
    <3>3. Allocated' = Allocated \cup {a} /\ a \notin Allocated
      BY <1>0, <2>2 DEF VariableTypes, Allocated
    <3> QED BY <1>0, <1>4, <2>1, <3>2, <3>3 DEF config_init_calloc, MemoryAccounted, Current
  <2>3. CASE errors' = NULL /\ pc' = [pc EXCEPT ![t] = "unlock"] /\ UNCHANGED <<heap, q>>
    <3>1. pc'[t] = "unlock"
      BY <1>0, <2>3 DEF VariableTypes
    <3>2. InProgress' = {} /\ ~Dangling'
      BY <1>0, <3>1, OwnersByHolderNext
    <3> QED BY <1>0, <1>4, <2>1, <2>3, <3>2
            DEF config_init_calloc, MemoryAccounted, Current, Allocated
  <2> QED BY <1>4, <2>2, <2>3 DEF config_init_calloc
<1>5. ASSUME NEW t \in Threads, config_init_access(t) PROVE MemoryAccounted'
  <2>1. CASE pc' = [pc EXCEPT ![t] = "open"] /\ UNCHANGED errors
    BY <1>0, <1>5, <2>1, SameAccount DEF config_init_access, VariableTypes
  <2>2. CASE pc' = [pc EXCEPT ![t] = "unlock"] /\ errors' = q[t]
    <3>1. InProgress = {q[t]} /\ Dangling /\ q[t] \in Addr
      BY <1>0, <1>5, OwnersByHolder DEF config_init_access, IInv, FreshQueue
    <3>2. pc'[t] = "unlock" /\ errors' = q[t] /\ UNCHANGED <<heap, leaked>>
      BY <1>0, <1>5, <2>2 DEF config_init_access, VariableTypes
    <3>3. InProgress' = {} /\ ~Dangling'
      BY <1>0, <3>2, OwnersByHolderNext
    <3> QED BY <1>0, <3>1, <3>2, <3>3 DEF MemoryAccounted, Current, Allocated
  <2> QED BY <1>5, <2>1, <2>2 DEF config_init_access
<1>5a. ASSUME NEW t \in Threads, config_init_open(t) PROVE MemoryAccounted'
  <2>1. CASE pc' = [pc EXCEPT ![t] = "parse"] /\ UNCHANGED <<errors, leaked>>
    BY <1>0, <1>5a, <2>1, SameAccount DEF config_init_open, VariableTypes
  <2>2. CASE /\ errors' = NULL /\ leaked' = leaked \cup {q[t]}
             /\ pc' = [pc EXCEPT ![t] = "unlock"]
    <3>1. InProgress = {q[t]} /\ Dangling /\ q[t] \in Addr
      BY <1>0, <1>5a, OwnersByHolder DEF config_init_open, IInv, FreshQueue
    <3>2. pc'[t] = "unlock" /\ UNCHANGED heap
      BY <1>0, <1>5a, <2>2 DEF config_init_open, VariableTypes
    <3>3. InProgress' = {} /\ ~Dangling'
      BY <1>0, <3>2, OwnersByHolderNext
    <3> QED BY <1>0, <2>2, <3>1, <3>2, <3>3 DEF MemoryAccounted, Current, Allocated
  <2> QED BY <1>5a, <2>1, <2>2 DEF config_init_open
<1>6. ASSUME NEW t \in Threads, config_init_parse(t) PROVE MemoryAccounted'
  <2>1. InProgress = {q[t]} /\ Dangling /\ q[t] \in Addr
    BY <1>0, <1>6, OwnersByHolder DEF config_init_parse, IInv, FreshQueue
  <2>2. pc'[t] = "unlock" /\ errors' = q[t] /\ UNCHANGED leaked
    BY <1>0, <1>6 DEF config_init_parse, VariableTypes
  <2>3. InProgress' = {} /\ ~Dangling'
    BY <1>0, <2>2, OwnersByHolderNext
  <2>4. q[t] \in Allocated
    BY <1>0, <2>1 DEF MemoryAccounted
  <2>5. Allocated' = Allocated
    BY <1>0, <1>6, <2>1, <2>4 DEF config_init_parse, VariableTypes, Allocated
  <2> QED BY <1>0, <2>1, <2>2, <2>3, <2>5 DEF MemoryAccounted, Current
<1>7. ASSUME NEW t \in Threads, Skip(t) PROVE MemoryAccounted'
  BY <1>0, <1>7, SameAccount DEF Skip, VariableTypes, shared, AtEntry, NextEntry
<1>8. ASSUME NEW t \in Threads, InjectNoop(t) PROVE MemoryAccounted'
  BY <1>0, <1>8, SameAccount DEF InjectNoop, VariableTypes, shared, AtEntry, NextEntry
<1>9. ASSUME NEW t \in Threads, InjectKillCaller(t) PROVE MemoryAccounted'
  BY <1>0, <1>9, SameAccount DEF InjectKillCaller, VariableTypes, shared, AtEntry, NextEntry
<1>10. ASSUME NEW t \in Threads, InjectErrno(t) PROVE MemoryAccounted'
  BY <1>0, <1>10, SameAccount DEF InjectErrno, VariableTypes, shared, AtEntry, NextEntry
<1>11. ASSUME NEW t \in Threads, InjectSlowdown(t) PROVE MemoryAccounted'
  BY <1>0, <1>11, SameAccount DEF InjectSlowdown, VariableTypes, shared, AtEntry, NextEntry
<1>12. ASSUME NEW t \in Threads, Wake(t) PROVE MemoryAccounted'
  BY <1>0, <1>12, SameAccount DEF Wake, VariableTypes, shared, NextEntry
<1>13. ASSUME NEW t \in Threads, EndWalk(t) PROVE MemoryAccounted'
  BY <1>0, <1>13, SameAccount DEF EndWalk, VariableTypes, shared
<1>14. ASSUME NEW t \in Threads, Unlock(t) PROVE MemoryAccounted'
  BY <1>0, <1>14, SameAccount DEF Unlock, VariableTypes, shared
<1>15. ASSUME NEW t \in Threads, ReturnInjected(t) PROVE MemoryAccounted'
  BY <1>0, <1>15, SameAccount DEF ReturnInjected, VariableTypes, shared, Return
<1>16. ASSUME NEW t \in Threads, SystemCall(t) PROVE MemoryAccounted'
  BY <1>0, <1>16, SameAccount DEF SystemCall, VariableTypes, shared, Return
<1>17. CASE UNCHANGED vars
  BY <1>0, <1>17, SameAccount DEF vars, shared, locals
<1> QED
  BY <1>1, <1>2, <1>3, <1>4, <1>5, <1>5a, <1>6, <1>7, <1>8, <1>9, <1>10, <1>11, <1>12, <1>13, <1>14, <1>15, <1>16, <1>17 DEF Next, InMutex, Reload, Walk

\* The inductive invariant holds throughout.
THEOREM Invariance == Spec => []IInv
<1>1. Init => IInv
  BY InitIInv
<1>2. IInv /\ [Next]_vars => IInv'
  BY TypeStep, ExclusionStep, BranchesStep, FreshQueueStep, OpenFileStep, ZeroStep, WalksAllocatedStep,
     StableStep, MemoryStep, CurrentStep DEF IInv
<1> QED BY <1>1, <1>2, PTL DEF Spec

\* Every variable keeps its type, and no null pointer is followed: error_inject()
\* walks a queue only if conf.errors is one, config_init() fills one it allocated.
THEOREM TypeCorrect == Spec => []TypeOK
<1>1. IInv => TypeOK
  BY DEF IInv, TypeOK, FreshQueue, WalksAllocated
<1> QED BY <1>1, Invariance, PTL

\* No reload frees or changes the queue under a walk.
THEOREM StableWalk == Spec => []WalkIsStable
<1>1. IInv => WalkIsStable
  BY DEF IInv
<1> QED BY <1>1, Invariance, PTL

\* Every queue has one owner: no double free, and no leak but that of fopen().
THEOREM AccountedMemory == Spec => []MemoryAccounted
<1>1. IInv => MemoryAccounted
  BY DEF IInv
<1> QED BY <1>1, Invariance, PTL

\* An unchanged file is in force, or nothing is.
THEOREM CurrentConfiguration == Spec => []LoadedIsCurrent
<1>1. IInv => LoadedIsCurrent
  BY DEF IInv
<1> QED BY <1>1, Invariance, PTL

\* Requests on the configuration file are never injected.
THEOREM ExemptConfFile == Spec => []ConfFileExempt
<1>1. IInv => ConfFileExempt
  BY DEF IInv, ZeroUntilWalk, ConfFileExempt, Decided
<1> QED BY <1>1, Invariance, PTL
----------------------------------------------------------------------------
(* What error_inject() returns                                             *)

\* Entries of a configuration have numeric probabilities.
LEMMA EntryFacts ==
    ASSUME NEW c \in Confs, NEW i \in DOMAIN c
    PROVE  c[i].probability \in Nat /\ c[i].type \in errinj_type
<1>1. c[i] \in ErrinjConf
  BY ConstantsOK DEF ConstantsOK
<1> QED BY <1>1 DEF ErrinjConf

\* A draw of an entry with probability 100 or more cannot fail.
LEMMA DrawFails ==
    ASSUME NEW probability \in Nat, FALSE \in Draws(probability)
    PROVE  ~(probability >= MAX_PROBABLITY)
<1>1. PICK p \in rand_range(MIN_PROBABLITY, MAX_PROBABLITY) : FALSE = (p <= probability)
  BY Zenon DEF Draws
<1> QED BY <1>1 DEF rand_range, MIN_PROBABLITY, MAX_PROBABLITY

\* Nothing has been looked at: the result is 0.
LEMMA OutcomesBegin ==
    ASSUME NEW c \in Confs, NEW r
    PROVE  MayReturn(c, r, 0, 0)
<1>1. Setters(c, r, 0) = {}
  BY DEF Setters, Applying
<1> QED BY <1>1 DEF MayReturn

\* Entry n fires: its result is a possible one.
LEMMA OutcomesFire ==
    ASSUME NEW c \in Confs, NEW r, NEW n \in DOMAIN c, Applies(c[n], r),
           NEW x \in Codes(c, r, n)
    PROVE  MayReturn(c, r, n, x)
<1>1. n \in Setters(c, r, n)
  BY DEF Setters, Applying
<1>2. \A j \in Setters(c, r, n) : j <= n
  BY DEF Setters
<1> QED BY <1>1, <1>2 DEF MayReturn

\* Entry n gives no result, or does not have to: what was possible still is.
LEMMA OutcomesSkip ==
    ASSUME NEW c \in Confs, NEW r, NEW n \in DOMAIN c,
           n \notin Certain(c, r) \/ Codes(c, r, n) = {},
           NEW x, MayReturn(c, r, n - 1, x)
    PROVE  MayReturn(c, r, n, x)
<1>1. Setters(c, r, n - 1) \subseteq Setters(c, r, n)
  BY DEF Setters, Applying
<1>2. Setters(c, r, n) \cap Certain(c, r) = Setters(c, r, n - 1) \cap Certain(c, r)
  BY DEF Setters, Applying
<1> QED BY <1>1, <1>2 DEF MayReturn

\* The certain faults among the first n entries of the walk of t are done.
FaultsDone(t, n) ==
    \A i \in Certain(snap[t], req[t]) : i <= n =>
        /\ snap[t][i].type = "ERRINJ_KILL_CALLER" => req[t].pid \in killed \cup Privileged
        /\ snap[t][i].type = "ERRINJ_SLOWDOWN" /\ Sleeps(snap[t][i].duration) => slept[t]

\* Everything the first n entries ask for is in rc and in the faults done.
Explained(t, n) == MayReturn(snap[t], req[t], n, rc[t]) /\ FaultsDone(t, n)

\* The walk explained entry by entry; outside a walk the snapshot is empty.
WalkInv(t) ==
    /\ pc[t] \in {"idle", "lock"} \cup Reloading => snap[t] = <<>>
    /\ pc[t] \in Walking => idx[t] \in 1 .. Len(snap[t]) + 1 /\ Explained(t, idx[t] - 1)
    /\ pc[t] = "sleep" => /\ idx[t] <= Len(snap[t])
                          /\ snap[t][idx[t]].type = "ERRINJ_SLOWDOWN"
                          /\ slept[t]
    /\ Decided(t) => Explained(t, Len(snap[t]))

Walks == \A t \in Threads : WalkInv(t)

\* A step of another thread, which at most kills one more process.
LEMMA OtherWalk ==
    ASSUME NEW u \in Threads, WalkInv(u), killed \subseteq killed',
           pc'[u] = pc[u], req'[u] = req[u], rc'[u] = rc[u], idx'[u] = idx[u],
           snap'[u] = snap[u], slept'[u] = slept[u]
    PROVE  WalkInv(u)'
BY DEF WalkInv, Explained, FaultsDone, Decided

\* The entry at which a walk stands is one of the snapshot.
LEMMA AtSnapshot ==
    ASSUME IInv, Walks, NEW t \in Threads, AtEntry(t)
    PROVE  /\ snap[t] \in Confs
           /\ idx[t] \in DOMAIN snap[t]
           /\ Entry(t) = snap[t][idx[t]]
           /\ Explained(t, idx[t] - 1)
<1>1. heap[q[t]] = snap[t] /\ snap[t] \in Confs /\ pc[t] \in Walking
  BY DEF IInv, VariableTypes, WalkIsStable, AtEntry, Walking
<1>2. idx[t] \in 1 .. Len(snap[t]) + 1 /\ Explained(t, idx[t] - 1)
  BY <1>1 DEF Walks, WalkInv
<1>3. idx[t] \in DOMAIN snap[t]
  BY <1>1, <1>2 DEF AtEntry
<1> QED BY <1>1, <1>2, <1>3 DEF Entry

\* The walk goes on to the next entry with everything so far explained.
LEMMA WalkAdvances ==
    ASSUME NEW t \in Threads, NEW n, snap[t] \in Confs, n \in DOMAIN snap[t],
           pc'[t] = "scan", idx'[t] = n + 1, snap'[t] = snap[t], Explained(t, n)'
    PROVE  WalkInv(t)'
<1>1. n \in 1 .. Len(snap[t])
  OBVIOUS
<1>2. idx'[t] \in 1 .. Len(snap'[t]) + 1 /\ idx'[t] - 1 = n
  BY <1>1
<1>3. Explained(t, idx[t] - 1)'
  BY <1>2 DEF Explained, FaultsDone
<1> QED BY <1>2, <1>3 DEF WalkInv, Decided, Reloading

\* How entry n leaves the faults of the walk of t: it is not certain, or it does
\* what it asks for.
LEMMA FaultsAdvance ==
    ASSUME NEW t \in Threads, NEW n, snap[t] \in Confs, n \in DOMAIN snap[t],
           FaultsDone(t, n - 1), killed \subseteq killed',
           req'[t] = req[t], snap'[t] = snap[t], slept[t] => slept'[t],
           n \in Certain(snap[t], req[t]) =>
             /\ snap[t][n].type = "ERRINJ_KILL_CALLER" => req[t].pid \in killed' \cup Privileged
             /\ snap[t][n].type = "ERRINJ_SLOWDOWN" /\ Sleeps(snap[t][n].duration) => slept'[t]
    PROVE  FaultsDone(t, n)'
<1>1. \A i \in Certain(snap[t], req[t]) : i <= n => i <= n - 1 \/ i = n
  BY DEF Certain, Applying
<1> QED BY <1>1 DEF FaultsDone

\* A reload leaves the snapshot empty and rc at 0.
LEMMA Resting ==
    ASSUME NEW t \in Threads, pc'[t] \in Reloading \cup {"unlock"}, snap'[t] = <<>>, rc'[t] = 0
    PROVE  WalkInv(t)'
<1>1. MayReturn(snap'[t], req'[t], 0, rc'[t]) /\ Certain(snap'[t], req'[t]) = {}
  BY OutcomesBegin DEF Certain, Applying
<1>2. Explained(t, Len(snap[t]))'
  BY <1>1 DEF Explained, FaultsDone
<1> QED BY <1>2 DEF WalkInv, Walking, Reloading

\* An entry that leaves rc alone, and may do so.
LEMMA QuietEntry ==
    ASSUME NEW t \in Threads, snap[t] \in Confs, idx[t] \in DOMAIN snap[t], Explained(t, idx[t] - 1),
           killed \subseteq killed', pc'[t] = "scan", idx'[t] = idx[t] + 1,
           snap'[t] = snap[t], req'[t] = req[t], rc'[t] = rc[t], slept[t] => slept'[t],
           \/ idx[t] \notin Certain(snap[t], req[t])
           \/ /\ Codes(snap[t], req[t], idx[t]) = {}
              /\ snap[t][idx[t]].type = "ERRINJ_KILL_CALLER" => req[t].pid \in killed' \cup Privileged
              /\ snap[t][idx[t]].type = "ERRINJ_SLOWDOWN" /\ Sleeps(snap[t][idx[t]].duration) => slept'[t]
    PROVE  WalkInv(t)'
<1>1. PICK n : n = idx[t]
  OBVIOUS
<1>2. MayReturn(snap[t], req[t], n, rc[t])
  BY <1>1, OutcomesSkip DEF Explained
<1>3. FaultsDone(t, n)'
  BY <1>1, FaultsAdvance DEF Explained
<1>4. Explained(t, n)'
  BY <1>2, <1>3 DEF Explained
<1> QED BY <1>1, <1>4, WalkAdvances

\* An entry that fires and sets rc.
LEMMA LoudEntry ==
    ASSUME NEW t \in Threads, snap[t] \in Confs, idx[t] \in DOMAIN snap[t], Explained(t, idx[t] - 1),
           killed \subseteq killed', pc'[t] = "scan", idx'[t] = idx[t] + 1,
           snap'[t] = snap[t], req'[t] = req[t], slept'[t] = slept[t],
           Applies(snap[t][idx[t]], req[t]), rc'[t] \in Codes(snap[t], req[t], idx[t]),
           snap[t][idx[t]].type \notin {"ERRINJ_KILL_CALLER", "ERRINJ_SLOWDOWN"}
    PROVE  WalkInv(t)'
<1>1. PICK n : n = idx[t]
  OBVIOUS
<1>2. MayReturn(snap[t], req[t], n, rc'[t])
  BY <1>1, OutcomesFire
<1>3. FaultsDone(t, n)'
  BY <1>1, FaultsAdvance DEF Explained
<1>4. Explained(t, n)'
  BY <1>2, <1>3 DEF Explained
<1> QED BY <1>1, <1>4, WalkAdvances

\* No walk is on when fuse_main() starts.
LEMMA WalksInit == Init => Walks
<1> SUFFICES ASSUME Init, NEW t \in Threads PROVE WalkInv(t)
  BY DEF Walks
<1> QED BY DEF Init, WalkInv, Walking, Decided

\* Each step of the walk keeps what it has looked at explained.
LEMMA WalksStep == IInv /\ Walks /\ [Next]_vars => Walks'
<1> SUFFICES ASSUME IInv, Walks, [Next]_vars PROVE Walks'
  OBVIOUS
<1>0. VariableTypes /\ VariableTypes'
  BY TypeStep DEF IInv
<1> DEFINE OthersSame(t) == \A u \in Threads \ {t} :
                /\ pc'[u] = pc[u] /\ req'[u] = req[u] /\ rc'[u] = rc[u]
                /\ idx'[u] = idx[u] /\ snap'[u] = snap[u] /\ slept'[u] = slept[u]
\* It is enough to look at the thread that moves.
<1>a. ASSUME NEW t \in Threads, killed \subseteq killed', OthersSame(t), WalkInv(t)' PROVE Walks'
  BY <1>a, OtherWalk DEF Walks
<1> HIDE DEF OthersSame
<1>1. ASSUME NEW t \in Threads, NEW r \in Requests, Call(t, r) PROVE Walks'
  <2>1. killed \subseteq killed' /\ OthersSame(t)
    BY <1>0, <1>1 DEF Call, Goto, shared, VariableTypes, OthersSame
  <2>2. pc'[t] = "lock" /\ snap'[t] = <<>>
    BY <1>0, <1>1 DEF Call, Goto, VariableTypes, Walks, WalkInv
  <2>3. WalkInv(t)'
    BY <2>2 DEF WalkInv, Walking, Decided
  <2> QED BY <1>a, <2>1, <2>3
<1>2. ASSUME NEW t \in Threads, Lock(t) PROVE Walks'
  <2>1. killed \subseteq killed' /\ OthersSame(t)
    BY <1>0, <1>2 DEF Lock, Goto, VariableTypes, OthersSame
  <2>2. snap[t] = <<>> /\ rc'[t] = 0
    BY <1>0, <1>2 DEF Lock, Walks, WalkInv, IInv, ZeroUntilWalk
  <2>3. CASE req[t].path = ConfPath
    <3>1. pc'[t] = "delete" /\ snap'[t] = <<>>
      BY <1>0, <1>2, <2>2, <2>3 DEF Lock, Goto, VariableTypes
    <3> QED BY <3>1, <1>a, <2>1 DEF WalkInv, Walking, Decided
  <2>4. CASE req[t].path # ConfPath /\ errors = NULL
    <3>1. pc'[t] = "unlock" /\ snap'[t] = <<>>
      BY <1>0, <1>2, <2>2, <2>4 DEF Lock, Goto, VariableTypes
    <3>2. Explained(t, 0)'
      BY <3>1, <2>2, OutcomesBegin DEF Explained, FaultsDone, Certain, Applying
    <3> QED BY <3>1, <3>2, <1>a, <2>1 DEF WalkInv, Walking, Reloading, Explained, FaultsDone
  <2>5. CASE req[t].path # ConfPath /\ errors # NULL
    <3>1. pc'[t] = "scan" /\ idx'[t] = 1
      BY <1>0, <1>2, <2>5 DEF Lock, Goto, VariableTypes
    <3>2. snap'[t] \in Confs
      BY <1>0 DEF VariableTypes
    <3>3. MayReturn(snap'[t], req'[t], 0, rc'[t])
      BY <3>2, <2>2, OutcomesBegin
    <3>4. \A i \in Certain(snap'[t], req'[t]) : ~(i <= 0)
      BY <3>2 DEF Certain, Applying
    <3>5. Explained(t, idx[t] - 1)'
      BY <3>1, <3>3, <3>4 DEF Explained, FaultsDone
    <3>6. WalkInv(t)'
      BY <3>1, <3>2, <3>5 DEF WalkInv, Reloading, Decided
    <3> QED BY <3>6, <1>a, <2>1
  <2> QED BY <2>3, <2>4, <2>5
<1>3. ASSUME NEW t \in Threads, config_delete(t) PROVE Walks'
  <2>1. killed \subseteq killed' /\ OthersSame(t) /\ UNCHANGED <<rc, snap>>
    BY <1>0, <1>3 DEF config_delete, Goto, VariableTypes, OthersSame
  <2>2. snap'[t] = <<>> /\ rc'[t] = 0
    BY <1>0, <1>3, <2>1 DEF config_delete, Reloading, Walks, WalkInv, IInv, ZeroUntilWalk
  <2>3. pc'[t] \in Reloading \cup {"unlock"}
    BY <1>0, <1>3 DEF config_delete, Goto, Reloading, VariableTypes
  <2> QED BY <1>a, <2>1, <2>2, <2>3, Resting
<1>4. ASSUME NEW t \in Threads, config_init_calloc(t) PROVE Walks'
  <2>1. killed \subseteq killed' /\ OthersSame(t) /\ UNCHANGED <<rc, snap>>
    BY <1>0, <1>4 DEF config_init_calloc, Goto, VariableTypes, OthersSame
  <2>2. snap'[t] = <<>> /\ rc'[t] = 0
    BY <1>0, <1>4, <2>1 DEF config_init_calloc, Reloading, Walks, WalkInv, IInv, ZeroUntilWalk
  <2>3. pc'[t] \in Reloading \cup {"unlock"}
    BY <1>0, <1>4 DEF config_init_calloc, Goto, Reloading, VariableTypes
  <2> QED BY <1>a, <2>1, <2>2, <2>3, Resting
<1>5. ASSUME NEW t \in Threads, config_init_access(t) PROVE Walks'
  <2>1. killed \subseteq killed' /\ OthersSame(t) /\ UNCHANGED <<rc, snap>>
    BY <1>0, <1>5 DEF config_init_access, Goto, VariableTypes, OthersSame
  <2>2. snap'[t] = <<>> /\ rc'[t] = 0
    BY <1>0, <1>5, <2>1 DEF config_init_access, Reloading, Walks, WalkInv, IInv, ZeroUntilWalk
  <2>3. pc'[t] \in Reloading \cup {"unlock"}
    BY <1>0, <1>5 DEF config_init_access, Goto, Reloading, VariableTypes
  <2> QED BY <1>a, <2>1, <2>2, <2>3, Resting
<1>5a. ASSUME NEW t \in Threads, config_init_open(t) PROVE Walks'
  <2>1. killed \subseteq killed' /\ OthersSame(t) /\ UNCHANGED <<rc, snap>>
    BY <1>0, <1>5a DEF config_init_open, Goto, VariableTypes, OthersSame
  <2>2. snap'[t] = <<>> /\ rc'[t] = 0
    BY <1>0, <1>5a, <2>1 DEF config_init_open, Reloading, Walks, WalkInv, IInv, ZeroUntilWalk
  <2>3. pc'[t] \in Reloading \cup {"unlock"}
    BY <1>0, <1>5a DEF config_init_open, Goto, Reloading, VariableTypes
  <2> QED BY <1>a, <2>1, <2>2, <2>3, Resting
<1>6. ASSUME NEW t \in Threads, config_init_parse(t) PROVE Walks'
  <2>1. killed \subseteq killed' /\ OthersSame(t) /\ UNCHANGED <<rc, snap>>
    BY <1>0, <1>6 DEF config_init_parse, Goto, VariableTypes, OthersSame
  <2>2. snap'[t] = <<>> /\ rc'[t] = 0
    BY <1>0, <1>6, <2>1 DEF config_init_parse, Reloading, Walks, WalkInv, IInv, ZeroUntilWalk
  <2>3. pc'[t] \in Reloading \cup {"unlock"}
    BY <1>0, <1>6 DEF config_init_parse, Goto, Reloading, VariableTypes
  <2> QED BY <1>a, <2>1, <2>2, <2>3, Resting
<1>7. ASSUME NEW t \in Threads, Skip(t) PROVE Walks'
  <2>1. killed \subseteq killed' /\ OthersSame(t)
    BY <1>0, <1>7 DEF Skip, NextEntry, shared, VariableTypes, OthersSame
  <2>2. /\ pc'[t] = "scan" /\ idx'[t] = idx[t] + 1 /\ snap'[t] = snap[t]
        /\ req'[t] = req[t] /\ rc'[t] = rc[t] /\ slept'[t] = slept[t]
    BY <1>0, <1>7 DEF Skip, AtEntry, NextEntry, VariableTypes
  <2>3. /\ snap[t] \in Confs /\ idx[t] \in DOMAIN snap[t]
        /\ Entry(t) = snap[t][idx[t]] /\ Explained(t, idx[t] - 1)
    BY <1>7, AtSnapshot DEF Skip
  <2>4. idx[t] \notin Certain(snap[t], req[t])
    BY <1>7, <2>3, EntryFacts, DrawFails DEF Skip, Certain, Applying
  <2> QED BY <1>a, <2>1, <2>2, <2>3, <2>4, QuietEntry
<1>8. ASSUME NEW t \in Threads, InjectNoop(t) PROVE Walks'
  <2>1. killed \subseteq killed' /\ OthersSame(t)
    BY <1>0, <1>8 DEF InjectNoop, NextEntry, shared, VariableTypes, OthersSame
  <2>2. /\ pc'[t] = "scan" /\ idx'[t] = idx[t] + 1 /\ snap'[t] = snap[t]
        /\ req'[t] = req[t] /\ slept'[t] = slept[t]
    BY <1>0, <1>8 DEF InjectNoop, AtEntry, NextEntry, VariableTypes
  <2>3. /\ snap[t] \in Confs /\ idx[t] \in DOMAIN snap[t]
        /\ Entry(t) = snap[t][idx[t]] /\ Explained(t, idx[t] - 1)
    BY <1>8, AtSnapshot DEF InjectNoop
  <2>4. rc'[t] \in Codes(snap[t], req[t], idx[t])
    BY <1>0, <1>8, <2>3 DEF InjectNoop, Codes, VariableTypes
  <2>5. Applies(snap[t][idx[t]], req[t])
    BY <1>8, <2>3 DEF InjectNoop, Triggered
  <2>6. snap[t][idx[t]].type \notin {"ERRINJ_KILL_CALLER", "ERRINJ_SLOWDOWN"}
    BY <1>8, <2>3 DEF InjectNoop
  <2> QED BY <1>a, <2>1, <2>2, <2>3, <2>4, <2>5, <2>6, LoudEntry
<1>9. ASSUME NEW t \in Threads, InjectErrno(t) PROVE Walks'
  <2>1. killed \subseteq killed' /\ OthersSame(t)
    BY <1>0, <1>9 DEF InjectErrno, NextEntry, shared, VariableTypes, OthersSame
  <2>2. /\ pc'[t] = "scan" /\ idx'[t] = idx[t] + 1 /\ snap'[t] = snap[t]
        /\ req'[t] = req[t] /\ slept'[t] = slept[t]
    BY <1>0, <1>9 DEF InjectErrno, AtEntry, NextEntry, VariableTypes
  <2>3. /\ snap[t] \in Confs /\ idx[t] \in DOMAIN snap[t]
        /\ Entry(t) = snap[t][idx[t]] /\ Explained(t, idx[t] - 1)
    BY <1>9, AtSnapshot DEF InjectErrno
  <2>4. rc'[t] \in Codes(snap[t], req[t], idx[t])
    BY <1>0, <1>9, <2>3 DEF InjectErrno, Codes, VariableTypes
  <2>5. Applies(snap[t][idx[t]], req[t])
    BY <1>9, <2>3 DEF InjectErrno, Triggered
  <2>6. snap[t][idx[t]].type \notin {"ERRINJ_KILL_CALLER", "ERRINJ_SLOWDOWN"}
    BY <1>9, <2>3 DEF InjectErrno
  <2> QED BY <1>a, <2>1, <2>2, <2>3, <2>4, <2>5, <2>6, LoudEntry
<1>10. ASSUME NEW t \in Threads, InjectKillCaller(t) PROVE Walks'
  <2>1. killed \subseteq killed' /\ req[t].pid \in killed' \cup Privileged /\ OthersSame(t)
    BY <1>0, <1>10 DEF InjectKillCaller, NextEntry, VariableTypes, OthersSame
  <2>2. /\ pc'[t] = "scan" /\ idx'[t] = idx[t] + 1 /\ snap'[t] = snap[t]
        /\ req'[t] = req[t] /\ rc'[t] = rc[t] /\ slept'[t] = slept[t]
    BY <1>0, <1>10 DEF InjectKillCaller, AtEntry, NextEntry, VariableTypes
  <2>3. /\ snap[t] \in Confs /\ idx[t] \in DOMAIN snap[t]
        /\ Entry(t) = snap[t][idx[t]] /\ Explained(t, idx[t] - 1)
    BY <1>10, AtSnapshot DEF InjectKillCaller
  <2>4. snap[t][idx[t]].type = "ERRINJ_KILL_CALLER"
    BY <1>10, <2>3 DEF InjectKillCaller
  <2>5. Codes(snap[t], req[t], idx[t]) = {}
    BY <2>4 DEF Codes
  <2> QED BY <1>a, <2>1, <2>2, <2>3, <2>4, <2>5, QuietEntry
<1>11. ASSUME NEW t \in Threads, InjectSlowdown(t) PROVE Walks'
  <2>1. killed \subseteq killed' /\ OthersSame(t)
    BY <1>0, <1>11 DEF InjectSlowdown, Goto, NextEntry, shared, VariableTypes, OthersSame
  <2>2. snap'[t] = snap[t] /\ req'[t] = req[t] /\ rc'[t] = rc[t]
    BY <1>0, <1>11 DEF InjectSlowdown
  <2>3. /\ snap[t] \in Confs /\ idx[t] \in DOMAIN snap[t]
        /\ Entry(t) = snap[t][idx[t]] /\ Explained(t, idx[t] - 1)
    BY <1>11, AtSnapshot DEF InjectSlowdown
  <2>4. snap[t][idx[t]].type = "ERRINJ_SLOWDOWN"
    BY <1>11, <2>3 DEF InjectSlowdown
  <2>5. CASE Sleeps(Entry(t).duration)
    <3>1. pc'[t] = "sleep" /\ slept'[t] = TRUE /\ idx'[t] = idx[t]
      BY <1>0, <1>11, <2>5 DEF InjectSlowdown, Goto, VariableTypes
    <3>2. idx'[t] \in 1 .. Len(snap'[t])
      BY <2>2, <2>3, <3>1
    <3>3. Explained(t, idx[t] - 1)'
      BY <2>1, <2>2, <2>3, <3>1 DEF Explained, FaultsDone
    <3>4. WalkInv(t)'
      BY <2>2, <2>3, <2>4, <3>1, <3>2, <3>3 DEF WalkInv, Reloading, Decided
    <3> QED BY <3>4, <1>a, <2>1
  <2>6. CASE ~Sleeps(Entry(t).duration)
    <3>1. pc'[t] = "scan" /\ slept'[t] = slept[t] /\ idx'[t] = idx[t] + 1
      BY <1>0, <1>11, <2>6 DEF InjectSlowdown, AtEntry, NextEntry, VariableTypes
    <3>2. Codes(snap[t], req[t], idx[t]) = {}
      BY <2>4 DEF Codes
    <3> QED BY <1>a, <2>1, <2>2, <2>3, <2>4, <2>6, <3>1, <3>2, QuietEntry
  <2> QED BY <2>5, <2>6
<1>12. ASSUME NEW t \in Threads, Wake(t) PROVE Walks'
  <2>1. killed \subseteq killed' /\ OthersSame(t)
    BY <1>0, <1>12 DEF Wake, Goto, NextEntry, shared, VariableTypes, OthersSame
  <2>2. /\ pc'[t] = "scan" /\ idx'[t] = idx[t] + 1 /\ snap'[t] = snap[t]
        /\ req'[t] = req[t] /\ rc'[t] = rc[t] /\ slept'[t] = slept[t]
    BY <1>0, <1>12 DEF Wake, Goto, NextEntry, VariableTypes
  <2>3. /\ snap[t] \in Confs /\ idx[t] \in DOMAIN snap[t] /\ Explained(t, idx[t] - 1)
        /\ snap[t][idx[t]].type = "ERRINJ_SLOWDOWN" /\ slept[t]
    BY <1>0, <1>12 DEF Wake, VariableTypes, Walks, WalkInv, Walking
  <2>4. Codes(snap[t], req[t], idx[t]) = {}
    BY <2>3 DEF Codes
  <2> QED BY <1>a, <2>1, <2>2, <2>3, <2>4, QuietEntry
<1>13. ASSUME NEW t \in Threads, EndWalk(t) PROVE Walks'
  <2>1. killed \subseteq killed' /\ OthersSame(t)
    BY <1>0, <1>13 DEF EndWalk, Goto, shared, VariableTypes, OthersSame
  <2>2. pc'[t] = "unlock" /\ UNCHANGED <<killed, snap, req, rc, slept>>
    BY <1>0, <1>13 DEF EndWalk, Goto, shared, VariableTypes
  <2>3. idx[t] \in 1 .. Len(snap[t]) + 1 /\ Explained(t, idx[t] - 1)
    BY <1>13 DEF EndWalk, Walks, WalkInv, Walking
  <2>4. idx[t] > Len(snap[t]) /\ snap[t] \in Confs
    BY <1>0, <1>13 DEF EndWalk, IInv, WalkIsStable, Walking, VariableTypes
  <2>5. idx[t] - 1 = Len(snap[t])
    BY <2>3, <2>4
  <2>6. WalkInv(t)'
    BY <2>2, <2>3, <2>5 DEF WalkInv, Explained, FaultsDone, Walking, Reloading
  <2> QED BY <1>a, <2>1, <2>6
<1>14. ASSUME NEW t \in Threads, Unlock(t) PROVE Walks'
  <2>1. killed \subseteq killed' /\ OthersSame(t)
    BY <1>0, <1>14 DEF Unlock, Goto, VariableTypes, OthersSame
  <2>2. pc'[t] = "handler" /\ UNCHANGED <<killed, snap, req, rc, slept>>
    BY <1>0, <1>14 DEF Unlock, Goto, VariableTypes
  <2>3. Explained(t, Len(snap[t]))
    BY <1>14 DEF Unlock, Walks, WalkInv, Decided
  <2>4. WalkInv(t)'
    BY <2>2, <2>3 DEF WalkInv, Explained, FaultsDone, Walking, Reloading
  <2> QED BY <1>a, <2>1, <2>4
<1>15. ASSUME NEW t \in Threads, ReturnInjected(t) PROVE Walks'
  <2>1. killed \subseteq killed' /\ OthersSame(t)
    BY <1>0, <1>15 DEF ReturnInjected, Return, Goto, shared, VariableTypes, OthersSame
  <2>2. pc'[t] = "idle" /\ snap'[t] = <<>>
    BY <1>0, <1>15 DEF ReturnInjected, Return, Goto, VariableTypes
  <2>3. WalkInv(t)'
    BY <2>2 DEF WalkInv, Walking, Decided
  <2> QED BY <1>a, <2>1, <2>3
<1>16. ASSUME NEW t \in Threads, SystemCall(t) PROVE Walks'
  <2>1. killed \subseteq killed' /\ OthersSame(t)
    BY <1>0, <1>16 DEF SystemCall, Return, Goto, shared, VariableTypes, OthersSame
  <2>2. pc'[t] = "idle" /\ snap'[t] = <<>>
    BY <1>0, <1>16 DEF SystemCall, Return, Goto, VariableTypes
  <2>3. WalkInv(t)'
    BY <2>2 DEF WalkInv, Walking, Decided
  <2> QED BY <1>a, <2>1, <2>3
<1>17. CASE UNCHANGED vars
  BY <1>17, OtherWalk DEF Walks, vars, shared, locals
<1> QED
  BY <1>1, <1>2, <1>3, <1>4, <1>5, <1>5a, <1>6, <1>7, <1>8, <1>9, <1>10, <1>11, <1>12, <1>13, <1>14, <1>15, <1>16, <1>17 DEF Next, InMutex, Reload, Walk

\* The walk of every thread is explained at every entry.
THEOREM WalksInvariant == Spec => []Walks
<1>1. Init => Walks
  BY WalksInit
<1>2. IInv /\ Walks /\ [Next]_vars => Walks'
  BY WalksStep
<1> QED BY <1>1, <1>2, Invariance, PTL DEF Spec

\* What a handler acts on follows from one configuration, whatever other threads
\* reload meanwhile: the last entry that fires decides, and probability 100 fires.
THEOREM ExplainedOutcome == Spec => []OutcomeExplained
<1>1. Walks => OutcomeExplained
  BY DEF Walks, WalkInv, Explained, OutcomeExplained
<1> QED BY <1>1, WalksInvariant, PTL

\* By the time the handler goes on, a certain errinj_kill_caller has killed a
\* caller that the daemon has the right to signal, and a certain errinj_slowdown
\* of under a second has put the request to sleep.
THEOREM FaultsHappen == Spec => []CertainFaultsHappen
<1>1. ASSUME Walks, IInv PROVE CertainFaultsHappen
  <2> SUFFICES ASSUME NEW t \in Threads, Decided(t), NEW i \in Certain(snap[t], req[t])
               PROVE  /\ snap[t][i].type = "ERRINJ_KILL_CALLER" => req[t].pid \in killed \cup Privileged
                      /\ snap[t][i].type = "ERRINJ_SLOWDOWN" /\ Sleeps(snap[t][i].duration) => slept[t]
    BY DEF CertainFaultsHappen
  <2>1. FaultsDone(t, Len(snap[t]))
    BY <1>1 DEF Walks, WalkInv, Explained
  <2>2. i <= Len(snap[t])
    BY <1>1 DEF Certain, Applying, IInv, VariableTypes
  <2> QED BY <2>1, <2>2 DEF FaultsDone
<1> QED BY <1>1, Invariance, WalksInvariant, PTL
----------------------------------------------------------------------------
(* The engine implements FaultService                                      *)

\* The program counters at which conf.errors dangles.
Replacing == {"calloc"} \cup Initializing

\* What a configuration asks for is the same for the service and for the engine.
LEMMA ServiceApplying ==
    ASSUME NEW c, NEW r
    PROVE  Service!Applying(c, r) = Applying(c, r) /\ Service!Certain(c, r) = Certain(c, r)
<1>1. Service!Applying(c, r) = Applying(c, r)
  BY DEF Service!Applying, Applying, Service!Applies, Applies, Service!is_regex_matched, is_regex_matched
<1>2. Service!Certain(c, r) = Certain(c, r)
  BY <1>1 DEF Service!Certain, Certain, Service!MAX_PROBABLITY, MAX_PROBABLITY
<1> QED BY <1>1, <1>2

\* So are the results that it allows.
LEMMA ServiceCodes ==
    ASSUME NEW c, NEW r, NEW i
    PROVE  Service!Codes(c, r, i) = Codes(c, r, i)
BY DEF Service!Codes, Codes, Service!NOOP, NOOP, Service!op_random_errno, op_random_errno

\* And which of them a walk may end with.
LEMMA ServiceMayReturn ==
    ASSUME NEW c, NEW r, NEW n, NEW x
    PROVE  Service!MayReturn(c, r, n, x) = MayReturn(c, r, n, x)
<1>1. Service!Setters(c, r, n) = Setters(c, r, n)
  BY ServiceApplying, ServiceCodes DEF Service!Setters, Setters
<1> QED BY <1>1, ServiceApplying, ServiceCodes DEF Service!MayReturn, MayReturn

\* A result that MayReturn allows is 0 or comes from an entry.
LEMMA ServiceOutcomes ==
    ASSUME NEW c, NEW r, NEW x, MayReturn(c, r, Len(c), x)
    PROVE  x \in Service!Outcomes(c, r)
<1>1. x = 0 \/ \E i \in DOMAIN c : x \in Codes(c, r, i)
  BY DEF MayReturn, Setters, Applying
<1> QED BY <1>1, ServiceCodes, ServiceMayReturn DEF Service!Outcomes

\* The stage of every program counter.
LEMMA StageValues ==
    /\ StageOf("idle") = "idle"
    /\ StageOf("lock") = "asked" /\ StageOf("delete") = "asked"
    /\ StageOf("calloc") = "loading" /\ StageOf("access") = "loading" /\ StageOf("open") = "loading"
    /\ StageOf("parse") = "reading"
    /\ StageOf("scan") = "deciding" /\ StageOf("sleep") = "deciding"
    /\ StageOf("unlock") = "decided" /\ StageOf("handler") = "decided"
BY DEF StageOf, Walking

\* Only a thread that holds the mutex loads, reads or decides.
LEMMA StageNeedsMutex ==
    ASSUME NEW l \in PC, StageOf(l) \in {"deciding", "loading", "reading"}
    PROVE  l \in Holding
BY StageValues DEF PC, Holding, Reloading, Walking

\* A step outside the reload leaves the configuration in force.
LEMMA InForceStays ==
    ASSUME VariableTypes, NEW t \in Threads, NEW l, pc' = [pc EXCEPT ![t] = l],
           pc[t] \notin Replacing, l \notin Replacing, UNCHANGED <<errors, heap>>
    PROVE  InForce' = InForce
<1>1. Dangling' = Dangling
  BY DEF VariableTypes, Dangling, Replacing
<1> QED BY <1>1 DEF InForce

\* Within the reload there is none.
LEMMA InForceNone ==
    ASSUME NEW t \in Threads, pc[t] \in Replacing
    PROVE  InForce = NULL
BY DEF InForce, Dangling, Replacing

\* At the end of the reload of t the new queue is in force.
LEMMA InForceAfter ==
    ASSUME VariableTypes, Exclusion, NEW t \in Threads, pc[t] \in Reloading,
           pc' = [pc EXCEPT ![t] = "unlock"]
    PROVE  InForce' = IF errors' = NULL THEN NULL ELSE heap'[errors']
<1>1. \A u \in Threads : u # t => pc[u] \notin Holding
  BY DEF Exclusion, Holding
<1>2. ~Dangling'
  BY <1>1 DEF VariableTypes, Dangling, Initializing, Holding, Reloading
<1> QED BY <1>2 DEF InForce

\* The result of a thread shows once it is decided.
LEMMA ResultMoves ==
    ASSUME VariableTypes, NEW t \in Threads, NEW l, pc' = [pc EXCEPT ![t] = l],
           NEW x, rc' = [rc EXCEPT ![t] = x]
    PROVE  Result' = [Result EXCEPT ![t] = IF l \in {"unlock", "handler"} THEN x ELSE 0]
<1>1. \A u \in Threads : u # t => pc'[u] = pc[u] /\ rc'[u] = rc[u]
  BY DEF VariableTypes
<1>2. pc'[t] = l /\ rc'[t] = x
  BY DEF VariableTypes
<1>3. \A u \in Threads : u # t => Result'[u] = Result[u]
  BY <1>1 DEF Result, Decided
<1>4. Result'[t] = IF l \in {"unlock", "handler"} THEN x ELSE 0
  BY <1>2 DEF Result, Decided
<1>5. Result = [u \in Threads |-> Result[u]] /\ Result' = [u \in Threads |-> Result'[u]]
  BY DEF Result
<1> QED BY <1>3, <1>4, <1>5

\* An undecided thread has no result, and keeps none if it goes on with rc = 0 or
\* stays undecided.
LEMMA ResultStays ==
    ASSUME VariableTypes, NEW t \in Threads, NEW l, pc' = [pc EXCEPT ![t] = l],
           \/ ~Decided(t) /\ l \notin {"unlock", "handler"} /\ \A u \in Threads \ {t} : rc'[u] = rc[u]
           \/ ~Decided(t) /\ rc[t] = 0 /\ rc' = rc
           \/ Decided(t) /\ l = "handler" /\ rc' = rc
    PROVE  Result' = Result
<1>1. \A u \in Threads : u # t => pc'[u] = pc[u] /\ rc'[u] = rc[u]
  BY DEF VariableTypes
<1>2. pc'[t] = l
  BY DEF VariableTypes
<1>3. \A u \in Threads : (IF Decided(u)' THEN rc'[u] ELSE 0) = (IF Decided(u) THEN rc[u] ELSE 0)
  BY <1>1, <1>2 DEF Decided
<1> QED BY <1>3 DEF Result

\* main() leaves the service in an initial state.
LEMMA ServiceInit == Init => Service!Init
<1> SUFFICES ASSUME Init PROVE Service!Init
  OBVIOUS
<1>1. InForce = IF errors = NULL THEN NULL ELSE heap[errors]
  BY DEF Init, InForce, Dangling, Initializing
<1>1a. \/ dirty = FALSE /\ InForce \in {NULL, QueueOf(file)}
       \/ dirty = TRUE /\ file # Absent /\ InForce = <<>>
  <2>1. CASE errors = NULL
    BY <1>1, <2>1 DEF Init
  <2>2. CASE errors \in Addr
    BY <1>1, <2>2 DEF Init
  <2> QED BY <2>1, <2>2 DEF Init
<1>2. Stage = [t \in Threads |-> "idle"]
  BY StageValues DEF Init, Stage
<1>3. Result = [t \in Threads |-> 0]
  BY DEF Init, Result, Decided
<1> QED BY <1>1a, <1>2, <1>3 DEF Init, Service!Init, Service!QueueOf, QueueOf, Service!Files, Files

\* Every step of the engine is a step of the service, or changes nothing that the
\* service knows of.
LEMMA ServiceStep == IInv /\ Walks /\ [Next]_vars => [Service!Next]_(Service!vars)
<1> SUFFICES ASSUME IInv, Walks, [Next]_vars PROVE [Service!Next]_(Service!vars)
  OBVIOUS
<1>0. VariableTypes /\ VariableTypes' /\ Exclusion
  BY TypeStep DEF IInv
\* Who loads, reads or decides has the mutex.
<1>a. ASSUME NEW u \in Threads, Stage[u] \in {"deciding", "loading", "reading"} PROVE mutex = u
  BY <1>0, <1>a, StageNeedsMutex DEF Stage, VariableTypes, Exclusion
<1>b. ASSUME NEW t \in Threads,
             \/ \E r \in Requests : Service!Ask(t, r)
             \/ Service!Load(t) \/ Service!Decision(t) \/ Service!Replace(t) \/ Service!Perform(t)
      PROVE  [Service!Next]_(Service!vars)
  BY <1>b DEF Service!Next
<1>c. UNCHANGED <<file, dirty, InForce, killed, Stage, req, slept, Result>> => [Service!Next]_(Service!vars)
  BY DEF Service!vars
<1>1. ASSUME NEW t \in Threads, NEW r \in Requests, Call(t, r) PROVE [Service!Next]_(Service!vars)
  <2>1. pc' = [pc EXCEPT ![t] = "lock"] /\ pc[t] = "idle" /\ rc' = rc
    BY <1>1 DEF Call, Goto
  <2>2. InForce' = InForce
    BY <1>0, <1>1, <2>1, InForceStays DEF Call, shared, Replacing, Initializing
  <2>3. Stage' = [Stage EXCEPT ![t] = "asked"] /\ Stage[t] = "idle"
    BY <1>0, <2>1, StageValues DEF Stage, VariableTypes
  <2>4. Result' = Result
    BY <1>0, <2>1, ResultStays DEF Decided
  <2>5. Service!Ask(t, r)
    BY <1>1, <2>2, <2>3, <2>4 DEF Call, shared, Running, OwnGroup,
       Service!Ask, Service!Moves, Service!Running, Service!OwnGroup
  <2> QED BY <1>b, <2>5
<1>2. ASSUME NEW t \in Threads, Lock(t) PROVE [Service!Next]_(Service!vars)
  <2>0. pc[t] = "lock" /\ mutex = NULL /\ rc' = rc /\ ~Decided(t) /\ rc[t] = 0
    BY <1>2 DEF Lock, Decided, IInv, ZeroUntilWalk
  <2>n. \A u \in Threads : Stage[u] \notin {"loading", "reading"}
    BY <1>a, <2>0
  <2>1. CASE req[t].path = ConfPath
    <3>1. pc' = [pc EXCEPT ![t] = "delete"]
      BY <1>2, <2>1 DEF Lock, Goto
    <3>2. InForce' = InForce
      BY <1>0, <1>2, <2>0, <3>1, InForceStays DEF Lock, Replacing, Initializing
    <3>3. Stage' = [Stage EXCEPT ![t] = "asked"] /\ Stage[t] = "asked"
      BY <1>0, <2>0, <3>1, StageValues DEF Stage, VariableTypes
    <3>4. Result' = Result
      BY <1>0, <2>0, <3>1, ResultStays
    <3>5. Stage' = Stage
      BY <3>3 DEF Stage
    <3> QED BY <1>2, <1>c, <3>2, <3>4, <3>5 DEF Lock
  <2>2. CASE req[t].path # ConfPath /\ errors = NULL
    <3>1. pc' = [pc EXCEPT ![t] = "unlock"]
      BY <1>2, <2>2 DEF Lock, Goto
    <3>2. InForce' = InForce /\ InForce = NULL
      BY <1>0, <1>2, <2>0, <2>2, <3>1, InForceStays DEF Lock, Replacing, Initializing, InForce
    <3>3. Stage' = [Stage EXCEPT ![t] = "decided"] /\ Stage[t] = "asked"
      BY <1>0, <2>0, <3>1, StageValues DEF Stage, VariableTypes
    <3>4. Result' = Result
      BY <1>0, <2>0, <3>1, ResultStays
    <3>5. Service!Off(t)
      BY <1>2, <2>2, <2>n, <3>2, <3>3, <3>4 DEF Lock, Running, OwnGroup,
         Service!Off, Service!Moves, Service!Nobody, Service!Running, Service!OwnGroup
    <3> QED BY <1>b, <3>5 DEF Service!Decision
  <2>3. CASE req[t].path # ConfPath /\ errors # NULL
    <3>1. pc' = [pc EXCEPT ![t] = "scan"]
      BY <1>2, <2>3 DEF Lock, Goto
    <3>2. InForce' = InForce
      BY <1>0, <1>2, <2>0, <3>1, InForceStays DEF Lock, Replacing, Initializing
    <3>3. Stage' = [Stage EXCEPT ![t] = "deciding"] /\ Stage[t] = "asked"
      BY <1>0, <2>0, <3>1, StageValues DEF Stage, VariableTypes
    <3>4. Result' = Result
      BY <1>0, <2>0, <3>1, ResultStays
    <3>5. InForce # NULL
      <4>1. \A u \in Threads : pc[u] \notin Holding
        BY <1>0, <2>0 DEF Exclusion
      <4>2. ~Dangling
        BY <4>1 DEF Dangling, Initializing, Holding, Reloading
      <4>3. heap[errors] \in Confs
        BY <2>0, <2>3, ErrorsAllocated
      <4> QED BY <2>3, <4>2, <4>3, ConfValues DEF InForce, ConfValues
    <3>6. Service!BeginDecision(t)
      BY <1>2, <2>3, <2>n, <3>2, <3>3, <3>4, <3>5 DEF Lock, Running, OwnGroup,
         Service!BeginDecision, Service!Moves, Service!Nobody, Service!Running, Service!OwnGroup
    <3> QED BY <1>b, <3>6 DEF Service!Decision
  <2> QED BY <2>1, <2>2, <2>3
<1>3. ASSUME NEW t \in Threads, config_delete(t) PROVE [Service!Next]_(Service!vars)
  <2>1. pc[t] = "delete" /\ pc' = [pc EXCEPT ![t] = "calloc"] /\ rc' = rc
    BY <1>3 DEF config_delete, Goto
  <2>2. InForce' = NULL
    BY <1>0, <2>1 DEF InForce, Dangling, VariableTypes
  <2>3. Stage' = [Stage EXCEPT ![t] = "loading"] /\ Stage[t] = "asked"
    BY <1>0, <2>1, StageValues DEF Stage, VariableTypes
  <2>4. Result' = Result
    BY <1>0, <2>1, ResultStays DEF Decided
  <2>5. mutex = t /\ req[t].path = ConfPath
    BY <1>0, <2>1 DEF Exclusion, Holding, Reloading, IInv, Branches
  <2>6. \A u \in Threads : Stage[u] \notin {"deciding", "loading", "reading"}
    BY <1>a, <2>3, <2>5
  <2>7. Service!BeginReload(t)
    BY <1>3, <2>2, <2>3, <2>4, <2>5, <2>6 DEF config_delete, Running, OwnGroup,
       Service!BeginReload, Service!Moves, Service!Nobody, Service!Running, Service!OwnGroup
  <2> QED BY <1>b, <2>7 DEF Service!Load
<1>4. ASSUME NEW t \in Threads, config_init_calloc(t) PROVE [Service!Next]_(Service!vars)
  <2>1. pc[t] = "calloc" /\ InForce = NULL /\ rc' = rc /\ ~Decided(t) /\ rc[t] = 0
    BY <1>4, InForceNone DEF config_init_calloc, Replacing, Decided, IInv, ZeroUntilWalk, Reloading
  <2>2. CASE pc' = [pc EXCEPT ![t] = "access"]
    <3>1. InForce' = NULL
      BY <1>0, <2>2 DEF InForce, Dangling, Initializing, VariableTypes
    <3>2. Stage' = [Stage EXCEPT ![t] = "loading"] /\ Stage[t] = "loading"
      BY <1>0, <2>1, <2>2, StageValues DEF Stage, VariableTypes
    <3>3. Stage' = Stage
      BY <3>2 DEF Stage
    <3>4. Result' = Result
      BY <1>0, <2>1, <2>2, ResultStays
    <3> QED BY <1>4, <1>c, <2>1, <3>1, <3>3, <3>4 DEF config_init_calloc
  <2>3. CASE pc' = [pc EXCEPT ![t] = "unlock"] /\ errors' = NULL
    <3>1. InForce' = NULL
      BY <1>0, <2>1, <2>3, InForceAfter DEF Reloading
    <3>2. Stage' = [Stage EXCEPT ![t] = "decided"] /\ Stage[t] = "loading"
      BY <1>0, <2>1, <2>3, StageValues DEF Stage, VariableTypes
    <3>3. Result' = Result
      BY <1>0, <2>1, <2>3, ResultStays
    <3>4. Service!LoadFails(t)
      BY <1>4, <2>1, <3>1, <3>2, <3>3 DEF config_init_calloc, Running, OwnGroup,
         Service!LoadFails, Service!Moves, Service!Running, Service!OwnGroup
    <3> QED BY <1>b, <3>4 DEF Service!Load
  <2> QED BY <1>4, <2>2, <2>3 DEF config_init_calloc, Goto
<1>5. ASSUME NEW t \in Threads, config_init_access(t) PROVE [Service!Next]_(Service!vars)
  <2>1. pc[t] = "access" /\ InForce = NULL /\ rc' = rc /\ ~Decided(t) /\ rc[t] = 0
    BY <1>5, InForceNone DEF config_init_access, Replacing, Initializing, Decided, IInv, ZeroUntilWalk, Reloading
  <2>2. CASE pc' = [pc EXCEPT ![t] = "open"] /\ UNCHANGED dirty
    <3>1. InForce' = NULL
      BY <1>0, <2>2 DEF InForce, Dangling, Initializing, VariableTypes
    <3>2. Stage' = [Stage EXCEPT ![t] = "loading"] /\ Stage[t] = "loading"
      BY <1>0, <2>1, <2>2, StageValues DEF Stage, VariableTypes
    <3>3. Stage' = Stage
      BY <3>2 DEF Stage
    <3>4. Result' = Result
      BY <1>0, <2>1, <2>2, ResultStays
    <3> QED BY <1>5, <1>c, <2>1, <2>2, <3>1, <3>3, <3>4 DEF config_init_access
  <2>3. CASE pc' = [pc EXCEPT ![t] = "unlock"] /\ errors' = q[t] /\ dirty' = (file # Absent)
    <3>0. q[t] \in Addr /\ heap[q[t]] = <<>>
      BY <2>1 DEF IInv, FreshQueue, Initializing
    <3>1. InForce' = <<>>
      BY <1>0, <1>5, <2>1, <2>3, <3>0, InForceAfter DEF Reloading, config_init_access
    <3>2. Stage' = [Stage EXCEPT ![t] = "decided"] /\ Stage[t] = "loading"
      BY <1>0, <2>1, <2>3, StageValues DEF Stage, VariableTypes
    <3>3. Result' = Result
      BY <1>0, <2>1, <2>3, ResultStays
    <3>4. Service!NoFile(t)
      BY <1>5, <2>1, <2>3, <3>1, <3>2, <3>3 DEF config_init_access, Running, OwnGroup,
         Service!NoFile, Service!Moves, Service!Running, Service!OwnGroup
    <3> QED BY <1>b, <3>4 DEF Service!Load
  <2> QED BY <1>5, <2>2, <2>3 DEF config_init_access, Goto
<1>6. ASSUME NEW t \in Threads, config_init_open(t) PROVE [Service!Next]_(Service!vars)
  <2>1. pc[t] = "open" /\ InForce = NULL /\ rc' = rc /\ ~Decided(t) /\ rc[t] = 0
    BY <1>6, InForceNone DEF config_init_open, Replacing, Initializing, Decided, IInv, ZeroUntilWalk, Reloading
  <2>2. CASE pc' = [pc EXCEPT ![t] = "parse"] /\ file # Absent
    <3>1. InForce' = NULL
      BY <1>0, <2>2 DEF InForce, Dangling, Initializing, VariableTypes
    <3>2. Stage' = [Stage EXCEPT ![t] = "reading"] /\ Stage[t] = "loading"
      BY <1>0, <2>1, <2>2, StageValues DEF Stage, VariableTypes
    <3>3. Result' = Result
      BY <1>0, <2>1, <2>2, ResultStays
    <3>4. Service!Open(t)
      BY <1>6, <2>1, <2>2, <3>1, <3>2, <3>3 DEF config_init_open, Running, OwnGroup,
         Service!Open, Service!Moves, Service!Running, Service!OwnGroup
    <3> QED BY <1>b, <3>4 DEF Service!Load
  <2>3. CASE pc' = [pc EXCEPT ![t] = "unlock"] /\ errors' = NULL
    <3>1. InForce' = NULL
      BY <1>0, <2>1, <2>3, InForceAfter DEF Reloading
    <3>2. Stage' = [Stage EXCEPT ![t] = "decided"] /\ Stage[t] = "loading"
      BY <1>0, <2>1, <2>3, StageValues DEF Stage, VariableTypes
    <3>3. Result' = Result
      BY <1>0, <2>1, <2>3, ResultStays
    <3>4. Service!LoadFails(t)
      BY <1>6, <2>1, <3>1, <3>2, <3>3 DEF config_init_open, Running, OwnGroup,
         Service!LoadFails, Service!Moves, Service!Running, Service!OwnGroup
    <3> QED BY <1>b, <3>4 DEF Service!Load
  <2> QED BY <1>6, <2>2, <2>3 DEF config_init_open, Goto
<1>7. ASSUME NEW t \in Threads, config_init_parse(t) PROVE [Service!Next]_(Service!vars)
  <2>1. /\ pc[t] = "parse" /\ InForce = NULL /\ rc' = rc /\ ~Decided(t) /\ rc[t] = 0
        /\ pc' = [pc EXCEPT ![t] = "unlock"]
    BY <1>7, InForceNone DEF config_init_parse, Goto, Replacing, Initializing, Decided, IInv, ZeroUntilWalk, Reloading
  <2>2. q[t] \in Addr
    BY <2>1 DEF IInv, FreshQueue, Initializing
  <2>3. PICK c \in Confs : (~dirty => c = file) /\ heap' = [heap EXCEPT ![q[t]] = c]
    BY <1>7 DEF config_init_parse
  <2>4. InForce' = c
    BY <1>0, <1>7, <2>1, <2>2, <2>3, InForceAfter DEF Reloading, config_init_parse, VariableTypes
  <2>5. Stage' = [Stage EXCEPT ![t] = "decided"] /\ Stage[t] = "reading"
    BY <1>0, <2>1, StageValues DEF Stage, VariableTypes
  <2>6. Result' = Result
    BY <1>0, <2>1, ResultStays
  <2>7. Service!Read(t)
    BY <1>7, <2>3, <2>4, <2>5, <2>6 DEF config_init_parse, Running, OwnGroup,
       Service!Read, Service!Moves, Service!Running, Service!OwnGroup
  <2> QED BY <1>b, <2>7 DEF Service!Load
\* The queue that is walked is the configuration in force.
<1>d. ASSUME NEW t \in Threads, pc[t] \in Walking
      PROVE  InForce = snap[t] /\ heap[q[t]] = snap[t] /\ ~Decided(t) /\ pc[t] \notin Replacing
  <2>1. q[t] = errors /\ heap[q[t]] = snap[t] /\ q[t] \in Addr
    BY <1>d DEF IInv, WalkIsStable, WalksAllocated
  <2>2. \A u \in Threads : u # t => pc[u] \notin Holding
    BY <1>0, <1>d DEF Exclusion, Holding
  <2>3. ~Dangling
    BY <1>d, <2>2 DEF Dangling, Initializing, Holding, Reloading, Walking
  <2>4. InForce = heap[errors]
    BY <2>1, <2>3 DEF InForce
  <2> QED BY <1>d, <2>1, <2>4 DEF Decided, Walking, Replacing, Initializing
\* A walk that goes on leaves the configuration, the stages and the results.
<1>e. ASSUME NEW t \in Threads, pc[t] \in Walking, NEW l \in Walking, pc' = [pc EXCEPT ![t] = l],
             UNCHANGED <<errors, heap>>, \A u \in Threads \ {t} : rc'[u] = rc[u]
      PROVE  InForce' = InForce /\ Stage' = Stage /\ Result' = Result /\ Stage[t] = "deciding"
  <2>1. InForce' = InForce
    BY <1>0, <1>d, <1>e, InForceStays DEF Walking, Replacing, Initializing
  <2>2. Stage' = [Stage EXCEPT ![t] = "deciding"] /\ Stage[t] = "deciding"
    BY <1>0, <1>e, StageValues DEF Stage, VariableTypes, Walking
  <2>3. Stage' = Stage
    BY <2>2 DEF Stage
  <2>4. Result' = Result
    BY <1>0, <1>d, <1>e, ResultStays DEF Walking
  <2> QED BY <2>1, <2>2, <2>3, <2>4
<1>8. ASSUME NEW t \in Threads, Skip(t) PROVE [Service!Next]_(Service!vars)
  <2>1. pc' = [pc EXCEPT ![t] = "scan"] /\ pc[t] \in Walking
    BY <1>0, <1>8 DEF Skip, AtEntry, Walking, VariableTypes
  <2>2. InForce' = InForce /\ Stage' = Stage /\ Result' = Result
    BY <1>8, <1>e, <2>1 DEF Skip, shared, Walking
  <2> QED BY <1>8, <1>c, <2>2 DEF Skip, shared
<1>9. ASSUME NEW t \in Threads, InjectNoop(t) PROVE [Service!Next]_(Service!vars)
  <2>1. pc' = [pc EXCEPT ![t] = "scan"] /\ pc[t] \in Walking
    BY <1>0, <1>9 DEF InjectNoop, AtEntry, Walking, VariableTypes
  <2>2. \A u \in Threads \ {t} : rc'[u] = rc[u]
    BY <1>0, <1>9 DEF InjectNoop, VariableTypes
  <2>3. InForce' = InForce /\ Stage' = Stage /\ Result' = Result
    BY <1>9, <1>e, <2>1, <2>2 DEF InjectNoop, shared, Walking
  <2> QED BY <1>9, <1>c, <2>3 DEF InjectNoop, shared
<1>10. ASSUME NEW t \in Threads, InjectErrno(t) PROVE [Service!Next]_(Service!vars)
  <2>1. pc' = [pc EXCEPT ![t] = "scan"] /\ pc[t] \in Walking
    BY <1>0, <1>10 DEF InjectErrno, AtEntry, Walking, VariableTypes
  <2>2. \A u \in Threads \ {t} : rc'[u] = rc[u]
    BY <1>0, <1>10 DEF InjectErrno, VariableTypes
  <2>3. InForce' = InForce /\ Stage' = Stage /\ Result' = Result
    BY <1>10, <1>e, <2>1, <2>2 DEF InjectErrno, shared, Walking
  <2> QED BY <1>10, <1>c, <2>3 DEF InjectErrno, shared
<1>11. ASSUME NEW t \in Threads, Wake(t) PROVE [Service!Next]_(Service!vars)
  <2>1. pc' = [pc EXCEPT ![t] = "scan"] /\ pc[t] \in Walking
    BY <1>0, <1>11 DEF Wake, Goto, Walking
  <2>2. InForce' = InForce /\ Stage' = Stage /\ Result' = Result
    BY <1>11, <1>e, <2>1 DEF Wake, shared, Walking
  <2> QED BY <1>11, <1>c, <2>2 DEF Wake, shared
\* The entry that fires is one of the configuration in force.
<1>f. ASSUME NEW t \in Threads, AtEntry(t), Triggered(t)
      PROVE  /\ InForce = snap[t] /\ idx[t] \in DOMAIN InForce /\ Entry(t) = InForce[idx[t]]
             /\ idx[t] \in Service!Applying(InForce, req[t])
  <2>1. InForce = snap[t]
    BY <1>d, <1>f DEF AtEntry, Walking
  <2>2. idx[t] \in DOMAIN snap[t] /\ Entry(t) = snap[t][idx[t]]
    BY <1>f, AtSnapshot
  <2> QED BY <1>f, <2>1, <2>2, ServiceApplying DEF Triggered, Applying
<1>12. ASSUME NEW t \in Threads, InjectKillCaller(t) PROVE [Service!Next]_(Service!vars)
  <2>1. pc' = [pc EXCEPT ![t] = "scan"] /\ pc[t] \in Walking
    BY <1>0, <1>12 DEF InjectKillCaller, AtEntry, Walking, VariableTypes
  <2>2. InForce' = InForce /\ Stage' = Stage /\ Result' = Result /\ Stage[t] = "deciding"
    BY <1>12, <1>e, <2>1 DEF InjectKillCaller, Walking
  <2>3. /\ idx[t] \in DOMAIN InForce /\ idx[t] \in Service!Applying(InForce, req[t])
        /\ InForce[idx[t]].type = "ERRINJ_KILL_CALLER"
    BY <1>12, <1>f DEF InjectKillCaller
  <2>4. Stage' = [Stage EXCEPT ![t] = "deciding"]
    BY <2>2 DEF Stage
  <2>5. CASE killed' = killed \cup {req[t].pid}
    <3>1. Service!Kill(t)
      BY <1>12, <2>2, <2>3, <2>4, <2>5 DEF InjectKillCaller, AtEntry, Running, OwnGroup,
         Service!Kill, Service!Asks, Service!Moves, Service!Running, Service!OwnGroup
    <3> QED BY <1>b, <3>1 DEF Service!Decision
  <2>6. CASE UNCHANGED killed
    BY <1>12, <1>c, <2>2, <2>6 DEF InjectKillCaller
  <2> QED BY <1>12, <2>5, <2>6 DEF InjectKillCaller
<1>13. ASSUME NEW t \in Threads, InjectSlowdown(t) PROVE [Service!Next]_(Service!vars)
  <2>1. CASE Sleeps(Entry(t).duration)
    <3>1. pc' = [pc EXCEPT ![t] = "sleep"] /\ pc[t] \in Walking /\ slept' = [slept EXCEPT ![t] = TRUE]
      BY <1>13, <2>1 DEF InjectSlowdown, AtEntry, Goto, Walking
    <3>2. InForce' = InForce /\ Stage' = Stage /\ Result' = Result /\ Stage[t] = "deciding"
      BY <1>13, <1>e, <3>1 DEF InjectSlowdown, shared, Walking
    <3>3. /\ idx[t] \in DOMAIN InForce /\ idx[t] \in Service!Applying(InForce, req[t])
          /\ InForce[idx[t]].type = "ERRINJ_SLOWDOWN" /\ Service!Sleeps(InForce[idx[t]].duration)
      BY <1>13, <1>f, <2>1 DEF InjectSlowdown, Sleeps, MAX_NSEC, Service!Sleeps, Service!MAX_NSEC
    <3>4. Stage' = [Stage EXCEPT ![t] = "deciding"]
      BY <3>2 DEF Stage
    <3>5. Service!Sleep(t)
      BY <1>13, <3>1, <3>2, <3>3, <3>4 DEF InjectSlowdown, shared, AtEntry, Running, OwnGroup,
         Service!Sleep, Service!Asks, Service!Moves, Service!Running, Service!OwnGroup
    <3> QED BY <1>b, <3>5 DEF Service!Decision
  <2>2. CASE ~Sleeps(Entry(t).duration)
    <3>1. pc' = [pc EXCEPT ![t] = "scan"] /\ pc[t] \in Walking /\ UNCHANGED slept
      BY <1>0, <1>13, <2>2 DEF InjectSlowdown, AtEntry, Walking, VariableTypes
    <3>2. InForce' = InForce /\ Stage' = Stage /\ Result' = Result
      BY <1>13, <1>e, <3>1 DEF InjectSlowdown, shared, Walking
    <3> QED BY <1>13, <1>c, <3>1, <3>2 DEF InjectSlowdown, shared
  <2> QED BY <2>1, <2>2
<1>14. ASSUME NEW t \in Threads, EndWalk(t) PROVE [Service!Next]_(Service!vars)
  <2>1. pc[t] = "scan" /\ pc' = [pc EXCEPT ![t] = "unlock"] /\ UNCHANGED <<shared, req, rc, slept, snap>>
    BY <1>14 DEF EndWalk, Goto
  <2>2. InForce = snap[t] /\ InForce' = InForce /\ snap[t] \in Confs /\ heap[q[t]] = snap[t]
    BY <1>0, <1>d, <2>1, InForceStays DEF Walking, Replacing, Initializing, shared, VariableTypes
  <2>3. Stage' = [Stage EXCEPT ![t] = "decided"] /\ Stage[t] = "deciding"
    BY <1>0, <2>1, StageValues DEF Stage, VariableTypes
  <2>4. rc' = [rc EXCEPT ![t] = rc[t]]
    BY <1>0, <2>1 DEF VariableTypes
  <2>5. Result' = [Result EXCEPT ![t] = rc[t]]
    BY <1>0, <2>1, <2>4, ResultMoves
  <2>6. idx[t] \in 1 .. Len(snap[t]) + 1 /\ Explained(t, idx[t] - 1)
    BY <2>1 DEF Walks, WalkInv, Walking
  <2>7. idx[t] - 1 = Len(snap[t])
    BY <1>14, <2>2, <2>6 DEF EndWalk
  <2>8. MayReturn(snap[t], req[t], Len(snap[t]), rc[t]) /\ FaultsDone(t, Len(snap[t]))
    BY <2>6, <2>7 DEF Explained
  <2>9. rc[t] \in Service!Outcomes(InForce, req[t])
    BY <2>2, <2>8, ServiceOutcomes
  <2>10. ASSUME NEW i \in Service!Certain(InForce, req[t])
         PROVE  /\ Service!Asks(t, i, "ERRINJ_KILL_CALLER") => req[t].pid \in killed \cup Privileged
                /\ Service!Asks(t, i, "ERRINJ_SLOWDOWN") /\ Service!Sleeps(InForce[i].duration) => slept[t]
    <3>1. i \in Certain(snap[t], req[t]) /\ i <= Len(snap[t])
      BY <2>2, <2>10, ServiceApplying DEF Certain, Applying
    <3> QED BY <2>2, <2>8, <3>1 DEF FaultsDone, Service!Asks, Sleeps, MAX_NSEC, Service!Sleeps, Service!MAX_NSEC
  <2>11. Running
    BY <1>14 DEF EndWalk
  <2>12. Service!Decide(t)
    BY <2>1, <2>2, <2>3, <2>5, <2>9, <2>10, <2>11 DEF shared, Running, OwnGroup,
       Service!Decide, Service!Moves, Service!Running, Service!OwnGroup
  <2> QED BY <1>b, <2>12 DEF Service!Decision
<1>15. ASSUME NEW t \in Threads, Unlock(t) PROVE [Service!Next]_(Service!vars)
  <2>1. pc[t] = "unlock" /\ pc' = [pc EXCEPT ![t] = "handler"] /\ rc' = rc
    BY <1>15 DEF Unlock, Goto
  <2>2. InForce' = InForce
    BY <1>0, <1>15, <2>1, InForceStays DEF Unlock, Replacing, Initializing
  <2>3. Stage' = [Stage EXCEPT ![t] = "decided"] /\ Stage[t] = "decided"
    BY <1>0, <2>1, StageValues DEF Stage, VariableTypes
  <2>4. Stage' = Stage
    BY <2>3 DEF Stage
  <2>5. Result' = Result
    BY <1>0, <2>1, ResultStays DEF Decided
  <2> QED BY <1>15, <1>c, <2>2, <2>4, <2>5 DEF Unlock
\* The handler returns.
<1>g. ASSUME NEW t \in Threads, pc[t] = "handler", Return(t), Running, UNCHANGED <<errors, heap, killed>>
      PROVE  Service!Finish(t) /\ Result[t] = rc[t]
  <2>1. pc' = [pc EXCEPT ![t] = "idle"] /\ rc' = [rc EXCEPT ![t] = 0]
    BY <1>g DEF Return, Goto
  <2>2. InForce' = InForce
    BY <1>0, <1>g, <2>1, InForceStays DEF Replacing, Initializing
  <2>3. Stage' = [Stage EXCEPT ![t] = "idle"] /\ Stage[t] = "decided"
    BY <1>0, <1>g, <2>1, StageValues DEF Stage, VariableTypes
  <2>4. Result' = [Result EXCEPT ![t] = 0]
    BY <1>0, <2>1, ResultMoves
  <2>5. Result[t] = rc[t]
    BY <1>g DEF Result, Decided
  <2> QED BY <1>g, <2>2, <2>3, <2>4, <2>5 DEF Return, Running, OwnGroup,
          Service!Finish, Service!Moves, Service!Running, Service!OwnGroup
<1>16. ASSUME NEW t \in Threads, ReturnInjected(t) PROVE [Service!Next]_(Service!vars)
  <2>1. Service!Finish(t) /\ Result[t] # 0
    BY <1>16, <1>g DEF ReturnInjected, shared
  <2>2. Service!Replace(t)
    BY <1>16, <2>1 DEF ReturnInjected, shared, Service!Replace
  <2> QED BY <1>b, <2>2
<1>17. ASSUME NEW t \in Threads, SystemCall(t) PROVE [Service!Next]_(Service!vars)
  <2>1. Service!Finish(t) /\ Result[t] = 0
    BY <1>17, <1>g DEF SystemCall
  <2>2. Service!Perform(t)
    BY <1>17, <2>1 DEF SystemCall, Service!Perform, Service!Files, Files
  <2> QED BY <1>b, <2>2
<1>18. CASE UNCHANGED vars
  <2>1. InForce' = InForce /\ Stage' = Stage /\ Result' = Result
    BY <1>18 DEF vars, shared, locals, InForce, Dangling, Stage, Result, Decided
  <2> QED BY <1>18, <1>c, <2>1 DEF vars, shared, locals
<1> QED
  BY <1>1, <1>2, <1>3, <1>4, <1>5, <1>6, <1>7, <1>8, <1>9, <1>10, <1>11, <1>12, <1>13, <1>14, <1>15, <1>16, <1>17, <1>18 DEF Next, InMutex, Reload, Walk

\* error_inject() is the service that FaultService describes: one decision per
\* request, under one configuration, whatever other threads reload meanwhile.
THEOREM FaultServiceImplemented == Spec => ImplementsFaultService
<1>1. Init => Service!Init
  BY ServiceInit
<1>2. IInv /\ Walks /\ [Next]_vars => [Service!Next]_(Service!vars)
  BY ServiceStep
<1> QED BY <1>1, <1>2, Invariance, WalksInvariant, PTL DEF Spec, ImplementsFaultService, Service!Spec
============================================================================
