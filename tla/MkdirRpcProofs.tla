--------------------------- MODULE MkdirRpcProofs ---------------------------
(***************************************************************************)
(* The Mkdir call implements its abstract service, for any number of calls *)
(* and any directory tree, whatever is lost or crashes.                    *)
(***************************************************************************)
EXTENDS MkdirRpc, TLAPS

\* A call that has not begun has no result, one that waits has returned nothing,
\* and what a call returns is its result or -1.
CallStages ==
    \A c \in Calls :
        /\ pc[c] = "start" => err[c] = None
        /\ pc[c] # "done" => ret[c] = None
        /\ ret[c] \in {None, -1, err[c]}

\* A result of 0 stands for a directory that no other call has made.
Created ==
    \A c, d \in Calls :
        err[c] = 0 => /\ Target[c] \in dirs
                      /\ err[d] = 0 /\ Target[d] = Target[c] => c = d

RInv == TypeOK /\ OnePlace /\ CallStages /\ Created

\* OnePlace without the sequence.
LEMMA Places ==
    OnePlace <=>
      /\ request \cap thread = {} /\ request \cap replying = {} /\ request \cap reply = {}
      /\ thread \cap replying = {} /\ thread \cap reply = {} /\ replying \cap reply = {}
      /\ \A c \in request \cup thread : pc[c] # "start" /\ err[c] = None
      /\ \A c \in replying \cup reply : pc[c] # "start" /\ err[c] # None
BY DEF OnePlace

\* A result of mkdir(), and when it is 0.
LEMMA ResultFacts ==
    ASSUME RpcConstants, dirs \subseteq Dirs, NEW c \in Calls,
           NEW r \in Service!MkdirResults(dirs, Target[c])
    PROVE  /\ r \in Service!Results
           /\ r \in Int /\ r # None
           /\ r = 0 => Target[c] \notin dirs
<1>1. \A e \in Failures : -e \in Int /\ -e # 0
  BY DEF RpcConstants
<1> QED
  BY <1>1 DEF RpcConstants, Service!MkdirResults, Service!Results, Service!EEXIST, Service!ENOENT

\* No call has begun.
LEMMA RInit == Init => RInv
<1> SUFFICES ASSUME Init PROVE RInv
  OBVIOUS
<1>1. TypeOK
  BY DEF Init, TypeOK
<1>2. OnePlace
  BY Places DEF Init
<1>3. CallStages
  BY DEF Init, CallStages
<1>4. Created
  BY RpcConstants DEF Init, Created, RpcConstants
<1> QED BY <1>1, <1>2, <1>3, <1>4 DEF RInv

\* Every message and result keeps its type.
LEMMA TypeStep == RInv /\ [Next]_vars => TypeOK'
<1> SUFFICES ASSUME RInv, [Next]_vars PROVE TypeOK'
  OBVIOUS
<1>0. RInv
  OBVIOUS
<1> USE DEF RInv, TypeOK
<1>1. CASE Crash
  BY <1>0, <1>1 DEF Crash
<1>2. CASE RunServer
  BY <1>0, <1>2 DEF RunServer
<1>3. ASSUME NEW c \in Calls, Send(c) PROVE TypeOK'
  BY <1>0, <1>3 DEF Send
<1>4. ASSUME NEW c \in Calls, Receive(c) PROVE TypeOK'
  BY <1>0, <1>4 DEF Receive, Finish
<1>5. ASSUME NEW c \in Calls, StatusNotOK(c) PROVE TypeOK'
  BY <1>0, <1>5 DEF StatusNotOK, Finish, Service!NoAnswer
<1>6. ASSUME NEW c \in Calls, Deliver(c) PROVE TypeOK'
  BY <1>0, <1>6 DEF Deliver
<1>7. ASSUME NEW c \in Calls, Mkdir(c) PROVE TypeOK'
  <2>1. PICK r \in Service!MkdirResults(dirs, Target[c]) :
               /\ err' = [err EXCEPT ![c] = r]
               /\ dirs' = IF r = 0 THEN dirs \cup {Target[c]} ELSE dirs
    BY <1>7 DEF Mkdir
  <2>2. /\ r \in Service!Results /\ r \in Int /\ r # None
        /\ r = 0 => Target[c] \notin dirs
    BY <1>0, <2>1, RpcConstants, ResultFacts
  <2>3. Target[c] \in Dirs
    BY RpcConstants DEF RpcConstants
  <2> QED BY <1>0, <1>7, <2>1, <2>2, <2>3 DEF Mkdir
<1>8. ASSUME NEW c \in Calls, ReturnOK(c) PROVE TypeOK'
  BY <1>0, <1>8 DEF ReturnOK
<1>9. ASSUME NEW c \in Calls, LoseRequest(c) PROVE TypeOK'
  BY <1>0, <1>9 DEF LoseRequest
<1>10. ASSUME NEW c \in Calls, LoseReply(c) PROVE TypeOK'
  BY <1>0, <1>10 DEF LoseReply
<1>11. CASE UNCHANGED vars
  BY <1>0, <1>11 DEF vars
<1> QED
  BY <1>1, <1>2, <1>3, <1>4, <1>5, <1>6, <1>7, <1>8, <1>9, <1>10, <1>11 DEF Next

\* The four places of a call in the state after a step.
LEMMA PlacesNext ==
    ASSUME request' \cap thread' = {}, request' \cap replying' = {}, request' \cap reply' = {},
           thread' \cap replying' = {}, thread' \cap reply' = {}, replying' \cap reply' = {},
           \A c \in request' \cup thread' : pc'[c] # "start" /\ err'[c] = None,
           \A c \in replying' \cup reply' : pc'[c] # "start" /\ err'[c] # None
    PROVE  OnePlace'
BY DEF OnePlace

\* A call moves from place to place.
LEMMA PlaceStep == RInv /\ [Next]_vars => OnePlace'
<1> SUFFICES ASSUME RInv, [Next]_vars PROVE OnePlace'
  OBVIOUS
<1>0. RInv
  OBVIOUS
<1> USE Places, PlacesNext DEF RInv, TypeOK, CallStages
<1>1. CASE Crash
  BY <1>0, <1>1 DEF Crash
<1>2. CASE RunServer
  BY <1>0, <1>2 DEF RunServer
<1>3. ASSUME NEW c \in Calls, Send(c) PROVE OnePlace'
  BY <1>0, <1>3 DEF Send
<1>4. ASSUME NEW c \in Calls, Receive(c) PROVE OnePlace'
  BY <1>0, <1>4 DEF Receive, Finish
<1>5. ASSUME NEW c \in Calls, StatusNotOK(c) PROVE OnePlace'
  BY <1>0, <1>5 DEF StatusNotOK, Finish
<1>6. ASSUME NEW c \in Calls, Deliver(c) PROVE OnePlace'
  BY <1>0, <1>6 DEF Deliver
<1>7. ASSUME NEW c \in Calls, Mkdir(c) PROVE OnePlace'
  <2>1. PICK r \in Service!MkdirResults(dirs, Target[c]) :
               /\ err' = [err EXCEPT ![c] = r]
               /\ dirs' = IF r = 0 THEN dirs \cup {Target[c]} ELSE dirs
    BY <1>7 DEF Mkdir
  <2>2. /\ r \in Service!Results /\ r \in Int /\ r # None
        /\ r = 0 => Target[c] \notin dirs
    BY <1>0, <2>1, RpcConstants, ResultFacts
  <2> QED BY <1>0, <1>7, <2>1, <2>2 DEF Mkdir
<1>8. ASSUME NEW c \in Calls, ReturnOK(c) PROVE OnePlace'
  BY <1>0, <1>8 DEF ReturnOK
<1>9. ASSUME NEW c \in Calls, LoseRequest(c) PROVE OnePlace'
  BY <1>0, <1>9 DEF LoseRequest
<1>10. ASSUME NEW c \in Calls, LoseReply(c) PROVE OnePlace'
  BY <1>0, <1>10 DEF LoseReply
<1>11. CASE UNCHANGED vars
  BY <1>0, <1>11 DEF vars
<1> QED
  BY <1>1, <1>2, <1>3, <1>4, <1>5, <1>6, <1>7, <1>8, <1>9, <1>10, <1>11 DEF Next

\* What a call returns is what its handler replied.
LEMMA StageStep == RInv /\ [Next]_vars => CallStages'
<1> SUFFICES ASSUME RInv, [Next]_vars PROVE CallStages'
  OBVIOUS
<1>0. RInv
  OBVIOUS
<1> USE Places DEF RInv, TypeOK, CallStages
<1>1. CASE Crash
  BY <1>0, <1>1 DEF Crash
<1>2. CASE RunServer
  BY <1>0, <1>2 DEF RunServer
<1>3. ASSUME NEW c \in Calls, Send(c) PROVE CallStages'
  BY <1>0, <1>3 DEF Send
<1>4. ASSUME NEW c \in Calls, Receive(c) PROVE CallStages'
  BY <1>0, <1>4 DEF Receive, Finish
<1>5. ASSUME NEW c \in Calls, StatusNotOK(c) PROVE CallStages'
  BY <1>0, <1>5 DEF StatusNotOK, Finish
<1>6. ASSUME NEW c \in Calls, Deliver(c) PROVE CallStages'
  BY <1>0, <1>6 DEF Deliver
<1>7. ASSUME NEW c \in Calls, Mkdir(c) PROVE CallStages'
  <2>1. PICK r \in Service!MkdirResults(dirs, Target[c]) :
               /\ err' = [err EXCEPT ![c] = r]
               /\ dirs' = IF r = 0 THEN dirs \cup {Target[c]} ELSE dirs
    BY <1>7 DEF Mkdir
  <2>2. /\ r \in Service!Results /\ r \in Int /\ r # None
        /\ r = 0 => Target[c] \notin dirs
    BY <1>0, <2>1, RpcConstants, ResultFacts
  <2> QED BY <1>0, <1>7, <2>1, <2>2 DEF Mkdir
<1>8. ASSUME NEW c \in Calls, ReturnOK(c) PROVE CallStages'
  BY <1>0, <1>8 DEF ReturnOK
<1>9. ASSUME NEW c \in Calls, LoseRequest(c) PROVE CallStages'
  BY <1>0, <1>9 DEF LoseRequest
<1>10. ASSUME NEW c \in Calls, LoseReply(c) PROVE CallStages'
  BY <1>0, <1>10 DEF LoseReply
<1>11. CASE UNCHANGED vars
  BY <1>0, <1>11 DEF vars
<1> QED
  BY <1>1, <1>2, <1>3, <1>4, <1>5, <1>6, <1>7, <1>8, <1>9, <1>10, <1>11 DEF Next

\* A directory is made once.
LEMMA CreatedStep == RInv /\ [Next]_vars => Created'
<1> SUFFICES ASSUME RInv, [Next]_vars PROVE Created'
  OBVIOUS
<1>0. RInv
  OBVIOUS
<1> USE Places, RpcConstants DEF RInv, TypeOK, Created, CallStages
<1>1. CASE Crash
  BY <1>0, <1>1 DEF Crash
<1>2. CASE RunServer
  BY <1>0, <1>2 DEF RunServer
<1>3. ASSUME NEW c \in Calls, Send(c) PROVE Created'
  BY <1>0, <1>3 DEF Send
<1>4. ASSUME NEW c \in Calls, Receive(c) PROVE Created'
  BY <1>0, <1>4 DEF Receive, Finish
<1>5. ASSUME NEW c \in Calls, StatusNotOK(c) PROVE Created'
  BY <1>0, <1>5 DEF StatusNotOK, Finish
<1>6. ASSUME NEW c \in Calls, Deliver(c) PROVE Created'
  BY <1>0, <1>6 DEF Deliver
<1>7. ASSUME NEW c \in Calls, Mkdir(c) PROVE Created'
  <2>1. PICK r \in Service!MkdirResults(dirs, Target[c]) :
               /\ err' = [err EXCEPT ![c] = r]
               /\ dirs' = IF r = 0 THEN dirs \cup {Target[c]} ELSE dirs
    BY <1>7 DEF Mkdir
  <2>2. /\ r \in Service!Results /\ r \in Int /\ r # None
        /\ r = 0 => Target[c] \notin dirs
    BY <1>0, <2>1, RpcConstants, ResultFacts
  <2> QED BY <1>0, <1>7, <2>1, <2>2 DEF Mkdir
<1>8. ASSUME NEW c \in Calls, ReturnOK(c) PROVE Created'
  BY <1>0, <1>8 DEF ReturnOK
<1>9. ASSUME NEW c \in Calls, LoseRequest(c) PROVE Created'
  BY <1>0, <1>9 DEF LoseRequest
<1>10. ASSUME NEW c \in Calls, LoseReply(c) PROVE Created'
  BY <1>0, <1>10 DEF LoseReply
<1>11. CASE UNCHANGED vars
  BY <1>0, <1>11 DEF vars
<1> QED
  BY <1>1, <1>2, <1>3, <1>4, <1>5, <1>6, <1>7, <1>8, <1>9, <1>10, <1>11 DEF Next

\* The inductive invariant of client, server and messages holds throughout.
THEOREM RInvariance == Spec => []RInv
<1>1. Init => RInv
  BY RInit
<1>2. RInv /\ [Next]_vars => RInv'
  BY TypeStep, PlaceStep, StageStep, CreatedStep DEF RInv
<1> QED BY <1>1, <1>2, PTL DEF Spec

\* Directories, messages and results keep their types; what a call returns is a
\* result of the handler or -1.
THEOREM TypeCorrect == Spec => []TypeOK
<1>1. RInv => TypeOK
  BY DEF RInv
<1> QED BY <1>1, RInvariance, PTL

\* Of the calls that returned 0 no two asked for the same directory.
THEOREM Exclusive == Spec => []ExclusiveCreate
<1>1. RInv => ExclusiveCreate
  BY RpcConstants DEF RInv, CallStages, Created, ExclusiveCreate, RpcConstants
<1> QED BY <1>1, RInvariance, PTL

\* No call runs mkdir() twice.
THEOREM AtMostOnePlace == Spec => []OnePlace
<1>1. RInv => OnePlace
  BY DEF RInv
<1> QED BY <1>1, RInvariance, PTL

\* Every step is a step of the service, or none.
LEMMA Simulation == RInv /\ [Next]_vars => [Service!Next]_(Service!vars)
<1> SUFFICES ASSUME RInv, [Next]_vars PROVE [Service!Next]_(Service!vars)
  OBVIOUS
<1>0. RInv
  OBVIOUS
<1> USE Places DEF RInv, TypeOK, CallStages, Service!vars
<1>1. CASE Crash
  <2>1. Service!Abandon
    <3>1. UNCHANGED <<dirs, err, ret>>
      BY <1>1 DEF Crash
    <3>2. (request \cup thread)' = (request \cup thread) \ (request \cup thread)
      BY <1>1 DEF Crash
    <3> QED BY <3>1, <3>2 DEF Service!Abandon
  <2> QED BY <2>1 DEF Service!Next
<1>2. CASE RunServer
  BY <1>0, <1>2 DEF RunServer
<1>3. ASSUME NEW c \in Calls, Send(c) PROVE [Service!Next]_(Service!vars)
  <2>1. Service!Begin(c)
    BY <1>0, <1>3 DEF Send, Service!Begin
  <2> QED BY <2>1 DEF Service!Next
<1>4. ASSUME NEW c \in Calls, Receive(c) PROVE [Service!Next]_(Service!vars)
  <2>1. Service!Answer(c)
    BY <1>0, <1>4 DEF Receive, Finish, Service!Answer
  <2> QED BY <2>1 DEF Service!Next
<1>5. ASSUME NEW c \in Calls, StatusNotOK(c) PROVE [Service!Next]_(Service!vars)
  <2>1. Service!Fail(c)
    BY <1>0, <1>5 DEF StatusNotOK, Finish, Service!Fail, Service!NoAnswer
  <2> QED BY <2>1 DEF Service!Next
<1>6. ASSUME NEW c \in Calls, Deliver(c) PROVE [Service!Next]_(Service!vars)
  BY <1>0, <1>6 DEF Deliver
<1>7. ASSUME NEW c \in Calls, Mkdir(c) PROVE [Service!Next]_(Service!vars)
  <2>1. Service!TakeEffect(c)
    BY <1>0, <1>7 DEF Mkdir, Service!TakeEffect
  <2> QED BY <2>1 DEF Service!Next
<1>8. ASSUME NEW c \in Calls, ReturnOK(c) PROVE [Service!Next]_(Service!vars)
  BY <1>0, <1>8 DEF ReturnOK
<1>9. ASSUME NEW c \in Calls, LoseRequest(c) PROVE [Service!Next]_(Service!vars)
  <2>1. Service!Abandon
    <3>1. UNCHANGED <<dirs, err, ret, thread>>
      BY <1>9 DEF LoseRequest
    <3>2. (request \cup thread)' = (request \cup thread) \ {c}
      BY <1>0, <1>9 DEF LoseRequest
    <3> QED BY <1>9, <3>1, <3>2 DEF LoseRequest, Service!Abandon
  <2> QED BY <2>1 DEF Service!Next
<1>10. ASSUME NEW c \in Calls, LoseReply(c) PROVE [Service!Next]_(Service!vars)
  BY <1>0, <1>10 DEF LoseReply
<1>11. CASE UNCHANGED vars
  BY <1>0, <1>11 DEF vars
<1> QED
  BY <1>1, <1>2, <1>3, <1>4, <1>5, <1>6, <1>7, <1>8, <1>9, <1>10, <1>11 DEF Next

\* The code implements the promise of the service: one atomic effect at most,
\* and an answer that is its result, or -1.
THEOREM Implements == Spec => ServiceSpec
<1>1. Init => Service!Init
  BY DEF Init, Service!Init
<1>2. RInv /\ [Next]_vars => [Service!Next]_(Service!vars)
  BY Simulation
<1> QED BY <1>1, <1>2, RInvariance, PTL DEF Spec, ServiceSpec, Service!Spec
============================================================================
