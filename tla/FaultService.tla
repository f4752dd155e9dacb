---------------------------- MODULE FaultService ----------------------------
(***************************************************************************)
(* What error_inject() promises to the handlers of unreliablefs: the       *)
(* abstract specification that ErrInject implements.                       *)
(*                                                                         *)
(* There is a configuration in force, or none and all faults are off.  A   *)
(* request is decided by the one configuration that is in force from the   *)
(* moment its decision begins to the moment it is made: other decisions    *)
(* may overlap it, a reload may not.  A request on the configuration file  *)
(* takes the old configuration out of force before it looks at the file,   *)
(* puts the new one in force in one step, and is itself spared.  There is  *)
(* no queue here, no memory, no mutex and no order of the entries but for  *)
(* what MayReturn says of it.                                              *)
(***************************************************************************)
EXTENDS Faults

CONSTANT Threads    \* who serves requests, one at a time each

VARIABLES
    file,     \* the configuration file
    dirty,    \* file is not what was last found
    conf,     \* the configuration in force, or NULL
    killed,   \* processes that were killed
    stage,    \* stage[t]: how far the request of t has come
    asked,    \* asked[t]: that request, or NULL
    slept,    \* slept[t]: it has been put to sleep
    result    \* result[t]: what was decided, 0 for "go on"

vars == <<file, dirty, conf, killed, stage, asked, slept, result>>

Init ==
    /\ file \in Files
    /\ \/ dirty = FALSE /\ conf \in {NULL, QueueOf(file)}
       \/ dirty = TRUE /\ file # Absent /\ conf = <<>>
    /\ killed = {}
    /\ stage = [t \in Threads |-> "idle"]
    /\ asked = [t \in Threads |-> NULL]
    /\ slept = [t \in Threads |-> FALSE]
    /\ result = [t \in Threads |-> 0]

Running == OwnGroup \notin killed

\* No request is at one of these stages.
Nobody(stages) == \A t \in Threads : stage[t] \notin stages

\* The request of t goes from one stage to the next.
Moves(t, from, to) ==
    /\ Running
    /\ stage[t] = from
    /\ stage' = [stage EXCEPT ![t] = to]

Ask(t, r) ==
    /\ Moves(t, "idle", "asked")
    /\ r.pid \notin killed \/ r.pid = OwnGroup
    /\ asked' = [asked EXCEPT ![t] = r]
    /\ UNCHANGED <<file, dirty, conf, killed, slept, result>>
----------------------------------------------------------------------------
(* A request on the configuration file                                     *)

BeginReload(t) ==
    /\ Moves(t, "asked", "loading")
    /\ asked[t].path = ConfPath
    /\ Nobody({"deciding", "loading", "reading"})
    /\ conf' = NULL
    /\ UNCHANGED <<file, dirty, killed, asked, slept, result>>

\* The load has come to nothing, before or after a try to open the file: all
\* faults are off until the next reload.
LoadFails(t) ==
    /\ Moves(t, "loading", "decided")
    /\ dirty' \in {dirty, FALSE}
    /\ UNCHANGED <<file, conf, killed, asked, slept, result>>

\* There is no file, or it cannot be reached: no faults.
NoFile(t) ==
    /\ Moves(t, "loading", "decided")
    /\ conf' = <<>>
    /\ dirty' = (file # Absent)
    /\ UNCHANGED <<file, killed, asked, slept, result>>

Open(t) ==
    /\ Moves(t, "loading", "reading")
    /\ file # Absent
    /\ dirty' = FALSE
    /\ UNCHANGED <<file, conf, killed, asked, slept, result>>

\* Only a change of the file while it is read makes the configuration another
\* one than that of the file.
Read(t) ==
    /\ Moves(t, "reading", "decided")
    /\ conf' \in Confs
    /\ ~dirty => conf' = file
    /\ UNCHANGED <<file, dirty, killed, asked, slept, result>>
----------------------------------------------------------------------------
(* Any other request                                                       *)

Off(t) ==
    /\ Moves(t, "asked", "decided")
    /\ asked[t].path # ConfPath
    /\ Nobody({"loading", "reading"})
    /\ conf = NULL
    /\ UNCHANGED <<file, dirty, conf, killed, asked, slept, result>>

BeginDecision(t) ==
    /\ Moves(t, "asked", "deciding")
    /\ asked[t].path # ConfPath
    /\ Nobody({"loading", "reading"})
    /\ conf # NULL
    /\ UNCHANGED <<file, dirty, conf, killed, asked, slept, result>>

\* An entry of this type, in force, that applies to the request of t.
Asks(t, i, type) == i \in Applying(conf, asked[t]) /\ conf[i].type = type

Kill(t) ==
    /\ Moves(t, "deciding", "deciding")
    /\ \E i \in DOMAIN conf : Asks(t, i, "ERRINJ_KILL_CALLER")
    /\ killed' = killed \cup {asked[t].pid}
    /\ UNCHANGED <<file, dirty, conf, asked, slept, result>>

Sleep(t) ==
    /\ Moves(t, "deciding", "deciding")
    /\ \E i \in DOMAIN conf : Asks(t, i, "ERRINJ_SLOWDOWN") /\ Sleeps(conf[i].duration)
    /\ slept' = [slept EXCEPT ![t] = TRUE]
    /\ UNCHANGED <<file, dirty, conf, killed, asked, result>>

\* What configuration c allows as the result of request r.
Outcomes(c, r) ==
    {x \in {0} \cup UNION {Codes(c, r, i) : i \in DOMAIN c} :
        MayReturn(c, r, Len(c), x)}

\* The result is one that the configuration in force allows, and every fault that
\* it makes certain has happened, but for the kill of a privileged process and a
\* sleep that is too long.
Decide(t) ==
    /\ Moves(t, "deciding", "decided")
    /\ \E x \in Outcomes(conf, asked[t]) : result' = [result EXCEPT ![t] = x]
    /\ \A i \in Certain(conf, asked[t]) :
         /\ Asks(t, i, "ERRINJ_KILL_CALLER") => asked[t].pid \in killed \cup Privileged
         /\ Asks(t, i, "ERRINJ_SLOWDOWN") /\ Sleeps(conf[i].duration) => slept[t]
    /\ UNCHANGED <<file, dirty, conf, killed, asked, slept>>
----------------------------------------------------------------------------
(* The handler                                                             *)

Finish(t) ==
    /\ Moves(t, "decided", "idle")
    /\ asked' = [asked EXCEPT ![t] = NULL]
    /\ slept' = [slept EXCEPT ![t] = FALSE]
    /\ result' = [result EXCEPT ![t] = 0]
    /\ UNCHANGED <<conf, killed>>

\* The decision replaces the operation.
Replace(t) ==
    /\ Finish(t)
    /\ result[t] # 0
    /\ UNCHANGED <<file, dirty>>

\* The operation takes place; it is the only way the file changes.
Perform(t) ==
    /\ Finish(t)
    /\ result[t] = 0
    /\ IF asked[t].changes
         THEN file' \in Files /\ dirty' = (dirty \/ file' # file)
         ELSE UNCHANGED <<file, dirty>>

Load(t) == BeginReload(t) \/ LoadFails(t) \/ NoFile(t) \/ Open(t) \/ Read(t)
Decision(t) == Off(t) \/ BeginDecision(t) \/ Kill(t) \/ Sleep(t) \/ Decide(t)

Next ==
    \E t \in Threads :
        \/ \E r \in Requests : Ask(t, r)
        \/ Load(t)
        \/ Decision(t)
        \/ Replace(t)
        \/ Perform(t)

Spec == Init /\ [][Next]_vars
=============================================================================
