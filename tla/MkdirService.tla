---------------------------- MODULE MkdirService ----------------------------
(***************************************************************************)
(* What the UnreliableAFS service promises to the callers of Mkdir: the    *)
(* abstract specification that MkdirRpc implements.                        *)
(*                                                                         *)
(* A call takes effect at most once, in one atomic step on the server's    *)
(* directory tree.  A call that returns the result of that step has taken  *)
(* effect before it returns.  A call that fails returns NoAnswer and says  *)
(* nothing: it may have taken effect, may never do so, or may still take   *)
(* effect after it has returned.                                           *)
(***************************************************************************)
EXTENDS Integers

CONSTANTS
    Calls,        \* calls of Mkdir
    Dirs,         \* directories of the server's file system
    Parent,       \* Parent[d]: the directory that holds d
    Root,         \* the directory that always exists
    Target,       \* Target[c]: the directory call c asks for
    Failures,     \* errnos mkdir(2) may give for reasons outside the model
    None          \* no result yet

EEXIST == 17
ENOENT == 2

\* What a client returns when it has no reply.  It is also -EPERM.
NoAnswer == -1

Results == {0, -EEXIST, -ENOENT} \cup {-e : e \in Failures}

\* The results mkdir(2) may have for directory d in tree ds.
MkdirResults(ds, d) ==
    (IF d \in ds THEN {-EEXIST}
     ELSE IF Parent[d] \notin ds THEN {-ENOENT} ELSE {0})
      \cup {-e : e \in Failures}

VARIABLES
    dirs,     \* the directories that exist
    live,     \* calls that have begun and may still take effect
    outcome,  \* outcome[c]: the result of the effect of c, or None
    ret       \* ret[c]: what c returned, or None

vars == <<dirs, live, outcome, ret>>

Init ==
    /\ dirs \in {ds \in SUBSET Dirs : Root \in ds}
    /\ live = {}
    /\ outcome = [c \in Calls |-> None]
    /\ ret = [c \in Calls |-> None]

Begin(c) ==
    /\ ret[c] = None
    /\ outcome[c] = None
    /\ live' = live \cup {c}
    /\ UNCHANGED <<dirs, outcome, ret>>

TakeEffect(c) ==
    /\ c \in live
    /\ live' = live \ {c}
    /\ \E r \in MkdirResults(dirs, Target[c]) :
         /\ outcome' = [outcome EXCEPT ![c] = r]
         /\ dirs' = IF r = 0 THEN dirs \cup {Target[c]} ELSE dirs
    /\ UNCHANGED ret

\* Some of the calls that have not taken effect never will.
Abandon ==
    /\ \E lost \in SUBSET live : live' = live \ lost
    /\ UNCHANGED <<dirs, outcome, ret>>

Answer(c) ==
    /\ ret[c] = None
    /\ outcome[c] # None
    /\ ret' = [ret EXCEPT ![c] = outcome[c]]
    /\ UNCHANGED <<dirs, live, outcome>>

Fail(c) ==
    /\ ret[c] = None
    /\ ret' = [ret EXCEPT ![c] = NoAnswer]
    /\ UNCHANGED <<dirs, live, outcome>>

Next ==
    \/ Abandon
    \/ \E c \in Calls : Begin(c) \/ TakeEffect(c) \/ Answer(c) \/ Fail(c)

Spec == Init /\ [][Next]_vars
============================================================================
