------------------------------ MODULE MkdirRpc ------------------------------
(***************************************************************************)
(* The Mkdir call of the AFS skeleton: client processes, each of which     *)
(* calls GreeterClient::Mkdir once (unreliable_afs_client.cc), the server  *)
(* with one thread per call (unreliable_afs_server.cc), and gRPC between   *)
(* them.                                                                   *)
(*                                                                         *)
(* gRPC is external: it delivers a request at most once and may lose a     *)
(* request or a reply with the connection.  A connection that is seen to   *)
(* break, or an absent server, is a status other than OK.  The client has  *)
(* no deadline and no keepalive, though: once its request is acknowledged  *)
(* it sends nothing, so it does not see that the network or the host of    *)
(* the server has gone.  The code never retries.  The server may crash and *)
(* be started again at any time; the directories it has made stay.         *)
(***************************************************************************)
EXTENDS Integers

CONSTANTS
    Calls,     \* calls of GreeterClient::Mkdir
    Dirs, Parent, Root, Target, Failures, None

\* Target[c] is server_base_directory + request->path(): one string appended to
\* the other, so a path without a leading "/" names a sibling of the base
\* directory.  Nothing in the server creates the base directory itself.

VARIABLES
    dirs,       \* directories on the server's disk
    up,         \* the server process runs
    request,    \* calls whose MkdirRequest is on its way
    thread,     \* calls whose handler runs: it has not called mkdir() yet
    replying,   \* calls whose handler has called mkdir() and not returned
    reply,      \* calls whose MkdirReply is on its way
    err,        \* err[c]: the field err of the reply to c, or None
    silent,     \* calls whose connection may be gone without a sign of it
    pc,         \* where the client of a call stands
    ret         \* what GreeterClient::Mkdir returned, or None

vars == <<dirs, up, request, thread, replying, reply, err, silent, pc, ret>>

\* The promise of the service: a call can still take effect while its request
\* is on its way or its handler has not called mkdir().
Service == INSTANCE MkdirService WITH live <- request \cup thread, outcome <- err

ASSUME RpcConstants ==
    /\ Root \in Dirs
    /\ Parent \in [Dirs -> Dirs]
    /\ Target \in [Calls -> Dirs]
    /\ Failures \subseteq Nat \ {0}
    /\ None \notin Int

TypeOK ==
    /\ dirs \subseteq Dirs
    /\ up \in BOOLEAN
    /\ request \subseteq Calls
    /\ thread \subseteq Calls
    /\ replying \subseteq Calls
    /\ reply \subseteq Calls
    /\ err \in [Calls -> Service!Results \cup {None}]
    /\ silent \subseteq Calls
    /\ pc \in [Calls -> {"start", "waiting", "done"}]
    /\ ret \in [Calls -> Service!Results \cup {Service!NoAnswer, None}]

Init ==
    /\ dirs \in {ds \in SUBSET Dirs : Root \in ds}
    /\ up \in BOOLEAN
    /\ request = {}
    /\ thread = {}
    /\ replying = {}
    /\ reply = {}
    /\ err = [c \in Calls |-> None]
    /\ silent = {}
    /\ pc = [c \in Calls |-> "start"]
    /\ ret = [c \in Calls |-> None]
----------------------------------------------------------------------------
(* The client                                                              *)

\* GreeterClient::Mkdir builds the request and calls the stub, which blocks.
Send(c) ==
    /\ pc[c] = "start"
    /\ pc' = [pc EXCEPT ![c] = "waiting"]
    /\ request' = request \cup {c}
    /\ UNCHANGED <<dirs, up, thread, replying, reply, err, silent, ret>>

Finish(c, result) ==
    /\ pc[c] = "waiting"
    /\ pc' = [pc EXCEPT ![c] = "done"]
    /\ ret' = [ret EXCEPT ![c] = result]

\* status.ok(): return reply.err().
Receive(c) ==
    /\ c \in reply
    /\ reply' = reply \ {c}
    /\ Finish(c, err[c])
    /\ UNCHANGED <<dirs, up, request, thread, replying, err, silent>>

\* Deviation: the client sends the request again instead.
RetryOnFailure(c) ==
    /\ pc[c] = "waiting"
    /\ request' = request \cup {c}
    /\ UNCHANGED <<dirs, up, thread, replying, reply, err, silent, pc, ret>>

\* The status is not OK: return -1.  The connection may break at any time, and
\* what is under way on the server's side goes on.
StatusNotOK(c) ==
    /\ Finish(c, -1)
    /\ UNCHANGED <<dirs, up, request, thread, replying, reply, err, silent>>
----------------------------------------------------------------------------
(* The server                                                              *)

\* gRPC hands the request to a thread that calls Mkdir().
Deliver(c) ==
    /\ up
    /\ c \in request
    /\ request' = request \ {c}
    /\ thread' = thread \cup {c}
    /\ UNCHANGED <<dirs, up, replying, reply, err, silent, pc, ret>>

\* Deviations: set_err(errno) without the sign, and EEXIST taken for success.
Replies(c, r, e) ==
    /\ c \in thread
    /\ thread' = thread \ {c}
    /\ replying' = replying \cup {c}
    /\ r \in Service!MkdirResults(dirs, Target[c])
    /\ err' = [err EXCEPT ![c] = e]
    /\ dirs' = IF r = 0 THEN dirs \cup {Target[c]} ELSE dirs
    /\ UNCHANGED <<up, request, reply, silent, pc, ret>>

MkdirUnsigned(c) == \E r \in Service!Results : Replies(c, r, -r)
MkdirParents(c) ==
    \E r \in Service!Results : Replies(c, r, IF r = -Service!EEXIST THEN 0 ELSE r)

\* mkdir(path, mode), and reply->set_err() with its result or with -errno.
Mkdir(c) ==
    /\ c \in thread
    /\ thread' = thread \ {c}
    /\ replying' = replying \cup {c}
    /\ \E r \in Service!MkdirResults(dirs, Target[c]) :
         /\ err' = [err EXCEPT ![c] = r]
         /\ dirs' = IF r = 0 THEN dirs \cup {Target[c]} ELSE dirs
    /\ UNCHANGED <<up, request, reply, silent, pc, ret>>

\* Deviation: the error path forgets to return.
ReturnOnSuccess(c) ==
    /\ c \in replying
    /\ err[c] = 0
    /\ replying' = replying \ {c}
    /\ reply' = reply \cup {c}
    /\ UNCHANGED <<dirs, up, request, thread, err, silent, pc, ret>>

\* return Status::OK, whatever err is: gRPC sends the reply.
ReturnOK(c) ==
    /\ c \in replying
    /\ replying' = replying \ {c}
    /\ reply' = reply \cup {c}
    /\ UNCHANGED <<dirs, up, request, thread, err, silent, pc, ret>>

\* The server dies: handlers and connections are gone, with the requests and some
\* of the replies that were on their way.  If its process dies, the kernel closes
\* the connections; if its host does, nobody tells the clients.
Crash ==
    /\ up
    /\ up' = FALSE
    /\ thread' = {}
    /\ replying' = {}
    /\ request' = {}
    /\ reply' \in SUBSET reply
    /\ \E unseen \in SUBSET {c \in Calls : pc[c] = "waiting"} :
         silent' = silent \cup unseen
    /\ UNCHANGED <<dirs, err, pc, ret>>

\* main() and RunServer() with the same base directory.
RunServer ==
    /\ ~up
    /\ up' = TRUE
    /\ UNCHANGED <<dirs, request, thread, replying, reply, err, silent, pc, ret>>

\* A message is lost with its connection.  The client's own request is missed:
\* nobody acknowledges it.  A lost reply is missed on the server's side alone.
LoseRequest(c) ==
    /\ c \in request
    /\ request' = request \ {c}
    /\ UNCHANGED <<dirs, up, thread, replying, reply, err, silent, pc, ret>>

LoseReply(c) ==
    /\ c \in reply
    /\ reply' = reply \ {c}
    /\ silent' \in {silent, silent \cup {c}}
    /\ UNCHANGED <<dirs, up, request, thread, replying, err, pc, ret>>

Next ==
    \/ Crash \/ RunServer
    \/ \E c \in Calls :
         \/ Send(c) \/ Receive(c) \/ StatusNotOK(c)
         \/ Deliver(c) \/ Mkdir(c) \/ ReturnOK(c)
         \/ LoseRequest(c) \/ LoseReply(c)

Spec == Init /\ [][Next]_vars

\* No message or handler stands for the call any more, or it is addressed to a
\* server that is down, and the connection shows it: gRPC reports the failure.
SeenToFail(c) ==
    /\ c \notin thread \cup replying \cup reply \cup silent
    /\ c \in request => ~up

\* gRPC delivers what it does not lose and reports a connection that it has seen
\* to break, and a handler thread that runs makes progress: mkdir() returns.
\* Nothing makes a crashed server start again, and nothing ends a call whose
\* connection is gone without a sign.
FairSpec ==
    /\ Spec
    /\ \A c \in Calls :
         /\ WF_vars(Deliver(c) \/ Mkdir(c) \/ ReturnOK(c) \/ Receive(c))
         /\ WF_vars(StatusNotOK(c) /\ SeenToFail(c))
----------------------------------------------------------------------------
(* Properties                                                              *)

\* The calls implement the promise of the service: one atomic effect at most,
\* and an answer that is its result, or -1.
ServiceSpec == Service!Spec

\* mkdir() is how the callers exclude each other: of the calls that returned 0
\* no two asked for the same directory, whatever was lost in between, and the
\* directory is there.
ExclusiveCreate ==
    \A c, d \in Calls :
        ret[c] = 0 => /\ Target[c] \in dirs
                      /\ ret[d] = 0 /\ Target[d] = Target[c] => c = d

\* A call is in one place at a time: its request, its handler before mkdir(),
\* its handler after it, or its reply; and it has a result from mkdir() on.  So
\* no call runs mkdir() twice, although a crash may lose any of the four.
OnePlace ==
    LET place == <<request, thread, replying, reply>> IN
    /\ \A i, j \in 1 .. 4 : i # j => place[i] \cap place[j] = {}
    /\ \A i \in 1 .. 4 : \A c \in place[i] : pc[c] # "start" /\ (err[c] # None <=> i > 2)

\* The server's part of a call's return: nothing in it waits for anything and
\* every path of the handler replies, so that a call that waits for ever, having no
\* deadline, has lost its connection without a sign.
OnlySilentLossHangs ==
    \A c \in Calls : pc[c] = "waiting" ~> (pc[c] = "done" \/ c \in silent)
============================================================================
