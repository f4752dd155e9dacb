----------------------------- MODULE ErrInject -----------------------------
(***************************************************************************)
(* The fault-injection engine of unreliablefs: error_inject() of           *)
(* unreliablefs_errinj.c as the FUSE worker threads run it, with the       *)
(* configuration queue conf.errors, the mutex conf.mutex that guards it,   *)
(* the reload of unreliablefs.conf and the dispatch on the result that     *)
(* every handler of unreliablefs_ops.c starts with.                        *)
(*                                                                         *)
(* A thread serves one request at a time.  It takes the mutex, and then    *)
(* either reloads the configuration (the request is on the configuration   *)
(* file itself) or walks the queue entry by entry; it drops the mutex and  *)
(* the handler returns the injected result or makes the system call.  The  *)
(* system call runs outside the mutex, so the file may change at any       *)
(* point of another thread's reload.                                       *)
(*                                                                         *)
(* A struct err_inj_q is a heap cell, so that a dangling or a leaked one   *)
(* shows.                                                                  *)
(***************************************************************************)
EXTENDS Faults

CONSTANTS
    Threads,     \* FUSE worker threads of the daemon; NULL is the owner of a
                 \* mutex that nobody holds
    Addr,        \* addresses calloc() can hand out for a struct err_inj_q
    Free         \* content of a heap cell that is not allocated

MIN_PROBABLITY == 0

\* The special values are told apart from the ordinary ones.
ASSUME DistinctValues ==
    /\ Free \notin Confs
    /\ NULL \notin Addr
    /\ NULL \notin Threads
----------------------------------------------------------------------------
VARIABLES
    mutex,     \* conf.mutex: its owner, or NULL
    errors,    \* conf.errors: the current queue, or NULL
    heap,      \* heap[a]: the queue allocated at a, or Free
    file,      \* the configuration file
    pc,        \* where a thread stands in error_inject() or its handler
    req,       \* the request a thread serves
    rc,        \* local rc of error_inject(), then ret of the handler
    q,         \* the queue a thread works on: the one it walks, or
               \* the local "errors" of config_init()
    idx,       \* position of the entry the walk looks at next
    killed,    \* pids that were sent SIGKILL
    snap,      \* history: the queue as it was when the walk began
    slept,     \* history: nanosleep() has put this request to sleep
    leaked,    \* history: queues config_init() gave up without free()
    dirty      \* history: file is not as the engine has last found it

shared == <<mutex, errors, heap, file, killed, leaked, dirty>>
locals == <<pc, req, rc, q, idx, snap, slept>>
vars == <<shared, locals>>

PC == {"idle", "lock", "delete", "calloc", "access", "open", "parse",
       "scan", "sleep", "unlock", "handler"}

\* The parts of error_inject() that run with the mutex held.
Reloading == {"delete", "calloc", "access", "open", "parse"}
Walking == {"scan", "sleep"}
Holding == Reloading \cup Walking \cup {"unlock"}

\* The queue config_init() made is filled but not yet stored in conf.errors.
Initializing == {"access", "open", "parse"}

VariableTypes ==
    /\ mutex \in Threads \cup {NULL}
    /\ errors \in Addr \cup {NULL}
    /\ heap \in [Addr -> Confs \cup {Free}]
    /\ file \in Files
    /\ killed \subseteq Nat
    /\ leaked \subseteq Addr
    /\ dirty \in BOOLEAN
    /\ pc \in [Threads -> PC]
    /\ req \in [Threads -> Requests \cup {NULL}]
    /\ rc \in [Threads -> Int]
    /\ q \in [Threads -> Addr \cup {NULL}]
    /\ idx \in [Threads -> Nat]
    /\ snap \in [Threads -> Confs]
    /\ slept \in [Threads -> BOOLEAN]

\* Every variable is of its type, and no null pointer is followed: a thread that
\* walks a queue, or fills a new one, has one.
TypeOK ==
    /\ VariableTypes
    /\ \A t \in Threads : pc[t] \in Walking \cup Initializing => q[t] \in Addr

\* main() has read the configuration once, before fuse_main() starts the
\* threads: conf.errors is the queue of the file, or NULL because calloc()
\* failed, or NULL because fopen() failed (the new queue is then leaked).  The
\* queue is empty if access() failed, whatever the file is.
Init ==
    /\ mutex = NULL
    /\ file \in Files
    /\ dirty \in BOOLEAN
    /\ \/ /\ errors \in Addr
          /\ dirty => file # Absent
          /\ heap = [a \in Addr |-> IF a # errors THEN Free
                                   ELSE IF dirty THEN <<>> ELSE QueueOf(file)]
          /\ leaked = {}
       \/ /\ errors = NULL
          /\ ~dirty
          /\ leaked \in {{}} \cup {{a} : a \in Addr}
          /\ leaked = {} \/ file # Absent
          /\ heap = [a \in Addr |-> IF a \in leaked THEN <<>> ELSE Free]
    /\ killed = {}
    /\ pc = [t \in Threads |-> "idle"]
    /\ req = [t \in Threads |-> NULL]
    /\ rc = [t \in Threads |-> 0]
    /\ q = [t \in Threads |-> NULL]
    /\ idx = [t \in Threads |-> 0]
    /\ snap = [t \in Threads |-> <<>>]
    /\ slept = [t \in Threads |-> FALSE]
----------------------------------------------------------------------------
(* Helpers of error_inject()                                               *)

\* rand() % (max_n - min_n + 1) + min_n: both ends included.
rand_range(min_n, max_n) == min_n .. max_n

\* Deviations: config_path without basedir, and a strict comparison.
is_conf_relative(path) == FALSE
DrawsStrict(probability) ==
    {p < probability : p \in rand_range(MIN_PROBABLITY, MAX_PROBABLITY)}

\* strcmp(path, conf.config_path) == 0.
is_conf(path) == path = ConfPath

\* The results the draw for an entry of this probability can have.
Draws(probability) ==
    {p <= probability : p \in rand_range(MIN_PROBABLITY, MAX_PROBABLITY)}

----------------------------------------------------------------------------
(* Steps of one thread                                                     *)

\* SIGKILL to its own process group has ended the daemon.
Running == OwnGroup \notin killed

Goto(t, label) == pc' = [pc EXCEPT ![t] = label]

\* The kernel sends a request and a worker thread picks it up: the handler
\* calls error_inject(), which starts with rc = -0.
Call(t, r) ==
    /\ Running
    /\ pc[t] = "idle"
    /\ r.pid \notin killed \/ r.pid = OwnGroup
    /\ Goto(t, "lock")
    /\ req' = [req EXCEPT ![t] = r]
    /\ UNCHANGED <<shared, rc, q, idx, snap, slept>>

\* Deviation: the walk begins without the test of conf.errors.
LockUnchecked(t) ==
    /\ Running
    /\ pc[t] = "lock"
    /\ mutex = NULL
    /\ mutex' = t
    /\ Goto(t, IF is_conf(req[t].path) THEN "delete" ELSE "scan")
    /\ q' = [q EXCEPT ![t] = errors]
    /\ idx' = [idx EXCEPT ![t] = 1]
    /\ snap' = [snap EXCEPT ![t] = IF errors = NULL THEN <<>> ELSE heap[errors]]
    /\ UNCHANGED <<errors, heap, file, killed, leaked, dirty, req, rc, slept>>

\* pthread_mutex_lock(&conf.mutex) and the two tests that follow it.
Lock(t) ==
    /\ Running
    /\ pc[t] = "lock"
    /\ mutex = NULL
    /\ mutex' = t
    /\ \/ /\ is_conf(req[t].path)
          /\ Goto(t, "delete")
          /\ UNCHANGED <<q, idx, snap>>
       \/ /\ ~is_conf(req[t].path)
          /\ errors = NULL
          /\ Goto(t, "unlock")
          /\ UNCHANGED <<q, idx, snap>>
       \/ /\ ~is_conf(req[t].path)
          /\ errors # NULL
          /\ Goto(t, "scan")
          /\ q' = [q EXCEPT ![t] = errors]
          /\ idx' = [idx EXCEPT ![t] = 1]
          /\ snap' = [snap EXCEPT ![t] = heap[errors]]
    /\ UNCHANGED <<errors, heap, file, killed, leaked, dirty, req, rc, slept>>

\* Deviation: a config_delete() that forgets free().
DeleteNothing(t) ==
    /\ Running
    /\ pc[t] = "delete"
    /\ Goto(t, "calloc")
    /\ UNCHANGED <<shared, req, rc, q, idx, snap, slept>>

\* config_delete(conf.errors): frees the queue and its entries and leaves
\* conf.errors dangling until config_init() returns.
config_delete(t) ==
    /\ Running
    /\ pc[t] = "delete"
    /\ heap' = IF errors = NULL THEN heap ELSE [heap EXCEPT ![errors] = Free]
    /\ Goto(t, "calloc")
    /\ UNCHANGED <<mutex, errors, file, killed, leaked, dirty,
                   req, rc, q, idx, snap, slept>>

\* config_init() allocates an empty queue, or fails and returns NULL.
config_init_calloc(t) ==
    /\ Running
    /\ pc[t] = "calloc"
    /\ \/ \E a \in Addr :
            /\ heap[a] = Free
            /\ heap' = [heap EXCEPT ![a] = <<>>]
            /\ q' = [q EXCEPT ![t] = a]
            /\ Goto(t, "access")
            /\ UNCHANGED errors
       \/ /\ errors' = NULL
          /\ Goto(t, "unlock")
          /\ UNCHANGED <<heap, q>>
    /\ UNCHANGED <<mutex, file, killed, leaked, dirty, req, rc, idx, snap, slept>>

\* access(conf_path, F_OK): if it fails the empty queue is the result, be it that
\* there is no file or that it cannot be reached.
config_init_access(t) ==
    /\ Running
    /\ pc[t] = "access"
    /\ \/ /\ errors' = q[t]
          /\ dirty' = (file # Absent)
          /\ Goto(t, "unlock")
       \/ /\ file # Absent
          /\ Goto(t, "open")
          /\ UNCHANGED <<errors, dirty>>
    /\ UNCHANGED <<mutex, heap, file, killed, leaked, req, rc, q, idx, snap, slept>>

\* Deviation: config_init() ignores that ini_parse() failed.
OpenIgnored(t) ==
    /\ Running
    /\ pc[t] = "open"
    /\ \/ /\ file # Absent
          /\ Goto(t, "parse")
          /\ UNCHANGED errors
       \/ /\ errors' = q[t]
          /\ Goto(t, "unlock")
    /\ dirty' = FALSE
    /\ UNCHANGED <<mutex, heap, file, killed, leaked, req, rc, q, idx, snap, slept>>

\* The fopen() of ini_parse(): if it fails, be it that the file has gone since
\* access(), config_init() returns NULL and forgets the queue it allocated.
config_init_open(t) ==
    /\ Running
    /\ pc[t] = "open"
    /\ \/ /\ file # Absent
          /\ Goto(t, "parse")
          /\ UNCHANGED <<errors, leaked>>
       \/ /\ errors' = NULL
          /\ leaked' = leaked \cup {q[t]}
          /\ Goto(t, "unlock")
    /\ dirty' = FALSE
    /\ UNCHANGED <<mutex, heap, file, killed, req, rc, q, idx, snap, slept>>

\* ini_parse() reads the stream line by line; a syntax error is a positive result
\* and is ignored.  If the file changes meanwhile, the lines are a mixture of the
\* old and the new ones, or all old ones if the file was replaced: any queue.
config_init_parse(t) ==
    /\ Running
    /\ pc[t] = "parse"
    /\ \E c \in Confs :
         /\ ~dirty => c = file
         /\ heap' = [heap EXCEPT ![q[t]] = c]
    /\ errors' = q[t]
    /\ Goto(t, "unlock")
    /\ UNCHANGED <<mutex, file, killed, leaked, dirty, req, rc, q, idx, snap, slept>>
----------------------------------------------------------------------------
(* The walk over the queue: TAILQ_FOREACH(err, conf.errors, entries)       *)

\* The entry thread t looks at; the walk follows the pointers of the queue it
\* started on, whatever conf.errors is by now.
Entry(t) == heap[q[t]][idx[t]]
AtEntry(t) == Running /\ pc[t] = "scan" /\ idx[t] <= Len(heap[q[t]])
NextEntry(t) == idx' = [idx EXCEPT ![t] = @ + 1]

\* The entry is drawn and matches the request.
Triggered(t) == TRUE \in Draws(Entry(t).probability) /\ Applies(Entry(t), req[t])

\* One of the three "continue" statements: the entry is not applied.
Skip(t) ==
    /\ AtEntry(t)
    /\ FALSE \in Draws(Entry(t).probability) \/ ~Applies(Entry(t), req[t])
    /\ NextEntry(t)
    /\ UNCHANGED <<shared, pc, req, rc, q, snap, slept>>

InjectNoop(t) ==
    /\ AtEntry(t)
    /\ Entry(t).type = "ERRINJ_NOOP"
    /\ Triggered(t)
    /\ rc' = [rc EXCEPT ![t] = NOOP]
    /\ NextEntry(t)
    /\ UNCHANGED <<shared, pc, req, q, snap, slept>>

\* kill(cxt->pid, SIGKILL), which fails if the daemon may not signal the caller.
\* Either way rc is left alone, so the request goes on.
InjectKillCaller(t) ==
    /\ AtEntry(t)
    /\ Entry(t).type = "ERRINJ_KILL_CALLER"
    /\ Triggered(t)
    /\ \/ killed' = killed \cup {req[t].pid}
       \/ req[t].pid \in Privileged /\ UNCHANGED killed
    /\ NextEntry(t)
    /\ UNCHANGED <<mutex, errors, heap, file, leaked, dirty,
                   pc, req, rc, q, snap, slept>>

InjectErrno(t) ==
    /\ AtEntry(t)
    /\ Entry(t).type = "ERRINJ_ERRNO"
    /\ Triggered(t)
    /\ \E e \in op_random_errno(req[t].op) : rc' = [rc EXCEPT ![t] = -e]
    /\ NextEntry(t)
    /\ UNCHANGED <<shared, pc, req, q, snap, slept>>

\* Deviation: the mutex is dropped for the sleep and not taken again.
SlowdownUnlocked(t) ==
    /\ AtEntry(t)
    /\ Entry(t).type = "ERRINJ_SLOWDOWN"
    /\ Triggered(t)
    /\ mutex' = NULL
    /\ Goto(t, "sleep")
    /\ slept' = [slept EXCEPT ![t] = TRUE]
    /\ UNCHANGED <<errors, heap, file, killed, leaked, dirty, req, rc, q, idx, snap>>

\* nanosleep() with the mutex held; a duration of a second or more is refused
\* and the walk goes on at once.
InjectSlowdown(t) ==
    /\ AtEntry(t)
    /\ Entry(t).type = "ERRINJ_SLOWDOWN"
    /\ Triggered(t)
    /\ \/ /\ Sleeps(Entry(t).duration)
          /\ Goto(t, "sleep")
          /\ slept' = [slept EXCEPT ![t] = TRUE]
          /\ UNCHANGED idx
       \/ /\ ~Sleeps(Entry(t).duration)
          /\ NextEntry(t)
          /\ UNCHANGED <<pc, slept>>
    /\ UNCHANGED <<shared, req, rc, q, snap>>

\* nanosleep() returns.
Wake(t) ==
    /\ Running
    /\ pc[t] = "sleep"
    /\ Goto(t, "scan")
    /\ NextEntry(t)
    /\ UNCHANGED <<shared, req, rc, q, snap, slept>>

\* Deviation: return rc instead of falling through to cleanup.
EndWalkReturns(t) ==
    /\ Running
    /\ pc[t] = "scan"
    /\ idx[t] > Len(heap[q[t]])
    /\ Goto(t, "handler")
    /\ UNCHANGED <<shared, req, rc, q, idx, snap, slept>>

EndWalk(t) ==
    /\ Running
    /\ pc[t] = "scan"
    /\ idx[t] > Len(heap[q[t]])
    /\ Goto(t, "unlock")
    /\ UNCHANGED <<shared, req, rc, q, idx, snap, slept>>

\* cleanup: pthread_mutex_unlock(&conf.mutex), and back in the handler.
Unlock(t) ==
    /\ Running
    /\ pc[t] = "unlock"
    /\ mutex' = NULL
    /\ Goto(t, "handler")
    /\ UNCHANGED <<errors, heap, file, killed, leaked, dirty,
                   req, rc, q, idx, snap, slept>>
----------------------------------------------------------------------------
(* The handler                                                             *)

\* The handler returns to FUSE; its stack frame, and the history kept with
\* it, go away.
Return(t) ==
    /\ Goto(t, "idle")
    /\ req' = [req EXCEPT ![t] = NULL]
    /\ rc' = [rc EXCEPT ![t] = 0]
    /\ q' = [q EXCEPT ![t] = NULL]
    /\ idx' = [idx EXCEPT ![t] = 0]
    /\ snap' = [snap EXCEPT ![t] = <<>>]
    /\ slept' = [slept EXCEPT ![t] = FALSE]

\* ret == -ERRNO_NOOP: return 0; otherwise ret # 0: return ret.  Either way
\* without a system call.
ReturnInjected(t) ==
    /\ Running
    /\ pc[t] = "handler"
    /\ rc[t] # 0
    /\ Return(t)
    /\ UNCHANGED shared

\* Deviation: a handler that tests for errinj_noop alone.
SystemCallAnyway(t) ==
    /\ Running
    /\ pc[t] = "handler"
    /\ rc[t] # NOOP
    /\ IF req[t].changes
         THEN /\ file' \in Files
              /\ dirty' = (dirty \/ file' # file)
         ELSE UNCHANGED <<file, dirty>>
    /\ Return(t)
    /\ UNCHANGED <<mutex, errors, heap, killed, leaked>>

\* The system call on the base file system, and return.  A request that can
\* change the configuration file leaves any content in it, the old one too.
SystemCall(t) ==
    /\ Running
    /\ pc[t] = "handler"
    /\ rc[t] = 0
    /\ IF req[t].changes
         THEN /\ file' \in Files
              /\ dirty' = (dirty \/ file' # file)
         ELSE UNCHANGED <<file, dirty>>
    /\ Return(t)
    /\ UNCHANGED <<mutex, errors, heap, killed, leaked>>

Reload(t) ==
    \/ config_delete(t)
    \/ config_init_calloc(t)
    \/ config_init_access(t)
    \/ config_init_open(t)
    \/ config_init_parse(t)

Walk(t) ==
    \/ Skip(t)
    \/ InjectNoop(t)
    \/ InjectKillCaller(t)
    \/ InjectErrno(t)
    \/ InjectSlowdown(t)
    \/ Wake(t)
    \/ EndWalk(t)

\* What a thread does between pthread_mutex_lock() and its unlock.
InMutex(t) == Reload(t) \/ Walk(t) \/ Unlock(t)

Next ==
    \E t \in Threads :
        \/ \E r \in Requests : Call(t, r)
        \/ Lock(t)
        \/ InMutex(t)
        \/ ReturnInjected(t)
        \/ SystemCall(t)

Spec == Init /\ [][Next]_vars

\* A thread that holds the mutex runs: it waits for no other thread, its sleep
\* is shorter than a second, and the base file system answers the access(),
\* open and read of the configuration file.  Nothing is assumed of the system
\* calls outside the mutex, which may block for ever, nor of who gets it next.
FairSpec == Spec /\ \A t \in Threads : WF_vars(InMutex(t))
----------------------------------------------------------------------------
(* Properties                                                              *)

\* error_inject() is done with the request of t.
Decided(t) == pc[t] \in {"unlock", "handler"}

\* conf.errors points to the queue that config_delete() has freed.
Dangling == \E t \in Threads : pc[t] \in {"calloc"} \cup Initializing

\* While a thread walks the queue (asleep in nanosleep() too) no reload frees
\* or changes it: the walk started and ends on one and the same configuration,
\* and conf.errors still points to it.  This is what conf.mutex is for.
WalkIsStable ==
    \A t \in Threads :
        pc[t] \in Walking => q[t] = errors /\ heap[q[t]] = snap[t]

Allocated == {a \in Addr : heap[a] # Free}
Current == IF Dangling THEN {} ELSE {errors} \ {NULL}
InProgress == {q[t] : t \in {u \in Threads : pc[u] \in Initializing}}

\* Every allocated queue has exactly one owner: conf.errors, a config_init()
\* in progress, or the leak of a config_init() whose fopen() failed.  So no
\* reload loses a queue or frees one twice, whatever it is interrupted by.
MemoryAccounted ==
    /\ Allocated = Current \cup InProgress \cup leaked
    /\ leaked \cap (Current \cup InProgress) = {}
    /\ Current \cap InProgress = {}

\* If the file is still what error_inject() has last found, the queue in force is
\* the one of the file, or there is none because the load failed:
\* concurrent requests never bring an older configuration back, and a mixture
\* of two contents comes only from a change during the load.
LoadedIsCurrent ==
    ~dirty /\ ~Dangling => errors = NULL \/ heap[errors] = QueueOf(file)

\* What the handler acts on is explained by the one configuration that was in
\* force when the walk began: the last entry that fires decides, an entry with
\* probability 100 always fires, kill_caller and slowdown do not touch the
\* result, and entries whose regexps do not match have no effect.
OutcomeExplained ==
    \A t \in Threads :
        Decided(t) /\ req[t].path # ConfPath =>
            MayReturn(snap[t], req[t], Len(snap[t]), rc[t])

\* A request on unreliablefs.conf is never injected, so that a configuration
\* that fails every operation can still be replaced through the mount.
ConfFileExempt ==
    \A t \in Threads : Decided(t) /\ req[t].path = ConfPath => rc[t] = 0

\* Probability 100 for the faults that leave rc alone: the caller of a request
\* that an errinj_kill_caller entry applies to has been killed, unless the daemon
\* had no right to, and a request that an errinj_slowdown entry of under a
\* second applies to has slept, whatever the other entries did.
CertainFaultsHappen ==
    \A t \in Threads : Decided(t) =>
        \A i \in Certain(snap[t], req[t]) :
            LET e == snap[t][i] IN
            /\ e.type = "ERRINJ_KILL_CALLER" => req[t].pid \in killed \cup Privileged
            /\ e.type = "ERRINJ_SLOWDOWN" /\ Sleeps(e.duration) => slept[t]

\* How far error_inject() is, for a reader who knows of no mutex and no memory:
\* between config_delete() and the return of config_init() a load is under way,
\* and between fopen() and fclose() the file is being read.
StageOf(label) ==
    CASE label = "idle" -> "idle"
      [] label \in {"lock", "delete"} -> "asked"
      [] label \in {"calloc", "access", "open"} -> "loading"
      [] label = "parse" -> "reading"
      [] label \in Walking -> "deciding"
      [] label \in {"unlock", "handler"} -> "decided"

Stage == [t \in Threads |-> StageOf(pc[t])]
InForce == IF Dangling \/ errors = NULL THEN NULL ELSE heap[errors]
Result == [t \in Threads |-> IF Decided(t) THEN rc[t] ELSE 0]

Service == INSTANCE FaultService
    WITH conf <- InForce, stage <- Stage, asked <- req, result <- Result

\* The mutex, the queue and the walk make one decision per request, under the one
\* configuration that is in force meanwhile: no reload overlaps a decision, a
\* failed load turns the faults off and never leaves half a configuration, and a
\* request on the configuration file is decided without one.
ImplementsFaultService == Service!Spec

\* A thread that has the mutex gives it back, unless the daemon kills itself:
\* every path through error_inject() reaches cleanup.
MutexReleased == \A t \in Threads : mutex = t ~> (mutex # t \/ ~Running)
----------------------------------------------------------------------------
(* What the documentation says and the code does not do                    *)

\* unreliablefs.conf.5: "Probability equal to 0 means that error injection
\* will never happen."
ZeroNeverFires ==
    \A t \in Threads :
        /\ Decided(t)
        /\ \A i \in Applying(snap[t], req[t]) : snap[t][i].probability = 0
        => rc[t] = 0 /\ ~slept[t]

\* unreliablefs.conf.5: "File operation slowdown for nanoseconds specified by
\* duration parameter." and "Probability equal to 100 means that error injection
\* will happen on each file operation.", of a second or more too.
SlowdownHappens ==
    \A t \in Threads : Decided(t) =>
        \A i \in Certain(snap[t], req[t]) :
            snap[t][i].type = "ERRINJ_SLOWDOWN" => slept[t]

\* unreliablefs.conf.5: "Set random errno. errno(2) limited by supported
\* errno's."  An errinj_errno entry that certainly applies, with no errinj_noop
\* to override it, makes the handler return an errno of the operation's table.
ErrnoSupported ==
    \A t \in Threads :
        /\ Decided(t)
        /\ \E i \in Certain(snap[t], req[t]) : snap[t][i].type = "ERRINJ_ERRNO"
        /\ \A i \in Applying(snap[t], req[t]) : snap[t][i].type # "ERRINJ_NOOP"
        => -rc[t] \in Errnos[req[t].op]
============================================================================
