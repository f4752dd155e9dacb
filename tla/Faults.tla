------------------------------- MODULE Faults -------------------------------
(***************************************************************************)
(* Requests, configurations and what an entry of a configuration asks for: *)
(* the data of the fault-injection engine.  ErrInject has the engine as it *)
(* is, and FaultService what it promises.                                  *)
(*                                                                         *)
(* A regular expression is the set of strings it matches: an expression    *)
(* regcomp() rejects matches none, an absent one matches all.              *)
(***************************************************************************)
EXTENDS Integers, Sequences

CONSTANTS
    Requests,    \* requests the kernel may send, see Request
    Paths,       \* paths the handlers receive, basedir included
    Confs,       \* what parsing a readable configuration file can yield
    ConfPath,    \* conf.config_path
    Errnos,      \* Errnos[op]: the errno_<op>[] table of operation op
    Privileged,  \* pids of processes that the daemon may have no right to signal
    PastEnd,     \* what the build leaves in memory just after such a table
    NULL,        \* the null pointer: an absent regexp, no queue, no request
    Absent       \* the configuration file does not exist

MAX_PROBABLITY == 100

\* -ERRNO_NOOP, that is -(-999): never the negation of an errno.
NOOP == 999

\* nanosleep() refuses tv_nsec outside 0 .. 999999999.
MAX_NSEC == 999999999

\* kill(0, sig) signals the caller's own process group: the daemon.  The
\* kernel sends FUSE_RELEASE with pid 0, because no process waits for it.
OwnGroup == 0

errinj_type == {"ERRINJ_ERRNO", "ERRINJ_KILL_CALLER", "ERRINJ_NOOP",
                "ERRINJ_SLOWDOWN"}

Ops == DOMAIN Errnos

\* One request: the operation, the path its handler passes to error_inject(),
\* whether its system call may change the configuration file, and the pid in
\* the FUSE context.  A rename or link ONTO unreliablefs.conf has changes =
\* TRUE and another path: the handlers pass the old path.
Request == [op : Ops, path : Paths, changes : BOOLEAN, pid : Nat]

\* One struct errinj_conf, reduced to the fields the engine reads.
ErrinjConf == [type : errinj_type,
               op_regexp : {NULL} \cup SUBSET Ops,
               path_regexp : {NULL} \cup SUBSET Paths,
               probability : Nat,
               duration : Nat]

\* What access() and fopen() can find at conf.config_path.
Files == Confs \cup {Absent}

ASSUME ConstantsOK ==
    /\ Requests \subseteq Request
    /\ Confs \subseteq Seq(ErrinjConf)
    /\ <<>> \in Confs
    /\ \A op \in Ops : Errnos[op] \subseteq Int
    /\ PastEnd \subseteq Int
    /\ OwnGroup \notin Privileged

\* No special value is an ordinary one.
ASSUME ConfValues ==
    /\ Absent \notin Confs
    /\ NULL \notin Confs
    /\ NULL \notin Requests
----------------------------------------------------------------------------
\* The queue a successful config_init() builds from file f.
QueueOf(f) == IF f = Absent THEN <<>> ELSE f

\* RANDOM_ELEMENT draws an index from 0 .. ARRAY_SIZE, so besides the elements
\* of the table it can read the word after it.
op_random_errno(op) == Errnos[op] \cup PastEnd

\* TRUE where the code returns 0: an absent regexp matches everything.
is_regex_matched(regex, string) ==
    IF regex = NULL THEN TRUE ELSE string \in regex

\* Both regular expressions of entry e match request r.
Applies(e, r) ==
    /\ is_regex_matched(e.path_regexp, r.path)
    /\ is_regex_matched(e.op_regexp, r.op)

\* nanosleep() sleeps; otherwise it fails with EINVAL at once.
Sleeps(duration) == duration <= MAX_NSEC
----------------------------------------------------------------------------
(* What a configuration asks for                                           *)

\* Entries of c that apply to r, and among them the ones whose draw cannot fail.
Applying(c, r) == {i \in DOMAIN c : Applies(c[i], r)}
Certain(c, r) == {i \in Applying(c, r) : c[i].probability >= MAX_PROBABLITY}

\* The results entry i of c can give to request r.
Codes(c, r, i) ==
    CASE c[i].type = "ERRINJ_NOOP" -> {NOOP}
      [] c[i].type = "ERRINJ_ERRNO" -> {-e : e \in op_random_errno(r.op)}
      [] OTHER -> {}

\* The first n entries of c, as far as they give r a result.
Setters(c, r, n) == {i \in Applying(c, r) : i <= n /\ Codes(c, r, i) # {}}

\* error_inject() may return x for r once it has looked at the first n entries
\* of c: an entry gives x and no certain one after it gives another result, or
\* x is 0 and no certain entry gives a result.
MayReturn(c, r, n, x) ==
    LET certain == Setters(c, r, n) \cap Certain(c, r) IN
    \/ x = 0 /\ certain = {}
    \/ \E i \in Setters(c, r, n) :
          x \in Codes(c, r, i) /\ \A j \in certain : j <= i
=============================================================================
