---------------------------- MODULE MCErrInject ----------------------------
(***************************************************************************)
(* Small instances of ErrInject: four operations on one data file and on   *)
(* the configuration file, and the configurations that exercise each of    *)
(* the four fault types, their order in the queue and the two ends of the  *)
(* probability range.                                                      *)
(***************************************************************************)
EXTENDS ErrInject, TLC

MCPaths == {"data", "conf"}

\* EIO and EACCES stand for the tables of errno_linux.h.
MCErrnos == [read |-> {5}, truncate |-> {13}, release |-> {5},
             rename |-> {5}]

Req(op, path, changes, pid) ==
    [op |-> op, path |-> path, changes |-> changes, pid |-> pid]

Conf(type, op_regexp, path_regexp, probability, duration) ==
    [type |-> type, op_regexp |-> op_regexp, path_regexp |-> path_regexp,
     probability |-> probability, duration |-> duration]

\* Two processes, of which the daemon may not signal the second: a read, a rename
\* of another file onto the configuration file, a truncate of that file itself
\* (which may leave it as it is), and the release of a file, which has no pid.
MCRequests ==
    {Req("read", "data", FALSE, 1), Req("rename", "data", TRUE, 2),
     Req("truncate", "conf", TRUE, 2), Req("release", "data", FALSE, OwnGroup)}

NoopAll == Conf("ERRINJ_NOOP", NULL, NULL, 30, 0)
ErrnoData == Conf("ERRINJ_ERRNO", NULL, {"data"}, 100, 0)
KillData == Conf("ERRINJ_KILL_CALLER", NULL, {"data"}, 100, 0)
SlowReads == Conf("ERRINJ_SLOWDOWN", {"read"}, NULL, 100, 1000)
SlowSecond == Conf("ERRINJ_SLOWDOWN", NULL, NULL, 100, 1000000000)

\* All four faults: a noop that may override a certain errno, and a slowdown that
\* nanosleep() refuses.
AllConfs == {<<>>, <<SlowReads, KillData>>, <<ErrnoData, NoopAll, SlowSecond>>}

\* A certain errno that nothing overrides.
ErrnoConfs == {<<ErrnoData>>, <<>>}

\* Probability 0, which draws 0 all the same one time in 101.
ZeroConfs == {<<Conf("ERRINJ_NOOP", NULL, NULL, 0, 0)>>, <<>>}

\* A certain slowdown of one second.
SlowConfs == {<<SlowSecond>>, <<>>}
============================================================================
