------------------------------- MODULE Mount -------------------------------
(***************************************************************************)
(* The life of one unreliablefs process: main() of unreliablefs.c from the *)
(* command line to the exit, and between them the mount, with the requests *)
(* on unreliablefs.conf, the configuration in force and the descriptors    *)
(* that they share.                                                        *)
(*                                                                         *)
(* The directory that is mounted is named twice.  libfuse's subdir module  *)
(* puts the text of -basedir in front of every path a handler receives;    *)
(* conf.config_path is made from its realpath().  error_inject() compares  *)
(* the two texts.  A path is the sequence of its names and slashes.        *)
(*                                                                         *)
(* A content of the file is also the queue that is made from it.           *)
(***************************************************************************)
EXTENDS Integers, Sequences, FiniteSets

CONSTANTS
    Args,        \* command lines, see ArgsType
    Dirs,        \* directories, as the sequences of their names from the root
    Links,       \* Links[d]: the directory a symbolic link stands for
    Stem,        \* Stem[n], for a name n with a comma: what stands before it
    Home,        \* working directory of the process at its start
    Procs,       \* processes that use the configuration file
    Contents,    \* contents of unreliablefs.conf
    Quiet,       \* the empty one
    Faulty,      \* those with an errinj_errno for every operation
    MaxFds,      \* bound: descriptors of the daemon
    Absent,      \* no configuration file
    NULL

\* basedir is NULL if it is not given; info stands for -h and -v.
ArgsType == [basedir : {NULL} \cup Seq(STRING), info : BOOLEAN, foreground : BOOLEAN]

\* Requests on unreliablefs.conf; replace is a rename onto it.
OpTypes == {"open", "write", "flush", "release", "truncate", "unlink", "replace"}

ASSUME MountConstants ==
    /\ Args \subseteq ArgsType
    /\ \A a \in Args : a.basedir = NULL \/ Len(a.basedir) > 0
    /\ Dirs \subseteq Seq(STRING)
    /\ \A n \in DOMAIN Stem : n # "/" /\ Stem[n] \in STRING
    /\ Home \in Dirs
    /\ IsFiniteSet(Procs)
    /\ Quiet \in Contents
    /\ Faulty \subseteq Contents
    /\ MaxFds \in Nat \ {0}
    /\ NULL \notin OpTypes

VARIABLES
    stage,        \* where main() stands
    args,         \* the command line
    status,       \* what main() returns, or NULL
    basedir,      \* conf.basedir
    subdir,       \* the subdir option that is passed to libfuse
    config_path,  \* conf.config_path
    errors,       \* conf.errors: the queue in force, or NULL
    cwd,          \* working directory of the process
    file,         \* unreliablefs.conf in the directory that was checked
    at,           \* at[p]: what p has of the file
    doing,        \* doing[p]: its operation that error_inject() let through
    data,         \* open files other than unreliablefs.conf
    leaked,       \* descriptors that nobody will close
    dir,          \* history: the directory that is_dir() has checked
    changed       \* history: how the file was changed last

start == <<args, status, basedir, subdir, config_path, cwd, dir>>
files == <<file, at, doing, data, leaked, changed>>
vars == <<stage, start, errors, files>>
----------------------------------------------------------------------------
(* Paths                                                                   *)

IsName(x) == x \notin {"/", "."}

\* The directory that a path leads to from working directory d.
Lookup(path, d) ==
    LET names == SelectSeq(path, IsName)
        full == IF path[1] = "/" THEN names ELSE d \o names
    IN  IF full \in DOMAIN Links THEN Links[full] ELSE full

\* The text realpath() gives for directory d: a slash in front of every name.
Canon(d) ==
    IF d = <<>>
      THEN <<"/">>
      ELSE [k \in 1 .. 2 * Len(d) |-> IF k % 2 = 1 THEN "/" ELSE d[k \div 2]]

ConfName == "unreliablefs.conf"

HasComma(path) == \E k \in DOMAIN path : path[k] \in DOMAIN Stem

\* libfuse's parser of -o ends the value of an option at the first comma.
UpToComma(path) ==
    IF HasComma(path)
      THEN LET k == CHOOSE i \in DOMAIN path :
                      /\ path[i] \in DOMAIN Stem
                      /\ \A j \in 1 .. i - 1 : path[j] \notin DOMAIN Stem
           IN  [i \in 1 .. k |-> IF i = k THEN Stem[path[k]] ELSE path[i]]
      ELSE path

\* subdir module: the option, a slash unless it ends with one, and the name.
HandlerPath ==
    subdir \o (IF subdir[Len(subdir)] = "/" THEN <<>> ELSE <<"/">>) \o <<ConfName>>

\* Deviation: the path is made from the option as it was given.
ConfigPathAsGiven(real) == basedir \o <<"/", ConfName>>

\* snprintf("%s/%s", conf.basedir, DEFAULT_CONF_NAME).
ConfigPath(real) == real \o <<"/", ConfName>>

\* strcmp(path, conf.config_path) == 0 for a request on the file.
Recognised == HandlerPath = config_path

\* The mount shows the directory that was checked.
Reaches == Lookup(subdir, cwd) = dir
----------------------------------------------------------------------------
Open == {p \in Procs : at[p] # "closed"}
NumOpen == Cardinality(Open) + data + leaked

\* The queue that is made from a file, and what config_init() returns: it needs
\* a descriptor to read the file.
QueueOf(f) == IF f = Absent THEN Quiet ELSE f
config_init == IF file # Absent /\ NumOpen >= MaxFds THEN NULL ELSE QueueOf(file)

TypeOK ==
    /\ stage \in {"parse", "is_dir", "realpath", "malloc", "mutex", "fuse_main",
                  "serving", "cleanup", "exited"}
    /\ args \in Args
    /\ status \in {0, 1, NULL}
    /\ errors \in Contents \cup {NULL}
    /\ file \in Contents \cup {Absent}
    /\ at \in [Procs -> {"closed", "open", "flushed", "detached"}]
    /\ doing \in [Procs -> OpTypes \cup {NULL}]
    /\ data \in 0 .. MaxFds
    /\ leaked \in 0 .. MaxFds
    /\ NumOpen <= MaxFds
    /\ changed \in {"write", "other", NULL}

Init ==
    /\ stage = "parse"
    /\ args \in Args
    /\ status = NULL
    /\ basedir = NULL
    /\ subdir = NULL
    /\ config_path = NULL
    /\ errors = NULL
    /\ cwd = Home
    /\ file \in Contents \cup {Absent}
    /\ at = [p \in Procs |-> "closed"]
    /\ doing = [p \in Procs |-> NULL]
    /\ data = 0
    /\ leaked = 0
    /\ dir = NULL
    /\ changed = NULL
----------------------------------------------------------------------------
(* main()                                                                  *)

Goto(next) == stage' = next

Exit(code) ==
    /\ Goto("exited")
    /\ status' = code

\* fuse_opt_parse(): -h and -v end the process; subdir and modules options of
\* the user are discarded.
fuse_opt_parse ==
    /\ stage = "parse"
    /\ \/ /\ args.info
          /\ Exit(1)
          /\ UNCHANGED basedir
       \/ /\ ~args.info
          /\ Goto("is_dir")
          /\ basedir' = IF args.basedir = NULL THEN <<"/">> ELSE args.basedir
          /\ UNCHANGED status
    /\ UNCHANGED <<args, subdir, config_path, cwd, dir, errors, files>>

\* Deviation: the option for libfuse is that of the default.
SubdirDefault(path) == <<"/">>

\* sprintf("-omodules=subdir,subdir=%s"): the text as it was given goes to libfuse,
\* which takes it for a list of options.
SubdirOption(path) == UpToComma(path)

\* is_dir(conf.basedir), and the option for libfuse.
is_dir ==
    /\ stage = "is_dir"
    /\ \/ /\ Lookup(basedir, cwd) \in Dirs
          /\ Goto("realpath")
          /\ dir' = Lookup(basedir, cwd)
          /\ subdir' = SubdirOption(basedir)
          /\ UNCHANGED status
       \/ /\ Lookup(basedir, cwd) \notin Dirs
          /\ Exit(1)
          /\ UNCHANGED <<dir, subdir>>
    /\ UNCHANGED <<args, basedir, config_path, cwd, errors, files>>

\* realpath(): it fails if the directory has gone since.
realpath ==
    /\ stage = "realpath"
    /\ \/ /\ Goto("malloc")
          /\ basedir' = Canon(Lookup(basedir, cwd))
          /\ config_path' = ConfigPath(basedir')
          /\ UNCHANGED status
       \/ /\ Exit(1)
          /\ UNCHANGED <<basedir, config_path>>
    /\ UNCHANGED <<args, subdir, cwd, dir, errors, files>>

\* malloc() of the path, and the configuration is read.
malloc ==
    /\ stage = "malloc"
    /\ \/ /\ Goto("mutex")
          /\ errors' = config_init
          /\ UNCHANGED status
       \/ /\ Exit(1)
          /\ UNCHANGED errors
    /\ UNCHANGED <<args, basedir, subdir, config_path, cwd, dir, files>>

pthread_mutex_init ==
    /\ stage = "mutex"
    /\ \/ /\ Goto("fuse_main")
          /\ UNCHANGED status
       \/ Exit(1)
    /\ UNCHANGED <<args, basedir, subdir, config_path, cwd, dir, errors, files>>

\* fuse_main() mounts, and goes to the background unless it is told not to, which
\* changes the working directory; or it fails, as it does when what stands behind
\* a comma of the base directory is not an option that it knows.
fuse_main ==
    /\ stage = "fuse_main"
    /\ \/ /\ Goto("serving")
          /\ cwd' = IF args.foreground THEN cwd ELSE <<>>
          /\ UNCHANGED status
       \/ /\ Goto("cleanup")
          /\ status' = 1
          /\ UNCHANGED cwd
    /\ UNCHANGED <<args, basedir, subdir, config_path, dir, errors, files>>

\* The file system is unmounted once nothing is open.
Unmount ==
    /\ stage = "serving"
    /\ Open = {} /\ data = 0 /\ \A p \in Procs : doing[p] = NULL
    /\ Goto("cleanup")
    /\ status' = 0
    /\ UNCHANGED <<args, basedir, subdir, config_path, cwd, dir, errors, files>>

\* config_delete(conf.errors) and free().
cleanup ==
    /\ stage = "cleanup"
    /\ Goto("exited")
    /\ errors' = NULL
    /\ config_path' = NULL
    /\ UNCHANGED <<args, status, basedir, subdir, cwd, dir, files>>
----------------------------------------------------------------------------
(* Requests on unreliablefs.conf                                           *)

\* p may send op now.  A close() is a flush, and a release after the last one.
May(p, op) ==
    /\ doing[p] = NULL
    /\ CASE op = "open"             -> at[p] = "closed"
         [] op \in {"write", "flush"} -> at[p] = "open"
         [] op = "release"          -> at[p] \in {"flushed", "detached"}
         [] OTHER                   -> at[p] = "closed"

\* The path of the request is that of the file: not for a rename onto it, which
\* carries the old path, and not for a file that has lost its name.
OnConfPath(p, op) == op # "replace" /\ at[p] # "detached"

\* An injected error in place of the operation.  The kernel goes on as if flush
\* and release were done, and the descriptor stays open.
Injected(p, op) ==
    /\ at' = [at EXCEPT ![p] = IF op = "flush" THEN "flushed"
                               ELSE IF op = "release" THEN "closed" ELSE @]
    /\ leaked' = IF op = "release" THEN leaked + 1 ELSE leaked
    /\ UNCHANGED <<errors, doing>>

\* Deviation: the configuration is read when the file is opened or written.
ReloadOnWrite(p, op) ==
    IF OnConfPath(p, op) /\ op \in {"open", "write"} THEN config_init ELSE errors

\* The configuration after error_inject() has seen a request on the file.
ReloadFor(p, op) == IF OnConfPath(p, op) THEN config_init ELSE errors

\* error_inject(): a reload if the path is config_path, a fault or not otherwise.
Request(p, op) ==
    /\ stage = "serving"
    /\ Reaches
    /\ May(p, op)
    /\ \/ /\ doing' = [doing EXCEPT ![p] = op]
          /\ errors' = IF Recognised THEN ReloadFor(p, op) ELSE errors
          /\ UNCHANGED <<at, leaked>>
       \/ /\ errors \in Faulty
          /\ Recognised => ~OnConfPath(p, op)
          /\ Injected(p, op)
    /\ UNCHANGED <<stage, start, file, data, changed>>

\* All handles of the file that have its name lose it.
Detached == [p \in Procs |-> IF at[p] \in {"open", "flushed"} THEN "detached" ELSE at[p]]

Change(f, how) ==
    /\ file' = f
    /\ changed' = how

\* Deviation: the handler of release closes the descriptor of another file too.
ReleaseTwice(p) ==
    /\ at' = [at EXCEPT ![p] = "closed"]
    /\ data' = data - 1
    /\ UNCHANGED <<file, changed>>

Release(p) ==
    /\ at' = [at EXCEPT ![p] = "closed"]
    /\ UNCHANGED <<file, data, changed>>

\* The system call of the handler.  open creates a missing file; without a free
\* descriptor it fails.
SystemCall(p) ==
    /\ doing[p] # NULL
    /\ doing' = [doing EXCEPT ![p] = NULL]
    /\ \/ /\ doing[p] = "open" /\ NumOpen < MaxFds
          /\ at' = [at EXCEPT ![p] = "open"]
          /\ IF file = Absent THEN Change(Quiet, "write") ELSE UNCHANGED <<file, changed>>
          /\ UNCHANGED data
       \/ /\ doing[p] = "open" /\ NumOpen >= MaxFds
          /\ UNCHANGED <<at, file, changed, data>>
       \/ /\ doing[p] = "write"
          /\ IF at[p] = "detached" THEN UNCHANGED <<file, changed>>
                                   ELSE \E c \in Contents : Change(c, "write")
          /\ UNCHANGED <<at, data>>
       \/ /\ doing[p] = "flush"
          /\ at' = [at EXCEPT ![p] = IF @ = "open" THEN "flushed" ELSE @]
          /\ UNCHANGED <<file, changed, data>>
       \/ doing[p] = "release" /\ Release(p)
       \/ /\ doing[p] = "truncate"
          /\ IF file = Absent THEN UNCHANGED <<file, changed>> ELSE Change(Quiet, "other")
          /\ UNCHANGED <<at, data>>
       \/ /\ doing[p] = "unlink"
          /\ Change(Absent, "other")
          /\ at' = Detached
          /\ UNCHANGED data
       \/ /\ doing[p] = "replace"
          /\ \E c \in Contents : Change(c, "other")
          /\ at' = Detached
          /\ UNCHANGED data
    /\ UNCHANGED <<stage, start, errors, leaked>>

\* A process changes the file in the base directory, past the mount.
ChangeOutside ==
    /\ stage = "serving"
    /\ \E c \in Contents : c # file /\ file # Absent /\ Change(c, "other")
    /\ UNCHANGED <<stage, start, errors, at, doing, data, leaked>>
----------------------------------------------------------------------------
(* Other files                                                             *)

OpenData ==
    /\ stage = "serving"
    /\ NumOpen < MaxFds
    /\ data' = data + 1
    /\ UNCHANGED <<stage, start, errors, file, at, doing, leaked, changed>>

\* An injected release leaves the descriptor open.
ReleaseData ==
    /\ stage = "serving"
    /\ data > 0
    /\ data' = data - 1
    /\ \/ UNCHANGED leaked
       \/ errors \in Faulty /\ leaked' = leaked + 1
    /\ UNCHANGED <<stage, start, errors, file, at, doing, changed>>

Main ==
    \/ fuse_opt_parse \/ is_dir \/ realpath \/ malloc \/ pthread_mutex_init
    \/ fuse_main \/ cleanup

Next ==
    \/ Main
    \/ Unmount
    \/ \E p \in Procs : SystemCall(p) \/ \E op \in OpTypes : Request(p, op)
    \/ ChangeOutside
    \/ OpenData
    \/ ReleaseData

Spec == Init /\ [][Next]_vars
----------------------------------------------------------------------------
(* Properties                                                              *)

\* The directory as it was given, up to a comma, is the real path of the directory
\* that was checked, be it with a slash behind it, and is not "/".
Canonical ==
    LET given == UpToComma(args.basedir)
        text == IF Len(given) > 1 /\ given[Len(given)] = "/"
                  THEN SubSeq(given, 1, Len(given) - 1)
                  ELSE given
    IN  args.basedir # NULL /\ given # <<"/">> /\ text = Canon(dir)

\* A request on unreliablefs.conf through the mount is recognised as one exactly
\* if -basedir is a canonical path other than "/", or has one slash more: "//" is
\* recognised, because config_path of the root directory begins with two slashes.
\* With the default, a relative path, a symbolic link, a doubled slash elsewhere or
\* (but for a link to the part before it) a comma the configuration is read once, at the start, and no edit through the mount is
\* ever seen.
RecognisedIfCanonical == stage = "serving" => (Recognised <=> Canonical)

\* The handlers work in the directory that main() has checked and read the
\* configuration from, unless it was given by a relative path and the process has
\* gone to the background, or its path has a comma, where libfuse cuts it off.
ServesCheckedDirectory ==
    /\ stage = "serving"
    /\ args.foreground \/ subdir[1] = "/"
    /\ args.basedir # NULL => ~HasComma(args.basedir)
    => Reaches

\* An edit of a recognised file (open, write, close) has taken effect when the
\* last close() returns, whatever other processes do to the file meanwhile: the
\* queue in force is that of the file, or none if no descriptor was left to read
\* it with.  (A truncate, a rename onto the file or a change past the mount has
\* to wait for the next request.)
EditTakesEffect ==
    /\ stage = "serving"
    /\ Recognised
    /\ changed = "write"
    /\ \A p \in Procs : at[p] # "open" /\ doing[p] = NULL
    => errors \in {QueueOf(file), NULL}
============================================================================
