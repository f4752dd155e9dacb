# Verification of unreliablefs and its AFS skeleton

TLA+ models of the program in `src/`, TLC runs that check them on small
instances, and proofs that TLAPS checks for every instance.

The repository holds two programs.  **unreliablefs** is a FUSE file system that
passes operations through to a base directory and injects faults into them as
`unreliablefs.conf` in that directory asks for.  The **AFS skeleton** is a gRPC
client and a server with one operation, Mkdir.

## Inventory

| part | source | state it keeps | operations | model |
|---|---|---|---|---|
| fault-injection engine | `unreliablefs_errinj.[ch]` | `conf.errors` (queue of faults), `conf.mutex`, `conf.config_path` | `error_inject`, `config_init`, `config_delete` | `ErrInject` over `Faults`, abstractly `FaultService` |
| configuration parser | `conf.[ch]`, `conf_option_handler` | parser locals, the queue under construction | one line at a time | `IniConf` |
| handlers on open files | `unreliablefs_ops.c` | descriptors of the daemon, `fi->fh`, locks | open, creat, read, write, fsync, fgetattr, ioctl, fallocate, ftruncate, flush, release, lock, flock, opendir, fsyncdir, releasedir, rename, unlink | `FileHandles` |
| handlers on names and attributes | `unreliablefs_ops.c` | none; readdir's directory stream | getattr, readlink, mknod, mkdir, unlink, rmdir, symlink, rename, link, chmod, chown, truncate, statfs, access, utimens, the xattr family, readdir | `NameOps` over `BaseFS`, abstractly `PassThrough` |
| start-up, mount and exit | `unreliablefs.[ch]` | `conf.basedir`, `conf.config_path`, the working directory | `main`, and editing `unreliablefs.conf` through the mount | `Mount` |
| errno tables, conditional compilation | `unreliablefs_errno_*.h`, `CMakeLists.txt`, the `#ifdef`s | none | `op_random_errno`, `fuse_op_name[]` | `ErrnoTables`, `Builds` |
| Mkdir RPC | `unreliable_afs_{client,server}.cc` | the server's directories | `GreeterClient::Mkdir`, the `Mkdir` handler, `RunServer` | `MkdirRpc`, abstractly `MkdirService` |
| tests, the rest of the build files | | | | not modelled |

How they interact.  libfuse runs a handler of `unreliablefs_ops.c` in one of
its worker threads.  Each handler starts with `error_inject(path, op)`, which
takes `conf.mutex`; if the path is the configuration file it frees the queue and
reads the file again (through `conf.c`, which calls `conf_option_handler` back
for every option); otherwise it walks the queue.  The mutex is dropped and the
handler returns the injected result or makes its system call.  The AFS programs
share nothing with the file system yet.

What is hard here.  The queue is freed and rebuilt by whichever thread touches
the configuration file, while others walk it.  The system calls run outside the
mutex, so the file can change or vanish at any point of a reload.  Faults combine:
entries fire independently and overwrite each other's result.  Injected results
break the protocol between the kernel and the handlers (a handle that was never
opened, a release that never closes).  In the RPC messages are lost, the server
crashes, and the client cannot tell what happened.  The base directory has two
spellings, and whether the configuration can be changed hangs on their being the
same text.  Five lists are cut by `#ifdef` on four platforms and must stay
aligned.  `PROJECT.json` lists these
hazards with their lines and with the properties aimed at them.

## Modules

**`Faults`**: what a configuration means, as definitions without state: the entries and their
types, which apply to a request (`Applying`), which are certain (`Certain`), and which
result the entries of a queue may leave behind (`MayReturn`: the last one that fires decides).

**`ErrInject`**: threads with a program counter through `error_inject()` and
the handler around it.  The variables are those of the code (`mutex`, `errors`,
`rc`, the local queue pointer `q` and the loop position `idx`), a `heap` of
queues so that freed and leaked ones show, the configuration `file`, the `killed`
pids, and four history variables (`snap`, `slept`, `leaked`, `dirty`) that
only properties and the choice of what a torn read may yield look at.  One
action per step that another thread can observe:

| action | code |
|---|---|
| `Call`, `ReturnInjected`, `SystemCall` | the handler before and after `error_inject()` |
| `Lock`, `Unlock` | `pthread_mutex_lock` with the two tests after it, `cleanup` |
| `config_delete` | frees the queue, leaves `conf.errors` dangling |
| `config_init_calloc`, `_access`, `_open`, `_parse` | the four points at which `config_init()` can fail or meet a changed file |
| `Skip` | the three `continue` statements |
| `InjectNoop`, `InjectKillCaller`, `InjectErrno`, `InjectSlowdown`, `Wake` | the cases of the switch |
| `EndWalk` | end of `TAILQ_FOREACH` |

A regular expression is the set of strings it matches.  The draw keeps its range,
both ends included, and its comparison.  The read past the end of an errno table
(`RANDOM_ELEMENT`) is undefined behaviour: any value of `PastEnd` may be found
there.  A file that changes while it is parsed may yield any configuration.
`access()` may fail although the file is there, which gives an empty queue, and `kill()`
may fail for the processes in `Privileged`, after which the walk goes on.

**`FaultService`**: what `error_inject()` promises its callers, without queue, heap, mutex or
loop.  One configuration is in force, or none; a request is decided by the one that is in force from
the beginning of its decision to the end; a request on the configuration file takes
the old one out of force, puts the new one in force in one step or leaves none, and is spared
itself.  It is weaker than the code where callers cannot rely on more: decisions may overlap.  The
refinement mapping of `ErrInject` takes the configuration in force for the queue that
`conf.errors` points to, unless the pointer dangles (`InForce`), and the stage of a request and its result
from the program counter (`Stage`, `Result`).

**`IniConf`**: the parser with one action per kind of line.  A line is already
classified (comment, section, pair, malformed) and keeps whether it is indented,
because `INI_ALLOW_MULTILINE` makes an indented line a continuation.  `Unsigned`
keeps the conversion from `atoi()` to `unsigned int`.  The properties compare
the queue that is built line by line with a definition of what the whole file means.
`calloc()` and `strdup()` may fail in the option handler: the first loses the
line, the second leaves the option without a value; `lost` and `cleared` remember
where.

**`FileHandles`**: descriptor numbers, handles, names and locks.
`error_inject()` is here a choice among "pass", "noop" and "errno" for the
operations that the configuration covers.  libfuse's and the kernel's part (a
handle is forgotten after release, the path of an open file follows renames, an
open file is hidden and not unlinked) is modelled from how the handlers rely
on it and marked external.  The history variable `faked` counts the opens, creats, renames and
flocks that errinj_noop has answered: what the kernel believes and what the daemon has differ
from then on, and most properties hold until then.

**`MkdirService`** and **`MkdirRpc`**: the promise of the service (at most one
atomic effect per call, an answer that is the result of that effect, or -1 which
says nothing), and the client, the handler threads, the messages and the crashes
that implement it.  A reply that gets lost, and a server that dies with its host, may
leave the client without a sign of it (`silent`): the client sets neither a deadline nor
keepalive, so such a call waits for ever.  The refinement mapping takes a call for live while its request
is under way or its handler has not called `mkdir()`.

**`BaseFS`**, **`PassThrough`** and **`NameOps`**: `BaseFS` gives the meaning of
the system calls (external) on one directory of names, objects, symbolic links,
attributes and extended attributes.  `PassThrough` is the promise of
`unreliablefs(1)`: an operation is redirected at one moment, acts on the object
that the path names and answers what the base file system answers, or a fault
replaces it without effect.  `NameOps` has the handlers as they are, run by
several threads: `Receive` is the request and `error_inject()`, `Dispatch` the
injected answer, one action per handler its system call, and `readdir_open`,
`readdir_next`, `readdir_close` the steps of a listing between which the directory may
change.  `PassThrough` is instantiated twice: `Promise` is the promise as
it stands, which the code breaks (run `passthrough_strict`), and `AsCalled` grants the code what it
does about objects and values, so that the rest can be checked and proved: chown and the xattr calls follow
symbolic links (`Follows`), and getxattr drops the size (`Valueless`).

**`Mount`**: one process from command line to exit.  `fuse_opt_parse`, `is_dir`,
`realpath`, `malloc`, `pthread_mutex_init`, `fuse_main` and `cleanup` are the steps
of `main()`, each with its failure.  While the file system is mounted, processes
open, write, flush, release, truncate, unlink and replace `unreliablefs.conf`;
a request is `Request` (which reloads or injects) and then `SystemCall`, so that
requests interleave.  Other files take descriptors and may leak them.  A path is a
sequence of names and slashes, because the comparison in `error_inject()` is one
of texts.  The base directory reaches libfuse in a list of options, which ends it at the first
comma (`UpToComma`; `Stem` says what stands before the comma of a name).  Whether a content is well formed is not asked here: a content stands for the queue
that `IniConf` makes of it.

**`ErrnoTables`** and **`Builds`**: the tables of the four platforms as sets, and
the lists that the preprocessor cuts in each build: handlers, enumerators,
names, cases and tables.  The actions `Call`, `InjectErrno` and `Return` follow one operation through
the index into the names and the switch.

The `MC*` modules hold the small instances; `*Proofs` the theorems.
Operators marked "Deviation" are the code with a plausible mistake in it: each
shows that a property notices that mistake.

## Runs

| run | shows |
|---|---|
| `errinject` | two threads, two heap cells, four requests, three configurations with all four faults: every queue has one owner, the queue in force is that of an unchanged file, results come from one configuration, requests on the configuration file are exempt, walks are stable, certain faults happen, the engine implements `FaultService`, and the mutex is given back (liveness) |
| `iniconf` | every file of up to five lines over fourteen lines, with one allocation that may fail: the queue is what the file means, one entry per type, the first error is reported, entries stay |
| `mkdir_rpc` | three calls, two for one directory and one inside it: refinement of `MkdirService`, exclusive creation, at most one execution, and a call that never returns has lost its connection without a sign (liveness) |
| `file_handles` | two files, one directory, three descriptors, errno and noop faults on everything: until a noop answers an open, creat, rename or flock, operations act on the file that was opened, descriptors have one owner and flock excludes; after it, descriptors are still lost only by an injected release or a failing fsyncdir |
| `passthrough` | two threads, three requests out of 23, a link to a file, to a directory or to itself, faults on everything: the handlers implement `PassThrough` as they call the base file system (`AsCalled`), and a listing that succeeds shows every name that was there throughout and none that never was |
| `mount` | fourteen ways to write `-basedir`, foreground and background, two editors, three descriptors: the configuration file is recognised exactly for a canonical path other than `/`, or one with a slash more; the handlers work in the directory that was checked unless a relative path met a background process or the path has a comma; an edit is in force when the last close returns |
| `builds` | all eight builds: a handler is matched by its own name, every case has its table, no handler gets the -1 of a missing case |

Five runs show a place where a document or a comment says something that the code
does not do (`findings` in `PROJECT.json` quotes the lines):

| run | what happens |
|---|---|
| `errinject_zero` | probability 0 fires when 0 is drawn |
| `errinject_errno` | the random errno may come from behind the table |
| `errinject_slow` | a slowdown of a second with probability 100 does not happen: `nanosleep()` refuses it |
| `passthrough_strict` | getxattr on a symbolic link, without any fault, answers for the object behind the link (so do the other xattr calls and chown), and without its value |
| `file_handles_locks` | POSIX locks do not exclude |

The models show more behaviour that is worth knowing:

- a slowdown sleeps with the mutex held and delays every operation of the mount;
- errinj_kill_caller on release signals process group 0, the daemon's own, because
  the kernel sends release without a pid;
- the file is read before the operation on it runs, and only if the first path is
  the file: after a truncate, or a rename onto it, the old configuration stays
  until the next request on the file;
- with the default basedir `/` config_path is `//unreliablefs.conf`, which no handler is
  ever given; a relative path, a symbolic link or a doubled slash have the same effect.
  Written as `//` the root directory is recognised, by the same two slashes.
  A relative basedir in the background also serves another directory than the one that
  was checked.  (`README.md` writes `-base_dir`; the option is `-basedir`.)
- when injected releases have used up the descriptors, a reload fails and all
  faults are off;
- a noop on open leaves `fi->fh` at 0, so that later operations of that handle go to
  descriptor 0, which may by then be another application's file;
- readdir() that fails half-way is taken for the end of the list;
- a comma in `-basedir` ends it for libfuse: the mount fails, or, if an option of libfuse follows
  the comma, another directory than the checked one is served;
- symlink is matched by its target, rename and link by the old path, and `op_regexp`
  "lstat" matches nothing since that handler is not registered;
- `HAVE_FLOCK` is tested with fallocate (`CMakeLists.txt:74`), so flock is missing on
  FreeBSD, OpenBSD and macOS; the tables of opendir and readdir are empty on macOS;
- an unsupported section, or a failing calloc() for one, returns -1, which the parser
  takes for success; an indented option is a continuation of the one above it.

Bounds.  Threads exclude each other by one mutex, so two show every pair of
conflicting steps: one in a reload or a walk and one at any other point.  A reload frees the old
queue before it allocates the new one, so of two heap cells one may be leaked and the other is
reused; when both are leaked `calloc()` fails.  Configurations have up to three
entries: a certain errno, a noop that may override it, and a slowdown that is refused after both.  Five lines open a section, set
an option, open another, return and set again.  Two handles, two names and two
inodes are the least for one application to hit another's file; descriptors 0 to 3
allow leaks, reuse and exhaustion, and one noop on each of open, creat, rename and flock
(`MaxFaked`) leads to every way in which a handle and a descriptor part.  Three calls give two rivals and a call that
depends on their result.  Three requests are two
that race and one before or after them, such as a listing with two changes in it; two
names let a link point to the other or to itself.  Two editors and
three descriptors give every overlap of two edits, a leak and exhaustion.  One failing
allocation shows its effect on every later line.  The `builds` run has no bound.
`MaxLines`, `MaxFailures`, `MaxFd`, `MaxFaked`, `MaxFds`, `MaxRequests` and the constant sets
are the only bounds.  `CHECK_DEADLOCK FALSE` stands where the system may stop: the daemon
has killed itself or every caller is dead, the file has ended, all calls have returned,
every handle is stuck without descriptors, the process has exited, `MaxRequests` are served.

Fairness.  `ErrInject!FairSpec` assumes that a thread that holds the mutex goes
on: its steps are memory operations, a sleep of less than a second, and reads of the
configuration file in the base file system.  Nothing is assumed of the
system calls outside the mutex, nor of the order in which waiting threads get it.
`MkdirRpc!FairSpec` assumes that a handler thread goes on, that gRPC delivers
what it does not lose and reports a connection that it has seen to break (a reset, or a request that
nobody acknowledges).  It assumes nothing of a connection that is gone without a sign, and a
crashed server need not come back.

## Proofs

`ErrInjectProofs` (assumptions: `ConstantsOK`, `ConfValues`, `DistinctValues`) proves every
invariant that the passing run checks, and the refinement `Spec => ImplementsFaultService`, for any
threads, requests, configurations and heap.
The properties are not inductive by themselves.  `IInv` adds mutual exclusion (the
mutex belongs to the thread whose program counter is between lock and unlock), the
branch a thread is in, that a queue under construction is empty and a file that is
being parsed is still there unless it was changed, that `rc` is 0 until the walk, and
that walks are on allocated queues; together with `TypeOK`, `WalkIsStable`,
`MemoryAccounted` and `LoadedIsCurrent` this is preserved by every step.  A
second invariant, `Walks`, carries the account of what a walk has looked at so far
(which results it may have, which certain faults have happened) from
entry to entry; `OutcomeExplained` and `CertainFaultsHappen` follow from it at the
end of the walk.  (A certain kill has happened unless the daemon has no right to signal the caller,
and a certain slowdown if it is shorter than a second.)  The refinement has one step per action.  A reload begins when the old
queue is freed, which is when the pointer starts to dangle, and no decision overlaps it since both
need the mutex (`Exclusion`); its end is the one assignment that puts `conf.errors` on a
finished queue.  The steps of a walk are stutters, but for a kill or a sleep, and `EndWalk` is the
decision: `Walks` says that its result is one that the queue allows, and `WalkIsStable` that this
queue is still the one in force.

`IniConfProofs` (assumption: `IniConstants`) proves types, `OneEntryPerType` and
the action property `EntriesStay` for files of any length, from what one call of
the option handler does to the queue.

`IniMeaningProofs` (the same assumption) proves `QueueIsFileMeaning` and
`FirstErrorReported`.  Both compare an incremental parser with definitions that read
the whole file, yet no induction over the file is needed: the specification grows
the file by one line per step, so it is enough to know how each of those
definitions (the section and the option in force at a line, the last line that sets an
option, the first line of a type, the first error) changes when a line is appended.  The
invariant `MInv` adds that the locals `section` and `prev_name` stand for the section and
the option in force behind the last line (`Follows`), and that the lines in `lost` and
`cleared` have been read (`Histories`).

`FileHandlesProofs` (assumption: `HandleConstants`) proves all invariants of the runs on
`FileHandles` for any number of handles, names, descriptors and injected operations.
`TypeOK` and `DescriptorsOwned` hold whatever is injected.  The others hold until
errinj_noop has answered certain operations, and say so in their statement: `DescriptorsAccounted`
until it answers an open or creat (`SparesOpen`), `ActsOnOwnFile` until it answers one of these or
a rename (`SparesRename`), and `FlockExcludes` until it answers one of those or a flock
(`SparesFlock`).  No assumption limits what may be injected.  The invariants are
one upon the other: `Accounted` (a descriptor has one owner, directories included),
`OwnFile` (descriptor and name of an open file lead to the file that was opened) and
`FlockHeld` (one descriptor of a file has its lock, and who was told of a lock has it).

`MkdirRpcProofs` (assumption: `RpcConstants`) proves `TypeOK`, `ExclusiveCreate`,
`OnePlace` and the refinement `Spec => ServiceSpec` for any number of calls and any tree.  The
invariant adds the stages of a call (no result before it began, a
return value that is its result or -1) and that a result of 0 stands for a directory
that no other call has made.

`NameOpsProofs` (assumption: `NameConstants`) proves `TypeOK`, `ListingComplete` and the
refinement `Spec => RedirectsAtOneMoment` for any number of threads, any requests
and any base directory.  The invariant `NInv` says, thread by thread, what is in the locals at
each point of a handler (`Stage`), and that a listing in progress has met or has still to meet every
name that has stayed (`Listing`, `Listed`).  The refinement has one step per handler: its
system call is the moment at which `PassThrough` serves the request, because its
result is what the request means (`Means`).  The assumption says that a rename, link or symlink
has a second path, that an injected errno is neither "pass" nor "noop", and that `Nil` is
no object, request or answer.

`MountProofs` (assumption: `MountConstants`) proves all four invariants of the run on `Mount`, for every
command line, every tree of directories and links, any number of processes and descriptors.
`Prepared` says which text every stage of `main()` works with: `subdir` and `config_path`
come from one option, the first up to a comma, that is looked up in one directory.  `SamePath` then compares the two
texts, and `RecognisedIfCanonical` is what comes out.  `Edited` says that a
written file is in force or some process has its flush before it; it needs `Handlers`
(who writes has the file open) and that no flush of a recognised file is injected.

`BuildsProofs` (assumption: `ValuesApart`) proves the three invariants of the run on `Builds`.  `Has`
says which macro carries which operation; the five lists are each shown to be cut by
it (`EnumeratorsOf`, `HandlersOf`, `CasesOf`, the lemmas on the headers), and `BuildFacts` says which
platform can have which macro.  `BInv` then needs only that the build stays what it was
and that the handler in progress belongs to it.  `ValuesApart` says that -1 and the word
behind a table are told apart from the errnos in the tables; TLC evaluates it.

What the proofs corrected.  Two definitions that TLC had accepted were wrong.  `ValueOf` of
`IniConf` had a CASE with two true arms, for a continuation line whose strdup() fails: TLC
takes the first, TLA+ either.  And `Canonical` of `Mount` left
out the root directory altogether, while `-basedir=//` is recognised; the instance has that
text now.

Only model-checked: the liveness properties (`MutexReleased`, `OnlySilentLossHangs`), since
fairness is beyond the prover.  Every invariant, action property and refinement of the passing runs
is a theorem.

## Not modelled

- The data of files, and the character level of the parser and of regular
  expressions: a line longer than 199 characters, which the reader splits, is two lines of `IniConf`.
- `ini_parse_string()` (`conf.c`), which nothing calls, and `unreliable_lstat`, which is
  not registered.
- The `__APPLE__` variants of the xattr calls, which do not follow links.
- Read locks and waiting for a lock: a blocking request occupies a libfuse thread
  until the base file system grants it.
- gRPC's flow control and health service, and the client's use of the result
  (it prints it).
- Errors of the configuration file other than its absence in `Mount` (they are in `ErrInject`),
  escaped commas, and a name of the base directory that begins with a comma.
- Tests, and of the build files all but the `HAVE_` macros.

## Plan

1. `ErrInject` with the queue that `IniConf` builds in place of the set `Confs`.
2. The composition of `Mount` with `FileHandles`: the descriptors that one handler leaks
   are those that a reload lacks.
