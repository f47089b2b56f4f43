# gsmake in TLA+

gsmake is a build tool: a C++ core (`lemon`, with Lua and SQLite inside it)
runs Lua scripts (`lib/gsmake`) that load a package, fetch the packages it uses
as plugins, and run tasks.  This directory models the parts of it whose
correctness rests on order, interleaving and failure, checks them with TLC on
small instances, and proves the main results with TLAPS for every instance.

    tlc -workers 2 -config MCTaskRunner.cfg MCTaskRunner.tla
    tlapm TaskRunner_proofs.tla

## Inventory

Paths are relative to `src/`.  "Correct when" is what the properties are for.

| Component | State | Operations and partners | Hard because | Correct when |
|---|---|---|---|---|
| Task runner `lib/gsmake/gsmake/runner.lua` | groups by name, colour marks, the stack for the cycle report | `run(name, ...)` sorts by `Prev` and calls the tasks; called by main, by plugin setup and by the sync engine | state survives a run; recursion; errors in the middle | the schedule is exact and in prerequisite order; cycles are reported truly; runs end |
| Sync engine `gsmake/sync.lua` | none of its own | `sync(name, version)` answers with a path; asks the repository, runs downloader tasks on a runner | trusts rows and `fs.exists` | what it answers is a whole tree |
| Source repository `gsmake/repo.lua` | `_SOURCE`, `_SYNC` in a SQLite file shared by all processes | query, save (delete, then insert), each call on a connection of its own | two transactions per save, no busy timeout | rows describe the disk; constraint errors have a cause |
| Git and curl downloaders `sync/github.com/gsmake/{git,curl}` | directories: a mirror and one tree per version | `sync_remote`, `sync_source`: child processes, removals, saves | crash or failure between any two commands; two processes | a tree is whole before its row is saved; later syncs recover |
| Log factory `lemon/log/factory.cpp`, `logger.cpp`, `log.cpp` | loggers and levels, sinks, message queue, exit flag | `get`, `setlevels`, `add_sink`, `write`, `close`; one writer thread | hand-over without the lock, condition variable, close | nothing lost, doubled or reordered; close flushes |
| Log sinks `lemon/log/{sink,file_sink}.cpp`, `lemoon/log.cpp` | open file, block number | `apply`, `write`, rotation | changes of date and size while writing | the lines of a run stay in their order |
| Bootstrap `gsmake/gsmake.lua` | home directory, repository file, reload flag | caches the shipped packages, loads commands, loads and sets up the root package | order of creation and tests; a sync may need a sync | `-reload` puts everything right; cached packages need no network |
| Plugin loader `gsmake/{loader,plugin,plugindb,package}.lua` | graph of loaders, `_PLUGIN` rows, installed files | `load` (recursive sync), `setup` (install, save, load) | recursion over a graph, ignored results, cached rows | what is run as a plugin is whole and of the version asked for |
| Sandbox `gsmake/init.lua` | Lua's table of modules, exchanged for that of an environment | `sandbox.new`, `require`, `run` | exchange around code that may throw; one environment shared by all | environments do not see one another's modules |
| Built-in commands `cmd/builtin` | rows of `_SOURCE` | `cache add`, `cache rm`, beside syncs of other processes | two transactions; a directory that goes | a cached package stays until somebody takes it away |
| Command line `main.lua`, `gsmake/main.cpp` | configuration | `parseoptions` | - | not modelled |
| IO service, reactor `lemon/io/reactor_*` | operation queues per descriptor, completion queue, dispatcher thread | `read`, `run_one`, `complete`, events | edge-triggered events, lock dropped between try and queue, two lists on one link | every read is called back once, in order |
| IO service, completion ports `lemon/io/iocp_*` | operations, handlers by handle | the same on Windows | operations linked without the lock; handles that are used again | no operation is touched after its deletion |
| Processes `lemon/os/exec*.hpp`, `lemoon/os.cpp` | child, waiting thread, pipes | `start`, `wait`, output callbacks | three threads, a mutex held while the io service runs | `wait` returns, with the child's status, after the output |
| Files and directories `lemon/fs/*`, `lemoon/fs.lua` | the disk | copy, removal, creation | failure half-way, links, other programs | a removal spares what is not in or linked from its tree; what is answered is true |
| Path names `lemoon/filepath.lua`, `fs/filepath.hpp` | none | `clean`, `join`, parsing, parents | `..` above the beginning | a cleaned path names what the path named |
| Code generator `lemoon/codegen/*` | position in the source, scripts | lexer, renderer, `include` | ends of text, blocks in blocks | what is written is what the template means |
| Clang plugin, Lua plugin | projects, copied files | `link`, cmake files | - | not modelled but for the copies |
| Unit test runner, system information, bindings, vendored code | little | I/O or thin wrappers | - | not modelled |

How they interact: `main` starts the bootstrap, which makes the repository and
the root loader.  Loading a package syncs each plugin (sync engine, then
repository, then a downloader plugin whose tasks a task runner runs, whose
commands go through processes and the io service), and setting it up runs
`install` on that plugin's own runner.  At the end `gsmake:run` runs the task
of the command line on the root package's runner.  Everything logs through the
log factory.  `main` and the plugins copy, remove and make directories with the
file functions and name them with the path functions; clang's cmake files come
from the code generator.  All processes of a machine share the repository file and
the directories below `GlobalRepo`.

## Plan

Built, in this order:

1. `TaskRunner` - every build and every download goes through it - and
   `TaskSchedule`, what it promises.
2. `SourceCache` - composes sync engine, repository and downloaders.
3. `LogFactory` - the threads that run in every process - and `AsyncLog`, what
   it promises.
4. `Reactor`, and `ByteStreams`, what it promises; `Exec`, which extends
   `Reactor` by the child and the threads around it and is checked to keep that
   promise.
5. `PluginLoader`, `Bootstrap`, `PackageCache` - the processes that start up
   around the sync engine.
6. `Sandbox`, `Codegen` - the Lua around the tasks.
7. `FilePath` and `PathLaws`, `MakeDirs` (which extends `FilePath`), `FileCopy`,
   `RemoveTree`, `CopyTree`, `FileSink` - the disk.
8. `Iocp` - the other io service.
9. The proofs, each module of theorems beside the modules it is about:

   | Theorems | About |
   |---|---|
   | `TaskRunner_proofs` | `TaskRunner`, and that it implements `TaskSchedule` |
   | `SourceCache_proofs` | `SourceCache` |
   | `LogFactory_proofs` | `LogFactory`, and that it implements `AsyncLog` |
   | `Reactor_proofs` | `Reactor`, and that it implements `ByteStreams` |
   | `Exec_proofs` | `Exec`; extends `Reactor_proofs` |
   | `Iocp_proofs` | `Iocp` |
   | `Start_proofs` | `PluginLoader`, `Bootstrap`, `PackageCache`, `Sandbox` |
   | `Files_proofs` | `FileCopy`, `FileSink`, `RemoveTree`, `CopyTree`, `MakeDirs` |

The plan is built.  What it leaves to TLC, and what is not modelled, is listed
at the end.

The components of TLC's runs.  A run that is about one component extends its
module.  Three runs extend several modules at once (`MCFiles`, `MCIo`,
`MCStart`): one component is under way, chosen at the beginning, while the others
rest in one state.  They share no state and no step; the names of a module that
meets another in this way carry a prefix (`Rm`, `Cp`, `Mk`, `Boot`, `Cache`,
`Box`, `Gen`).

## TaskRunner

`run` registers the tasks of the plugins and the package in groups by name,
sorts the requested group by depth-first search (`topSort`) and calls the tasks.

| Code | Model |
|---|---|
| `plugin.Tasks`, `package.Tasks`, `task.Prev` | `decl`, fixed; `plugins` grows between runs (`Attach`, sync.lua:65-69) |
| `self.taskGroups`, `taskgroup.mark`, `self.checkerOfDCG` | `taskGroups`, `mark`, `checkerOfDCG` |
| the recursion of `topSort`, its loop index and `sortGroups` | `frames`, a stack of records |
| the loops that call tasks | `callstack`, `at`, `slot` |
| each round of a loop, each call, each throw | one action |
| `pairs` | any order (`Register(o)` for any pending owner) |

What a task body does is abstracted to its result: it returns false, returns
true, or throws.  A throw is final, as every error ends in `main.lua:102`.

Run `runner`: every declaration of three names by the package, missing `Prev`
targets and all cycles included; a plugin that puts a second task into two of
the groups; up to two runs, the second for another task, as the sync engine
does after `install`.  Three names are enough for a diamond with a shared
prerequisite, for cycles of length one to three with and without a tail, and
for a group settled by the first run inside the second.  202,247 states.

* `StackIsGray`, `CycleReportIsReal`: marks, report stack and recursion agree, so
  the reported path is a cycle.
* `ScheduleIsExact`: the schedule holds the needed groups, once each, and an
  error is thrown only for the reason it gives.  Needed is defined by closure,
  not by search.
* `PrerequisitesFirst`, `ArgumentsReachRequested`, `CallsMatchRegistrations`:
  about the calls that were made.
* `ImplementsSchedule`: the runner implements `TaskSchedule`, which knows nothing of
  marks, stacks or a sort.  There a run begins, tasks are declared, and then either
  the run throws, before it has called anything and for a true reason, or it calls
  tasks, each when those of its prerequisites have been called as often as they are
  registered; it succeeds exactly with the last call.  The mapping: `tasks` are the
  slots of the groups, `links` what their tasks name, `calls` the calls of this run,
  counted, `state` whether it runs or has thrown.  `settled` is kept by both.
* `RunEnds`: under weak fairness of the interpreter (a task that never returns
  is outside the model).

What the runs also show: groups stay black from run to run.  A later run leaves
out the prerequisites that an earlier run *sorted*, also when that run stopped
before it called them; the properties say so by `settled`.

Proved (`TaskRunner_proofs`), for all names, plugins, declarations and numbers of
runs: `TypeOK` (which is why no run checks it again), every invariant above and the
refinement; only `RunEnds` is left to TLC.

* The types alone are not inductive: `Shape` adds where the loops stand and that
  each activation waits for the `Prev` that the one above it sorts.  `CycleInv`
  follows from the links of the stack.
* For the order of calls, `OrderInv` says that every list under construction is
  in prerequisite order, that what an activation has passed is placed in its list
  or settled, and that every black group is in a list of the stack below;
  `CallInv` says that everything before the cursor was called.
* For the schedule, `FreshInv` says that whatever the sort has in hand, on its
  stack, in its lists and in the schedule, is needed and not settled, and is
  there once: the lists of two activations share nothing.  That gives one half of
  `ScheduleIsExact`; the other is that the schedule, being in prerequisite order,
  is closed, and what is needed is the least closed set (`NeededLeast`).
  `EndInv` keeps the reason of an error.  That a schedule has no cycle
  below it is not by induction along the graph: in a set without a group that
  has no `Prev` in it, take the group that comes first in the schedule; its
  `Prev` would come before it (`LeastNumber`).  And the stack from the group that
  is met again to its top is such a set (`CycleIsReal`).
* For the counts, `CountInv` says that each place of the schedule has been called
  for as many of its group's slots as the two loops have passed (`CallsCounted`);
  as no group has two places, the calls of a task are the slots that it takes.
* For the refinement (`RunnerKeepsPromise`), `Promised` puts these invariants together
  with `BlackIs`: once the sort is over, the black groups are the settled ones and
  those of the schedule.  That is what makes `settled` of the next run the same in
  both.  The steps of the sort are stutters; each throw is a `Refuse` whose reason
  `EndInv` has, and each call a `Call`, of which `CallInv` says that it comes after its
  prerequisites and `CountInv` that it is the last exactly when the loops end.

## SourceCache

One package name, its versions, the mirror they share, any number of processes.

| Code | Model |
|---|---|
| rows of `_SOURCE`, `_SYNC` (repo.lua:26-47) | `source`, `syncRow`: sets of versions |
| `<repo>/<downloader>/<name>/<version>` and `mirror` | `dir`: absent, partial, cloned, ready |
| who is writing a directory | `hand`: a command notices that another process took it |
| a process inside `sync` | `pc`, `task`, `want`, `fetched`, `outcome` |
| each database call | one step (each opens and closes the database) |
| clone, checkout, rm, 7z | a start and an end, so others come between |
| a failing command, a killed gsmake, a directory removed by hand | `...Fails`, `Crash`, `Lose`, bounded by `MaxFaults`, `MaxLosses` |
| the remote gains a version | `Publish` |

git and 7z are external.  The model takes from their use that a command that
fails says so by its exit code, that git clones only into a place that is not
there, and that it removes what it was making when it fails.  A git that outlives
a killed gsmake, and a git killed by a signal, are not in the model.  For curl the
file `version.tmp` is modelled for one process only: `CacheAssumption` says that with
curl there is at most one.

| Run | Bounds | Question |
|---|---|---|
| `sync_git` | 1 process, 2 versions, 2 faults, 2 losses | when may a sync answer with a broken tree; does asking again recover |
| `sync_curl` | 1 process, 2 versions, 2 faults, 1 loss | is a row always there with a whole tree |
| `sync_race` | 2 processes, 2 versions, no faults | what two processes can do to each other |
| `sync_assertion` | 2 processes, 1 version | can the assertion of sync.lua:105 fail |

Two versions show that work on one does not touch the other and that they meet
in the mirror.  Two faults are enough for a fault in the sync that follows a
fault.  Two processes meet at every pair of steps.

* `PathIsReady`: the answer is a whole tree, unless two processes synced the
  version at once or an earlier sync ended badly while its row stood.  Both
  exceptions are real: `sync` trusts the row and `fs.exists`.
* `RowMeansReady`: curl saves its row after the last change of the tree; this
  gives more than git's order while nobody removes directories.
* `DatabaseErrorsNeedSharing`: the unique indexes and the assertion are met only
  by processes that share a version.
* `Recovers`, under weak fairness of each process (its commands and calls
  return): a published version that is asked for again and again is answered,
  except when the mirror is half made or older than the version, because a
  mirror is never looked at again (git plugin.lua:29).

Finding (`sync_assertion`): the assertion "detect downloader[...] bug"
(sync.lua:105) fails with a correct downloader, when another process stands
between the delete and the insert of `save_source`.

Proved (`SourceCache_proofs`), for any number of processes, versions, faults and
losses: `TypeOK`, `PathIsReady`, `DatabaseErrorsNeedSharing`, and `RowMeansReady`
for curl (under the assumption that there is one process).  `PathIsReady` is not
inductive: `SInv` adds that two processes on one version are marked (`Alone`),
that a row vouches for its tree unless somebody is building that (`RowsTrusted`),
that what is being saved is ready (`SavesReady`), and that rows stay as their
process left them between its own steps (`RowsMine`).  One lemma, `LocalStep`,
carries the invariant over any step that changes only one version's tree and
rows; each action is reduced to it.  `RowMeansReady` needs `CurlInv`: while a tree
is being made it has no row, and what is about to be saved is ready.  It is claimed
of curl only: git clears a tree and makes it again after its rows were saved.

## LogFactory

Client threads, the writer thread and `close()`.  What a client does under the
mutex is one step.  The writer's steps are those between which others may run:
the look at the queue, the wait, the wakeup, the hand-over, and each message.

| Code | Model |
|---|---|
| `_levels`, `_loggers`, `_sinks`, `_messages`, `_exitflag` | variables of these names |
| the local `messages` of `write_loop` | `batch` |
| the condition variable | `writer = "waiting"`; `Notify` wakes it, `SpuriousWakeup` too |
| the iteration over `_sinks` without the mutex (factory.cpp:33) | `racing`: any sinks may get the message, or the process ends (`CrashInRace`) |
| `close()` | `Close`, then `Join` |

Run `log`: two sources, one level (and none), two sinks of which one takes one
source, three messages, one change of the loggers or sinks: a message in the
batch, one in the queue and one after `close()`; a change at every point.
127,588 states.  Fairness: the writer thread is scheduled, and `join` returns
once it has ended; clients owe nothing.

* `NothingLost`, `SinksGetTheirs`, `CloseFlushes`: as their comments say.  That a
  sink's messages are some of those delivered, in their order, is stated by the
  places that they come from, so that it can be reasoned about.
* `ImplementsLog`: the factory implements `AsyncLog`, where messages are handed on
  one by one in the order they were written, without queue, batch, writer thread or
  mutex, to all sinks that take their source, and `close()` returns once those before
  it are through.  A change of the sinks while messages are under way is undefined
  there (`unsafe`), as it is in the code (`racing`).
* `MessagesAreWritten`, `CloseReturns`: no notification is lost.
* Messages logged after `close()` stay in the queue for ever: `MessagesAreWritten`
  is about those before.

Finding (`log_setlevels`): `setlevels(levels, loggers)` gives a logger it has to
make the default levels instead of `levels` (factory.cpp:72), against its comment
in factory.hpp:31-35.  Nothing in the repository calls it with names.

Proved (`LogFactory_proofs`): `TypeOK` (no run checks it again), `NothingLost`,
`CloseFlushes`, `SinksGetTheirs` and the refinement (`FactoryKeepsPromise`), so that
only the two liveness properties are left to TLC.  The
inductive invariant `LInv` is the types, `NothingLost`, and `WriterShape` (an idle
writer has no batch; a writer that is done has gone past the count that `close()`
took).  `SinksInv` adds that a sink which was there all the time is still in the
table, and that there is no such sink once the writer has raced with a change.

## Reactor, ByteStreams and Exec

`Reactor` is the io service on epoll with its streams: `read` by clients, the
dispatcher thread, `run_one`, and the destructors.  `Exec` extends it with an
`exec` object that reads the pipes of a child.

| Code | Model |
|---|---|
| `_read_header`, `_read_tail`, `_complete_header`, `_complete_tail`, `io_op.next` | `header`, `tail`, `completes`, `next`: pointer by pointer, as both lists use one link |
| `reactor_op::action`, and the abort for one that is not known (reactor_op.hpp:31-47) | `op[o].action`, `BadAction` |
| an operation from `read` to its deletion | `op[o].phase` |
| `read` before and under the mutex | `TryRead`; `PushReadOp` or `Complete` |
| `dispatcher_loop`, a round of events under the mutex | `EventsWait`, one `...Event` for each, `EndRound` |
| epoll's edge-triggered events | `edge`: set by a write, taken by the wait |
| `run_one` with its wait, callback, deletion | `Sleep`, `TimeOut`, `Pop`, `Callback`, `Delete` |
| a pointer that is followed after its operation is gone | `Crash...` |
| `exec._mutex`, `_joined`, `_exit_code`, `_waiter` | `mutex`, `joined`, `exitCode`, `waiter` |
| `wait` with `io_service_run` | `Look` at the head of its loop, `Pump`, `PumpEnds`, `NapEnds`, `JoinWaiter` |
| `wait_proc` | `Reap`, `NoChild`, `Report` |
| `fork`, `execv`, a child that exits, fails, is killed | `Start`, `ForkFails`, `ReplaceSelf`, `ChildEnd`; external |

`ByteStreams` is the abstract service: reads are asked for and called back once,
with the next bytes, or without any once the stream is closed.  `Reactor!Streams`
maps it, with `asked` the reads without a callback and `closed` the streams whose
other end is gone, and `ImplementsStreams` is checked in the composition with
`Exec`.

| Run | Bounds | Question |
|---|---|---|
| `exec` | 2 pipes, 2 bytes in all, reads of 1 byte, 1 read per pipe, 2 starts | what `wait` answers and when; does the service keep its promise |
| `io_services` (epoll part) | 1 pipe, 2 bytes, 2 reads at a time | what can break the lists |

Two bytes and one-byte reads put an operation into each list at once; three
operations exist, one more than two streams keep waiting.  Two starts make the
wait that answers for the wrong child, and the second start without a wait.

* `ListsAreSound`: with one read per stream, the completion queue holds the
  finished operations from its header to its tail, although their links come
  from the other list.
* `CrashNeedsCause`: only two reads of one stream at a time, or a destructor
  beside a busy dispatcher, make the service follow a bad pointer.
* `ResultIsTheChilds`: the status is the last child's; only a signal, a failed
  `fork` and a failed `execv` come out as 0.
* `OutputArrives`: what the child wrote has reached the callbacks when `wait`
  returns, but for a stream whose edge came inside a `read` and for ten
  milliseconds that pass with work at hand.
* `WaitReturns`, by fairness: the threads are scheduled (weak); the waiting
  thread gets the mutex, which `wait` releases in every round (strong, for
  `Report`); ten milliseconds pass when nothing else happens (strong, for
  `PumpEnds`, as each delivery begins the time anew); and the child ends.

What the runs also show: the edge of `reactor_io_stream.hpp:124` is really lost
until the next one; `start` after the child's end and before `wait` ends the
process by `std::terminate` (exec.hpp:147); a `fork` that fails goes on as the
child (exec_posix.hpp:40).  gsmake's own scripts wait for each command.

Proved of the service (`Reactor_proofs`), for all streams, threads, buffers and
lengths of reads: the types, `ListsAreSound`, `CrashNeedsCause`, and the refinement
`ImplementsStreams`.

* `ListInv` is the inductive invariant of the lists: while no stream has two reads
  at once, an operation is in the hands of at most one thread (`Owned`), the list
  of a stream is the one read that waits in it, without a link (`Queues`), and
  there is a sequence of all that is done which the links go through (`Chain`).
  It is `Queues` that keeps the two uses of the link apart: an operation comes
  out of a stream's list with no link to anything, so that it can be hung to the
  completion queue as it is.
* `CrashInv` adds that the service is closed after its streams only.
* `DataInv` adds the bytes: what was sent is what was delivered, what the waiting
  read has taken, which is still in its memory, and what is in the pipe.  From it
  each step of the service is one of `ByteStreams` or a stutter.

The refinement needs that the reads of two streams do not fill the same memory
(`OwnBuffers`), and that no stream has two reads at once.  `SingleReadsAreAnswered`
takes the second as a hypothesis about the behaviour; for a client that asks again
only after the callback, `ServiceImplementsStreams` needs no such hypothesis, and
for `exec` it is proved (`CommandImplementsStreams`), with the buffers of
`ExecAssumption`: each of the two read callbacks has a static `recv_buff` of its own
(os.cpp:231, 248).  All exec objects of a process share these two; the model has one
object, so what two of them with reads under way at once do to each other's bytes
is outside of it.

Proved of commands (`Exec_proofs`), for any number of pipes, bytes and starts:
`ListsAreSound`, `ImplementsStreams`, `CrashNeedsCause` (and that the service ends
the process in its destructor only), `ResultIsTheChilds` and `OutputArrives`.
`Reported` follows a child's status through the waiting thread to `_joined`.
For `OutputArrives` the invariant `ExecInv` has to say why the queue is empty only
when the pipes are: every stream is always being read or in a callback that will
read it again (`AlwaysAsked`), and bytes that a read waits for have their edge, or
their event in the dispatcher's hands, or are in a stream whose edge was lost
(`Noticed`).  Only `WaitReturns` is left to TLC.

## Iocp

The service on completion ports.  A thread's place is a record `thread[t]`;
the assignments of `push` and `pop` are steps of their own (`PushNext` to
`PopHeader`), because `push` holds no mutex.  The system posts completions,
cancels what is pending at a close, and gives closed handles again.

Run `io_services` (Windows part): two threads, two streams on one handle, two
operations, one `notify_all`.  One handle forces its reuse; two operations are a
list with a neighbour.  `DanglingHasCause`: a deleted operation is touched only
after a read ran beside another thread in the list, or a handle was given again
with operations on it or before the old stream was unregistered
(iocp_io_object.hpp:52, 97; iocp_io_service.hpp:166).  All three do happen in
the model.  704,000 states with the epoll part.

Proved (`Iocp_proofs`): `DanglingHasCause`, for all threads, streams, handles and
operations, of which `IocpAssumption` says that threads and operations are finite
(they are memory) and that `null` is none of them.  The invariant has three
parts.  `Held` is true always: an operation is in one thread's hands or once in
the port.  The others are true while none of the history variables is set:
`Streams` (a handle leads to the stream whose operations are on it) and `Lists`.
Between the assignments of `push` and `pop` the links do not make a list, and
`Phase` says what the one thread inside has still to put back.

## PluginLoader, Bootstrap, PackageCache

Three modules about processes that share the repository or the plugin
databases; all are in run `start`.

`PluginLoader`: `load` and `setup` over the graph of plugins.

| Code | Model |
|---|---|
| `_PLUGIN` rows of a loader's plugin.db | `row[s]` |
| `<temp>/gsmake/<plugin>/plugin.lua` | `main[s][n]`: whose, which version, whole or not |
| the recursion of `load` and `setup` | `stack`, `at` |
| `query_plugin` before the recursion, its answer used after it | `Query`, `SetUp` |
| the install task: remove, open with O_EXCL, write | `Install`, `Create`, `Write` |
| `save_plugin` | `Forget`, `Save` |

`RunsWhatItAsked`: what is run is whole and of the version asked for, unless the
plugin was installed over a row, by two processes at once, or by a task that said
it failed.  The exceptions are real: the directory has no version in its name
(plugin.lua:54), and the install's answer is ignored (plugin.lua:56).

`Bootstrap`: `repo` and `bootRow` are shared, `calls` is the stack of the sync
engine and of loaders; a package without a row needs the downloader, which is
itself loaded and synced first.  A whole download is one step (`SourceCache`
looks into it).  `ReloadCures`: a process alone with `-reload` is ready in the
end, whatever earlier runs left, unless it is killed or a foreign package cannot
be had.  `CachedNeedsNoNetwork`: while every shipped package has a row, none of
them is fetched and the engine does not call itself for ever.  The model also
shows that a fresh home caches nothing without `-reload`: the test of
gsmake.lua:67 comes after the constructor that made the directory.

`PackageCache`: `cache add`, `cache rm` and syncs of one package.  `CachedStays`:
a row with a directory of the user goes only by a command that names it or by a
sync that looked before it was there or did not find the directory.  The model
also shows that `cache rm` of a directory that is gone makes it again, as a
husk, and leaves the row.

Bounds: two processes and one fault in each; three runs, so that one can follow
a run that was killed beside another; two versions; two directories of the user;
three loaders, one more than the graph of plugins is deep, and four calls of the
sync engine, as many as a load needs whose downloader is cached, so that any
recursion of downloaders overflows.

Proved (`Start_proofs`) are all four properties, for any number of processes, runs,
packages, versions and directories:

* `RunsWhatItAsked`, from `LoaderInv`: a row means a whole file (`RowMeansWhole`);
  while a plugin is installed it has no row (`InstallsRight`), because the loader
  that has been told of a row does not install (`KnownHasRow`), and two that
  install in one place are noticed (`OneInstalls`).
* `ReloadCures` and `CachedNeedsNoNetwork`, from `BootInv`: each phase has cached
  what it is for when it is through (`IsAlone`), and each call has room on the
  stack for what it still has to call (`Fits`).  Both have a condition, `RoomFor`:
  the declarations do not go round, and the stack is as deep as they need.  It
  cannot be done without: a package that declares itself as its plugin, or one
  that its downloader needs, makes the code recurse for ever.  It says so by a
  height for each package; the declarations of the run have one.
* `CachedStays`, from `CacheInv`: a sync that comes to the delete could not use the
  directory of the row.

## Sandbox and Codegen

Also in run `start`; both are sequential.

`Sandbox`: `loaded[e]` and `real` are the tables that `require` exchanges, `chunk`
is the environment that the functions of init.lua share, `boxStack` the scripts
and modules that run; what a script throws may be caught at any level.
`CodeStaysInItsSandbox`: code runs only where it was loaded, also after a
`require` that threw with the tables exchanged.  That the constructor of a new
sandbox is loaded by, and runs in, the one that required last (init.lua:140) is what
the code does; the property says only that it stays there.  Three sandboxes, two modules
that require each other and the constructor's, and every choice of the paths
they are found on.  Proved (`Start_proofs`), for all sandboxes, modules and uses:
what a sandbox has loaded of its modules is its own (`OwnModules`), with which
`CodeStaysInItsSandbox` is inductive.

`Codegen`: templates are sequences of items, a block is one item; what tells
items apart is what the lexer and the script do with them.  `OnlyTheseAreLost`
compares what is written with `Meant`, a definition by recursion on the nesting
that knows nothing of lexer or scripts; the four losses it allows are those of
lexer.lua:17 and render.lua:25.  Every template of three items, an unclosed
`@{{` in the middle, and includes with an `if` in an `if`, with newlines at
both ends, and of itself.

Run `start`: 2,480,000 states altogether.

## Files, directories, names and logs

| Module | Code | Steps |
|---|---|---|
| `FilePath` | `clean`, `join` (filepath.lua), parsing, printing, `parent_path` (filepath.hpp) | operators; a path is a sequence of names and separators |
| `PathLaws` | - | grows every pair of paths, for `CleanKeepsPlace` |
| `MakeDirs` | `create_directories` (os.hpp:94-112) | each question and each mkdir, other programs between |
| `FileCopy` | `copy_file` (os.hpp:246-277, os_posix.cpp:81-136) | exists, remove, open, read, write, close |
| `RemoveTree` | `remove_directories` (os.hpp:171-204) | opendir, each entry, the directory; paths are resolved anew at every call |
| `CopyTree` | `copy_dir` (fs.lua:19-53) | target, mkdir, list, each entry |
| `FileSink` | `file_sink` (file_sink.cpp) | openfile, write; midnight and ends between |

Run `files`: all file systems of four nodes with links, one removal; two copies
to one target, three bytes through a buffer of two, one failure; two programs and
seven paths to be made; every tree of eight paths with three sources, five
targets and four flags, one failure that nobody is told of; two programs that log
three lines over two days; paths of up to five parts.  484,000 states.  One program removes: two make more states than
a run can have, and add only what `RemoveTree` already shows of an entry that
is gone.

* `OutsideIsKept`: a removal takes what is in the tree or below a link in it,
  never a link's target.  It does take what is below (os.hpp:179, where
  `is_symlink` follows the link).  What is below, through links and links behind
  links, is stated by closure: it is in every set that has the directory and, with
  each entry, what that contains or links to.
* `FilesAreNotMixed`: every file is the beginning of one source.
* `AnswerIsTrue`: a `create_directories` that no other program came between answers
  truly: `MadeIsThere`, and with an error there is a file in the way (`ErrorHasFile`).
* `AllIsCopied`: `copy_dir` returns only when all is there with its content, if source
  and target are apart and a target that was there is not skipped.  Two failures
  are not errors, and `copy_dir` returns after them too: a read or write of
  `copy_file` (os_posix.cpp:124-135) and a `readdir` (dir_iterator_posix.hpp:39-50).
  `failed` remembers where they happened, and the property allows no more than
  their consequences: a file breaks off only at its own failure, and only what is
  in a directory whose `readdir` failed is missing.  Other failures are errors
  (`TreeOpenFails`, `CopyFileFails`); a removal that fails half-way and questions
  (`exists`, `isdir`) that the system does not answer are left out.
* `RunsAreInOrder`: the lines of a run stay in order over blocks and days.
* `CleanKeepsPlace`: a cleaned or joined path names the same place, unless it
  leads up more than once; `../..` becomes nothing (filepath.lua:183-186).
* `OperationsEnd`, by weak fairness of the calls of the system: removals end
  although links lead in a circle (the system's limit of links), and copies end
  although they go into themselves (its limit of names).

Proved (`Files_proofs`), for any number of programs, any file system and any bounds:

* `FilesAreNotMixed` (sizes not zero, some program): what a program has written is
  what it has read and has no more pending (`Writes`), into a file that no other
  writes (`Apart`).
* `RunsAreInOrder`: no line of a run comes after the place its program writes to
  (`LinesAre`), and date and block of the sink go together (`SinkHolds`).
* `OutsideIsKept` (`RemovalStaysInside`): `RmInv` says that each call of a removal is
  for something reached, and what it has still to look at is below that
  (`RmCalls`); the closure then takes the step into an entry or behind a link.
* `AllIsCopied` (`CopyIsComplete`), and that nothing below the source is changed on the
  way (`CopyKeepsSource`): `TreeInv` says that the directories make a tree, that the
  calls under way are the prefixes of the innermost one's path, that what each is
  through with has arrived, but for the consequences of `failed`, and that nothing
  is at the target but copies.  As source and target are apart, writing to one leaves
  the other.  Failures may be as many as they like: no proof uses `TreeMaxFaults`.
* `AnswerIsTrue` (`AnswersAreTrue`; `WhatIsMadeIsThere` is the half without error, which
  needs no assumption on paths): each call is for the parent of the one around it,
  and what the innermost has found or made is still so while no other program
  comes between (`MkKnows`).  Then, without a file on the way, all places before the
  last are directories, and `mkdir` has no reason to fail (`FailureHasFile`).
  How a path's way goes on from that of its parent is taken from
  `WaysAssumption`: it follows by induction along the names, which the prover cannot
  do, and TLC evaluates it for the paths of the run.

Finding (`file_copy_error`): a comment in os_posix.cpp:126-127 says that an
error which ends the loop is reported after the files are closed; the code
answers success.

## What is only model-checked, and what is not covered

Proved are the results that each section lists: of the safety properties and the
refinements that the passing runs check all but two, for every value of the constants
that the assumptions allow.  Checked by TLC only, within the bounds named above, are:

* the liveness properties `RunEnds`, `Recovers`, `MessagesAreWritten`,
  `CloseReturns`, `WaitReturns` and `OperationsEnd`: they rest on fairness and so on
  ENABLED, which the prover does not handle;
* `CleanKeepsPlace` and `OnlyTheseAreLost`: they compare two recursive definitions
  over all inputs (a path cleaned and a path walked, a script run and the meaning of
  its template), which takes induction over data.

Assumptions on constants are in the modules that declare them and are evaluated
by TLC in the runs.  All but one are what the code or the system provides;
`WaysAssumption` (`MakeDirs`) is a fact about path names.  Two theorems have
hypotheses beyond them, `RoomFor` and `OwnBuffers`, which are discussed where they
are listed.

Each module has operators named `Faulty...`: mistakes a change of the code could
make.  Each property is violated when the right definition is replaced by its
faulty form, so that no property holds by the shape of the model alone.

Not modelled:

* the command line: a loop over prefixes, whose handlers of `-host` and `-arch`
  read globals that are never set;
* the clang plugin: text for cmake; `link` to a package outside reads `self.Lake`,
  which nothing sets, so dependencies never leave the package;
* `os_win32.cpp`, `exec_win32.hpp` and the kqueue variant of the reactor, which do
  with other system calls what the modelled ones do;
* which remote `geturl` takes among several that match;
* configuration files of packages, whose loader asks for a class that is not there;
* colours of the console, system information, bindings, the unit test runner;
* the vendored libraries (Lua, SQLite and others), which are most of the lines of
  the repository and not its own program.
