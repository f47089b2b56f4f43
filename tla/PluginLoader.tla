---------------------------- MODULE PluginLoader ----------------------------
(***************************************************************************)
(* How a gsmake process loads the packages that the root package declares  *)
(* as plugins (loader.lua, plugin.lua), and how each loader remembers in   *)
(* its plugin.db (plugindb.lua) which plugins are installed beside it.     *)
(*                                                                         *)
(* load() syncs every declared plugin and loads the plugins it declares in *)
(* turn; setup() then walks the same tree, installs what has no row and    *)
(* runs the plugin.lua of what is installed.  The directory of a source,   *)
(* its .gsmake and the plugin.db in it are shared by all processes that    *)
(* use the source.  Sources come from module SourceCache, what the install *)
(* task runs is module TaskRunner, and copying a file is module FileCopy.  *)
(***************************************************************************)
EXTENDS Naturals, Sequences, FiniteSets, SequencesExt

CONSTANTS
  Proc,      \* gsmake processes
  Package,   \* names of packages
  Root,      \* the package in the workspace
  Version,   \* versions of packages
  Default,   \* the version a declaration means that names none
  Plugins,   \* Plugins[n]: the plugins that package n declares
  Reloads,   \* the values of -reload that processes run with
  MaxDepth,  \* nested loaders that the stack of Lua has room for
  MaxRuns,   \* bound: processes started in all
  MaxFaults  \* bound: crashes and failing tasks

ASSUME PluginAssumption ==
  /\ Root \in Package /\ Default \in Version /\ Reloads \subseteq BOOLEAN
  /\ Plugins \in [Package -> SUBSET (Package \ {Root})]
  /\ {MaxDepth, MaxRuns, MaxFaults} \subseteq Nat

Source == Package \X Version     \* a directory with a package in it

VARIABLES
  row,                  \* row[s]: names and versions in the plugin.db below s
  main,                 \* main[s][n]: the plugin.lua installed below s for plugin n
  stack,                \* stack[p]: the loaders p works on, the root's first
  at,                   \* where p is
  asked,                \* the version that the root asks of its plugins, in this run of p
  reload,               \* whether p runs with -reload
  ran,                  \* what p has run: where, which plugin, asked version, file
  outcome,              \* how the last run of p ended
  runs, faults,
  over, shared, unmade  \* history: installed over a row; by two at once; not at all

disk    == <<row, main>>
process == <<stack, at, asked, reload, ran, outcome>>
past    == <<over, shared, unmade>>
vars    == <<disk, process, past, runs, faults>>

NoFile == [version |-> Default, whole |-> FALSE, by |-> "nobody"]

-----------------------------------------------------------------------------
(* A loader, and the plugin it is at. *)

Frame(s) == [of |-> s, todo |-> Plugins[s[1]], plugin |-> Root, known |-> FALSE]
Top(p)   == Last(stack[p])
At(p, place) == at[p] = place
Go(p, place) == at' = [at EXCEPT ![p] = place]

Owner(p)  == Top(p).of
\* The version of plugin n that the owner asks for.
Asks(p, n) == IF Owner(p)[1] = Root THEN asked[p] ELSE Default
Plugin(p) == Top(p).plugin
Wanted(p) == <<Plugin(p), Asks(p, Plugin(p))>>
Main(p)   == main[Owner(p)][Plugin(p)]
SetMain(p, file) == main' = [main EXCEPT ![Owner(p)][Plugin(p)] = file]

\* An error that only main catches.
Throw(p, why) ==
  /\ Go(p, "idle") /\ stack' = [stack EXCEPT ![p] = <<>>]
  /\ outcome' = [outcome EXCEPT ![p] = why]
  /\ UNCHANGED <<asked, reload, ran>>

Move(p, place) == Go(p, place) /\ UNCHANGED <<stack, asked, reload, ran, outcome>>

Init ==
  /\ row = [s \in Source |-> {}] /\ main = [s \in Source |-> [n \in Package |-> NoFile]]
  /\ stack = [p \in Proc |-> <<>>] /\ at = [p \in Proc |-> "idle"]
  /\ asked = [p \in Proc |-> Default] /\ reload = [p \in Proc |-> FALSE]
  /\ ran = [p \in Proc |-> {}] /\ outcome = [p \in Proc |-> "none"]
  /\ runs = 0 /\ faults = 0
  /\ over = {} /\ shared = {} /\ unmade = {}

\* gsmake is started, with the versions that the root package declares today.
Start(p) ==
  /\ At(p, "idle") /\ runs < MaxRuns /\ runs' = runs + 1
  /\ Go(p, "load") /\ stack' = [stack EXCEPT ![p] = <<Frame(<<Root, Default>>)>>]
  /\ \E v \in Version : asked' = [asked EXCEPT ![p] = v]
  /\ \E r \in Reloads : reload' = [reload EXCEPT ![p] = r]
  /\ ran' = [ran EXCEPT ![p] = {}] /\ outcome' = [outcome EXCEPT ![p] = "none"]
  /\ UNCHANGED <<disk, past, faults>>

\* The process is killed: what it has written stays.
Crash(p) ==
  /\ ~At(p, "idle") /\ faults < MaxFaults /\ faults' = faults + 1
  /\ Throw(p, "crash")
  /\ UNCHANGED <<disk, past, runs>>

-----------------------------------------------------------------------------
(* load(): every plugin is synced, its loader made and loaded. *)

LoadPlugin(p) ==
  /\ At(p, "load") /\ Len(stack[p]) < MaxDepth
  /\ \E n \in Top(p).todo :
       stack' = [stack EXCEPT ![p] =
                   Append(Append(Front(@), [Top(p) EXCEPT !.todo = @ \ {n}]),
                          Frame(<<n, Asks(p, n)>>))]
  /\ UNCHANGED <<disk, past, at, asked, reload, ran, outcome, runs, faults>>

\* The sync engine throws; or declarations in a cycle have filled the stack.
LoadFails(p) ==
  /\ At(p, "load") /\ Top(p).todo # {}
  /\ \/ Len(stack[p]) < MaxDepth /\ faults < MaxFaults /\ faults' = faults + 1
        /\ Throw(p, "sync")
     \/ Len(stack[p]) = MaxDepth /\ Throw(p, "stack overflow") /\ UNCHANGED faults
  /\ UNCHANGED <<disk, past, runs>>

\* The loader is loaded; after the root's, setup() begins at the root.
Loaded(p) ==
  /\ At(p, "load") /\ Top(p).todo = {}
  /\ IF Len(stack[p]) > 1
       THEN stack' = [stack EXCEPT ![p] = Front(@)] /\ UNCHANGED at
       ELSE stack' = [stack EXCEPT ![p] = <<Frame(<<Root, Default>>)>>] /\ Go(p, "setup")
  /\ UNCHANGED <<disk, past, asked, reload, ran, outcome, runs, faults>>

-----------------------------------------------------------------------------
(* setup() *)

FaultyHasRow(p, n) == \E v \in Version : <<n, v>> \in row[Owner(p)]   \* any version will do
\* query_plugin
HasRow(p, n) == <<n, Asks(p, n)>> \in row[Owner(p)]

\* The database is asked for the plugin first, then its own loader is set up.
Query(p) ==
  /\ At(p, "setup")
  /\ \E n \in Top(p).todo :
       stack' = [stack EXCEPT ![p] =
                   Append(Append(Front(@), [Top(p) EXCEPT !.todo = @ \ {n}, !.plugin = n,
                                                          !.known = HasRow(p, n)]),
                          Frame(<<n, Asks(p, n)>>))]
  /\ UNCHANGED <<disk, past, at, asked, reload, ran, outcome, runs, faults>>

Installing(p) == at[p] \in {"install", "create", "write", "forget", "save"}
Place(p) == <<Owner(p), Plugin(p)>>

\* Back in the owner's setup(): the answer decides whether to install.
SetUp(p) ==
  /\ At(p, "setup") /\ Top(p).todo = {} /\ Len(stack[p]) > 1
  /\ LET frames == Front(stack[p])
         place  == <<Last(frames).of, Last(frames).plugin>>
     IN
       /\ stack' = [stack EXCEPT ![p] = frames]
       /\ IF Last(frames).known /\ ~reload[p]
            THEN Go(p, "run") /\ UNCHANGED shared
            ELSE /\ Go(p, "install")
                 /\ shared' = IF \E q \in Proc \ {p} : Installing(q) /\ Place(q) = place
                                THEN shared \cup {place} ELSE shared
  /\ UNCHANGED <<disk, over, unmade, asked, reload, ran, outcome, runs, faults>>

\* The install task copies plugin.lua, and removes what is there first.
Install(p) ==
  /\ At(p, "install")
  /\ SetMain(p, NoFile) /\ Move(p, "create")
  /\ over' = IF \E v \in Version : <<Plugin(p), v>> \in row[Owner(p)]
                THEN over \cup {Place(p)} ELSE over
  /\ UNCHANGED <<row, shared, unmade, runs, faults>>

\* A task throws; or it answers true, which says that it failed, and setup() goes on.
InstallFails(p) ==
  /\ At(p, "install") /\ faults < MaxFaults /\ faults' = faults + 1
  /\ \/ Throw(p, "task") /\ UNCHANGED unmade
     \/ Move(p, "forget") /\ unmade' = unmade \cup {Place(p)}
  /\ UNCHANGED <<disk, over, shared, runs>>

\* open with O_EXCL
Create(p) ==
  /\ At(p, "create")
  /\ IF Main(p) = NoFile
       THEN /\ SetMain(p, [version |-> Wanted(p)[2], whole |-> FALSE, by |-> p])
            /\ Move(p, "write")
       ELSE Throw(p, "file exists") /\ UNCHANGED main
  /\ UNCHANGED <<row, past, runs, faults>>

\* The file that p writes may have lost its name meanwhile.  It is written whole: a read or a
\* write that fails without an error (os_posix.cpp:124-135) is in modules FileCopy and CopyTree.
Write(p) ==
  /\ At(p, "write") /\ Move(p, "forget")
  /\ main' = IF Main(p).by = p THEN [main EXCEPT ![Owner(p)][Plugin(p)].whole = TRUE] ELSE main
  /\ UNCHANGED <<row, past, runs, faults>>

\* save_plugin: remove_plugin, then an insert.
Forget(p) ==
  /\ At(p, "forget")
  /\ row' = [row EXCEPT ![Owner(p)] = @ \ {Wanted(p)}]
  /\ Move(p, "save")
  /\ UNCHANGED <<main, past, runs, faults>>

\* The unique index refuses a second row.
Save(p) ==
  /\ At(p, "save")
  /\ IF Wanted(p) \in row[Owner(p)]
       THEN Throw(p, "constraint") /\ UNCHANGED row
       ELSE row' = [row EXCEPT ![Owner(p)] = @ \cup {Wanted(p)}] /\ Move(p, "run")
  /\ UNCHANGED <<main, past, runs, faults>>

\* SQLite has no busy timeout here: a call fails while another process writes.
DatabaseLocked(p) ==
  /\ at[p] \in {"setup", "forget", "save"}
  /\ \E q \in Proc \ {p} : at[q] \in {"forget", "save"} /\ Owner(q) = Owner(p)
  /\ Throw(p, "locked")
  /\ UNCHANGED <<disk, past, runs, faults>>

\* sandbox.run(pluginMain,env): loadfile, which throws when there is no file.
Run(p) ==
  /\ At(p, "run")
  /\ ran' = [ran EXCEPT ![p] = @ \cup {<<Owner(p), Plugin(p), Wanted(p)[2], Main(p)>>}]
  /\ IF Main(p) = NoFile
       THEN /\ Go(p, "idle") /\ stack' = [stack EXCEPT ![p] = <<>>]
            /\ outcome' = [outcome EXCEPT ![p] = "no plugin.lua"]
       ELSE Go(p, "setup") /\ UNCHANGED <<stack, outcome>>
  /\ UNCHANGED <<disk, past, asked, reload, runs, faults>>

\* The root is set up: the task that the user wants can run.
Ready(p) ==
  /\ At(p, "setup") /\ Top(p).todo = {} /\ Len(stack[p]) = 1
  /\ Throw(p, "ready")
  /\ UNCHANGED <<disk, past, runs, faults>>

Step(p) ==
  \/ LoadPlugin(p) \/ LoadFails(p) \/ Loaded(p)
  \/ Query(p) \/ SetUp(p) \/ Install(p) \/ InstallFails(p) \/ Create(p) \/ Write(p)
  \/ Forget(p) \/ Save(p) \/ DatabaseLocked(p) \/ Run(p) \/ Ready(p)

Next == \E p \in Proc : Start(p) \/ Crash(p) \/ Step(p)

Spec     == Init /\ [][Next]_vars

-----------------------------------------------------------------------------
(* Properties. *)

Troubled == over \cup shared \cup unmade

\* A plugin that was only ever installed where there was no row for it, by one process at a
\* time and by tasks that said so when they failed, is there, whole and of the version asked
\* for whenever it is run, whatever crashed before (plugin.lua:47-66).  A task says so when it
\* fails only if copy_file does, which a failed read or write does not make it do.
RunsWhatItAsked ==
  \A p \in Proc : \A r \in ran[p] :
    <<r[1], r[2]>> \notin Troubled => r[4].whole /\ r[4].version = r[3]


=============================================================================
