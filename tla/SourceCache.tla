---------------------------- MODULE SourceCache ----------------------------
(***************************************************************************)
(* How the sources of one package get into the repository cache that all   *)
(* gsmake processes of a machine share (gsmake.lua:48): the sync engine    *)
(* (lib/gsmake/gsmake/sync.lua), the repository database (repo.lua) and    *)
(* the two downloaders, the git and the curl plugin.                       *)
(*                                                                         *)
(* A process calls sync(name, version).  Every database call opens and     *)
(* closes the database, so each is a step of its own; the directories are  *)
(* built and removed by programs and loops that another process, a failure *)
(* or a crash can come between.  Rows and directories of different package *)
(* names do not touch, so the name is fixed; its versions share one mirror.*)
(*                                                                         *)
(* The downloader plugin itself is cached and installed: its own sync is   *)
(* the first case of sync, and what it runs is module TaskRunner.          *)
(* Operators named Faulty... are mistakes a change of the code could make; *)
(* the specification does not use them.                                    *)
(***************************************************************************)
EXTENDS Integers

CONSTANTS
  Proc,        \* gsmake processes
  Version,     \* versions of the package
  Mirror,      \* the directory <workdir>/mirror
  Nobody,      \* no process
  Downloader,  \* the plugin that the remote of the package names
  MaxFaults,   \* bound: crashes and failing commands
  MaxLosses    \* bound: directories removed by hand

Dir == Version \cup {Mirror}

ASSUME CacheAssumption ==
  /\ Mirror \notin Version /\ Nobody \notin Proc
  /\ Downloader \in {"git", "curl"}
  /\ MaxFaults \in Nat /\ MaxLosses \in Nat
  \* version.tmp, the file that curl writes, is not modelled between processes
  /\ Downloader = "curl" => \A p, q \in Proc : p = q

VARIABLES
  source,       \* versions with a row in _SOURCE
  syncRow,      \* versions with a row in _SYNC
  dir,          \* what is on disk in each directory
  hand,         \* who works on the directory
  published,    \* versions the remote has
  mirrored,     \* versions the mirror has
  pc,           \* where each process is
  task,         \* the part of the downloader it runs
  want,         \* the version it syncs
  fetched,      \* versions in what it has downloaded to a temporary place
  outcome,      \* how its last sync ended
  faults, losses,
  interrupted,  \* history: a sync of it ended badly while it had a _SOURCE row
  shared        \* history: two processes were syncing it at the same time

rows    == <<source, syncRow>>
disk    == <<dir, hand, mirrored>>
process == <<pc, task, want, fetched, outcome>>
world   == <<published, losses>>
past    == <<faults, interrupted, shared>>
vars    == <<rows, disk, process, world, past>>

At(p, step) == pc[p] = step
Go(p, step) == pc' = [pc EXCEPT ![p] = step]
Active(p)   == pc[p] # "idle"

\* The directory that clearing and cloning are about.
Target(p) == IF task[p] = "mirror" THEN Mirror ELSE want[p]

\* The process ends its sync with an error that only main catches.
Throw(p, why) ==
  /\ Go(p, "idle")
  /\ outcome' = [outcome EXCEPT ![p] = why]
  /\ interrupted' = IF want[p] \in source THEN interrupted \cup {want[p]} ELSE interrupted
  /\ task' = [task EXCEPT ![p] = "none"] /\ fetched' = [fetched EXCEPT ![p] = {}]
  /\ UNCHANGED <<want, shared>>

\* Nothing but where the process is changes in process.
Walk(p, step) == Go(p, step) /\ UNCHANGED <<task, want, fetched, outcome>>

Enter(p, part, step) ==
  /\ Go(p, step) /\ task' = [task EXCEPT ![p] = part]
  /\ UNCHANGED <<want, fetched, outcome>>

-----------------------------------------------------------------------------
Init ==
  /\ source = {} /\ syncRow = {}
  /\ dir = [d \in Dir |-> "absent"] /\ hand = [d \in Dir |-> Nobody]
  /\ published \in SUBSET Version /\ mirrored = {}
  /\ pc = [p \in Proc |-> "idle"] /\ task = [p \in Proc |-> "none"]
  /\ want \in [Proc -> Version] /\ fetched = [p \in Proc |-> {}]
  /\ outcome = [p \in Proc |-> "none"]
  /\ faults = 0 /\ losses = 0 /\ interrupted = {} /\ shared = {}

-----------------------------------------------------------------------------
(* The world: the remote gains versions, somebody cleans the cache. *)

Publish(v) ==
  /\ v \notin published
  /\ published' = published \cup {v}
  /\ UNCHANGED <<rows, disk, process, past, losses>>

\* A directory goes while no process runs: what sync's fs.exists tests are for.
Lose(d) ==
  /\ \A p \in Proc : ~Active(p)
  /\ dir[d] # "absent" /\ losses < MaxLosses
  /\ dir' = [dir EXCEPT ![d] = "absent"]
  /\ losses' = losses + 1
  /\ UNCHANGED <<rows, hand, mirrored, process, published, past>>

\* The process is killed, or the machine stops: rows and directories stay.
Crash(p) ==
  /\ Active(p) /\ pc[p] # "returned" /\ faults < MaxFaults
  /\ faults' = faults + 1
  /\ Throw(p, "crash")
  /\ UNCHANGED <<rows, disk, world>>

-----------------------------------------------------------------------------
(* sync(name, version). *)

Begin(p, v) ==
  /\ ~Active(p)
  /\ pc' = [pc EXCEPT ![p] = "look"] /\ want' = [want EXCEPT ![p] = v]
  /\ outcome' = [outcome EXCEPT ![p] = "none"]
  /\ shared' = IF \E q \in Proc \ {p} : Active(q) /\ want[q] = v THEN shared \cup {v} ELSE shared
  /\ UNCHANGED <<rows, disk, world, task, fetched, faults, interrupted>>

\* The row is there and so is the path: that path is the answer.
FindSource(p) ==
  /\ At(p, "look")
  /\ IF want[p] \in source /\ dir[want[p]] # "absent"
     THEN Walk(p, "returned") ELSE Walk(p, "look sync")
  /\ UNCHANGED <<rows, disk, world, past>>

\* Copy from the mirror when there is one, else ask the remote.
FindSync(p) ==
  /\ At(p, "look sync")
  /\ IF want[p] \in syncRow /\ dir[Mirror] # "absent"
     THEN Enter(p, "sync_source", "clear")
     ELSE Enter(p, "sync_remote", IF Downloader = "git" THEN "mirror" ELSE "download")
  /\ UNCHANGED <<rows, disk, world, past>>

\* sync_source asks the database for the path the downloader should have saved.
Verify(p) ==
  /\ At(p, "verify") /\ want[p] \in source
  /\ Walk(p, "returned")
  /\ UNCHANGED <<rows, disk, world, past>>

\* assert(ok, "detect downloader[...] bug")
AssertFails(p) ==
  /\ At(p, "verify") /\ want[p] \notin source
  /\ Throw(p, "assert")
  /\ UNCHANGED <<rows, disk, world, faults>>

\* The caller has used the path.
Leave(p) ==
  /\ At(p, "returned")
  /\ Go(p, "idle") /\ outcome' = [outcome EXCEPT ![p] = "done"]
  /\ task' = [task EXCEPT ![p] = "none"] /\ fetched' = [fetched EXCEPT ![p] = {}]
  /\ UNCHANGED <<rows, disk, world, past, want>>

-----------------------------------------------------------------------------
(* Directories. *)

Set(d, state, p) ==
  /\ dir' = [dir EXCEPT ![d] = state]
  /\ hand' = [hand EXCEPT ![d] = p]
  /\ UNCHANGED mirrored

FaultyStartClear(p) ==   \* clones over what is there
  /\ At(p, "clear")
  /\ Walk(p, "clone")
  /\ UNCHANGED <<rows, disk, world, past>>

\* if fs.exists(target) then fs.rm(target,true) end; rm goes entry by entry.
StartClear(p) ==
  /\ At(p, "clear")
  /\ IF dir[Target(p)] = "absent"
     THEN Walk(p, "clone") /\ UNCHANGED disk
     ELSE Walk(p, "clearing") /\ Set(Target(p), "partial", p)
  /\ UNCHANGED <<rows, world, past>>

EndClear(p) ==
  /\ At(p, "clearing")
  /\ Set(Target(p), "absent", Nobody)
  /\ Walk(p, "clone")
  /\ UNCHANGED <<rows, world, past>>

\* Another process got at the directory: the removal meets its files, or none.
ClearFails(p) ==
  /\ At(p, "clearing") /\ hand[Target(p)] # p
  /\ Throw(p, "rm")
  /\ UNCHANGED <<rows, disk, world, faults>>

\* git refuses to clone into a directory that is there.
StartClone(p) ==
  /\ At(p, "clone")
  /\ IF dir[Target(p)] = "absent"
     THEN /\ Set(Target(p), "partial", p) /\ Walk(p, "cloning")
          /\ UNCHANGED <<past>>
     ELSE /\ Throw(p, "git") /\ UNCHANGED <<disk, faults>>
  /\ UNCHANGED <<rows, world>>

Undisturbed(p) == hand[Target(p)] = p

\* The mirror comes from the temporary clone; then the rest of sync_remote.
EndCloneMirror(p) ==
  /\ At(p, "cloning") /\ task[p] = "mirror" /\ Undisturbed(p)
  /\ dir' = [dir EXCEPT ![Mirror] = "cloned"] /\ mirrored' = fetched[p]
  /\ hand' = [hand EXCEPT ![Mirror] = Nobody]
  /\ Enter(p, "sync_remote", "clear")
  /\ UNCHANGED <<rows, world, past>>

FaultyEndCloneTree(p) ==   \* no checkout
  /\ At(p, "cloning") /\ task[p] # "mirror" /\ Undisturbed(p)
  /\ dir[Mirror] = "cloned"
  /\ Set(want[p], "cloned", Nobody)
  /\ Walk(p, "delete sync")
  /\ UNCHANGED <<rows, world, past>>

\* A version's tree comes from the mirror, if that is whole.
EndCloneTree(p) ==
  /\ At(p, "cloning") /\ task[p] # "mirror" /\ Undisturbed(p)
  /\ dir[Mirror] = "cloned"
  /\ Set(want[p], "cloned", p)
  /\ Walk(p, "checkout")
  /\ UNCHANGED <<rows, world, past>>

\* clone exits with an error: the mirror is damaged, the directory was touched
\* by another process, or a fault.  git removes the directory it was making.
CloneFails(p) ==
  /\ At(p, "cloning")
  /\ LET reason == ~Undisturbed(p) \/ (task[p] # "mirror" /\ dir[Mirror] # "cloned")
     IN  /\ reason \/ faults < MaxFaults
         /\ faults' = IF reason THEN faults ELSE faults + 1
  /\ Set(Target(p), "absent", Nobody)
  /\ Throw(p, "git")
  /\ UNCHANGED <<rows, world>>

Checkout(p) ==
  /\ At(p, "checkout") /\ Undisturbed(p)
  /\ dir[want[p]] = "cloned" /\ want[p] \in mirrored
  /\ Set(want[p], "ready", Nobody)
  /\ Walk(p, "delete sync")
  /\ UNCHANGED <<rows, world, past>>

\* The mirror does not have the version, or a fault.
CheckoutFails(p) ==
  /\ At(p, "checkout")
  /\ LET reason == \/ ~Undisturbed(p) \/ dir[want[p]] # "cloned"
                   \/ want[p] \notin mirrored
     IN  /\ reason \/ faults < MaxFaults
         /\ faults' = IF reason THEN faults ELSE faults + 1
  /\ Throw(p, "git")
  /\ UNCHANGED <<rows, disk, world>>

-----------------------------------------------------------------------------
(* Asking the remote. *)

\* git: a mirror that exists is used as it is, else it is fetched.
LookForMirror(p) ==
  /\ At(p, "mirror")
  /\ IF dir[Mirror] = "absent" THEN Walk(p, "fetch") ELSE Walk(p, "clear")
  /\ UNCHANGED <<rows, disk, world, past>>

\* git clone --mirror into a temporary directory with a name of its own.
Fetch(p) ==
  /\ At(p, "fetch")
  /\ fetched' = [fetched EXCEPT ![p] = published]
  /\ Go(p, "clear") /\ task' = [task EXCEPT ![p] = "mirror"]
  /\ UNCHANGED <<rows, disk, world, past, want, outcome>>

\* curl writes version.tmp, and also exits 0 when the site has no such file.
Download(p) ==
  /\ At(p, "download")
  /\ fetched' = [fetched EXCEPT ![p] = published]
  /\ Go(p, "unzip")
  /\ UNCHANGED <<rows, disk, world, past, task, want, outcome>>

DownloadFails(p) ==
  /\ At(p, "fetch") \/ At(p, "download")
  /\ faults < MaxFaults /\ faults' = faults + 1
  /\ Throw(p, "download")
  /\ UNCHANGED <<rows, disk, world>>

FaultyStartUnzip(p) ==   \* does not wait for 7z
  /\ At(p, "unzip") /\ want[p] \in fetched[p]
  /\ Set(want[p], "partial", p)
  /\ Walk(p, "delete source")
  /\ UNCHANGED <<rows, world, past>>

\* 7z x -aoa writes over what is in the output directory.
StartUnzip(p) ==
  /\ At(p, "unzip") /\ want[p] \in fetched[p]
  /\ Set(want[p], "partial", p)
  /\ Walk(p, "unzipping")
  /\ UNCHANGED <<rows, world, past>>

EndUnzip(p) ==
  /\ At(p, "unzipping")
  /\ Set(want[p], "ready", Nobody)
  /\ Walk(p, "delete source")
  /\ UNCHANGED <<rows, world, past>>

\* No archive came, or a fault: sync_remote returns true and the engine throws.
UnzipFails(p) ==
  /\ \/ At(p, "unzip") /\ want[p] \notin fetched[p] /\ UNCHANGED faults
     \/ At(p, "unzipping") /\ faults < MaxFaults /\ faults' = faults + 1
  /\ Throw(p, "unzip")
  /\ UNCHANGED <<rows, disk, world>>

-----------------------------------------------------------------------------
(* save_sync and save_source with force: a delete, then an insert. *)

FaultyDeleteSync(p) ==   \* save_sync without force
  /\ At(p, "delete sync")
  /\ Walk(p, "insert sync")
  /\ UNCHANGED <<rows, disk, world, past>>

DeleteSync(p) ==
  /\ At(p, "delete sync")
  /\ syncRow' = syncRow \ {want[p]}
  /\ Walk(p, "insert sync")
  /\ UNCHANGED <<source, disk, world, past>>

InsertSync(p) ==
  /\ At(p, "insert sync") /\ want[p] \notin syncRow
  /\ syncRow' = syncRow \cup {want[p]}
  /\ Walk(p, "delete source")
  /\ UNCHANGED <<source, disk, world, past>>

DeleteSource(p) ==
  /\ At(p, "delete source")
  /\ source' = source \ {want[p]}
  /\ Walk(p, "insert source")
  /\ UNCHANGED <<syncRow, disk, world, past>>

FaultyInsertSource(p) ==   \* arguments swapped: a row for the mirror
  /\ At(p, "insert source") /\ want[p] \notin source
  /\ source' = source \cup {Mirror}
  /\ Enter(p, "sync_source", "verify")
  /\ UNCHANGED <<syncRow, disk, world, past>>

\* The end of a downloader task.  After sync_remote the engine runs
\* sync_source: git's builds the tree once more, curl's does nothing.
InsertSource(p) ==
  /\ At(p, "insert source") /\ want[p] \notin source
  /\ source' = source \cup {want[p]}
  /\ IF task[p] = "sync_remote" /\ Downloader = "git"
     THEN Enter(p, "sync_source", "clear")
     ELSE Enter(p, "sync_source", "verify")
  /\ UNCHANGED <<syncRow, disk, world, past>>

\* The unique index refuses a second row.
InsertFails(p) ==
  /\ \/ At(p, "insert sync") /\ want[p] \in syncRow
     \/ At(p, "insert source") /\ want[p] \in source
  /\ Throw(p, "constraint")
  /\ UNCHANGED <<rows, disk, world, faults>>

Writes == {"delete sync", "insert sync", "delete source", "insert source"}

\* SQLite has no busy timeout here: a call fails while another process writes.
DatabaseLocked(p) ==
  /\ pc[p] \in Writes \cup {"look", "look sync", "verify"}
  /\ \E q \in Proc \ {p} : pc[q] \in Writes
  /\ Throw(p, "locked")
  /\ UNCHANGED <<rows, disk, world, faults>>

-----------------------------------------------------------------------------
Engine(p)  == FindSource(p) \/ FindSync(p) \/ Verify(p) \/ AssertFails(p) \/ Leave(p)
Build(p)   == \/ StartClear(p) \/ EndClear(p) \/ ClearFails(p)
              \/ StartClone(p) \/ EndCloneMirror(p) \/ EndCloneTree(p) \/ CloneFails(p)
              \/ Checkout(p) \/ CheckoutFails(p)
Remote(p)  == \/ LookForMirror(p) \/ Fetch(p) \/ Download(p) \/ DownloadFails(p)
              \/ StartUnzip(p) \/ EndUnzip(p) \/ UnzipFails(p)
Save(p)    == \/ DeleteSync(p) \/ InsertSync(p) \/ DeleteSource(p) \/ InsertSource(p)
              \/ InsertFails(p) \/ DatabaseLocked(p)
Step(p)    == Engine(p) \/ Build(p) \/ Remote(p) \/ Save(p)

Next ==
  \/ \E v \in Version : Publish(v)
  \/ \E d \in Dir : Lose(d)
  \/ \E p \in Proc : Crash(p) \/ Step(p) \/ \E v \in Version : Begin(p, v)

Spec     == Init /\ [][Next]_vars
\* A process that runs keeps running: its commands and its calls return.
FairSpec == Spec /\ \A p \in Proc : WF_vars(Step(p))

-----------------------------------------------------------------------------
(* Properties. *)

\* Every variable has its type.
TypeOK ==
  /\ source \subseteq Version /\ syncRow \subseteq Version
  /\ dir \in [Dir -> {"absent", "partial", "cloned", "ready"}]
  /\ hand \in [Dir -> Proc \cup {Nobody}]
  /\ published \subseteq Version /\ mirrored \subseteq Version
  /\ pc \in [Proc -> {"idle", "look", "look sync", "mirror", "fetch", "download", "unzip",
                      "unzipping", "clear", "clearing", "clone", "cloning", "checkout",
                      "delete sync", "insert sync", "delete source", "insert source",
                      "verify", "returned"}]
  /\ task \in [Proc -> {"none", "mirror", "sync_remote", "sync_source"}]
  /\ want \in [Proc -> Version] /\ fetched \in [Proc -> SUBSET Version]
  /\ outcome \in [Proc -> {"none", "done", "crash", "assert", "rm", "git", "download",
                           "unzip", "constraint", "locked"}]
  /\ faults \in 0..MaxFaults /\ losses \in 0..MaxLosses
  /\ interrupted \subseteq Version /\ shared \subseteq Version

\* sync answers with a checked-out tree of the version that was asked for.  Two
\* things spoil that and nothing else: two processes that sync the version at
\* once, and a sync that ended badly while the version's row of an earlier save
\* stood (sync.lua:115-119 trusts the row and fs.exists).  An end before the
\* first save never does, whatever it leaves on disk.
PathIsReady ==
  \A p \in Proc :
    pc[p] = "returned" => \/ dir[want[p]] = "ready"
                          \/ want[p] \in interrupted \cup shared

\* While nobody removes a directory, a package from the curl downloader, which
\* saves its one row after the last change of the tree, is whole whenever it can
\* be answered, after any crash and failure (curl plugin.lua:65-82).
RowMeansReady ==
  losses = 0 => \A v \in Version : v \in source /\ dir[v] # "absent" => dir[v] = "ready"

\* The unique indexes and the assertion that blames the downloader are met only
\* by two processes on the same version: delete and insert, insert and query are
\* separate transactions (repo.lua:94-130, sync.lua:99-105).
DatabaseErrorsNeedSharing ==
  \A p \in Proc : outcome[p] \in {"constraint", "assert"} => want[p] \in shared

\* The assertion of sync_source as it is worded: when it fails, the downloader
\* did not save the source (sync.lua:105).
NoDownloaderBug == \A p \in Proc : outcome[p] # "assert"

\* Once the faults stop, a version that is published and asked for again and
\* again is answered in the end, whatever the earlier syncs left behind, except
\* that a mirror is never looked at again: one that a crash left half made, or
\* that was made before the version was published, stays in the way
\* (git plugin.lua:29, 61-63; sync.lua:111-130).
Answered(v) == \E p \in Proc : pc[p] = "returned" /\ want[p] = v
Asked(v)    == \E p \in Proc : pc[p] = "look" /\ want[p] = v

Recovers ==
  \A v \in Version :
    []<>Asked(v) /\ <>(v \in published) =>
      \/ []<>Answered(v)
      \/ <>[](dir[Mirror] = "partial")
      \/ <>[](dir[Mirror] = "cloned" /\ v \notin mirrored)

=============================================================================
