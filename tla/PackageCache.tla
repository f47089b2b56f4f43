---------------------------- MODULE PackageCache ----------------------------
(***************************************************************************)
(* The command "gsmake cache" of the built-in commands (cmd/builtin) and   *)
(* its rows in _SOURCE (repo.lua:132-162): a user has gsmake take a        *)
(* package from a local directory instead of the remote.  One name and one *)
(* version, so there is one row; other gsmake processes sync the package   *)
(* meanwhile.  What a download does to the tree of the repository is       *)
(* module SourceCache; here it comes out whole or fails.                   *)
(***************************************************************************)
EXTENDS Naturals, FiniteSets

CONSTANTS
  CacheProc,       \* gsmake processes
  Local,           \* directories of the user that hold the package
  Tree,            \* the repository's own tree of the package
  CacheNone,       \* no row
  CacheMaxFaults,  \* bound: crashes and failing downloads
  MaxLosses        \* bound: directories that the user removes

ASSUME PackageCacheAssumption ==
  /\ Tree \notin Local /\ CacheNone \notin Local \cup {Tree}
  /\ {CacheMaxFaults, MaxLosses} \subseteq Nat

VARIABLES
  cacheRow,      \* the path in the row of the package
  dir,           \* what is in each directory of the user
  pc,            \* where each process is
  command,       \* what it does
  path,          \* the directory that its command names, or that its sync has read or saves
  again,         \* whether its sync saves once more: sync_source after sync_remote
  cacheOutcome,  \* how its last command ended
  cacheFaults, losses,
  added,         \* history: directories that got the row since the process began
  gone           \* history: its sync has found the row, but not the directory

cacheProcess == <<pc, command, path, again, cacheOutcome>>
cacheHistory == <<added, gone>>
cacheVars    == <<cacheRow, dir, cacheProcess, cacheFaults, losses, cacheHistory>>

CacheAt(p, f)  == pc[p] = f
CacheGo(p, f)  == pc' = [pc EXCEPT ![p] = f]
Busy(p)   == pc[p] # "idle"
CacheEnd(p, how) == CacheGo(p, "idle") /\ cacheOutcome' = [cacheOutcome EXCEPT ![p] = how]

CacheInit ==
  /\ cacheRow = CacheNone /\ dir = [l \in Local |-> "package"]
  /\ pc = [p \in CacheProc |-> "idle"] /\ command = [p \in CacheProc |-> "none"]
  /\ path = [p \in CacheProc |-> CacheNone] /\ again = [p \in CacheProc |-> FALSE]
  /\ cacheOutcome = [p \in CacheProc |-> "none"]
  /\ cacheFaults = 0 /\ losses = 0
  /\ added = [p \in CacheProc |-> {}] /\ gone = [p \in CacheProc |-> FALSE]

Begin(p, what, l, first) ==
  /\ ~Busy(p) /\ CacheGo(p, first)
  /\ command' = [command EXCEPT ![p] = what] /\ path' = [path EXCEPT ![p] = l]
  /\ again' = [again EXCEPT ![p] = FALSE] /\ cacheOutcome' = [cacheOutcome EXCEPT ![p] = "none"]
  /\ added' = [added EXCEPT ![p] = {}] /\ gone' = [gone EXCEPT ![p] = FALSE]
  /\ UNCHANGED <<cacheRow, dir, cacheFaults, losses>>

BeginCache(p) == \E what \in {"add", "rm"}, l \in Local : Begin(p, what, l, "load")
BeginSync(p)  == Begin(p, "sync", CacheNone, "look")

-----------------------------------------------------------------------------
(* task.cache *)

\* A loader of the directory is made, and with it its temporary directory below it: one
\* that is not there is there again, without a package.
Load(p) ==
  /\ CacheAt(p, "load")
  /\ dir' = IF dir[path[p]] = "absent" THEN [dir EXCEPT ![path[p]] = "husk"] ELSE dir
  /\ IF dir[path[p]] = "package"
       THEN CacheGo(p, IF command[p] = "add" THEN "delete" ELSE "remove") /\ UNCHANGED cacheOutcome
       ELSE CacheEnd(p, "no package")
  /\ UNCHANGED <<cacheRow, command, path, again, cacheFaults, losses, cacheHistory>>

FaultyRemoveRow(p) ==   \* the row goes whatever path is in it
  /\ CacheAt(p, "remove")
  /\ cacheRow' = CacheNone
  /\ CacheEnd(p, "done")
  /\ UNCHANGED <<dir, command, path, again, cacheFaults, losses, cacheHistory>>

\* remove_cached_source: only a row whose path and source are the directory.
RemoveRow(p) ==
  /\ CacheAt(p, "remove")
  /\ cacheRow' = IF cacheRow = path[p] THEN CacheNone ELSE cacheRow
  /\ CacheEnd(p, "done")
  /\ UNCHANGED <<dir, command, path, again, cacheFaults, losses, cacheHistory>>

-----------------------------------------------------------------------------
(* save_source with force and save_cached_source: a delete, then an insert. *)

Delete(p) ==
  /\ CacheAt(p, "delete")
  /\ cacheRow' = CacheNone /\ CacheGo(p, "insert")
  /\ UNCHANGED <<dir, command, path, again, cacheOutcome, cacheFaults, losses, cacheHistory>>

Insert(p) ==
  /\ CacheAt(p, "insert") /\ cacheRow = CacheNone
  /\ cacheRow' = path[p]
  /\ added' = IF command[p] = "add" THEN [q \in CacheProc |-> added[q] \cup {path[p]}] ELSE added
  /\ IF command[p] = "add" THEN CacheEnd(p, "done") /\ UNCHANGED again
     ELSE /\ CacheGo(p, IF again[p] THEN "delete" ELSE "verify")
          /\ again' = [again EXCEPT ![p] = FALSE] /\ UNCHANGED cacheOutcome
  /\ UNCHANGED <<dir, command, path, cacheFaults, losses, gone>>

\* The unique index refuses a second row.
InsertFails(p) ==
  /\ CacheAt(p, "insert") /\ cacheRow # CacheNone
  /\ CacheEnd(p, "constraint")
  /\ UNCHANGED <<cacheRow, dir, command, path, again, cacheFaults, losses, cacheHistory>>

-----------------------------------------------------------------------------
(* sync *)

CacheLook(p) ==
  /\ CacheAt(p, "look")
  /\ path' = [path EXCEPT ![p] = cacheRow]
  /\ CacheGo(p, IF cacheRow = CacheNone THEN "fetch" ELSE "exists")
  /\ UNCHANGED <<cacheRow, dir, command, again, cacheOutcome, cacheFaults, losses, cacheHistory>>

There(l) == l = Tree \/ (l \in Local /\ dir[l] # "absent")

\* if ok and fs.exists(path) then return path end
Exists(p) ==
  /\ CacheAt(p, "exists")
  /\ IF There(path[p])
       THEN CacheEnd(p, "done") /\ UNCHANGED gone
       ELSE CacheGo(p, "fetch") /\ gone' = [gone EXCEPT ![p] = TRUE] /\ UNCHANGED cacheOutcome
  /\ UNCHANGED <<cacheRow, dir, command, path, again, cacheFaults, losses, added>>

\* sync_remote and then sync_source, or only sync_source: each saves the tree it has made.
CacheFetch(p) ==
  /\ CacheAt(p, "fetch")
  /\ CacheGo(p, "delete") /\ path' = [path EXCEPT ![p] = Tree]
  /\ \E twice \in BOOLEAN : again' = [again EXCEPT ![p] = twice]
  /\ UNCHANGED <<cacheRow, dir, command, cacheOutcome, cacheFaults, losses, cacheHistory>>

CacheFetchFails(p) ==
  /\ CacheAt(p, "fetch") /\ cacheFaults < CacheMaxFaults /\ cacheFaults' = cacheFaults + 1
  /\ CacheEnd(p, "download")
  /\ UNCHANGED <<cacheRow, dir, command, path, again, losses, cacheHistory>>

\* sync_source answers with the path that is in the row by now, or blames the downloader.
Verify(p) ==
  /\ CacheAt(p, "verify")
  /\ CacheEnd(p, IF cacheRow = CacheNone THEN "assert" ELSE "done")
  /\ UNCHANGED <<cacheRow, dir, command, path, again, cacheFaults, losses, cacheHistory>>

\* SQLite has no busy timeout here: a call fails while another process writes.
Writes == {"delete", "insert", "remove"}
CacheDatabaseLocked(p) ==
  /\ pc[p] \in Writes \cup {"look", "verify"}
  /\ \E q \in CacheProc \ {p} : pc[q] \in Writes
  /\ CacheEnd(p, "locked")
  /\ UNCHANGED <<cacheRow, dir, command, path, again, cacheFaults, losses, cacheHistory>>

-----------------------------------------------------------------------------
(* The user and the machine. *)

RemoveDirectory(l) ==
  /\ dir[l] # "absent" /\ losses < MaxLosses
  /\ dir' = [dir EXCEPT ![l] = "absent"] /\ losses' = losses + 1
  /\ UNCHANGED <<cacheRow, cacheProcess, cacheFaults, cacheHistory>>

CacheCrash(p) ==
  /\ Busy(p) /\ cacheFaults < CacheMaxFaults /\ cacheFaults' = cacheFaults + 1
  /\ CacheEnd(p, "crash")
  /\ UNCHANGED <<cacheRow, dir, command, path, again, losses, cacheHistory>>

CacheStep(p) ==
  \/ Load(p) \/ RemoveRow(p) \/ Delete(p) \/ Insert(p) \/ InsertFails(p)
  \/ CacheLook(p) \/ Exists(p)
  \/ CacheFetch(p) \/ CacheFetchFails(p) \/ Verify(p) \/ CacheDatabaseLocked(p)

CacheNext ==
  \/ \E l \in Local : RemoveDirectory(l)
  \/ \E p \in CacheProc : BeginCache(p) \/ BeginSync(p) \/ CacheStep(p) \/ CacheCrash(p)

CacheSpec == CacheInit /\ [][CacheNext]_cacheVars

-----------------------------------------------------------------------------
(* Properties. *)

\* A row that names a directory of the user goes only by "cache rm" of that directory, by a
\* "cache add", or by a sync that could not use it: one that had looked before the row was
\* there, or that did not find the directory (repo.lua:119-158, sync.lua:113-130).
CachedStays ==
  [][cacheRow' # cacheRow /\ cacheRow \in Local =>
       \E p \in CacheProc :
         \/ command[p] = "rm" /\ CacheAt(p, "remove") /\ path[p] = cacheRow
         \/ command[p] = "add" /\ CacheAt(p, "delete")
         \/ /\ command[p] = "sync" /\ CacheAt(p, "delete")
            /\ gone[p] \/ cacheRow \in added[p]]_cacheVars

=============================================================================
