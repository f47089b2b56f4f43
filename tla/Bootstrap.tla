------------------------------ MODULE Bootstrap ------------------------------
(***************************************************************************)
(* The start of a gsmake process (gsmake.lua): it makes the repository,    *)
(* with -reload caches the packages that gsmake ships with, and loads the  *)
(* root package.                                                           *)
(*                                                                         *)
(* A package without a row in _SOURCE is downloaded by the git plugin,     *)
(* which is itself a package that has to be synced and loaded first: the   *)
(* sync engine calls itself for it (sync.lua:49-73), without a mark.       *)
(* Module SourceCache looks into a single download, PluginLoader into what *)
(* follows when everything is synced.                                      *)
(***************************************************************************)
EXTENDS Naturals, Sequences, FiniteSets, SequencesExt

CONSTANTS
  BootProc,            \* gsmake processes
  ShippedPlugins,      \* packages below lib/gsmake: plugins,
  ShippedCommands,     \* commands
  ShippedDownloaders,  \* and downloaders
  Others,              \* packages of the remote that are not shipped
  Git,                 \* the downloader that the remote names
  BootPlugins,         \* BootPlugins[n]: the plugins that package n declares
  RootPlugins,         \* those that the root package declares
  BootMaxDepth,        \* calls that the stack of Lua has room for
  BootMaxRuns,         \* bound: processes started in all
  BootMaxFaults        \* bound: crashes and failing downloads

Shipped == ShippedPlugins \cup ShippedCommands \cup ShippedDownloaders
BootName    == Shipped \cup Others

ASSUME BootstrapAssumption ==
  /\ Git \in ShippedDownloaders /\ RootPlugins \subseteq BootName
  /\ BootPlugins \in [BootName -> SUBSET BootName]
  /\ {BootMaxDepth, BootMaxRuns, BootMaxFaults} \subseteq Nat

VARIABLES
  repo,         \* whether the directory and the database file are there
  bootRow,      \* packages with a row in _SOURCE
  phase,        \* where each process is
  option,       \* whether it was started with -reload
  bootReload,   \* the global variable reload
  todo,         \* packages that it still caches in this phase
  saving,       \* of them, the one whose old row is deleted
  calls,        \* nested calls of the sync engine and of loaders
  bootOutcome,  \* how the last run ended
  sure,         \* history: since it loads, every shipped package has had a row
  alone,        \* history: nobody else has run since it started
  bootRuns, bootFaults

cache   == <<repo, bootRow>>
bootProcess == <<phase, option, bootReload, todo, saving, calls, bootOutcome>>
bootHistory == <<sure, alone>>
bootVars    == <<cache, bootProcess, bootHistory, bootRuns, bootFaults>>

BootAt(p, f) == phase[p] = f
BootGo(p, f) == phase' = [phase EXCEPT ![p] = f]

BootInit ==
  /\ repo = "none" /\ bootRow = {}
  /\ phase = [p \in BootProc |-> "idle"] /\ option = [p \in BootProc |-> FALSE]
  /\ bootReload = [p \in BootProc |-> FALSE] /\ todo = [p \in BootProc |-> {}]
  /\ saving = [p \in BootProc |-> {}] /\ calls = [p \in BootProc |-> <<>>]
  /\ bootOutcome = [p \in BootProc |-> "none"]
  /\ sure = [p \in BootProc |-> FALSE] /\ alone = [p \in BootProc |-> FALSE]
  /\ bootRuns = 0 /\ bootFaults = 0

BootStart(p) ==
  /\ BootAt(p, "idle") /\ bootRuns < BootMaxRuns /\ bootRuns' = bootRuns + 1
  /\ BootGo(p, "mkdir") /\ \E r \in BOOLEAN : option' = [option EXCEPT ![p] = r]
  /\ bootOutcome' = [bootOutcome EXCEPT ![p] = "none"] /\ calls' = [calls EXCEPT ![p] = <<>>]
  /\ LET others == {q \in BootProc \ {p} : ~BootAt(q, "idle")} IN
       alone' = [q \in BootProc |->
                   IF q = p THEN others = {} ELSE alone[q] /\ BootAt(q, "idle")]
  /\ sure' = [sure EXCEPT ![p] = FALSE]
  /\ UNCHANGED <<cache, bootReload, todo, saving, bootFaults>>

BootEnd(p, why) ==
  /\ BootGo(p, "idle") /\ bootOutcome' = [bootOutcome EXCEPT ![p] = why]
  /\ todo' = [todo EXCEPT ![p] = {}] /\ saving' = [saving EXCEPT ![p] = {}]
  /\ UNCHANGED <<option, bootReload>>

BootCrash(p) ==
  /\ ~BootAt(p, "idle") /\ bootFaults < BootMaxFaults /\ bootFaults' = bootFaults + 1
  /\ BootEnd(p, "crash")
  /\ UNCHANGED <<cache, calls, bootHistory, bootRuns>>

-----------------------------------------------------------------------------
(* gsmake.lua:59-69 *)

Mkdir(p) ==
  /\ BootAt(p, "mkdir") /\ BootGo(p, "open")
  /\ repo' = IF repo = "none" THEN "directory" ELSE repo
  /\ UNCHANGED <<bootRow, option, bootReload, todo, saving, calls, bootOutcome, bootHistory,
                 bootRuns, bootFaults>>

\* The constructor of gsmake.repo opens the database, which makes the file.
OpenRepo(p) ==
  /\ BootAt(p, "open") /\ BootGo(p, "decide")
  /\ repo' = "database"
  /\ UNCHANGED <<bootRow, option, bootReload, todo, saving, calls, bootOutcome, bootHistory,
                 bootRuns, bootFaults>>

\* not fs.exists(gsmake.Repo.Path) or gsmake.Config.Reload
Decide(p) ==
  /\ BootAt(p, "decide")
  /\ bootReload' = [bootReload EXCEPT ![p] = repo # "database" \/ option[p]]
  /\ BootGo(p, "plugins")
  /\ todo' = [todo EXCEPT ![p] = IF bootReload'[p] THEN ShippedPlugins ELSE {}]
  /\ UNCHANGED <<cache, option, saving, calls, bootOutcome, bootHistory, bootRuns, bootFaults>>

-----------------------------------------------------------------------------
(* Caching what is shipped: save_cached_source, a delete, then an insert. *)

Caching(p) == phase[p] \in {"plugins", "commands", "downloaders"}

BootForget(p) ==
  /\ Caching(p) /\ saving[p] = {}
  /\ \E n \in todo[p] :
       /\ bootRow' = bootRow \ {n} /\ saving' = [saving EXCEPT ![p] = {n}]
       /\ sure' = [q \in BootProc |-> sure[q] /\ n \notin bootRow]
  /\ UNCHANGED <<repo, phase, option, bootReload, todo, calls, bootOutcome, alone, bootRuns,
                 bootFaults>>

\* The unique index refuses a second row.
BootSave(p) ==
  /\ Caching(p) /\ saving[p] # {}
  /\ IF saving[p] \subseteq bootRow
       THEN BootEnd(p, "constraint") /\ UNCHANGED <<bootRow, calls>>
       ELSE /\ bootRow' = bootRow \cup saving[p]
            /\ todo' = [todo EXCEPT ![p] = @ \ saving[p]] /\ saving' = [saving EXCEPT ![p] = {}]
            /\ UNCHANGED <<phase, option, bootReload, calls, bootOutcome>>
  /\ UNCHANGED <<repo, bootHistory, bootRuns, bootFaults>>

BootFrame(n) == [name |-> n, at |-> "look", todo |-> {}]
RootFrame    == [name |-> "root", at |-> "plugins", todo |-> RootPlugins \cup ShippedCommands]

FaultyNextPhase(p) ==   \* the downloaders are never cached
  /\ Caching(p) /\ todo[p] = {}
  /\ LET after == CASE BootAt(p, "plugins") -> "commands" [] OTHER -> "load" IN
       /\ BootGo(p, after)
       /\ todo' = [todo EXCEPT ![p] = IF bootReload[p] /\ after = "commands"
                                        THEN ShippedCommands ELSE {}]
       /\ IF after = "load"
            THEN calls' = [calls EXCEPT ![p] = <<RootFrame>>]
                 /\ sure' = [sure EXCEPT ![p] = Shipped \subseteq bootRow]
            ELSE UNCHANGED <<calls, sure>>
  /\ UNCHANGED <<cache, option, bootReload, saving, bootOutcome, alone, bootRuns, bootFaults>>

\* The commands become plugins of the root package; after the downloaders it is loaded.
NextPhase(p) ==
  /\ Caching(p) /\ todo[p] = {}
  /\ LET after == CASE BootAt(p, "plugins")     -> "commands"
                    [] BootAt(p, "commands")    -> "downloaders"
                    [] BootAt(p, "downloaders") -> "load"
     IN
       /\ BootGo(p, after)
       /\ todo' = [todo EXCEPT ![p] = IF ~bootReload[p] \/ after = "load" THEN {}
                                      ELSE IF after = "commands" THEN ShippedCommands
                                      ELSE ShippedDownloaders]
       /\ IF after = "load"
            THEN calls' = [calls EXCEPT ![p] = <<RootFrame>>]
                 /\ sure' = [sure EXCEPT ![p] = Shipped \subseteq bootRow]
            ELSE UNCHANGED <<calls, sure>>
  /\ UNCHANGED <<cache, option, bootReload, saving, bootOutcome, alone, bootRuns, bootFaults>>

-----------------------------------------------------------------------------
(* Loading: every package is synced, then the plugins it declares. *)

BootTop(p)      == Last(calls[p])
Synced(p)   ==
  calls' = [calls EXCEPT ![p] = Append(Front(@), [BootTop(p) EXCEPT
              !.at = "plugins", !.todo = BootPlugins[BootTop(p).name]])]
BootCall(p, frame, n) ==
  calls' = [calls EXCEPT ![p] = Append(Append(Front(@), frame), BootFrame(n))]


\* A call goes one deeper, or there is no room for it.
Deeper(p, frame, n) ==
  IF Len(calls[p]) < BootMaxDepth
    THEN /\ BootCall(p, frame, n)
         /\ UNCHANGED <<phase, option, bootReload, todo, saving, bootOutcome>>
    ELSE BootEnd(p, "stack overflow") /\ UNCHANGED calls

\* A plugin that is declared.
BootLoadPlugin(p) ==
  /\ BootAt(p, "load") /\ BootTop(p).at = "plugins"
  /\ \E n \in BootTop(p).todo : Deeper(p, [BootTop(p) EXCEPT !.todo = @ \ {n}], n)
  /\ UNCHANGED <<cache, bootHistory, bootRuns, bootFaults>>

FaultyLook(p) ==   \* without a row the downloader is always asked for itself
  /\ BootAt(p, "load") /\ BootTop(p).at = "look"
  /\ Deeper(p, [BootTop(p) EXCEPT !.at = "fetch"], Git)
  /\ UNCHANGED <<cache, bootHistory, bootRuns, bootFaults>>

\* sync: with a row the package is there, without one its downloader is loaded.
BootLook(p) ==
  /\ BootAt(p, "load") /\ BootTop(p).at = "look"
  /\ IF BootTop(p).name \in bootRow
       THEN /\ Synced(p)
            /\ UNCHANGED <<phase, option, bootReload, todo, saving, bootOutcome>>
       ELSE Deeper(p, [BootTop(p) EXCEPT !.at = "fetch"], Git)
  /\ UNCHANGED <<cache, bootHistory, bootRuns, bootFaults>>

\* A package is loaded, with its plugins: back to who called.
BootReturn(p) ==
  /\ BootAt(p, "load") /\ BootTop(p).at = "plugins" /\ BootTop(p).todo = {}
  /\ IF Len(calls[p]) = 1
       THEN BootEnd(p, "ready") /\ UNCHANGED calls
       ELSE /\ calls' = [calls EXCEPT ![p] = Front(@)]
            /\ UNCHANGED <<phase, option, bootReload, todo, saving, bootOutcome>>
  /\ UNCHANGED <<cache, bootHistory, bootRuns, bootFaults>>

\* The downloader is loaded and has fetched the package.
BootFetch(p) ==
  /\ BootAt(p, "load") /\ BootTop(p).at = "fetch"
  /\ bootRow' = bootRow \cup {BootTop(p).name}
  /\ Synced(p)
  /\ UNCHANGED <<repo, phase, option, bootReload, todo, saving, bootOutcome, bootHistory,
                 bootRuns, bootFaults>>

BootFetchFails(p) ==
  /\ BootAt(p, "load") /\ BootTop(p).at = "fetch"
  /\ bootFaults < BootMaxFaults /\ bootFaults' = bootFaults + 1
  /\ BootEnd(p, "download")
  /\ UNCHANGED <<cache, calls, bootHistory, bootRuns>>

BootStep(p) ==
  \/ Mkdir(p) \/ OpenRepo(p) \/ Decide(p) \/ BootForget(p) \/ BootSave(p) \/ NextPhase(p)
  \/ BootLoadPlugin(p) \/ BootLook(p) \/ BootReturn(p) \/ BootFetch(p) \/ BootFetchFails(p)

BootNext == \E p \in BootProc : BootStart(p) \/ BootCrash(p) \/ BootStep(p)

BootSpec     == BootInit /\ [][BootNext]_bootVars

-----------------------------------------------------------------------------
(* Properties. *)

\* A process that runs alone with -reload ends ready, unless it is killed or a download of
\* a package that is not shipped fails, whatever earlier runs left (gsmake.lua:71-87).
ReloadCures ==
  \A p \in BootProc : alone[p] /\ option[p] =>
    bootOutcome[p] \in {"none", "ready", "crash", "download"}

\* While every shipped package has a row no shipped package is asked of the network and
\* the calls do not fill the stack (sync.lua:115-129).
CachedNeedsNoNetwork ==
  \A p \in BootProc : sure[p] =>
    /\ bootOutcome[p] # "stack overflow"
    /\ \A k \in 1..Len(calls[p]) : calls[p][k].at = "fetch" => calls[p][k].name \in Others

=============================================================================
