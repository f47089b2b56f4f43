---------------------------- MODULE Start_proofs ----------------------------
(***************************************************************************)
(* Theorems about what gsmake does in Lua before its tasks run: the        *)
(* sandboxes, the start of a process, the cache command and the loading of *)
(* plugins, for every set of processes, packages, modules and directories. *)
(***************************************************************************)
EXTENDS PluginLoader, Bootstrap, PackageCache, Sandbox, TLAPS, SequenceTheorems

-----------------------------------------------------------------------------
(* Stacks. *)

LEMMA OnTop ==
  ASSUME NEW S, NEW s \in Seq(S), s # <<>>
  PROVE  /\ Len(s) \in Nat \ {0} /\ Last(s) \in S /\ Last(s) = s[Len(s)]
         /\ Front(s) \in Seq(S) /\ Len(Front(s)) = Len(s) - 1
         /\ \A i \in 1..(Len(s) - 1) : Front(s)[i] = s[i]
  <1>1. Len(s) \in Nat \ {0}
    BY LenProperties, EmptySeq
  <1>2. Len(s) \in 1..Len(s) /\ 1 \in 1..(Len(s) + 1) /\ Len(s) - 1 \in 0..Len(s)
    BY <1>1
  <1>3. Last(s) \in S
    BY <1>2, ElementOfSeq DEF Last
  <1>4. /\ SubSeq(s, 1, Len(s) - 1) \in Seq(S) /\ Len(SubSeq(s, 1, Len(s) - 1)) = Len(s) - 1
        /\ \A i \in 1..(Len(s) - 1) : SubSeq(s, 1, Len(s) - 1)[i] = s[i]
    <2> DEFINE n == Len(s) - 1
    <2>1. n \in 0..Len(s) /\ \A i \in 1..n : i \in 1..Len(s)
      BY <1>1
    <2> HIDE DEF n
    <2>2. /\ SubSeq(s, 1, n) \in Seq(S) /\ Len(SubSeq(s, 1, n)) = n
          /\ \A i \in 1..n : SubSeq(s, 1, n)[i] = s[i]
      BY <2>1, SubSeqProperties
    <2> QED
      BY <2>2 DEF n
  <1> QED
    BY <1>1, <1>3, <1>4 DEF Front, Last

\* A caller that has gone on, and what it calls above it.
LEMMA Called ==
  ASSUME NEW S, NEW s \in Seq(S), s # <<>>, NEW f \in S, NEW g \in S
  PROVE  /\ Append(Append(Front(s), f), g) \in Seq(S)
         /\ Append(Front(s), f) \in Seq(S) /\ Append(s, g) \in Seq(S)
  <1>1. Front(s) \in Seq(S)
    BY OnTop
  <1>2. Append(Front(s), f) \in Seq(S)
    BY <1>1, AppendProperties
  <1> QED
    BY <1>2, AppendProperties

-----------------------------------------------------------------------------
(* Sandboxes. *)

CodeOf == Env \cup {BoxNone, Std}
Script == [env : Env, todo : Seq(BoxName)]

BoxTypeOK ==
  /\ loaded \in [Env -> [BoxName -> CodeOf]] /\ chunk \in Env
  /\ made \subseteq Env /\ finds \in [Env -> SUBSET Module]
  /\ boxStack \in Seq(Script)

\* What a sandbox has loaded of the modules is its own.
OwnModules == \A e \in Env, m \in Module : loaded[e][m] \in {BoxNone, e}

BoxInv == BoxTypeOK /\ OwnModules /\ CodeStaysInItsSandbox

LEMMA PreloadIsNobodys ==
  preload \in [BoxName -> CodeOf] /\ \A m \in Module : preload[m] = BoxNone
  BY SandboxAssumption DEF preload, BoxName, CodeOf

LEMMA LoadedIsOwn ==
  ASSUME BoxTypeOK, OwnModules, NEW e \in Env, NEW n \in BoxName
  PROVE  /\ BoxLoaded(e, n) \in [BoxName -> CodeOf]
         /\ \A m \in Module : BoxLoaded(e, n)[m] \in {BoxNone, e}
         /\ n \in Module => BoxLoaded(e, n)[n] = e
  <1>1. loaded[e] \in [BoxName -> CodeOf] /\ e \in CodeOf
    BY DEF BoxTypeOK, CodeOf
  <1>2. BoxNone # e
    BY SandboxAssumption
  <1> QED
    BY <1>1, <1>2 DEF BoxLoaded, OwnModules, BoxName

LEMMA RunKeeps ==
  ASSUME BoxTypeOK, OwnModules, CodeStaysInItsSandbox, NEW e \in Env, NEW n \in BoxName,
         NEW below \in Seq(Script), BoxRun(e, n, below)
  PROVE  boxStack' \in Seq(Script) /\ CodeStaysInItsSandbox'
  <1>1. CASE n = Std
    BY <1>1 DEF BoxRun, CodeStaysInItsSandbox
  <1>2. CASE n # Std
    <2>1. n \in Module /\ BoxLoaded(e, n)[n] = e
      BY <1>2, LoadedIsOwn DEF BoxName
    <2>2. BoxFrame(e, Uses[n]) \in Script
      BY <2>1, SandboxAssumption DEF BoxFrame, Script
    <2>3. Append(below, BoxFrame(e, Uses[n])) \in Seq(Script)
      BY <2>2, AppendProperties
    <2> QED
      BY SMTT(30), <1>2, <2>1, <2>3 DEF BoxRun, CodeStaysInItsSandbox
  <1> QED
    BY <1>1, <1>2

LEMMA BoxTopFacts ==
  ASSUME BoxTypeOK, Running, BoxTop.todo # <<>>
  PROVE  /\ BoxTop.env \in Env /\ Head(BoxTop.todo) \in BoxName
         /\ Front(boxStack) \in Seq(Script) /\ Next1(BoxTop) \in Script
         /\ Append(Front(boxStack), Next1(BoxTop)) \in Seq(Script)
  <1>1. BoxTop \in Script /\ Front(boxStack) \in Seq(Script)
    BY OnTop DEF BoxTypeOK, Running, BoxTop
  <1>2. BoxTop.env \in Env /\ BoxTop.todo \in Seq(BoxName)
    BY <1>1 DEF Script
  <1>3. Head(BoxTop.todo) \in BoxName /\ Tail(BoxTop.todo) \in Seq(BoxName)
    BY <1>2, HeadTailProperties
  <1>4. Next1(BoxTop) \in Script
    BY <1>1, <1>3 DEF Next1, Script
  <1> QED
    BY <1>1, <1>2, <1>3, <1>4, AppendProperties

\* Wherever a throw is caught, what is left of the stack was there.
LEMMA CaughtKeeps ==
  ASSUME BoxTypeOK, Running, BoxTop.todo # <<>>, Caught
  PROVE  boxStack' \in Seq(Script)
  <1>1. PICK k \in 0..Len(boxStack) :
          boxStack' = IF k = Len(boxStack) THEN Append(Front(boxStack), Next1(BoxTop))
                                           ELSE SubSeq(boxStack, 1, k)
    BY DEF Caught
  <1>2. boxStack \in Seq(Script) /\ Len(boxStack) \in Nat
    BY LenProperties DEF BoxTypeOK
  <1>3. SubSeq(boxStack, 1, k) \in Seq(Script)
    <2>1. \A i \in 1..k : i \in 1..Len(boxStack)
      BY <1>2
    <2> QED
      BY <1>2, <2>1, SubSeqProperties
  <1> QED
    BY <1>1, <1>3, BoxTopFacts

LEMMA BoxInitInv == BoxInit => BoxInv
  <1> SUFFICES ASSUME BoxInit PROVE BoxInv
    OBVIOUS
  <1>1. PICK s \in Scripts : boxStack = <<BoxFrame(BoxMain, s)>>
    BY DEF BoxInit
  <1>2. BoxFrame(BoxMain, s) \in Script
    BY SandboxAssumption DEF BoxFrame, Script
  <1>3. boxStack \in Seq(Script)
    BY <1>1, <1>2
  <1>4. loaded = [e \in Env |-> preload]
    BY DEF BoxInit
  <1>5. BoxTypeOK
    BY <1>3, <1>4, PreloadIsNobodys, SandboxAssumption DEF BoxInit, BoxTypeOK
  <1>6. OwnModules
    BY <1>4, PreloadIsNobodys DEF OwnModules
  <1> QED
    BY <1>5, <1>6 DEF BoxInv, BoxInit, CodeStaysInItsSandbox

LEMMA BoxNextInv == BoxInv /\ [BoxNext]_boxVars => BoxInv'
  <1> SUFFICES ASSUME BoxInv, [BoxNext]_boxVars PROVE BoxInv'
    OBVIOUS
  <1>1. BoxTypeOK /\ OwnModules /\ CodeStaysInItsSandbox
    BY DEF BoxInv
  <1>2. /\ loaded \in [Env -> [BoxName -> CodeOf]] /\ chunk \in Env
        /\ made \subseteq Env /\ finds \in [Env -> SUBSET Module]
        /\ boxStack \in Seq(Script)
    BY <1>1 DEF BoxTypeOK
  <1>3. ASSUME NEW e \in Env, NEW n \in BoxName,
               loaded' = [loaded EXCEPT ![e] = BoxLoaded(e, n)]
        PROVE  loaded' \in [Env -> [BoxName -> CodeOf]] /\ OwnModules'
    BY <1>1, <1>2, <1>3, LoadedIsOwn DEF OwnModules
  <1>4. CASE UNCHANGED boxVars
    BY <1>1, <1>4 DEF BoxInv, BoxTypeOK, OwnModules, CodeStaysInItsSandbox, boxVars
  <1>5. CASE Require
    <2> DEFINE e == BoxTop.env  n == Head(BoxTop.todo)
    <2>1. /\ Running /\ BoxTop.todo # <<>> /\ chunk' = e
          /\ BoxRun(e, n, Append(Front(boxStack), Next1(BoxTop)))
          /\ loaded' = [loaded EXCEPT ![e] = BoxLoaded(e, n)]
          /\ UNCHANGED <<made, finds>>
      BY <1>5 DEF Require
    <2>2. e \in Env /\ n \in BoxName /\ Append(Front(boxStack), Next1(BoxTop)) \in Seq(Script)
      BY <1>1, <2>1, BoxTopFacts
    <2>3. boxStack' \in Seq(Script) /\ CodeStaysInItsSandbox'
      BY <1>1, <2>1, <2>2, RunKeeps
    <2>4. loaded' \in [Env -> [BoxName -> CodeOf]] /\ OwnModules'
      BY <1>3, <2>1, <2>2
    <2> QED
      BY <1>2, <2>1, <2>2, <2>3, <2>4 DEF BoxInv, BoxTypeOK
  <1>6. CASE RequireFails
    <2>1. /\ Running /\ BoxTop.todo # <<>> /\ chunk' = BoxTop.env /\ Caught
          /\ UNCHANGED <<loaded, made, finds, boxRan>>
      BY <1>6 DEF RequireFails
    <2>2. boxStack' \in Seq(Script) /\ BoxTop.env \in Env
      BY <1>1, <2>1, CaughtKeeps, BoxTopFacts
    <2> QED
      BY <1>1, <1>2, <2>1, <2>2 DEF BoxInv, BoxTypeOK, OwnModules, CodeStaysInItsSandbox
  <1>7. CASE Overflow
    <2> DEFINE e == BoxTop.env  n == Head(BoxTop.todo)
    <2>1. /\ Running /\ BoxTop.todo # <<>> /\ chunk' = e /\ Caught
          /\ loaded' = [loaded EXCEPT ![e] = BoxLoaded(e, n)]
          /\ UNCHANGED <<made, finds, boxRan>>
      BY <1>7 DEF Overflow
    <2>2. boxStack' \in Seq(Script) /\ e \in Env /\ n \in BoxName
      BY <1>1, <2>1, CaughtKeeps, BoxTopFacts
    <2>3. loaded' \in [Env -> [BoxName -> CodeOf]] /\ OwnModules'
      BY <1>3, <2>1, <2>2
    <2> QED
      BY <1>1, <1>2, <2>1, <2>2, <2>3 DEF BoxInv, BoxTypeOK, CodeStaysInItsSandbox
  <1>8. CASE BoxReturn
    <2>1. Front(boxStack) \in Seq(Script)
      BY <1>2, <1>8, OnTop DEF BoxReturn, Running
    <2> QED
      BY <1>1, <1>2, <1>8, <2>1
         DEF BoxReturn, BoxInv, BoxTypeOK, OwnModules, CodeStaysInItsSandbox
  <1>9. ASSUME NEW e \in Env, NewSandbox(e) PROVE BoxInv'
    <2>1. Ctor \in BoxName /\ Ctor \in Module
      BY SandboxAssumption DEF BoxName
    <2>2. PICK s \in Scripts : BoxRun(chunk, Ctor, Append(boxStack, BoxFrame(e, s)))
      BY <1>9 DEF NewSandbox
    <2>3. Append(boxStack, BoxFrame(e, s)) \in Seq(Script)
      <3>1. BoxFrame(e, s) \in Script
        BY SandboxAssumption DEF BoxFrame, Script
      <3> QED
        BY <1>2, <3>1, AppendProperties
    <2>4. boxStack' \in Seq(Script) /\ CodeStaysInItsSandbox'
      BY <1>1, <1>2, <2>1, <2>2, <2>3, RunKeeps
    <2>5. /\ loaded' = [loaded EXCEPT ![e] = preload, ![chunk] = BoxLoaded(chunk, Ctor)]
          /\ made' = made \cup {e} /\ UNCHANGED <<finds, chunk>>
      BY <1>9 DEF NewSandbox
    <2>6. loaded' \in [Env -> [BoxName -> CodeOf]] /\ OwnModules'
      <3>1. /\ BoxLoaded(chunk, Ctor) \in [BoxName -> CodeOf]
            /\ \A m \in Module : BoxLoaded(chunk, Ctor)[m] \in {BoxNone, chunk}
        BY <1>1, <1>2, <2>1, LoadedIsOwn
      <3> DEFINE new == BoxLoaded(chunk, Ctor)
      <3> HIDE DEF new
      <3>2. \A f \in Env : loaded'[f] = IF f = chunk THEN new
                                        ELSE IF f = e THEN preload ELSE loaded[f]
        BY <1>2, <2>5 DEF new
      <3> QED
        BY <1>1, <1>2, <2>5, <3>1, <3>2, PreloadIsNobodys DEF OwnModules, new
    <2> QED
      BY <1>2, <2>4, <2>5, <2>6 DEF BoxInv, BoxTypeOK
  <1> QED
    BY <1>4, <1>5, <1>6, <1>7, <1>8, <1>9 DEF BoxNext

\* The code of a module runs only in the sandbox that loaded it, whatever scripts require,
\* in whatever order sandboxes are made, and also after requires that threw
\* (init.lua:17-22, 124-134).
THEOREM CodeStaysHome == BoxSpec => []CodeStaysInItsSandbox
  <1>1. BoxInv => CodeStaysInItsSandbox
    BY DEF BoxInv
  <1> QED
    BY <1>1, BoxInitInv, BoxNextInv, PTL DEF BoxSpec

-----------------------------------------------------------------------------
(* The cache command. *)

CacheTypeOK ==
  /\ cacheRow \in Local \cup {Tree, CacheNone}
  /\ pc \in [CacheProc -> {"idle", "load", "delete", "remove", "insert", "look", "exists",
                           "fetch", "verify"}]
  /\ command \in [CacheProc -> {"none", "add", "rm", "sync"}]
  /\ path \in [CacheProc -> Local \cup {Tree, CacheNone}]
  /\ added \in [CacheProc -> SUBSET Local] /\ gone \in [CacheProc -> BOOLEAN]

\* The steps that a command takes, and what it saves.
AtItsCommand(p) ==
  /\ pc[p] = "load" => command[p] \in {"add", "rm"} /\ path[p] \in Local
  /\ pc[p] = "remove" => command[p] = "rm"
  /\ pc[p] \in {"delete", "insert"} => \/ command[p] = "add" /\ path[p] \in Local
                                       \/ command[p] = "sync" /\ path[p] = Tree
  /\ pc[p] \in {"look", "exists", "fetch", "verify"} => command[p] = "sync"

\* A sync that downloads could not use the directory that the row names.
CouldNotUse(p) ==
  pc[p] \in {"fetch", "delete", "insert", "verify"} /\ command[p] = "sync" /\ cacheRow \in Local
    => gone[p] \/ cacheRow \in added[p]

CacheInv == CacheTypeOK /\ \A p \in CacheProc : AtItsCommand(p) /\ CouldNotUse(p)

LEMMA CacheInitInv == CacheInit => CacheInv
  BY DEF CacheInit, CacheInv, CacheTypeOK, AtItsCommand, CouldNotUse

\* What a step of p that leaves the row alone has to keep.
LEMMA RowUntouched ==
  ASSUME CacheInv, NEW p \in CacheProc, UNCHANGED cacheRow, CacheTypeOK',
         \A q \in CacheProc \ {p} : /\ pc'[q] = pc[q] /\ command'[q] = command[q]
                                    /\ path'[q] = path[q] /\ added'[q] = added[q]
                                    /\ gone'[q] = gone[q],
         AtItsCommand(p)', CouldNotUse(p)'
  PROVE  CacheInv'
  <1> SUFFICES ASSUME NEW q \in CacheProc \ {p} PROVE AtItsCommand(q)' /\ CouldNotUse(q)'
    BY DEF CacheInv
  <1>1. AtItsCommand(q) /\ CouldNotUse(q)
    BY DEF CacheInv
  <1> QED
    BY <1>1 DEF AtItsCommand, CouldNotUse

LEMMA CacheNextInv == CacheInv /\ [CacheNext]_cacheVars => CacheInv'
  <1> SUFFICES ASSUME CacheInv, [CacheNext]_cacheVars PROVE CacheInv'
    OBVIOUS
  <1> USE DEF CacheAt, CacheGo, CacheEnd, cacheProcess, cacheHistory
  <1>1. CacheTypeOK /\ \A p \in CacheProc : AtItsCommand(p) /\ CouldNotUse(p)
    BY DEF CacheInv
  <1>2. CASE UNCHANGED cacheVars
    BY <1>1, <1>2 DEF cacheVars, CacheInv, CacheTypeOK, AtItsCommand, CouldNotUse
  <1>3. ASSUME NEW l \in Local, RemoveDirectory(l) PROVE CacheInv'
    BY <1>1, <1>3 DEF RemoveDirectory, CacheInv, CacheTypeOK, AtItsCommand, CouldNotUse
  <1>4. ASSUME NEW p \in CacheProc, BeginCache(p) \/ BeginSync(p) PROVE CacheInv'
    <2>1. PICK what \in {"add", "rm", "sync"}, l \in Local \cup {CacheNone},
                 place \in {"load", "look"} :
            /\ Begin(p, what, l, place)
            /\ what = "sync" => place = "look"
            /\ what # "sync" => place = "load" /\ l \in Local
      <3>1. CASE BeginCache(p)
        <4>1. PICK what \in {"add", "rm"}, l \in Local : Begin(p, what, l, "load")
          BY <3>1 DEF BeginCache
        <4> QED
          BY <4>1
      <3>2. CASE BeginSync(p)
        BY <3>2 DEF BeginSync
      <3> QED
        BY <1>4, <3>1, <3>2
    <2>2. CacheTypeOK' /\ UNCHANGED cacheRow
      BY <1>1, <2>1 DEF Begin, CacheTypeOK
    <2>3. AtItsCommand(p)' /\ CouldNotUse(p)'
      BY <1>1, <2>1 DEF Begin, CacheTypeOK, AtItsCommand, CouldNotUse
    <2> QED
      BY <1>1, <2>1, <2>2, <2>3, RowUntouched DEF Begin, CacheTypeOK
  <1>5. ASSUME NEW p \in CacheProc,
               \/ Load(p) \/ InsertFails(p) \/ Exists(p) \/ CacheFetchFails(p) \/ Verify(p)
               \/ CacheDatabaseLocked(p) \/ CacheCrash(p)
        PROVE  CacheInv'
    <2>1. /\ UNCHANGED <<cacheRow, command, path, added>>
          /\ \E place \in {"idle", "delete", "remove", "fetch"} : CacheGo(p, place)
      BY <1>5 DEF Load, InsertFails, Exists, CacheFetchFails, Verify, CacheDatabaseLocked,
                  CacheCrash
    <2>2. /\ gone' \in [CacheProc -> BOOLEAN]
          /\ \A q \in CacheProc \ {p} : gone'[q] = gone[q]
      BY <1>1, <1>5 DEF Load, InsertFails, Exists, CacheFetchFails, Verify,
                        CacheDatabaseLocked, CacheCrash, CacheTypeOK
    <2>3. CacheTypeOK'
      BY <1>1, <2>1, <2>2 DEF CacheTypeOK
    <2>4. /\ pc'[p] # "idle" => pc[p] \in {"load", "exists"}
          /\ pc'[p] = "remove" => command[p] = "rm" /\ pc[p] = "load"
          /\ pc'[p] = "delete" => command[p] = "add" /\ pc[p] = "load"
          /\ pc'[p] = "fetch" => gone'[p] /\ pc[p] = "exists"
          /\ pc'[p] \in {"idle", "remove", "delete", "fetch"}
      BY <1>1, <1>5 DEF Load, InsertFails, Exists, CacheFetchFails, Verify,
                        CacheDatabaseLocked, CacheCrash, CacheTypeOK, AtItsCommand
    <2>5. AtItsCommand(p)' /\ CouldNotUse(p)'
      BY <1>1, <2>1, <2>4 DEF CacheTypeOK, AtItsCommand, CouldNotUse
    <2> QED
      BY <1>1, <2>1, <2>2, <2>3, <2>5, RowUntouched DEF CacheTypeOK
  <1>6. ASSUME NEW p \in CacheProc, CacheLook(p) \/ CacheFetch(p) PROVE CacheInv'
    <2>1. CacheTypeOK' /\ UNCHANGED cacheRow
      BY <1>1, <1>6 DEF CacheLook, CacheFetch, CacheTypeOK
    <2>2. CASE CacheLook(p)
      <3>1. AtItsCommand(p)' /\ CouldNotUse(p)'
        BY <1>1, <2>2, PackageCacheAssumption
           DEF CacheLook, CacheTypeOK, AtItsCommand, CouldNotUse
      <3> QED
        BY <1>1, <2>1, <2>2, <3>1, RowUntouched DEF CacheLook, CacheTypeOK
    <2>3. CASE CacheFetch(p)
      <3>1. AtItsCommand(p)' /\ CouldNotUse(p)'
        BY <1>1, <2>3 DEF CacheFetch, CacheTypeOK, AtItsCommand, CouldNotUse
      <3> QED
        BY <1>1, <2>1, <2>3, <3>1, RowUntouched DEF CacheFetch, CacheTypeOK
    <2> QED
      BY <1>6, <2>2, <2>3
  <1>7. ASSUME NEW p \in CacheProc, RemoveRow(p) \/ Delete(p) PROVE CacheInv'
    <2>1. /\ cacheRow' \in {cacheRow, CacheNone} /\ UNCHANGED <<command, path, added, gone>>
          /\ \/ pc[p] = "remove" /\ pc' = [pc EXCEPT ![p] = "idle"]
             \/ pc[p] = "delete" /\ pc' = [pc EXCEPT ![p] = "insert"]
      BY <1>7 DEF RemoveRow, Delete
    <2>2. CacheTypeOK'
      BY <1>1, <2>1 DEF CacheTypeOK
    <2>3. \A q \in CacheProc : AtItsCommand(q)' /\ CouldNotUse(q)'
      BY <1>1, <2>1, PackageCacheAssumption DEF CacheTypeOK, AtItsCommand, CouldNotUse
    <2> QED
      BY <2>2, <2>3 DEF CacheInv
  <1>8. ASSUME NEW p \in CacheProc, Insert(p) PROVE CacheInv'
    <2>1. /\ CacheAt(p, "insert") /\ cacheRow' = path[p] /\ UNCHANGED <<command, path, gone>>
          /\ added' = IF command[p] = "add"
                        THEN [q \in CacheProc |-> added[q] \cup {path[p]}] ELSE added
          /\ \E place \in {"idle", "delete", "verify"} :
               CacheGo(p, place) /\ (place # "idle" => command[p] # "add")
      BY <1>8 DEF Insert
    <2>2. \/ command[p] = "add" /\ path[p] \in Local
          \/ command[p] = "sync" /\ path[p] = Tree
      BY <1>1, <2>1 DEF AtItsCommand
    <2>3. CacheTypeOK'
      BY <1>1, <2>1, <2>2 DEF CacheTypeOK
    <2>4. \A q \in CacheProc : AtItsCommand(q)'
      BY <1>1, <2>1, <2>2 DEF CacheTypeOK, AtItsCommand
    <2>5. \A q \in CacheProc : CouldNotUse(q)'
      BY <1>1, <2>1, <2>2, PackageCacheAssumption DEF CacheTypeOK, CouldNotUse
    <2> QED
      BY <2>3, <2>4, <2>5 DEF CacheInv
  <1> QED
    BY <1>2, <1>3, <1>4, <1>5, <1>6, <1>7, <1>8 DEF CacheNext, CacheStep

\* A row that names a directory of the user goes only by "cache rm" of that directory, by a
\* "cache add", or by a sync that could not use it, for any number of processes and
\* directories, whatever crashes or is removed (repo.lua:119-158, sync.lua:113-130).
THEOREM CachedRowStays == CacheSpec => CachedStays
  <1>1. ASSUME CacheInv, [CacheNext]_cacheVars, cacheRow' # cacheRow, cacheRow \in Local
        PROVE  \E p \in CacheProc :
                 \/ command[p] = "rm" /\ CacheAt(p, "remove") /\ path[p] = cacheRow
                 \/ command[p] = "add" /\ CacheAt(p, "delete")
                 \/ /\ command[p] = "sync" /\ CacheAt(p, "delete")
                    /\ gone[p] \/ cacheRow \in added[p]
    <2>1. PICK p \in CacheProc : RemoveRow(p) \/ Delete(p)
      <3>1. CacheNext
        BY <1>1 DEF cacheVars
      <3>2. ASSUME NEW l \in Local, RemoveDirectory(l) PROVE FALSE
        BY <1>1, <3>2 DEF RemoveDirectory
      <3>3. PICK p \in CacheProc : BeginCache(p) \/ BeginSync(p) \/ CacheStep(p) \/ CacheCrash(p)
        BY <3>1, <3>2 DEF CacheNext
      <3>4. ~BeginCache(p) /\ ~BeginSync(p) /\ ~CacheCrash(p)
        BY <1>1 DEF BeginCache, BeginSync, Begin, CacheCrash
      <3>5. /\ ~Load(p) /\ ~InsertFails(p) /\ ~CacheLook(p) /\ ~Exists(p) /\ ~CacheFetch(p)
            /\ ~CacheFetchFails(p) /\ ~Verify(p) /\ ~CacheDatabaseLocked(p)
        BY <1>1 DEF Load, InsertFails, CacheLook, Exists, CacheFetch, CacheFetchFails, Verify,
                    CacheDatabaseLocked
      <3>6. ~Insert(p)
        BY <1>1, PackageCacheAssumption DEF Insert
      <3> QED
        BY <3>3, <3>4, <3>5, <3>6 DEF CacheStep
    <2>2. AtItsCommand(p) /\ CouldNotUse(p)
      BY <1>1 DEF CacheInv
    <2>3. CASE RemoveRow(p)
      BY <1>1, <2>2, <2>3 DEF RemoveRow, AtItsCommand, CacheAt
    <2>4. CASE Delete(p)
      BY <1>1, <2>2, <2>4 DEF Delete, AtItsCommand, CouldNotUse, CacheAt
    <2> QED
      BY <2>1, <2>3, <2>4
  <1>2. CacheInv /\ [CacheNext]_cacheVars =>
          [cacheRow' # cacheRow /\ cacheRow \in Local =>
             \E p \in CacheProc :
               \/ command[p] = "rm" /\ CacheAt(p, "remove") /\ path[p] = cacheRow
               \/ command[p] = "add" /\ CacheAt(p, "delete")
               \/ /\ command[p] = "sync" /\ CacheAt(p, "delete")
                  /\ gone[p] \/ cacheRow \in added[p]]_cacheVars
    BY <1>1
  <1> QED
    BY <1>2, CacheInitInv, CacheNextInv, PTL DEF CacheSpec, CachedStays

-----------------------------------------------------------------------------
(* Plugins. *)

File   == [version : Version, whole : BOOLEAN, by : Proc \cup {"nobody"}]
Loader == [of : Source, todo : SUBSET Package, plugin : Package, known : BOOLEAN]
InstallSteps == {"install", "create", "write", "forget", "save"}

LoaderTypeOK ==
  /\ row \in [Source -> SUBSET (Package \X Version)]
  /\ main \in [Source -> [Package -> File]]
  /\ stack \in [Proc -> Seq(Loader)]
  /\ at \in [Proc -> {"idle", "load", "setup", "run"} \cup InstallSteps]
  /\ asked \in [Proc -> Version]
  /\ ran \in [Proc -> SUBSET (Source \X Package \X Version \X File)]
  /\ \A p \in Proc : at[p] # "idle" => stack[p] # <<>>

Clean(s, n)   == <<s, n>> \notin Troubled
AskedOf(p, s) == IF s[1] = Root THEN asked[p] ELSE Default
RightFile(s, n, v) == main[s][n].whole /\ main[s][n].version = v

\* A row in a plugin.db says that the file is there.
RowMeansWhole ==
  \A s \in Source, n \in Package, v \in Version :
    <<n, v>> \in row[s] /\ Clean(s, n) => RightFile(s, n, v)

\* Who installs does so alone, or it is noticed.
OneInstalls ==
  \A p, q \in Proc :
    p # q /\ Installing(p) /\ Installing(q) /\ Place(p) = Place(q) => Place(p) \in shared

\* What a loader has been told by the database is so until its plugin runs.
KnownHasRow(p) ==
  \A k \in 1..Len(stack[p]) :
    stack[p][k].known /\ Clean(stack[p][k].of, stack[p][k].plugin) =>
      <<stack[p][k].plugin, AskedOf(p, stack[p][k].of)>> \in row[stack[p][k].of]

\* While a plugin is installed there is no row for it, and what is written is its own.
InstallsRight(p) ==
  Clean(Owner(p), Plugin(p)) =>
    /\ at[p] \in {"create", "write", "forget", "save"} =>
         \A v \in Version : <<Plugin(p), v>> \notin row[Owner(p)]
    /\ at[p] = "write" => Main(p).version = Asks(p, Plugin(p)) /\ Main(p).by = p
    /\ at[p] \in {"forget", "save"} => RightFile(Owner(p), Plugin(p), Asks(p, Plugin(p)))
    /\ at[p] = "run" => Wanted(p) \in row[Owner(p)]

LoaderInv ==
  /\ LoaderTypeOK /\ RowMeansWhole /\ OneInstalls /\ RunsWhatItAsked
  /\ \A p \in Proc : KnownHasRow(p) /\ InstallsRight(p)

LEMMA TopIs ==
  ASSUME LoaderTypeOK, NEW p \in Proc, at[p] # "idle"
  PROVE  /\ Top(p) \in Loader /\ Top(p) = stack[p][Len(stack[p])]
         /\ Owner(p) \in Source /\ Plugin(p) \in Package
         /\ Asks(p, Plugin(p)) \in Version
         /\ \A n : Asks(p, n) \in Version /\ Asks(p, n) = AskedOf(p, Owner(p))
         /\ row[Owner(p)] \subseteq Package \X Version
         /\ main[Owner(p)] \in [Package -> File] /\ Main(p) \in File
  <1>1. stack[p] \in Seq(Loader) /\ stack[p] # <<>> /\ asked[p] \in Version
    BY DEF LoaderTypeOK
  <1>2. Top(p) \in Loader /\ Top(p) = stack[p][Len(stack[p])]
    BY <1>1, OnTop DEF Top
  <1>3. Owner(p) \in Source /\ Plugin(p) \in Package
    BY <1>2 DEF Owner, Plugin, Loader
  <1>4. \A n : Asks(p, n) \in Version /\ Asks(p, n) = AskedOf(p, Owner(p))
    BY <1>1, PluginAssumption DEF Asks, AskedOf
  <1>5. row[Owner(p)] \subseteq Package \X Version /\ main[Owner(p)] \in [Package -> File]
    BY <1>3 DEF LoaderTypeOK
  <1> QED
    BY <1>2, <1>3, <1>4, <1>5 DEF Main

LEMMA NewLoader == ASSUME NEW s \in Source
                   PROVE  Frame(s) \in Loader /\ Frame(s).known = FALSE
  BY PluginAssumption DEF Frame, Loader, Source

\* A stack on whose top frame, now f, there is g.
LEMMA Pushed ==
  ASSUME NEW S, NEW s \in Seq(S), s # <<>>, NEW f \in S, NEW g \in S
  PROVE  LET t == Append(Append(Front(s), f), g) IN
           /\ t \in Seq(S) /\ t # <<>> /\ Len(t) = Len(s) + 1 /\ Len(s) \in Nat \ {0}
           /\ \A k \in 1..(Len(s) - 1) : t[k] = s[k]
           /\ t[Len(s)] = f /\ t[Len(s) + 1] = g
  <1> DEFINE r == Front(s)
  <1>1. /\ r \in Seq(S) /\ Len(s) \in Nat \ {0} /\ Len(r) = Len(s) - 1
        /\ \A i \in 1..(Len(s) - 1) : r[i] = s[i]
    BY OnTop
  <1> HIDE DEF r
  <1> DEFINE u == Append(r, f)
  <1>2. /\ u \in Seq(S) /\ Len(u) = Len(s) /\ u[Len(s)] = f
        /\ \A i \in 1..(Len(s) - 1) : u[i] = s[i]
    BY <1>1, AppendProperties
  <1> HIDE DEF u
  <1> DEFINE t == Append(u, g)
  <1>3. /\ t \in Seq(S) /\ t # <<>> /\ Len(t) = Len(s) + 1 /\ t[Len(s) + 1] = g
        /\ \A i \in 1..Len(s) : t[i] = u[i]
    BY <1>1, <1>2, AppendProperties
  <1>4. \A i \in 1..(Len(s) - 1) : i \in 1..Len(s)
    BY <1>1
  <1>5. Len(s) \in 1..Len(s)
    BY <1>1
  <1>6. t[Len(s)] = f /\ \A k \in 1..(Len(s) - 1) : t[k] = s[k]
    BY <1>2, <1>3, <1>4, <1>5
  <1> QED
    BY <1>1, <1>3, <1>6 DEF t, u, r

\* What is known stays so while no row is lost.
LEMMA KnownKept ==
  ASSUME LoaderTypeOK, NEW q \in Proc, KnownHasRow(q), Troubled \subseteq Troubled',
         stack'[q] = stack[q], asked'[q] = asked[q],
         \A s \in Source, n \in Package, v \in Version :
           <<s, n>> \notin Troubled' /\ <<n, v>> \in row[s] => <<n, v>> \in row'[s]
  PROVE  KnownHasRow(q)'
  <1> SUFFICES ASSUME NEW k \in 1..Len(stack[q]), stack[q][k].known,
                      Clean(stack[q][k].of, stack[q][k].plugin)'
               PROVE  <<stack[q][k].plugin, AskedOf(q, stack[q][k].of)>> \in row'[stack[q][k].of]
    BY DEF KnownHasRow, Clean, AskedOf
  <1>1. stack[q] \in Seq(Loader) /\ asked[q] \in Version
    BY DEF LoaderTypeOK
  <1>2. stack[q][k] \in Loader
    BY <1>1, ElementOfSeq
  <1>3. stack[q][k].of \in Source /\ stack[q][k].plugin \in Package
    BY <1>2 DEF Loader
  <1>4. AskedOf(q, stack[q][k].of) \in Version
    BY <1>1, PluginAssumption DEF AskedOf
  <1>5. <<stack[q][k].plugin, AskedOf(q, stack[q][k].of)>> \in row[stack[q][k].of]
    BY DEF KnownHasRow, Clean
  <1> QED
    BY <1>3, <1>4, <1>5 DEF Clean

\* A step of p disturbs nobody else: where others install it is noticed.
LEMMA OthersKeep ==
  ASSUME LoaderInv, NEW p \in Proc, NEW q \in Proc, q # p, Troubled \subseteq Troubled',
         stack'[q] = stack[q], asked'[q] = asked[q], at'[q] = at[q],
         \A s \in Source, n \in Package :
           <<s, n>> \notin Troubled' /\ ~(Installing(p) /\ <<s, n>> = Place(p)) =>
             /\ main'[s][n] = main[s][n]
             /\ \A v \in Version : <<n, v>> \in row'[s] <=> <<n, v>> \in row[s],
         \A s \in Source, n \in Package, v \in Version :
           <<s, n>> \notin Troubled' /\ <<n, v>> \in row[s] => <<n, v>> \in row'[s]
  PROVE  KnownHasRow(q)' /\ InstallsRight(q)'
  <1>1. LoaderTypeOK /\ KnownHasRow(q) /\ InstallsRight(q) /\ OneInstalls
    BY DEF LoaderInv
  <1>2. KnownHasRow(q)'
    BY <1>1, KnownKept
  <1>3. InstallsRight(q)'
    <2>1. /\ Owner(q)' = Owner(q) /\ Plugin(q)' = Plugin(q)
          /\ Asks(q, Plugin(q))' = Asks(q, Plugin(q)) /\ Wanted(q)' = Wanted(q)
          /\ Main(q)' = main'[Owner(q)][Plugin(q)]
      BY DEF Owner, Plugin, Top, Asks, Wanted, Main
    <2> SUFFICES ASSUME at[q] # "idle", <<Owner(q), Plugin(q)>> \notin Troubled'
                 PROVE  InstallsRight(q)'
      BY <2>1 DEF InstallsRight, Clean
    <2>2. /\ Owner(q) \in Source /\ Plugin(q) \in Package /\ Asks(q, Plugin(q)) \in Version
      BY <1>1, TopIs
    <2>3. Clean(Owner(q), Plugin(q))
      BY DEF Clean
    <2>4. CASE Installing(q)
      <3>1. ~(Installing(p) /\ Place(q) = Place(p))
        BY <1>1, <2>3, <2>4 DEF OneInstalls, Clean, Troubled, Place
      <3>2. /\ main'[Owner(q)][Plugin(q)] = main[Owner(q)][Plugin(q)]
            /\ \A v \in Version : <<Plugin(q), v>> \in row'[Owner(q)]
                                    <=> <<Plugin(q), v>> \in row[Owner(q)]
        BY <2>2, <3>1 DEF Place
      <3> QED
        BY <1>1, <2>1, <2>3, <2>4, <3>2 DEF InstallsRight, RightFile, Main, Installing
    <2>5. CASE ~Installing(q)
      BY <1>1, <2>1, <2>2, <2>3, <2>5 DEF InstallsRight, Installing, Wanted
    <2> QED
      BY <2>4, <2>5
  <1> QED
    BY <1>2, <1>3

\* Who goes on installing where it was is noticed as before.
LEMMA StillNoticed ==
  ASSUME OneInstalls, NEW p \in Proc, shared \subseteq shared',
         \A q \in Proc \ {p} : stack'[q] = stack[q] /\ at'[q] = at[q],
         Installing(p)' => Installing(p) /\ stack'[p] = stack[p]
  PROVE  OneInstalls'
  <1>1. \A q \in Proc : Installing(q)' => Installing(q) /\ Place(q)' = Place(q)
    BY DEF Installing, Place, Owner, Plugin, Top
  <1> QED
    BY <1>1 DEF OneInstalls

\* What was run was right when it was run.
LEMMA RanKept ==
  ASSUME RunsWhatItAsked, Troubled \subseteq Troubled', \A q \in Proc : ran'[q] \subseteq ran[q]
  PROVE  RunsWhatItAsked'
  BY DEF RunsWhatItAsked

\* A step of p that writes nothing.
LEMMA DiskUntouched ==
  ASSUME LoaderInv, LoaderTypeOK', NEW p \in Proc, UNCHANGED disk,
         Troubled \subseteq Troubled',
         \A q \in Proc \ {p} : stack'[q] = stack[q] /\ at'[q] = at[q] /\ asked'[q] = asked[q],
         OneInstalls', RunsWhatItAsked', KnownHasRow(p)', InstallsRight(p)'
  PROVE  LoaderInv'
  <1>1. RowMeansWhole'
    BY DEF LoaderInv, RowMeansWhole, RightFile, Clean, disk
  <1>2. ASSUME NEW q \in Proc \ {p} PROVE KnownHasRow(q)' /\ InstallsRight(q)'
    BY OthersKeep DEF disk
  <1> QED
    BY <1>1, <1>2 DEF LoaderInv

\* An error that only main catches leaves nothing to keep.
LEMMA ThrowKeeps ==
  ASSUME LoaderInv, NEW p \in Proc, Go(p, "idle"), stack' = [stack EXCEPT ![p] = <<>>],
         UNCHANGED <<disk, past, asked>>, RunsWhatItAsked',
         ran' \in [Proc -> SUBSET (Source \X Package \X Version \X File)]
  PROVE  LoaderInv'
  <1>1. LoaderTypeOK
    BY DEF LoaderInv
  <1>2. /\ stack' \in [Proc -> Seq(Loader)] /\ stack'[p] = <<>> /\ at'[p] = "idle"
        /\ \A q \in Proc \ {p} : stack'[q] = stack[q] /\ at'[q] = at[q]
    BY <1>1, EmptySeq DEF Go, LoaderTypeOK
  <1>3. LoaderTypeOK'
    BY <1>1, <1>2 DEF LoaderTypeOK, Go, disk
  <1>4. Troubled \subseteq Troubled' /\ shared' = shared
    BY DEF past, Troubled
  <1>5. OneInstalls'
    BY <1>2, <1>4, StillNoticed DEF LoaderInv, Installing
  <1>6. KnownHasRow(p)' /\ InstallsRight(p)'
    <2>1. Len(stack'[p]) = 0
      BY <1>2, EmptySeq
    <2> QED
      BY <1>2, <2>1 DEF KnownHasRow, InstallsRight
  <1> QED
    BY <1>2, <1>3, <1>4, <1>5, <1>6, DiskUntouched

LEMMA Throws ==
  ASSUME LoaderInv, NEW p \in Proc, NEW why, Throw(p, why), UNCHANGED <<disk, past>>
  PROVE  LoaderInv'
  <1>1. RunsWhatItAsked'
    BY RanKept DEF LoaderInv, Throw, past, Troubled
  <1> QED
    BY <1>1, ThrowKeeps DEF Throw, LoaderInv, LoaderTypeOK

\* A stack that is only higher or lower, or new.
LEMMA Climbs ==
  ASSUME LoaderInv, NEW p \in Proc, UNCHANGED <<disk, past>>,
         \A q \in Proc \ {p} : stack'[q] = stack[q] /\ at'[q] = at[q] /\ asked'[q] = asked[q],
         at'[p] \in {"load", "setup"}, KnownHasRow(p)',
         stack' \in [Proc -> Seq(Loader)], stack'[p] # <<>>, asked' \in [Proc -> Version],
         at' \in [Proc -> {"idle", "load", "setup", "run"} \cup InstallSteps],
         ran' \in [Proc -> SUBSET (Source \X Package \X Version \X File)],
         RunsWhatItAsked'
  PROVE  LoaderInv'
  <1>1. LoaderTypeOK'
    BY DEF LoaderInv, LoaderTypeOK, disk
  <1>2. Troubled \subseteq Troubled' /\ shared' = shared
    BY DEF past, Troubled
  <1>3. OneInstalls'
    BY <1>2, StillNoticed DEF LoaderInv, Installing
  <1>4. InstallsRight(p)'
    BY DEF InstallsRight
  <1> QED
    BY <1>1, <1>2, <1>3, <1>4, DiskUntouched

LEMMA StartKeeps == ASSUME LoaderInv, NEW p \in Proc, Start(p) PROVE LoaderInv'
  <1> DEFINE base == Frame(<<Root, Default>>)
  <1>1. base \in Loader /\ base.known = FALSE
    <2>1. <<Root, Default>> \in Source
      BY PluginAssumption DEF Source
    <2> QED
      BY <2>1, NewLoader
  <1> HIDE DEF base
  <1>2. LoaderTypeOK /\ RunsWhatItAsked
    BY DEF LoaderInv
  <1>3. /\ stack' = [stack EXCEPT ![p] = <<base>>] /\ Go(p, "load")
        /\ ran' = [ran EXCEPT ![p] = {}] /\ UNCHANGED <<disk, past>>
        /\ \E v \in Version : asked' = [asked EXCEPT ![p] = v]
    BY DEF Start, base
  <1>4. /\ <<base>> \in Seq(Loader) /\ Len(<<base>>) = 1 /\ <<base>>[1] = base
        /\ <<base>> # <<>>
    BY <1>1
  <1>5. /\ stack' \in [Proc -> Seq(Loader)] /\ stack'[p] = <<base>>
        /\ asked' \in [Proc -> Version] /\ at'[p] = "load"
        /\ at' \in [Proc -> {"idle", "load", "setup", "run"} \cup InstallSteps]
        /\ ran' \in [Proc -> SUBSET (Source \X Package \X Version \X File)]
        /\ \A q \in Proc : ran'[q] \subseteq ran[q]
        /\ \A q \in Proc \ {p} : stack'[q] = stack[q] /\ at'[q] = at[q] /\ asked'[q] = asked[q]
    BY <1>2, <1>3, <1>4 DEF LoaderTypeOK, Go
  <1>6. KnownHasRow(p)'
    <2>1. \A k \in 1..Len(stack'[p]) : ~stack'[p][k].known
      BY <1>1, <1>4, <1>5
    <2> QED
      BY <2>1 DEF KnownHasRow
  <1>7. RunsWhatItAsked'
    BY <1>2, <1>3, <1>5, RanKept DEF past, Troubled
  <1> QED
    BY <1>3, <1>4, <1>5, <1>6, <1>7, Climbs

\* A loader on top of one that has gone on: what is known of the plugin is in the database.
LEMMA DownKeeps ==
  ASSUME LoaderInv, NEW p \in Proc, at[p] \in {"load", "setup"}, NEW f \in Loader,
         NEW s \in Source,
         stack' = [stack EXCEPT ![p] = Append(Append(Front(@), f), Frame(s))],
         UNCHANGED <<disk, past, at, asked, ran>>,
         f.of = Owner(p),
         \/ f.known = Top(p).known /\ f.plugin = Top(p).plugin
         \/ f.known => <<f.plugin, AskedOf(p, f.of)>> \in row[f.of]
  PROVE  LoaderInv'
  <1> DEFINE g == Frame(s)  n == Len(stack[p])
  <1>1. LoaderTypeOK /\ RunsWhatItAsked /\ KnownHasRow(p)
    BY DEF LoaderInv
  <1>2. stack[p] \in Seq(Loader) /\ stack[p] # <<>> /\ Top(p) = stack[p][n]
    BY <1>1, TopIs DEF LoaderTypeOK
  <1>3. g \in Loader /\ g.known = FALSE
    BY NewLoader
  <1> HIDE DEF g
  <1>4. /\ stack'[p] \in Seq(Loader) /\ stack'[p] # <<>> /\ Len(stack'[p]) = n + 1
        /\ n \in Nat \ {0} /\ \A k \in 1..(n - 1) : stack'[p][k] = stack[p][k]
        /\ stack'[p][n] = f /\ stack'[p][n + 1] = g
        /\ stack' \in [Proc -> Seq(Loader)]
        /\ \A q \in Proc \ {p} : stack'[q] = stack[q]
    <2>1. stack' = [stack EXCEPT ![p] = Append(Append(Front(stack[p]), f), g)]
      BY DEF g
    <2>2. stack'[p] = Append(Append(Front(stack[p]), f), g)
      BY <1>1, <2>1 DEF LoaderTypeOK
    <2>3. /\ stack'[p] \in Seq(Loader) /\ stack'[p] # <<>> /\ Len(stack'[p]) = n + 1
          /\ n \in Nat \ {0} /\ \A k \in 1..(n - 1) : stack'[p][k] = stack[p][k]
          /\ stack'[p][n] = f /\ stack'[p][n + 1] = g
      BY <1>2, <1>3, <2>2, Pushed
    <2> QED
      BY <1>1, <2>1, <2>3 DEF LoaderTypeOK
  <1> HIDE DEF n
  <1>5. KnownHasRow(p)'
    <2> SUFFICES ASSUME NEW k \in 1..(n + 1), stack'[p][k].known,
                        Clean(stack'[p][k].of, stack'[p][k].plugin)
                 PROVE  <<stack'[p][k].plugin, AskedOf(p, stack'[p][k].of)>>
                          \in row[stack'[p][k].of]
      BY <1>4 DEF KnownHasRow, Clean, AskedOf, past, Troubled, disk
    <2>1. CASE k \in 1..(n - 1)
      <3>1. stack'[p][k] = stack[p][k] /\ k \in 1..Len(stack[p])
        BY <1>4, <2>1 DEF n
      <3> QED
        BY <1>1, <3>1, Zenon DEF KnownHasRow
    <2>2. CASE k = n
      <3>1. stack'[p][k] = f /\ n \in 1..Len(stack[p])
        BY <1>4, <2>2 DEF n
      <3>2. f.known /\ Clean(f.of, f.plugin)
        BY <3>1, Zenon
      <3>3. <<f.plugin, AskedOf(p, f.of)>> \in row[f.of]
        BY <1>1, <1>2, <3>1, <3>2, Zenon DEF KnownHasRow, Owner
      <3> QED
        BY <3>1, <3>3, Zenon
    <2>3. CASE k = n + 1
      <3>1. stack'[p][k] = g
        BY <1>4, <2>3
      <3> QED
        BY <1>3, <3>1, Zenon
    <2>4. k \in 1..(n - 1) \/ k = n \/ k = n + 1
      BY <1>4
    <2> QED
      BY <2>1, <2>2, <2>3, <2>4
  <1>6. RunsWhatItAsked'
    BY <1>1 DEF RunsWhatItAsked, past, Troubled
  <1> QED
    BY <1>1, <1>4, <1>5, <1>6, Climbs DEF LoaderTypeOK

LEMMA LoadKeeps ==
  ASSUME LoaderInv, NEW p \in Proc, LoadPlugin(p) \/ Query(p) PROVE LoaderInv'
  <1>1. LoaderTypeOK /\ at[p] \in {"load", "setup"}
    BY DEF LoaderInv, LoadPlugin, Query, At
  <1>2. /\ Top(p) \in Loader /\ Owner(p) \in Source
        /\ \A n : Asks(p, n) \in Version /\ Asks(p, n) = AskedOf(p, Owner(p))
    BY <1>1, TopIs
  <1>3. \A n \in Top(p).todo : n \in Package /\ <<n, Asks(p, n)>> \in Source
    BY <1>2 DEF Loader, Source
  <1>4. CASE LoadPlugin(p)
    <2>1. PICK n \in Top(p).todo :
            stack' = [stack EXCEPT ![p] =
                        Append(Append(Front(@), [Top(p) EXCEPT !.todo = @ \ {n}]),
                               Frame(<<n, Asks(p, n)>>))]
      BY <1>4 DEF LoadPlugin
    <2> DEFINE f == [Top(p) EXCEPT !.todo = @ \ {n}]
    <2>2. /\ f \in Loader /\ f.of = Owner(p) /\ f.known = Top(p).known
          /\ f.plugin = Top(p).plugin
      BY <1>2 DEF Loader, Owner
    <2>3. stack' = [stack EXCEPT ![p] = Append(Append(Front(@), f), Frame(<<n, Asks(p, n)>>))]
      BY <2>1
    <2> HIDE DEF f
    <2> QED
      BY <1>1, <1>3, <1>4, <2>2, <2>3, DownKeeps DEF LoadPlugin
  <1>5. CASE Query(p)
    <2>1. PICK n \in Top(p).todo :
            stack' = [stack EXCEPT ![p] =
                        Append(Append(Front(@), [Top(p) EXCEPT !.todo = @ \ {n}, !.plugin = n,
                                                               !.known = HasRow(p, n)]),
                               Frame(<<n, Asks(p, n)>>))]
      BY <1>5 DEF Query
    <2> DEFINE f == [Top(p) EXCEPT !.todo = @ \ {n}, !.plugin = n, !.known = HasRow(p, n)]
    <2>2. HasRow(p, n) \in BOOLEAN
      BY DEF HasRow
    <2>3. /\ f \in Loader /\ f.of = Owner(p) /\ f.plugin = n /\ f.known = HasRow(p, n)
      BY <1>2, <1>3, <2>2 DEF Loader, Owner
    <2>4. stack' = [stack EXCEPT ![p] = Append(Append(Front(@), f), Frame(<<n, Asks(p, n)>>))]
      BY <2>1
    <2> HIDE DEF f
    <2>5. f.known => <<f.plugin, AskedOf(p, f.of)>> \in row[f.of]
      BY <1>2, <2>3 DEF HasRow
    <2> QED
      BY <1>1, <1>3, <1>5, <2>3, <2>4, <2>5, DownKeeps DEF Query
  <1> QED
    BY <1>4, <1>5

\* A frame below the top is as it was when the loader on top returns.
LEMMA Returned ==
  ASSUME LoaderInv, NEW p \in Proc, at[p] # "idle", Len(stack[p]) > 1,
         stack' = [stack EXCEPT ![p] = Front(@)]
  PROVE  /\ stack' \in [Proc -> Seq(Loader)] /\ stack'[p] = Front(stack[p]) /\ stack'[p] # <<>>
         /\ \A q \in Proc \ {p} : stack'[q] = stack[q]
         /\ Len(stack'[p]) \in 1..Len(stack[p]) /\ 1..Len(stack'[p]) \subseteq 1..Len(stack[p])
         /\ \A k \in 1..Len(stack'[p]) : stack'[p][k] = stack[p][k]
         /\ Last(stack'[p]) = stack[p][Len(stack'[p])] /\ Last(stack'[p]) \in Loader
  <1>1. stack \in [Proc -> Seq(Loader)] /\ stack[p] # <<>>
    BY DEF LoaderInv, LoaderTypeOK
  <1>2. /\ Front(stack[p]) \in Seq(Loader) /\ Len(Front(stack[p])) = Len(stack[p]) - 1
        /\ \A k \in 1..(Len(stack[p]) - 1) : Front(stack[p])[k] = stack[p][k]
        /\ Len(stack[p]) \in Nat
    BY <1>1, OnTop
  <1>3. stack'[p] = Front(stack[p]) /\ stack' \in [Proc -> Seq(Loader)]
    BY <1>1, <1>2
  <1>4. stack'[p] # <<>>
    BY <1>2, <1>3, EmptySeq
  <1>5. Last(stack'[p]) \in Loader /\ Last(stack'[p]) = stack'[p][Len(stack'[p])]
    BY <1>3, <1>4, OnTop
  <1>6. Len(stack'[p]) \in 1..Len(stack'[p])
    BY <1>2, <1>3
  <1> QED
    BY <1>1, <1>2, <1>3, <1>4, <1>5, <1>6

LEMMA KnownBelow ==
  ASSUME NEW p \in Proc, KnownHasRow(p), Troubled \subseteq Troubled', row' = row,
         asked' = asked, 1..Len(stack'[p]) \subseteq 1..Len(stack[p]),
         \A k \in 1..Len(stack'[p]) : stack'[p][k] = stack[p][k]
  PROVE  KnownHasRow(p)'
  <1> SUFFICES ASSUME NEW k \in 1..Len(stack'[p]), stack'[p][k].known,
                      Clean(stack'[p][k].of, stack'[p][k].plugin)
               PROVE  <<stack'[p][k].plugin, AskedOf(p, stack'[p][k].of)>>
                        \in row[stack'[p][k].of]
    BY DEF KnownHasRow, Clean, AskedOf
  <1>1. stack'[p][k] = stack[p][k] /\ k \in 1..Len(stack[p])
    OBVIOUS
  <1> QED
    BY <1>1, Zenon DEF KnownHasRow

LEMMA LoadedKeeps == ASSUME LoaderInv, NEW p \in Proc, Loaded(p) PROVE LoaderInv'
  <1>1. /\ LoaderTypeOK /\ KnownHasRow(p) /\ RunsWhatItAsked /\ at[p] = "load"
        /\ UNCHANGED <<disk, past, asked, ran>>
    BY DEF LoaderInv, Loaded, At
  <1>2. RunsWhatItAsked'
    BY <1>1 DEF RunsWhatItAsked, past, Troubled
  <1>3. CASE Len(stack[p]) > 1
    <2>1. stack' = [stack EXCEPT ![p] = Front(@)] /\ UNCHANGED at
      BY <1>3 DEF Loaded
    <2>2. KnownHasRow(p)'
      <3>1. Troubled' = Troubled /\ row' = row /\ asked' = asked
        BY <1>1 DEF past, Troubled, disk
      <3> QED
        BY <1>1, <1>3, <2>1, <3>1, Returned, KnownBelow
    <2> QED
      BY <1>1, <1>2, <1>3, <2>1, <2>2, Returned, Climbs DEF LoaderTypeOK
  <1>4. CASE ~(Len(stack[p]) > 1)
    <2> DEFINE base == Frame(<<Root, Default>>)
    <2>1. base \in Loader /\ base.known = FALSE
      <3>1. <<Root, Default>> \in Source
        BY PluginAssumption DEF Source
      <3> QED
        BY <3>1, NewLoader
    <2>2. stack' = [stack EXCEPT ![p] = <<base>>] /\ Go(p, "setup")
      BY <1>4 DEF Loaded
    <2> HIDE DEF base
    <2>3. /\ <<base>> \in Seq(Loader) /\ Len(<<base>>) = 1 /\ <<base>>[1] = base
          /\ <<base>> # <<>>
      BY <2>1
    <2>4. /\ stack' \in [Proc -> Seq(Loader)] /\ stack'[p] = <<base>> /\ at'[p] = "setup"
          /\ at' \in [Proc -> {"idle", "load", "setup", "run"} \cup InstallSteps]
          /\ \A q \in Proc \ {p} : stack'[q] = stack[q] /\ at'[q] = at[q]
      BY <1>1, <2>2, <2>3 DEF LoaderTypeOK, Go
    <2>5. KnownHasRow(p)'
      <3>1. \A k \in 1..Len(stack'[p]) : ~stack'[p][k].known
        BY <2>1, <2>3, <2>4
      <3> QED
        BY <3>1 DEF KnownHasRow
    <2> QED
      BY <1>1, <1>2, <2>3, <2>4, <2>5, Climbs DEF LoaderTypeOK
  <1> QED
    BY <1>3, <1>4

LEMMA SetUpKeeps == ASSUME LoaderInv, NEW p \in Proc, SetUp(p) PROVE LoaderInv'
  <1> DEFINE top == Last(Front(stack[p]))
  <1>1. /\ LoaderTypeOK /\ KnownHasRow(p) /\ RunsWhatItAsked /\ OneInstalls /\ at[p] = "setup"
        /\ Len(stack[p]) > 1 /\ stack' = [stack EXCEPT ![p] = Front(@)]
        /\ UNCHANGED <<disk, over, unmade, asked, ran>>
    BY DEF LoaderInv, SetUp, At
  <1>2. \/ top.known /\ Go(p, "run") /\ UNCHANGED shared
        \/ /\ Go(p, "install")
           /\ shared' = IF \E q \in Proc \ {p} : Installing(q) /\ Place(q) = <<top.of, top.plugin>>
                          THEN shared \cup {<<top.of, top.plugin>>} ELSE shared
    BY DEF SetUp
  <1>3. /\ stack' \in [Proc -> Seq(Loader)] /\ stack'[p] = Front(stack[p]) /\ stack'[p] # <<>>
        /\ \A q \in Proc \ {p} : stack'[q] = stack[q]
        /\ Len(stack'[p]) \in 1..Len(stack[p]) /\ 1..Len(stack'[p]) \subseteq 1..Len(stack[p])
        /\ \A k \in 1..Len(stack'[p]) : stack'[p][k] = stack[p][k]
        /\ top = stack[p][Len(stack'[p])] /\ top \in Loader
    BY <1>1, Returned
  <1>4. /\ Owner(p)' = top.of /\ Plugin(p)' = top.plugin /\ Place(p)' = <<top.of, top.plugin>>
        /\ Wanted(p)' = <<top.plugin, AskedOf(p, top.of)>>
    BY <1>1, <1>3 DEF Owner, Plugin, Top, Place, Wanted, Asks, AskedOf
  <1>5. Troubled \subseteq Troubled' /\ shared \subseteq shared'
    BY <1>1, <1>2 DEF Troubled
  <1> HIDE DEF top
  <1>6. at'[p] \in {"run", "install"} /\ \A q \in Proc \ {p} : at'[q] = at[q]
    BY <1>1, <1>2 DEF Go, LoaderTypeOK
  <1>7. LoaderTypeOK'
    BY <1>1, <1>2, <1>3 DEF LoaderTypeOK, Go, InstallSteps, disk
  <1>8. KnownHasRow(p)'
    <2>1. row' = row /\ asked' = asked
      BY <1>1 DEF disk
    <2> QED
      BY <1>1, <1>3, <1>5, <2>1, KnownBelow
  <1>9. RunsWhatItAsked'
    BY <1>1, <1>5, RanKept
  <1>10. OneInstalls'
    <2>1. CASE ~Installing(p)'
      BY <1>1, <1>3, <1>5, <1>6, <2>1, StillNoticed
    <2>2. CASE Installing(p)'
      <3>1. shared' = IF \E q \in Proc \ {p} : Installing(q) /\ Place(q) = Place(p)'
                        THEN shared \cup {Place(p)'} ELSE shared
        BY <1>1, <1>2, <1>4, <2>2 DEF Installing, Go, LoaderTypeOK
      <3>2. \A q \in Proc \ {p} : /\ Installing(q)' <=> Installing(q)
                                  /\ Place(q)' = Place(q)
        BY <1>3, <1>6 DEF Installing, Place, Owner, Plugin, Top
      <3>3. ASSUME NEW q \in Proc \ {p}, Installing(q)', Place(q)' = Place(p)'
            PROVE  Place(p)' \in shared'
        BY <3>1, <3>2, <3>3
      <3> QED
        BY <1>1, <1>5, <3>2, <3>3 DEF OneInstalls
    <2> QED
      BY <2>1, <2>2
  <1>11. InstallsRight(p)'
    <2>1. CASE at'[p] = "install"
      BY <2>1 DEF InstallsRight
    <2>2. CASE at'[p] = "run"
      <3>1. top.known
        BY <1>1, <1>2, <2>2 DEF Go, LoaderTypeOK
      <3>2. <<top.of, top.plugin>> \notin Troubled' =>
              <<top.plugin, AskedOf(p, top.of)>> \in row[top.of]
        <4>1. Len(stack'[p]) \in 1..Len(stack[p])
          BY <1>3
        <4>2. <<top.of, top.plugin>> \notin Troubled' => Clean(top.of, top.plugin)
          BY <1>5 DEF Clean
        <4> QED
          BY <1>1, <1>3, <3>1, <4>1, <4>2, Zenon DEF KnownHasRow
      <3>3. row' = row
        BY <1>1 DEF disk
      <3>4. Clean(Owner(p), Plugin(p))' => (Wanted(p) \in row[Owner(p)])'
        BY <1>4, <3>2, <3>3 DEF Clean
      <3> QED
        BY <2>2, <3>4 DEF InstallsRight
    <2> QED
      BY <1>6, <2>1, <2>2
  <1> QED
    BY <1>1, <1>3, <1>5, <1>6, <1>7, <1>8, <1>9, <1>10, <1>11, DiskUntouched

\* What a step of an install has to keep: it stays at its place.
LEMMA InstallKeeps ==
  ASSUME LoaderInv, NEW p \in Proc, Installing(p), NEW next \in {"run"} \cup InstallSteps,
         Move(p, next), Troubled \subseteq Troubled', shared \subseteq shared',
         row' \in [Source -> SUBSET (Package \X Version)],
         main' \in [Source -> [Package -> File]],
         \A s \in Source, n \in Package :
           <<s, n>> \notin Troubled' /\ <<s, n>> # Place(p) =>
             /\ main'[s][n] = main[s][n]
             /\ \A v \in Version : <<n, v>> \in row'[s] <=> <<n, v>> \in row[s],
         Place(p) \notin Troubled' =>
           \A v \in Version :
             /\ <<Plugin(p), v>> \in row[Owner(p)] => <<Plugin(p), v>> \in row'[Owner(p)]
             /\ <<Plugin(p), v>> \in row'[Owner(p)] => RightFile(Owner(p), Plugin(p), v)',
         InstallsRight(p)'
  PROVE  LoaderInv'
  <1>1. /\ LoaderTypeOK /\ KnownHasRow(p) /\ RowMeansWhole /\ OneInstalls /\ RunsWhatItAsked
        /\ \A q \in Proc : KnownHasRow(q) /\ InstallsRight(q)
    BY DEF LoaderInv
  <1>2. UNCHANGED <<stack, asked, ran>> /\ at' = [at EXCEPT ![p] = next]
    BY DEF Move, Go
  <1>3. LoaderTypeOK'
    BY <1>1, <1>2, Zenon DEF LoaderTypeOK, Installing, InstallSteps
  <1>4. Place(p) = <<Owner(p), Plugin(p)>> /\ Owner(p) \in Source /\ Plugin(p) \in Package
    BY <1>1, TopIs DEF Place, Installing
  <1>5. ASSUME NEW s \in Source, NEW n \in Package, NEW v \in Version,
               <<s, n>> \notin Troubled', <<n, v>> \in row[s]
        PROVE  <<n, v>> \in row'[s]
    <2>1. CASE <<s, n>> = Place(p)
      BY <1>4, <1>5, <2>1
    <2>2. CASE <<s, n>> # Place(p)
      BY <1>5, <2>2
    <2> QED
      BY <2>1, <2>2
  <1>6. RowMeansWhole'
    <2> SUFFICES ASSUME NEW s \in Source, NEW n \in Package, NEW v \in Version,
                        <<n, v>> \in row'[s], <<s, n>> \notin Troubled'
                 PROVE  RightFile(s, n, v)'
      BY DEF RowMeansWhole, Clean
    <2>1. CASE <<s, n>> = Place(p)
      <3>1. s = Owner(p) /\ n = Plugin(p)
        BY <1>4, <2>1
      <3>2. RightFile(Owner(p), Plugin(p), v)'
        BY <2>1, <3>1
      <3>3. Owner(p)' = Owner(p) /\ Plugin(p)' = Plugin(p)
        BY <1>2 DEF Owner, Plugin, Top
      <3> QED
        BY <3>1, <3>2, <3>3 DEF RightFile
    <2>2. CASE <<s, n>> # Place(p)
      <3>1. <<n, v>> \in row[s] /\ main'[s][n] = main[s][n]
        BY <2>2
      <3>2. RightFile(s, n, v)
        BY <1>1, <3>1 DEF RowMeansWhole, Clean
      <3> QED
        BY <3>1, <3>2 DEF RightFile
    <2> QED
      BY <2>1, <2>2
  <1>7. \A q \in Proc \ {p} : at'[q] = at[q]
    BY <1>1, <1>2 DEF LoaderTypeOK
  <1>8. OneInstalls'
    BY <1>1, <1>2, <1>7, StillNoticed
  <1>9. RunsWhatItAsked'
    BY <1>1, <1>2, RanKept
  <1>10. ASSUME NEW q \in Proc \ {p} PROVE KnownHasRow(q)' /\ InstallsRight(q)'
    BY <1>2, <1>5, <1>7, OthersKeep
  <1>11. KnownHasRow(p)'
    BY <1>1, <1>2, <1>5, KnownKept
  <1> QED
    BY <1>3, <1>6, <1>8, <1>9, <1>10, <1>11 DEF LoaderInv

\* The place of an install, and what holds there and elsewhere.
LEMMA AtThePlace ==
  ASSUME LoaderInv, NEW p \in Proc, Installing(p)
  PROVE  /\ LoaderTypeOK /\ InstallsRight(p) /\ RowMeansWhole
         /\ Owner(p) \in Source /\ Plugin(p) \in Package /\ Asks(p, Plugin(p)) \in Version
         /\ row[Owner(p)] \subseteq Package \X Version
         /\ main[Owner(p)] \in [Package -> File] /\ Main(p) \in File
         /\ Place(p) = <<Owner(p), Plugin(p)>>
  <1>1. LoaderTypeOK /\ InstallsRight(p) /\ RowMeansWhole
    BY DEF LoaderInv
  <1> QED
    BY <1>1, TopIs DEF Installing, Place

LEMMA MovedPlace ==
  ASSUME LoaderTypeOK, NEW p \in Proc, NEW next, Move(p, next)
  PROVE  /\ at'[p] = next /\ Owner(p)' = Owner(p) /\ Plugin(p)' = Plugin(p)
         /\ Asks(p, Plugin(p))' = Asks(p, Plugin(p)) /\ Place(p)' = Place(p)
         /\ Main(p)' = main'[Owner(p)][Plugin(p)]
  BY DEF Move, Go, LoaderTypeOK, Owner, Plugin, Top, Asks, Main, Place

LEMMA NoFileIsOne == NoFile \in File
  BY PluginAssumption DEF NoFile, File

\* A file set at a place is there, and nowhere else.
LEMMA SetMainIs ==
  ASSUME LoaderTypeOK, NEW p \in Proc, Owner(p) \in Source, Plugin(p) \in Package,
         NEW file \in File, main' = [main EXCEPT ![Owner(p)][Plugin(p)] = file]
  PROVE  /\ main' \in [Source -> [Package -> File]]
         /\ main'[Owner(p)][Plugin(p)] = file
         /\ \A s \in Source, n \in Package :
              <<s, n>> # <<Owner(p), Plugin(p)>> => main'[s][n] = main[s][n]
  <1> DEFINE o == Owner(p)  m == Plugin(p)
  <1> HIDE DEF o, m
  <1>1. o \in Source /\ m \in Package /\ main' = [main EXCEPT ![o][m] = file]
    BY DEF o, m
  <1>2. main \in [Source -> [Package -> File]]
    BY DEF LoaderTypeOK
  <1>3. main[o] \in [Package -> File]
    BY <1>1, <1>2
  <1>4. main' = [main EXCEPT ![o] = [main[o] EXCEPT ![m] = file]]
    BY <1>1
  <1>5. [main[o] EXCEPT ![m] = file] \in [Package -> File]
    BY <1>1, <1>3
  <1>6. \A s \in Source : main'[s] = IF s = o THEN [main[o] EXCEPT ![m] = file] ELSE main[s]
    BY <1>1, <1>2, <1>4
  <1>7. main' \in [Source -> [Package -> File]]
    BY <1>1, <1>2, <1>4, <1>5
  <1> QED
    BY <1>1, <1>3, <1>6, <1>7 DEF o, m

LEMMA InstallStepKeeps == ASSUME LoaderInv, NEW p \in Proc, Install(p) PROVE LoaderInv'
  <1>1. /\ at[p] = "install" /\ main' = [main EXCEPT ![Owner(p)][Plugin(p)] = NoFile]
        /\ Move(p, "create") /\ UNCHANGED <<row, shared, unmade>>
        /\ over' = IF \E v \in Version : <<Plugin(p), v>> \in row[Owner(p)]
                     THEN over \cup {Place(p)} ELSE over
    BY DEF Install, SetMain, At
  <1>2. Installing(p)
    BY <1>1 DEF Installing
  <1>3. /\ LoaderTypeOK /\ Owner(p) \in Source /\ Plugin(p) \in Package
        /\ Place(p) = <<Owner(p), Plugin(p)>>
    BY <1>2, AtThePlace
  <1>4. Troubled \subseteq Troubled' /\ shared \subseteq shared'
    BY <1>1 DEF Troubled
  <1>5. Place(p) \notin Troubled' => \A v \in Version : <<Plugin(p), v>> \notin row[Owner(p)]
    BY <1>1 DEF Troubled
  <1>6. /\ main' \in [Source -> [Package -> File]]
        /\ \A s \in Source, n \in Package : <<s, n>> # Place(p) => main'[s][n] = main[s][n]
    BY <1>1, <1>3, NoFileIsOne, SetMainIs
  <1>7. InstallsRight(p)'
    BY <1>1, <1>3, <1>5, MovedPlace DEF InstallsRight, Clean
  <1>8. row' = row /\ row \in [Source -> SUBSET (Package \X Version)]
    BY <1>1, <1>3 DEF LoaderTypeOK
  <1> QED
    BY <1>1, <1>2, <1>4, <1>5, <1>6, <1>7, <1>8, InstallKeeps DEF InstallSteps

LEMMA InstallFailsKeeps == ASSUME LoaderInv, NEW p \in Proc, InstallFails(p) PROVE LoaderInv'
  <1>1. at[p] = "install" /\ Installing(p) /\ UNCHANGED <<disk, over, shared>>
    BY DEF InstallFails, At, Installing
  <1>2. CASE Throw(p, "task") /\ UNCHANGED unmade
    BY <1>1, <1>2, Throws DEF past
  <1>3. CASE Move(p, "forget") /\ unmade' = unmade \cup {Place(p)}
    <2>1. LoaderTypeOK /\ Place(p) = <<Owner(p), Plugin(p)>>
      BY <1>1, AtThePlace
    <2>2. Troubled \subseteq Troubled' /\ shared \subseteq shared' /\ Place(p) \in Troubled'
      BY <1>1, <1>3 DEF Troubled
    <2>3. InstallsRight(p)'
      BY <1>3, <2>1, <2>2, MovedPlace DEF InstallsRight, Clean
    <2>4. /\ row' = row /\ row \in [Source -> SUBSET (Package \X Version)]
          /\ main' = main /\ main \in [Source -> [Package -> File]]
      BY <1>1, <2>1 DEF LoaderTypeOK, disk
    <2> QED
      BY <1>1, <1>3, <2>2, <2>3, <2>4, InstallKeeps DEF InstallSteps
  <1> QED
    BY <1>2, <1>3 DEF InstallFails

LEMMA CreateKeeps == ASSUME LoaderInv, NEW p \in Proc, Create(p) PROVE LoaderInv'
  <1>1. at[p] = "create" /\ Installing(p) /\ UNCHANGED <<row, past>>
    BY DEF Create, At, Installing
  <1>2. CASE Main(p) # NoFile
    BY <1>1, <1>2, Throws DEF Create, disk
  <1>3. CASE Main(p) = NoFile
    <2> DEFINE file == [version |-> Wanted(p)[2], whole |-> FALSE, by |-> p]
    <2>1. main' = [main EXCEPT ![Owner(p)][Plugin(p)] = file] /\ Move(p, "write")
      BY <1>3 DEF Create, SetMain
    <2>2. /\ LoaderTypeOK /\ InstallsRight(p) /\ Owner(p) \in Source /\ Plugin(p) \in Package
          /\ Asks(p, Plugin(p)) \in Version /\ Place(p) = <<Owner(p), Plugin(p)>>
      BY <1>1, AtThePlace
    <2>3. file \in File /\ file.version = Asks(p, Plugin(p)) /\ file.by = p
      BY <2>2 DEF File, Wanted
    <2> HIDE DEF file
    <2>4. /\ main' \in [Source -> [Package -> File]] /\ main'[Owner(p)][Plugin(p)] = file
          /\ \A s \in Source, n \in Package : <<s, n>> # Place(p) => main'[s][n] = main[s][n]
      <3>1. file \in File /\ main' = [main EXCEPT ![Owner(p)][Plugin(p)] = file]
        BY <2>1, <2>3
      <3>2. LoaderTypeOK /\ Owner(p) \in Source /\ Plugin(p) \in Package
        BY <2>2
      <3>3. /\ main' \in [Source -> [Package -> File]] /\ main'[Owner(p)][Plugin(p)] = file
            /\ \A s \in Source, n \in Package :
                 <<s, n>> # <<Owner(p), Plugin(p)>> => main'[s][n] = main[s][n]
        BY <3>1, <3>2, SetMainIs
      <3> QED
        BY <2>2, <3>3
    <2>5. Troubled' = Troubled /\ shared' = shared
      BY <1>1 DEF past, Troubled
    <2>6. Place(p) \notin Troubled => \A v \in Version : <<Plugin(p), v>> \notin row[Owner(p)]
      BY <1>1, <2>2 DEF InstallsRight, Clean
    <2>7. InstallsRight(p)'
      BY <1>1, <2>1, <2>2, <2>3, <2>4, <2>5, <2>6, MovedPlace DEF InstallsRight, Clean
    <2>8. row' = row /\ row \in [Source -> SUBSET (Package \X Version)]
      BY <1>1, <2>2 DEF LoaderTypeOK
    <2> QED
      BY <1>1, <2>1, <2>4, <2>5, <2>6, <2>7, <2>8, InstallKeeps DEF InstallSteps
  <1> QED
    BY <1>2, <1>3

LEMMA WriteKeeps == ASSUME LoaderInv, NEW p \in Proc, Write(p) PROVE LoaderInv'
  <1>1. /\ at[p] = "write" /\ Installing(p) /\ UNCHANGED <<row, past>> /\ Move(p, "forget")
        /\ main' = IF Main(p).by = p THEN [main EXCEPT ![Owner(p)][Plugin(p)].whole = TRUE]
                                     ELSE main
    BY DEF Write, At, Installing
  <1>2. /\ LoaderTypeOK /\ InstallsRight(p) /\ Owner(p) \in Source /\ Plugin(p) \in Package
        /\ Main(p) \in File /\ Place(p) = <<Owner(p), Plugin(p)>>
    BY <1>1, AtThePlace
  <1> DEFINE file == [Main(p) EXCEPT !.whole = TRUE]
  <1>3. file \in File /\ file.version = Main(p).version /\ file.whole = TRUE
    BY <1>2 DEF File
  <1>4. Main(p).by = p => main' = [main EXCEPT ![Owner(p)][Plugin(p)] = file]
    BY <1>1 DEF Main
  <1> HIDE DEF file
  <1>5. Troubled' = Troubled /\ shared' = shared
    BY <1>1 DEF past, Troubled
  <1>6. /\ main' \in [Source -> [Package -> File]]
        /\ \A s \in Source, n \in Package : <<s, n>> # Place(p) => main'[s][n] = main[s][n]
        /\ Main(p).by = p => main'[Owner(p)][Plugin(p)] = file
    <2>1. CASE Main(p).by = p
      BY <1>2, <1>3, <1>4, <2>1, SetMainIs
    <2>2. CASE Main(p).by # p
      BY <1>1, <1>2, <2>2 DEF LoaderTypeOK
    <2> QED
      BY <2>1, <2>2
  <1>7. Place(p) \notin Troubled => /\ \A v \in Version : <<Plugin(p), v>> \notin row[Owner(p)]
                                    /\ Main(p).version = Asks(p, Plugin(p)) /\ Main(p).by = p
    BY <1>1, <1>2 DEF InstallsRight, Clean
  <1>8. InstallsRight(p)'
    <2>1. /\ at'[p] = "forget" /\ Owner(p)' = Owner(p) /\ Plugin(p)' = Plugin(p)
          /\ Asks(p, Plugin(p))' = Asks(p, Plugin(p)) /\ Place(p)' = Place(p)
      BY <1>1, <1>2, MovedPlace
    <2>2. Place(p) \notin Troubled =>
            RightFile(Owner(p), Plugin(p), Asks(p, Plugin(p)))'
      <3> SUFFICES ASSUME Place(p) \notin Troubled
                   PROVE  RightFile(Owner(p), Plugin(p), Asks(p, Plugin(p)))'
        OBVIOUS
      <3>1. main'[Owner(p)][Plugin(p)] = file /\ file.version = Asks(p, Plugin(p))
        BY <1>3, <1>6, <1>7
      <3> QED
        BY <1>3, <2>1, <3>1 DEF RightFile
    <2> QED
      BY <1>1, <1>2, <1>5, <1>7, <2>1, <2>2 DEF InstallsRight, Clean
  <1>9. row' = row /\ row \in [Source -> SUBSET (Package \X Version)]
    BY <1>1, <1>2 DEF LoaderTypeOK
  <1> QED
    BY <1>1, <1>5, <1>6, <1>7, <1>8, <1>9, InstallKeeps DEF InstallSteps

\* The rows of one plugin.db change, for one plugin.
LEMMA RowsElsewhere ==
  ASSUME LoaderTypeOK, NEW o \in Source, NEW m \in Package, NEW w \in Version,
         NEW rows, rows \in {row[o] \ {<<m, w>>}, row[o] \cup {<<m, w>>}},
         row' = [row EXCEPT ![o] = rows]
  PROVE  /\ row' \in [Source -> SUBSET (Package \X Version)] /\ row'[o] = rows
         /\ \A s \in Source, n \in Package :
              <<s, n>> # <<o, m>> => \A v \in Version : <<n, v>> \in row'[s] <=> <<n, v>> \in row[s]
  <1>1. row \in [Source -> SUBSET (Package \X Version)]
    BY DEF LoaderTypeOK
  <1>2. <<m, w>> \in Package \X Version /\ row[o] \in SUBSET (Package \X Version)
    BY <1>1
  <1>3. rows \in SUBSET (Package \X Version)
    BY <1>2
  <1> QED
    BY <1>1, <1>3

LEMMA ForgetKeeps == ASSUME LoaderInv, NEW p \in Proc, Forget(p) PROVE LoaderInv'
  <1>1. /\ at[p] = "forget" /\ Installing(p) /\ UNCHANGED <<main, past>> /\ Move(p, "save")
        /\ row' = [row EXCEPT ![Owner(p)] = @ \ {Wanted(p)}]
    BY DEF Forget, At, Installing
  <1>2. /\ LoaderTypeOK /\ InstallsRight(p) /\ Owner(p) \in Source /\ Plugin(p) \in Package
        /\ Asks(p, Plugin(p)) \in Version /\ Place(p) = <<Owner(p), Plugin(p)>>
        /\ main \in [Source -> [Package -> File]]
    BY <1>1, AtThePlace DEF LoaderTypeOK
  <1>3. Troubled' = Troubled /\ shared' = shared
    BY <1>1 DEF past, Troubled
  <1> DEFINE rows == row[Owner(p)] \ {<<Plugin(p), Asks(p, Plugin(p))>>}
  <1>4. row' = [row EXCEPT ![Owner(p)] = rows]
    BY <1>1 DEF Wanted
  <1>5. /\ row' \in [Source -> SUBSET (Package \X Version)] /\ row'[Owner(p)] = rows
        /\ \A s \in Source, n \in Package :
             <<s, n>> # Place(p) => \A v \in Version : <<n, v>> \in row'[s] <=> <<n, v>> \in row[s]
    BY <1>2, <1>4, RowsElsewhere
  <1>6. Place(p) \notin Troubled =>
          /\ \A v \in Version : /\ <<Plugin(p), v>> \notin row[Owner(p)]
                                /\ <<Plugin(p), v>> \notin row'[Owner(p)]
          /\ RightFile(Owner(p), Plugin(p), Asks(p, Plugin(p)))
    BY <1>1, <1>2, <1>5 DEF InstallsRight, Clean
  <1>7. InstallsRight(p)'
    <2>1. /\ at'[p] = "save" /\ Owner(p)' = Owner(p) /\ Plugin(p)' = Plugin(p)
          /\ Asks(p, Plugin(p))' = Asks(p, Plugin(p)) /\ Place(p)' = Place(p)
      BY <1>1, <1>2, MovedPlace
    <2>2. Place(p) \notin Troubled =>
            RightFile(Owner(p), Plugin(p), Asks(p, Plugin(p)))'
      BY <1>1, <1>6, <2>1 DEF RightFile
    <2> QED
      BY <1>2, <1>3, <1>6, <2>1, <2>2 DEF InstallsRight, Clean
  <1> QED
    BY <1>1, <1>2, <1>3, <1>5, <1>6, <1>7, InstallKeeps DEF InstallSteps

LEMMA SaveKeeps == ASSUME LoaderInv, NEW p \in Proc, Save(p) PROVE LoaderInv'
  <1>1. at[p] = "save" /\ Installing(p) /\ UNCHANGED <<main, past>>
    BY DEF Save, At, Installing
  <1>2. CASE Wanted(p) \in row[Owner(p)]
    BY <1>1, <1>2, Throws DEF Save, disk
  <1>3. CASE Wanted(p) \notin row[Owner(p)]
    <2>1. row' = [row EXCEPT ![Owner(p)] = @ \cup {Wanted(p)}] /\ Move(p, "run")
      BY <1>3 DEF Save
    <2>2. /\ LoaderTypeOK /\ InstallsRight(p) /\ Owner(p) \in Source /\ Plugin(p) \in Package
          /\ Asks(p, Plugin(p)) \in Version /\ Place(p) = <<Owner(p), Plugin(p)>>
          /\ main \in [Source -> [Package -> File]]
      BY <1>1, AtThePlace DEF LoaderTypeOK
    <2>3. Troubled' = Troubled /\ shared' = shared
      BY <1>1 DEF past, Troubled
    <2> DEFINE rows == row[Owner(p)] \cup {<<Plugin(p), Asks(p, Plugin(p))>>}
    <2>4. row' = [row EXCEPT ![Owner(p)] = rows]
      BY <2>1 DEF Wanted
    <2>5. /\ row' \in [Source -> SUBSET (Package \X Version)] /\ row'[Owner(p)] = rows
          /\ \A s \in Source, n \in Package :
               <<s, n>> # Place(p) =>
                 \A v \in Version : <<n, v>> \in row'[s] <=> <<n, v>> \in row[s]
      BY <2>2, <2>4, RowsElsewhere
    <2>6. Place(p) \notin Troubled =>
            /\ \A v \in Version : <<Plugin(p), v>> \notin row[Owner(p)]
            /\ RightFile(Owner(p), Plugin(p), Asks(p, Plugin(p)))
      BY <1>1, <2>2 DEF InstallsRight, Clean
    <2>7. Place(p) \notin Troubled =>
            \A v \in Version : <<Plugin(p), v>> \in row'[Owner(p)] =>
                                 RightFile(Owner(p), Plugin(p), v)'
      <3> SUFFICES ASSUME Place(p) \notin Troubled, NEW v \in Version,
                          <<Plugin(p), v>> \in row'[Owner(p)]
                   PROVE  RightFile(Owner(p), Plugin(p), v)'
        OBVIOUS
      <3>1. v = Asks(p, Plugin(p))
        BY <2>5, <2>6
      <3>2. Owner(p)' = Owner(p) /\ Plugin(p)' = Plugin(p) /\ main' = main
        BY <1>1, <2>1, <2>2, MovedPlace
      <3> QED
        BY <2>6, <3>1, <3>2 DEF RightFile
    <2>8. InstallsRight(p)'
      <3>1. at'[p] = "run" /\ Wanted(p)' = <<Plugin(p), Asks(p, Plugin(p))>>
            /\ Owner(p)' = Owner(p)
        BY <2>1, <2>2, MovedPlace DEF Wanted
      <3>2. Wanted(p)' \in row'[Owner(p)]
        BY <2>5, <3>1
      <3> QED
        BY <3>1, <3>2 DEF InstallsRight
    <2>9. \A v \in Version :
            <<Plugin(p), v>> \in row[Owner(p)] => <<Plugin(p), v>> \in row'[Owner(p)]
      BY <2>5
    <2>10. \A s \in Source, n \in Package : main'[s][n] = main[s][n]
      BY <1>1
    <2> QED
      BY <1>1, <2>1, <2>2, <2>3, <2>5, <2>7, <2>8, <2>9, <2>10, InstallKeeps DEF InstallSteps
  <1> QED
    BY <1>2, <1>3

\* What runs has a row, and so it is the file that was asked for.
LEMMA RunKeepsRight == ASSUME LoaderInv, NEW p \in Proc, Run(p) PROVE LoaderInv'
  <1> DEFINE new == <<Owner(p), Plugin(p), Wanted(p)[2], Main(p)>>
  <1>1. /\ at[p] = "run" /\ ran' = [ran EXCEPT ![p] = @ \cup {new}]
        /\ UNCHANGED <<disk, past, asked>>
    BY DEF Run, At
  <1>2. /\ LoaderTypeOK /\ InstallsRight(p) /\ KnownHasRow(p) /\ RowMeansWhole
        /\ RunsWhatItAsked
    BY DEF LoaderInv
  <1>3. /\ Owner(p) \in Source /\ Plugin(p) \in Package /\ Asks(p, Plugin(p)) \in Version
        /\ Main(p) \in File
    BY <1>1, <1>2, TopIs
  <1>4. new = <<Owner(p), Plugin(p), Asks(p, Plugin(p)), Main(p)>>
    BY DEF Wanted
  <1>5. <<Owner(p), Plugin(p)>> \notin Troubled =>
          Main(p).whole /\ Main(p).version = Asks(p, Plugin(p))
    BY <1>1, <1>2, <1>3 DEF InstallsRight, Clean, Wanted, RowMeansWhole, RightFile, Main
  <1>6. new \in Source \X Package \X Version \X File
    BY <1>3, <1>4
  <1>7. /\ new[1] = Owner(p) /\ new[2] = Plugin(p) /\ new[3] = Asks(p, Plugin(p))
        /\ new[4] = Main(p)
    BY <1>4
  <1> HIDE DEF new
  <1>8. /\ ran' \in [Proc -> SUBSET (Source \X Package \X Version \X File)]
        /\ \A q \in Proc : ran'[q] = IF q = p THEN ran[p] \cup {new} ELSE ran[q]
    BY <1>1, <1>2, <1>6 DEF LoaderTypeOK
  <1>9. Troubled' = Troubled
    BY <1>1 DEF past, Troubled
  <1>10. RunsWhatItAsked'
    <2> SUFFICES ASSUME NEW q \in Proc, NEW r \in ran'[q], <<r[1], r[2]>> \notin Troubled
                 PROVE  r[4].whole /\ r[4].version = r[3]
      BY <1>9 DEF RunsWhatItAsked
    <2>1. CASE r \in ran[q]
      BY <1>2, <2>1 DEF RunsWhatItAsked
    <2>2. CASE r \notin ran[q]
      <3>1. r = new
        BY <1>8, <2>2
      <3> QED
        BY <1>5, <1>7, <3>1, Zenon
    <2> QED
      BY <2>1, <2>2
  <1>11. CASE Main(p) = NoFile
    <2>1. Go(p, "idle") /\ stack' = [stack EXCEPT ![p] = <<>>]
      BY <1>11 DEF Run
    <2> QED
      BY <1>1, <1>8, <1>10, <2>1, ThrowKeeps
  <1>12. CASE Main(p) # NoFile
    <2>1. Go(p, "setup") /\ UNCHANGED stack
      BY <1>12 DEF Run
    <2>2. KnownHasRow(p)'
      BY <1>1, <1>2, <1>9, <2>1, KnownKept DEF disk
    <2>3. /\ at'[p] = "setup"
          /\ at' \in [Proc -> {"idle", "load", "setup", "run"} \cup InstallSteps]
          /\ \A q \in Proc \ {p} : at'[q] = at[q]
      BY <1>2, <2>1 DEF Go, LoaderTypeOK
    <2>4. /\ stack' \in [Proc -> Seq(Loader)] /\ stack'[p] # <<>>
          /\ asked' \in [Proc -> Version]
      BY <1>1, <1>2, <2>1 DEF LoaderTypeOK
    <2> QED
      BY <1>1, <1>8, <1>10, <2>1, <2>2, <2>3, <2>4, Climbs
  <1> QED
    BY <1>11, <1>12

LEMMA LoaderInitInv == Init => LoaderInv
  <1> SUFFICES ASSUME Init PROVE LoaderInv
    OBVIOUS
  <1>1. /\ row = [s \in Source |-> {}] /\ main = [s \in Source |-> [n \in Package |-> NoFile]]
        /\ stack = [p \in Proc |-> <<>>] /\ at = [p \in Proc |-> "idle"]
        /\ asked = [p \in Proc |-> Default] /\ ran = [p \in Proc |-> {}]
    BY DEF Init
  <1>2. LoaderTypeOK
    BY <1>1, NoFileIsOne, EmptySeq, PluginAssumption DEF LoaderTypeOK
  <1>3. RowMeansWhole /\ OneInstalls /\ RunsWhatItAsked
    BY <1>1 DEF RowMeansWhole, OneInstalls, RunsWhatItAsked, Installing
  <1>4. ASSUME NEW p \in Proc PROVE KnownHasRow(p) /\ InstallsRight(p)
    <2>1. Len(stack[p]) = 0 /\ at[p] = "idle"
      BY <1>1, EmptySeq
    <2> QED
      BY <2>1 DEF KnownHasRow, InstallsRight
  <1> QED
    BY <1>2, <1>3, <1>4 DEF LoaderInv

LEMMA LoaderNextInv == LoaderInv /\ [Next]_vars => LoaderInv'
  <1> SUFFICES ASSUME LoaderInv, [Next]_vars PROVE LoaderInv'
    OBVIOUS
  <1>1. CASE UNCHANGED vars
    <2>1. UNCHANGED <<row, main, stack, at, asked, ran, over, shared, unmade>>
      BY <1>1 DEF vars, disk, process, past
    <2>2. LoaderTypeOK' /\ RowMeansWhole'
      BY <2>1 DEF LoaderInv, LoaderTypeOK, RowMeansWhole, RightFile, Clean, Troubled
    <2>3. OneInstalls' /\ RunsWhatItAsked'
      BY <2>1 DEF LoaderInv, OneInstalls, RunsWhatItAsked, Troubled, Installing, Place, Owner,
                  Plugin, Top
    <2>4. \A p \in Proc : KnownHasRow(p)' /\ InstallsRight(p)'
      BY ZenonT(60), <2>1 DEF LoaderInv, KnownHasRow, InstallsRight, AskedOf, RightFile,
                  Clean, Troubled, Main, Wanted, Asks, Owner, Plugin, Top
    <2> QED
      BY <2>2, <2>3, <2>4 DEF LoaderInv
  <1>2. ASSUME NEW p \in Proc, Crash(p) \/ LoadFails(p) \/ DatabaseLocked(p) \/ Ready(p)
        PROVE  LoaderInv'
    <2>1. UNCHANGED <<disk, past>> /\ \E why : Throw(p, why)
      BY <1>2 DEF Crash, LoadFails, DatabaseLocked, Ready
    <2> QED
      BY <2>1, Throws
  <1>3. ASSUME NEW p \in Proc, Start(p) \/ Crash(p) \/ Step(p) PROVE LoaderInv'
    BY <1>2, <1>3, StartKeeps, LoadKeeps, LoadedKeeps, SetUpKeeps, InstallStepKeeps,
       InstallFailsKeeps, CreateKeeps, WriteKeeps, ForgetKeeps, SaveKeeps, RunKeepsRight
       DEF Step
  <1> QED
    BY <1>1, <1>3 DEF Next

\* Whenever a plugin is run, it is there, whole and of the version asked for, where it was only
\* ever installed without a row for it, by one process at a time and by tasks that said so when
\* they failed: for every tree of declarations, also one with cycles, any number of processes
\* and whatever crashed before (plugin.lua:47-66).  A task says so when it fails only if
\* copy_file does: a failed read or write that it keeps to itself is outside of this.
THEOREM PluginsRunAsAsked == Spec => []RunsWhatItAsked
  <1>1. LoaderInv => RunsWhatItAsked
    BY DEF LoaderInv
  <1> QED
    BY <1>1, LoaderInitInv, LoaderNextInv, PTL DEF Spec

-----------------------------------------------------------------------------
(* The start of a process. *)

Call == [name : BootName, at : {"look", "fetch", "plugins"}, todo : SUBSET BootName]
          \cup [name : {"root"}, at : {"plugins"}, todo : SUBSET BootName]

BootTypeOK ==
  /\ bootRow \subseteq BootName
  /\ phase \in [BootProc -> {"idle", "mkdir", "open", "decide", "plugins", "commands",
                             "downloaders", "load"}]
  /\ option \in [BootProc -> BOOLEAN] /\ bootReload \in [BootProc -> BOOLEAN]
  /\ todo \in [BootProc -> SUBSET BootName] /\ saving \in [BootProc -> SUBSET BootName]
  /\ calls \in [BootProc -> Seq(Call)]
  /\ bootOutcome \in [BootProc -> {"none", "ready", "crash", "download", "constraint",
                                   "stack overflow"}]
  /\ sure \in [BootProc -> BOOLEAN] /\ alone \in [BootProc -> BOOLEAN]

\* What a process works on is left from nothing before.
InPhase(p) ==
  /\ saving[p] \subseteq todo[p] /\ (~Caching(p) => saving[p] = {})
  /\ BootAt(p, "load") => calls[p] # <<>>
  /\ ~BootAt(p, "idle") => bootOutcome[p] = "none"

\* The declarations do not go round, a package that is downloaded is above its downloader, and
\* the stack has room for the highest package that the root package loads.
RoomFor(h) ==
  /\ h \in [BootName -> Nat]
  /\ \A n \in BootName : \A m \in BootPlugins[n] : h[m] < h[n]
  /\ \A n \in Others : h[Git] < h[n]
  /\ \A n \in RootPlugins \cup ShippedCommands : 2 + h[n] <= BootMaxDepth

\* The k-th call has room for what it has to call.
Fits(h, k, f) ==
  /\ f.at \in {"look", "fetch"} => k + h[f.name] <= BootMaxDepth
  /\ f.at = "fetch" => f.name \in Others
  /\ \A n \in f.todo : k + 1 + h[n] <= BootMaxDepth

IsSure(h, p) ==
  sure[p] => /\ Shipped \subseteq bootRow /\ bootOutcome[p] # "stack overflow"
             /\ \A k \in 1..Len(calls[p]) : Fits(h, k, calls[p][k])

\* What is cached when a phase is through.
CachedBy(p) == CASE BootAt(p, "plugins")  -> ShippedPlugins
                 [] BootAt(p, "commands") -> ShippedPlugins \cup ShippedCommands
                 [] OTHER                 -> Shipped

IsAlone(p) ==
  alone[p] /\ option[p] =>
    /\ bootOutcome[p] \in {"none", "ready", "crash", "download"}
    /\ ~BootAt(p, "idle") => \A q \in BootProc \ {p} : BootAt(q, "idle")
    /\ Caching(p) => /\ bootReload[p] /\ CachedBy(p) \ todo[p] \subseteq bootRow
                     /\ saving[p] \cap bootRow = {}
    /\ BootAt(p, "load") => sure[p]

BootInv(h) ==
  BootTypeOK /\ \A p \in BootProc : InPhase(p) /\ IsSure(h, p) /\ IsAlone(p)

\* A step of p disturbs no process that is alone, and only what it forgets makes one unsure.
LEMMA BootOthers ==
  ASSUME NEW h, BootInv(h), BootTypeOK', NEW p \in BootProc, phase[p] # "idle",
         \A q \in BootProc \ {p} :
           /\ phase'[q] = phase[q] /\ option'[q] = option[q] /\ calls'[q] = calls[q]
           /\ todo'[q] = todo[q] /\ saving'[q] = saving[q]
           /\ bootOutcome'[q] = bootOutcome[q] /\ alone'[q] = alone[q]
           /\ sure'[q] => sure[q] /\ bootRow \subseteq bootRow',
         InPhase(p)', IsSure(h, p)', IsAlone(p)'
  PROVE  BootInv(h)'
  <1> SUFFICES ASSUME NEW q \in BootProc, q # p
               PROVE  InPhase(q)' /\ IsSure(h, q)' /\ IsAlone(q)'
    BY DEF BootInv
  <1>1. BootTypeOK /\ InPhase(q) /\ IsSure(h, q) /\ IsAlone(q)
    BY DEF BootInv
  <1>2. InPhase(q)'
    BY <1>1 DEF InPhase, Caching, BootAt
  <1>3. IsSure(h, q)'
    BY <1>1 DEF IsSure
  <1>4. IsAlone(q)'
    <2>1. alone[q] /\ option[q] => BootAt(q, "idle")
      BY <1>1 DEF IsAlone, BootAt
    <2> QED
      BY <1>1, <2>1 DEF IsAlone, BootAt, Caching
  <1> QED
    BY <1>2, <1>3, <1>4

LEMMA BootTopIs ==
  ASSUME BootTypeOK, NEW p \in BootProc, InPhase(p), BootAt(p, "load")
  PROVE  /\ calls[p] \in Seq(Call) /\ calls[p] # <<>> /\ Len(calls[p]) \in Nat \ {0}
         /\ BootTop(p) \in Call /\ BootTop(p) = calls[p][Len(calls[p])]
         /\ BootTop(p).at # "plugins" => BootTop(p).name \in BootName
         /\ BootTop(p).todo \subseteq BootName
  <1>1. calls[p] \in Seq(Call) /\ calls[p] # <<>>
    BY DEF BootTypeOK, InPhase
  <1>2. /\ Len(calls[p]) \in Nat \ {0} /\ BootTop(p) \in Call
        /\ BootTop(p) = calls[p][Len(calls[p])]
    BY <1>1, OnTop DEF BootTop
  <1> QED
    BY <1>1, <1>2 DEF Call

\* A process that ends.
LEMMA BootEnds ==
  ASSUME NEW h, BootInv(h), NEW p \in BootProc, phase[p] # "idle",
         NEW why \in {"ready", "crash", "download", "constraint", "stack overflow"},
         BootEnd(p, why), UNCHANGED <<bootRow, calls, sure, alone>>,
         alone[p] /\ option[p] => why \in {"ready", "crash", "download"},
         sure[p] => why # "stack overflow"
  PROVE  BootInv(h)'
  <1>1. BootTypeOK /\ InPhase(p) /\ IsSure(h, p) /\ IsAlone(p)
    BY DEF BootInv
  <1>2. /\ phase' = [phase EXCEPT ![p] = "idle"] /\ todo' = [todo EXCEPT ![p] = {}]
        /\ saving' = [saving EXCEPT ![p] = {}]
        /\ bootOutcome' = [bootOutcome EXCEPT ![p] = why] /\ UNCHANGED <<option, bootReload>>
    BY DEF BootEnd, BootGo
  <1>3. BootTypeOK'
    BY <1>1, <1>2 DEF BootTypeOK
  <1>4. /\ phase'[p] = "idle" /\ todo'[p] = {} /\ saving'[p] = {} /\ bootOutcome'[p] = why
        /\ \A q \in BootProc \ {p} :
             /\ phase'[q] = phase[q] /\ todo'[q] = todo[q] /\ saving'[q] = saving[q]
             /\ bootOutcome'[q] = bootOutcome[q]
    BY <1>1, <1>2 DEF BootTypeOK
  <1>5. InPhase(p)'
    BY <1>4 DEF InPhase, BootAt
  <1>6. IsSure(h, p)'
    BY <1>1, <1>4 DEF IsSure
  <1>7. IsAlone(p)'
    BY <1>2, <1>4 DEF IsAlone, BootAt, Caching
  <1> QED
    BY <1>2, <1>3, <1>4, <1>5, <1>6, <1>7, BootOthers

LEMMA BootInitInv == ASSUME NEW h PROVE BootInit => BootInv(h)
  <1> SUFFICES ASSUME BootInit PROVE BootInv(h)
    OBVIOUS
  <1>1. BootTypeOK
    BY EmptySeq DEF BootInit, BootTypeOK
  <1>2. ASSUME NEW p \in BootProc PROVE InPhase(p) /\ IsSure(h, p) /\ IsAlone(p)
    BY <1>2 DEF BootInit, InPhase, IsSure, IsAlone, BootAt, Caching
  <1> QED
    BY <1>1, <1>2 DEF BootInv

LEMMA BootStartKeeps ==
  ASSUME NEW h, BootInv(h), NEW p \in BootProc, BootStart(p) PROVE BootInv(h)'
  <1>1. BootTypeOK /\ \A q \in BootProc : InPhase(q) /\ IsSure(h, q) /\ IsAlone(q)
    BY DEF BootInv
  <1>2. /\ phase[p] = "idle" /\ phase' = [phase EXCEPT ![p] = "mkdir"]
        /\ \E r \in BOOLEAN : option' = [option EXCEPT ![p] = r]
        /\ bootOutcome' = [bootOutcome EXCEPT ![p] = "none"]
        /\ calls' = [calls EXCEPT ![p] = <<>>] /\ sure' = [sure EXCEPT ![p] = FALSE]
        /\ UNCHANGED <<bootRow, bootReload, todo, saving>>
    BY DEF BootStart, BootAt, BootGo, cache
  <1>3. alone' = [q \in BootProc |->
                    IF q = p THEN {r \in BootProc \ {p} : ~BootAt(r, "idle")} = {}
                             ELSE alone[q] /\ BootAt(q, "idle")]
    BY DEF BootStart
  <1>4. BootTypeOK'
    <2>1. alone' \in [BootProc -> BOOLEAN]
      BY <1>1, <1>3 DEF BootTypeOK
    <2> QED
      BY <1>1, <1>2, <2>1, EmptySeq DEF BootTypeOK
  <1>5. InPhase(p)' /\ IsSure(h, p)'
    BY <1>1, <1>2 DEF BootTypeOK, InPhase, IsSure, Caching, BootAt
  <1>6. IsAlone(p)'
    BY <1>1, <1>2, <1>3 DEF BootTypeOK, IsAlone, Caching, BootAt
  <1>7. ASSUME NEW q \in BootProc, q # p PROVE InPhase(q)' /\ IsSure(h, q)' /\ IsAlone(q)'
    <2>1. /\ phase'[q] = phase[q] /\ option'[q] = option[q] /\ calls'[q] = calls[q]
          /\ bootOutcome'[q] = bootOutcome[q] /\ sure'[q] = sure[q]
          /\ alone'[q] => alone[q] /\ BootAt(q, "idle")
      BY <1>1, <1>2, <1>3, <1>7 DEF BootTypeOK
    <2>2. InPhase(q)' /\ IsSure(h, q)'
      BY <1>1, <1>2, <2>1 DEF InPhase, IsSure, Caching, BootAt
    <2>3. IsAlone(q)'
      BY <1>1, <2>1 DEF IsAlone, Caching, BootAt
    <2> QED
      BY <2>2, <2>3
  <1> QED
    BY <1>4, <1>5, <1>6, <1>7 DEF BootInv

LEMMA BeginsKeeps ==
  ASSUME NEW h, BootInv(h), NEW p \in BootProc, Mkdir(p) \/ OpenRepo(p) \/ Decide(p)
  PROVE  BootInv(h)'
  <1>1. BootTypeOK /\ InPhase(p) /\ IsSure(h, p) /\ IsAlone(p)
    BY DEF BootInv
  <1>2. /\ UNCHANGED <<bootRow, option, saving, calls, bootOutcome, sure, alone>>
        /\ phase[p] \in {"mkdir", "open", "decide"}
        /\ \A q \in BootProc \ {p} : phase'[q] = phase[q] /\ todo'[q] = todo[q]
    BY <1>1 DEF Mkdir, OpenRepo, Decide, BootTypeOK, BootAt, BootGo, cache, bootHistory
  <1>3. /\ BootTypeOK' /\ phase'[p] \in {"open", "decide", "plugins"}
        /\ phase'[p] = "plugins" => /\ todo'[p] = IF bootReload'[p] THEN ShippedPlugins ELSE {}
                                    /\ option[p] => bootReload'[p]
    <2>1. CASE Mkdir(p) \/ OpenRepo(p)
      BY <1>1, <1>2, <2>1 DEF Mkdir, OpenRepo, BootTypeOK, BootGo
    <2>2. CASE Decide(p)
      BY <1>1, <1>2, <2>2 DEF Decide, BootTypeOK, BootGo, BootName, Shipped
    <2> QED
      BY <2>1, <2>2
  <1>4. InPhase(p)' /\ IsSure(h, p)'
    BY <1>1, <1>2, <1>3 DEF InPhase, IsSure, Caching, BootAt
  <1>5. IsAlone(p)'
    <2>1. saving[p] = {}
      BY <1>1, <1>2 DEF InPhase, Caching
    <2>2. BootAt(p, "plugins")' => CachedBy(p)' = ShippedPlugins
      BY DEF CachedBy, BootAt
    <2> QED
      BY <1>1, <1>2, <1>3, <2>1, <2>2 DEF IsAlone, Caching, BootAt
  <1> QED
    BY <1>2, <1>3, <1>4, <1>5, BootOthers

LEMMA ForgetsKeeps ==
  ASSUME NEW h, BootInv(h), NEW p \in BootProc, BootForget(p) PROVE BootInv(h)'
  <1>1. BootTypeOK /\ InPhase(p) /\ IsSure(h, p) /\ IsAlone(p)
    BY DEF BootInv
  <1>2. /\ Caching(p) /\ saving[p] = {}
        /\ UNCHANGED <<phase, option, bootReload, todo, calls, bootOutcome, alone>>
    BY DEF BootForget
  <1>3. PICK n \in todo[p] : /\ bootRow' = bootRow \ {n} /\ saving' = [saving EXCEPT ![p] = {n}]
                             /\ sure' = [q \in BootProc |-> sure[q] /\ n \notin bootRow]
    BY DEF BootForget
  <1>4. n \in BootName /\ phase[p] \in {"plugins", "commands", "downloaders"}
    BY <1>1, <1>2 DEF BootTypeOK, Caching
  <1>5. /\ saving'[p] = {n} /\ sure' \in [BootProc -> BOOLEAN]
        /\ \A q \in BootProc : sure'[q] => sure[q] /\ bootRow' = bootRow
        /\ \A q \in BootProc \ {p} : saving'[q] = saving[q]
    <2>1. \A q \in BootProc : sure'[q] = (sure[q] /\ n \notin bootRow)
      BY <1>3
    <2>2. n \notin bootRow => bootRow' = bootRow
      BY <1>3
    <2> QED
      BY <1>1, <1>3, <2>1, <2>2 DEF BootTypeOK
  <1>6. BootTypeOK'
    BY ZenonT(60), <1>1, <1>2, <1>3, <1>4, <1>5 DEF BootTypeOK
  <1>7. InPhase(p)'
    BY <1>1, <1>2, <1>4, <1>5 DEF InPhase, Caching, BootAt
  <1>8. IsSure(h, p)'
    BY <1>1, <1>2, <1>5 DEF IsSure
  <1>9. IsAlone(p)'
    <2>1. CachedBy(p)' = CachedBy(p)
      BY <1>2 DEF CachedBy, BootAt
    <2> QED
      BY <1>1, <1>2, <1>3, <1>4, <1>5, <2>1 DEF IsAlone, Caching, BootAt
  <1> QED
    BY <1>2, <1>4, <1>5, <1>6, <1>7, <1>8, <1>9, BootOthers

LEMMA SavesKeeps ==
  ASSUME NEW h, BootInv(h), NEW p \in BootProc, BootSave(p) PROVE BootInv(h)'
  <1>1. BootTypeOK /\ InPhase(p) /\ IsSure(h, p) /\ IsAlone(p)
    BY DEF BootInv
  <1>2. /\ Caching(p) /\ saving[p] # {} /\ UNCHANGED <<sure, alone>>
        /\ phase[p] \in {"plugins", "commands", "downloaders"}
    BY DEF BootSave, bootHistory, Caching
  <1>3. CASE saving[p] \subseteq bootRow
    <2>1. BootEnd(p, "constraint") /\ UNCHANGED <<bootRow, calls>>
      BY <1>3 DEF BootSave
    <2>2. ~(alone[p] /\ option[p])
      BY <1>1, <1>2, <1>3 DEF IsAlone
    <2> QED
      BY <1>2, <2>1, <2>2, BootEnds
  <1>4. CASE ~(saving[p] \subseteq bootRow)
    <2>1. /\ bootRow' = bootRow \cup saving[p]
          /\ todo' = [todo EXCEPT ![p] = @ \ saving[p]] /\ saving' = [saving EXCEPT ![p] = {}]
          /\ UNCHANGED <<phase, option, bootReload, calls, bootOutcome>>
      BY <1>4 DEF BootSave
    <2>2. /\ todo'[p] = todo[p] \ saving[p] /\ saving'[p] = {}
          /\ \A q \in BootProc \ {p} : todo'[q] = todo[q] /\ saving'[q] = saving[q]
      BY <1>1, <2>1 DEF BootTypeOK
    <2>3. BootTypeOK'
      BY <1>1, <1>2, <2>1 DEF BootTypeOK
    <2>4. InPhase(p)' /\ IsSure(h, p)'
      BY <1>1, <1>2, <2>1, <2>2 DEF InPhase, IsSure, Caching, BootAt
    <2>5. IsAlone(p)'
      <3>1. CachedBy(p)' = CachedBy(p)
        BY <2>1 DEF CachedBy, BootAt
      <3> QED
        BY <1>1, <1>2, <2>1, <2>2, <3>1 DEF IsAlone, Caching, BootAt
    <2> QED
      BY <1>2, <2>1, <2>2, <2>3, <2>4, <2>5, BootOthers
  <1> QED
    BY <1>3, <1>4

LEMMA RootFrameIs ==
  /\ RootFrame \in Call /\ RootFrame.at = "plugins"
  /\ RootFrame.todo = RootPlugins \cup ShippedCommands
  BY BootstrapAssumption DEF RootFrame, Call, BootName, Shipped

LEMMA NextPhaseKeeps ==
  ASSUME NEW h, RoomFor(h), BootInv(h), NEW p \in BootProc, NextPhase(p) PROVE BootInv(h)'
  <1>1. BootTypeOK /\ InPhase(p) /\ IsSure(h, p) /\ IsAlone(p)
    BY DEF BootInv
  <1>2. /\ phase[p] \in {"plugins", "commands", "downloaders"} /\ todo[p] = {}
        /\ UNCHANGED <<bootRow, option, bootReload, saving, bootOutcome, alone>>
    BY DEF NextPhase, Caching, cache
  <1>3. saving[p] = {}
    BY <1>1, <1>2 DEF InPhase
  <1> DEFINE after == CASE BootAt(p, "plugins")     -> "commands"
                        [] BootAt(p, "commands")    -> "downloaders"
                        [] BootAt(p, "downloaders") -> "load"
  <1>4. /\ phase' = [phase EXCEPT ![p] = after]
        /\ todo' = [todo EXCEPT ![p] = IF ~bootReload[p] \/ after = "load" THEN {}
                                       ELSE IF after = "commands" THEN ShippedCommands
                                       ELSE ShippedDownloaders]
        /\ IF after = "load" THEN /\ calls' = [calls EXCEPT ![p] = <<RootFrame>>]
                                  /\ sure' = [sure EXCEPT ![p] = Shipped \subseteq bootRow]
                             ELSE UNCHANGED <<calls, sure>>
    BY DEF NextPhase, BootGo
  <1>5. \/ phase[p] = "plugins" /\ after = "commands"
        \/ phase[p] = "commands" /\ after = "downloaders"
        \/ phase[p] = "downloaders" /\ after = "load"
    BY <1>2 DEF BootAt
  <1> HIDE DEF after
  <1>6. /\ phase'[p] = after /\ \A q \in BootProc \ {p} : phase'[q] = phase[q]
        /\ \A q \in BootProc \ {p} : /\ todo'[q] = todo[q] /\ calls'[q] = calls[q]
                                     /\ sure'[q] = sure[q]
    BY <1>1, <1>4, <1>5 DEF BootTypeOK
  <1>7. todo'[p] = IF ~bootReload[p] \/ after = "load" THEN {}
                   ELSE IF after = "commands" THEN ShippedCommands ELSE ShippedDownloaders
    BY <1>1, <1>4, <1>5 DEF BootTypeOK
  <1>8. <<RootFrame>> \in Seq(Call) /\ Len(<<RootFrame>>) = 1 /\ <<RootFrame>>[1] = RootFrame
    BY RootFrameIs
  <1>9. /\ calls' \in [BootProc -> Seq(Call)] /\ sure' \in [BootProc -> BOOLEAN]
        /\ after = "load" => calls'[p] = <<RootFrame>> /\ sure'[p] = (Shipped \subseteq bootRow)
        /\ after # "load" => calls'[p] = calls[p] /\ sure'[p] = sure[p]
    <2>1. CASE after = "load"
      BY <1>1, <1>4, <1>8, <2>1 DEF BootTypeOK
    <2>2. CASE after # "load"
      BY <1>1, <1>4, <2>2 DEF BootTypeOK
    <2> QED
      BY <2>1, <2>2
  <1>10. BootTypeOK'
    <2>1. phase' \in [BootProc -> {"idle", "mkdir", "open", "decide", "plugins", "commands",
                                   "downloaders", "load"}]
      BY <1>1, <1>4, <1>5 DEF BootTypeOK
    <2>2. todo' \in [BootProc -> SUBSET BootName]
      BY <1>1, <1>4, <1>5 DEF BootTypeOK, BootName, Shipped
    <2> QED
      BY <1>1, <1>2, <1>9, <2>1, <2>2 DEF BootTypeOK
  <1>11. InPhase(p)'
    <2>1. bootOutcome[p] = "none"
      BY <1>1, <1>2 DEF InPhase, BootAt
    <2>2. after = "load" => calls'[p] # <<>>
      BY <1>8, <1>9, EmptySeq
    <2> QED
      BY <1>2, <1>3, <1>5, <1>6, <2>1, <2>2 DEF InPhase, Caching, BootAt
  <1>12. IsSure(h, p)'
    <2>1. CASE after = "load"
      <3> SUFFICES ASSUME Shipped \subseteq bootRow
                   PROVE  /\ bootOutcome[p] # "stack overflow"
                          /\ \A k \in 1..Len(<<RootFrame>>) : Fits(h, k, <<RootFrame>>[k])
        BY <1>2, <1>9, <2>1 DEF IsSure
      <3>1. Fits(h, 1, RootFrame)
        BY RootFrameIs DEF Fits, RoomFor
      <3>2. bootOutcome[p] # "stack overflow"
        BY <1>1, <1>2 DEF InPhase, BootAt
      <3>3. \A k \in 1..Len(<<RootFrame>>) : k = 1
        BY <1>8
      <3>4. \A k \in 1..Len(<<RootFrame>>) : Fits(h, k, <<RootFrame>>[k])
        BY <1>8, <3>1, <3>3
      <3> QED
        BY <3>2, <3>4
    <2>2. CASE after # "load"
      BY <1>1, <1>2, <1>9, <2>2 DEF IsSure
    <2> QED
      BY <2>1, <2>2
  <1>13. IsAlone(p)'
    <2> SUFFICES ASSUME alone[p], option[p] PROVE IsAlone(p)'
      BY <1>2 DEF IsAlone
    <2>1. /\ bootOutcome[p] = "none" /\ \A q \in BootProc \ {p} : BootAt(q, "idle")
          /\ bootReload[p] /\ CachedBy(p) \subseteq bootRow
      BY <1>1, <1>2 DEF InPhase, IsAlone, BootAt, Caching
    <2>2. CASE after = "commands"
      BY <1>2, <1>3, <1>5, <1>6, <1>7, <2>1, <2>2 DEF IsAlone, CachedBy, BootAt, Caching
    <2>3. CASE after = "downloaders"
      BY <1>2, <1>3, <1>5, <1>6, <1>7, <2>1, <2>3 DEF IsAlone, CachedBy, BootAt, Caching, Shipped
    <2>4. CASE after = "load"
      BY <1>2, <1>5, <1>6, <1>9, <2>1, <2>4 DEF IsAlone, CachedBy, BootAt, Caching
    <2> QED
      BY <1>5, <2>2, <2>3, <2>4
  <1> QED
    BY <1>2, <1>6, <1>10, <1>11, <1>12, <1>13, BootOthers

\* The top call is another one now.
LEMMA Replaced ==
  ASSUME NEW S, NEW s \in Seq(S), s # <<>>, NEW f \in S
  PROVE  LET t == Append(Front(s), f) IN
           /\ t \in Seq(S) /\ t # <<>> /\ Len(t) = Len(s) /\ Len(s) \in Nat \ {0}
           /\ \A k \in 1..(Len(s) - 1) : t[k] = s[k]
           /\ t[Len(s)] = f
  <1> DEFINE r == Front(s)
  <1>1. /\ r \in Seq(S) /\ Len(s) \in Nat \ {0} /\ Len(r) = Len(s) - 1
        /\ \A i \in 1..(Len(s) - 1) : r[i] = s[i]
    BY OnTop
  <1> HIDE DEF r
  <1> DEFINE u == Append(r, f)
  <1>2. /\ u \in Seq(S) /\ u # <<>> /\ Len(u) = Len(s) /\ u[Len(s)] = f
        /\ \A i \in 1..(Len(s) - 1) : u[i] = s[i]
    BY <1>1, AppendProperties
  <1> QED
    BY <1>1, <1>2 DEF u, r

\* The calls of p change and nothing else but rows that come.
LEMMA CallsChange ==
  ASSUME NEW h, BootInv(h), NEW p \in BootProc, BootAt(p, "load"),
         NEW new \in Seq(Call), new # <<>>, calls' = [calls EXCEPT ![p] = new],
         bootRow \subseteq bootRow', bootRow' \subseteq BootName,
         UNCHANGED <<phase, option, bootReload, todo, saving, bootOutcome, sure, alone>>,
         sure[p] => \A k \in 1..Len(new) : Fits(h, k, new[k])
  PROVE  BootInv(h)'
  <1>1. BootTypeOK /\ InPhase(p) /\ IsSure(h, p) /\ IsAlone(p)
    BY DEF BootInv
  <1>2. calls'[p] = new /\ \A q \in BootProc \ {p} : calls'[q] = calls[q]
    BY <1>1 DEF BootTypeOK
  <1>3. BootTypeOK'
    BY <1>1 DEF BootTypeOK
  <1>4. InPhase(p)'
    BY <1>1, <1>2 DEF InPhase, Caching, BootAt
  <1>5. IsSure(h, p)'
    BY <1>1, <1>2 DEF IsSure
  <1>6. IsAlone(p)'
    BY <1>1 DEF IsAlone, Caching, BootAt
  <1> QED
    BY <1>2, <1>3, <1>4, <1>5, <1>6, BootOthers DEF BootAt

\* A call that goes one deeper.
LEMMA DeeperKeeps ==
  ASSUME NEW h, RoomFor(h), BootInv(h), NEW p \in BootProc, BootAt(p, "load"),
         NEW f \in Call, NEW n \in BootName, Deeper(p, f, n),
         UNCHANGED <<cache, bootHistory, bootRuns, bootFaults>>,
         sure[p] => /\ Fits(h, Len(calls[p]), f) /\ Len(calls[p]) < BootMaxDepth
                    /\ Len(calls[p]) + 1 + h[n] <= BootMaxDepth
  PROVE  BootInv(h)'
  <1>1. BootTypeOK /\ InPhase(p) /\ IsSure(h, p) /\ IsAlone(p)
    BY DEF BootInv
  <1>2. calls[p] \in Seq(Call) /\ calls[p] # <<>> /\ Len(calls[p]) \in Nat \ {0}
    BY <1>1, BootTopIs
  <1>3. UNCHANGED <<bootRow, sure, alone>>
    BY DEF cache, bootHistory
  <1>4. CASE Len(calls[p]) < BootMaxDepth
    <2> DEFINE new == Append(Append(Front(calls[p]), f), BootFrame(n))
    <2>1. /\ calls' = [calls EXCEPT ![p] = new]
          /\ UNCHANGED <<phase, option, bootReload, todo, saving, bootOutcome>>
      BY <1>4 DEF Deeper, BootCall
    <2>2. /\ BootFrame(n) \in Call /\ BootFrame(n).at = "look" /\ BootFrame(n).name = n
          /\ BootFrame(n).todo = {}
      BY DEF BootFrame, Call
    <2>3. /\ new \in Seq(Call) /\ new # <<>> /\ Len(new) = Len(calls[p]) + 1
          /\ \A k \in 1..(Len(calls[p]) - 1) : new[k] = calls[p][k]
          /\ new[Len(calls[p])] = f /\ new[Len(calls[p]) + 1] = BootFrame(n)
      BY <1>2, <2>2, Pushed
    <2> HIDE DEF new
    <2>4. ASSUME sure[p], NEW k \in 1..Len(new) PROVE Fits(h, k, new[k])
      <3>1. CASE k \in 1..(Len(calls[p]) - 1)
        <4>1. k \in 1..Len(calls[p])
          BY <1>2, <3>1
        <4> QED
          BY <1>1, <2>3, <2>4, <3>1, <4>1 DEF IsSure
      <3>2. CASE k = Len(calls[p])
        BY <2>3, <2>4, <3>2
      <3>3. CASE k = Len(calls[p]) + 1
        BY <2>2, <2>3, <2>4, <3>3 DEF Fits
      <3> QED
        BY <1>2, <2>3, <3>1, <3>2, <3>3
    <2> QED
      BY <1>1, <1>3, <2>1, <2>3, <2>4, CallsChange DEF BootTypeOK
  <1>5. CASE ~(Len(calls[p]) < BootMaxDepth)
    <2>1. BootEnd(p, "stack overflow") /\ UNCHANGED calls
      BY <1>5 DEF Deeper
    <2>2. ~sure[p] /\ ~(alone[p] /\ option[p])
      BY <1>1, <1>5 DEF IsAlone
    <2> QED
      BY <1>3, <2>1, <2>2, BootEnds DEF BootAt
  <1> QED
    BY <1>4, <1>5

\* What the top call still has to call fits, for who is sure.
LEMMA TopFits ==
  ASSUME NEW h, BootInv(h), NEW p \in BootProc, BootAt(p, "load"), sure[p]
  PROVE  Shipped \subseteq bootRow /\ Fits(h, Len(calls[p]), BootTop(p))
  <1>1. BootTypeOK /\ InPhase(p) /\ IsSure(h, p)
    BY DEF BootInv
  <1>2. Len(calls[p]) \in 1..Len(calls[p]) /\ BootTop(p) = calls[p][Len(calls[p])]
    BY <1>1, BootTopIs
  <1> QED
    BY <1>1, <1>2 DEF IsSure

LEMMA LoadsKeeps ==
  ASSUME NEW h, RoomFor(h), BootInv(h), NEW p \in BootProc, BootLoadPlugin(p)
  PROVE  BootInv(h)'
  <1>1. BootTypeOK /\ InPhase(p) /\ BootAt(p, "load") /\ BootTop(p).at = "plugins"
    BY DEF BootInv, BootLoadPlugin
  <1>2. PICK n \in BootTop(p).todo : Deeper(p, [BootTop(p) EXCEPT !.todo = @ \ {n}], n)
    BY DEF BootLoadPlugin
  <1>3. /\ BootTop(p) \in Call /\ n \in BootName /\ Len(calls[p]) \in Nat \ {0}
        /\ BootTop(p).todo \subseteq BootName
    BY <1>1, BootTopIs
  <1> DEFINE f == [BootTop(p) EXCEPT !.todo = @ \ {n}]
  <1>4. f \in Call /\ f.at = "plugins" /\ f.todo = BootTop(p).todo \ {n}
    BY <1>1, <1>3 DEF Call
  <1>5. Deeper(p, f, n)
    BY <1>2
  <1> HIDE DEF f
  <1>6. sure[p] => /\ Fits(h, Len(calls[p]), f) /\ Len(calls[p]) < BootMaxDepth
                   /\ Len(calls[p]) + 1 + h[n] <= BootMaxDepth
    <2> SUFFICES ASSUME sure[p]
                 PROVE  /\ Fits(h, Len(calls[p]), f) /\ Len(calls[p]) < BootMaxDepth
                        /\ Len(calls[p]) + 1 + h[n] <= BootMaxDepth
      OBVIOUS
    <2>1. \A m \in BootTop(p).todo : Len(calls[p]) + 1 + h[m] <= BootMaxDepth
      BY <1>1, TopFits DEF Fits
    <2>2. h[n] \in Nat /\ BootMaxDepth \in Nat
      BY <1>3, BootstrapAssumption DEF RoomFor
    <2> QED
      BY <1>3, <1>4, <2>1, <2>2 DEF Fits
  <1> QED
    BY <1>1, <1>3, <1>4, <1>5, <1>6, DeeperKeeps DEF BootLoadPlugin

\* A package is synced: its plugins are next.
LEMMA SyncedKeeps ==
  ASSUME NEW h, RoomFor(h), BootInv(h), NEW p \in BootProc, BootAt(p, "load"), Synced(p),
         BootTop(p).at \in {"look", "fetch"},
         bootRow \subseteq bootRow', bootRow' \subseteq BootName,
         UNCHANGED <<phase, option, bootReload, todo, saving, bootOutcome, sure, alone>>
  PROVE  BootInv(h)'
  <1>1. BootTypeOK /\ InPhase(p) /\ IsSure(h, p)
    BY DEF BootInv
  <1>2. /\ calls[p] \in Seq(Call) /\ calls[p] # <<>> /\ Len(calls[p]) \in Nat \ {0}
        /\ BootTop(p) \in Call /\ BootTop(p).name \in BootName
    BY <1>1, BootTopIs
  <1> DEFINE f == [BootTop(p) EXCEPT !.at = "plugins", !.todo = BootPlugins[BootTop(p).name]]
             new == Append(Front(calls[p]), f)
  <1>3. f \in Call /\ f.at = "plugins" /\ f.todo = BootPlugins[BootTop(p).name]
    BY <1>2, BootstrapAssumption DEF Call
  <1>4. calls' = [calls EXCEPT ![p] = new]
    BY DEF Synced
  <1> HIDE DEF f
  <1>5. /\ new \in Seq(Call) /\ new # <<>> /\ Len(new) = Len(calls[p])
        /\ \A k \in 1..(Len(calls[p]) - 1) : new[k] = calls[p][k]
        /\ new[Len(calls[p])] = f
    BY <1>2, <1>3, Replaced
  <1> HIDE DEF new
  <1>6. ASSUME sure[p], NEW k \in 1..Len(new) PROVE Fits(h, k, new[k])
    <2>1. CASE k \in 1..(Len(calls[p]) - 1)
      BY <1>1, <1>5, <1>6, <2>1 DEF IsSure
    <2>2. CASE k = Len(calls[p])
      <3>1. Len(calls[p]) + h[BootTop(p).name] <= BootMaxDepth
        BY <1>6, TopFits DEF Fits
      <3>2. \A m \in f.todo : h[m] \in Nat /\ h[m] < h[BootTop(p).name]
        BY <1>2, <1>3, BootstrapAssumption DEF RoomFor
      <3>3. h[BootTop(p).name] \in Nat /\ BootMaxDepth \in Nat
        BY <1>2, BootstrapAssumption DEF RoomFor
      <3>4. \A m \in f.todo : Len(calls[p]) + 1 + h[m] <= BootMaxDepth
        BY <1>2, <3>1, <3>2, <3>3
      <3>5. Fits(h, Len(calls[p]), f)
        BY <1>3, <3>4 DEF Fits
      <3> QED
        BY <1>5, <2>2, <3>5
    <2> QED
      BY <1>2, <1>5, <2>1, <2>2
  <1> QED
    BY <1>4, <1>5, <1>6, CallsChange

LEMMA LooksKeeps ==
  ASSUME NEW h, RoomFor(h), BootInv(h), NEW p \in BootProc, BootLook(p) PROVE BootInv(h)'
  <1>1. BootTypeOK /\ InPhase(p) /\ BootAt(p, "load") /\ BootTop(p).at = "look"
    BY DEF BootInv, BootLook
  <1>2. /\ BootTop(p) \in Call /\ BootTop(p).name \in BootName
        /\ Len(calls[p]) \in Nat \ {0}
    BY <1>1, BootTopIs
  <1>3. CASE BootTop(p).name \in bootRow
    BY <1>1, <1>3, SyncedKeeps DEF BootLook, BootTypeOK, cache, bootHistory
  <1>4. CASE BootTop(p).name \notin bootRow
    <2> DEFINE f == [BootTop(p) EXCEPT !.at = "fetch"]
    <2>1. Deeper(p, f, Git) /\ UNCHANGED <<cache, bootHistory, bootRuns, bootFaults>>
      BY <1>4 DEF BootLook
    <2>2. /\ f \in Call /\ f.at = "fetch" /\ f.name = BootTop(p).name
          /\ f.todo = BootTop(p).todo
      BY <1>1, <1>2 DEF Call
    <2> HIDE DEF f
    <2>3. Git \in BootName
      BY BootstrapAssumption DEF BootName, Shipped
    <2>4. sure[p] => /\ Fits(h, Len(calls[p]), f) /\ Len(calls[p]) < BootMaxDepth
                     /\ Len(calls[p]) + 1 + h[Git] <= BootMaxDepth
      <3> SUFFICES ASSUME sure[p]
                   PROVE  /\ Fits(h, Len(calls[p]), f) /\ Len(calls[p]) < BootMaxDepth
                          /\ Len(calls[p]) + 1 + h[Git] <= BootMaxDepth
        OBVIOUS
      <3>1. Shipped \subseteq bootRow /\ Fits(h, Len(calls[p]), BootTop(p))
        BY <1>1, TopFits
      <3>2. BootTop(p).name \in Others
        BY <1>2, <1>4, <3>1 DEF BootName
      <3>3. h[Git] \in Nat /\ h[BootTop(p).name] \in Nat /\ h[Git] < h[BootTop(p).name]
        BY <1>2, <2>3, <3>2 DEF RoomFor
      <3>4. Len(calls[p]) + h[BootTop(p).name] <= BootMaxDepth /\ BootMaxDepth \in Nat
        BY <1>1, <3>1, BootstrapAssumption DEF Fits
      <3>5. Fits(h, Len(calls[p]), f)
        BY <2>2, <3>1, <3>2, <3>4 DEF Fits
      <3> QED
        BY <1>2, <3>3, <3>4, <3>5
    <2> QED
      BY <1>1, <2>1, <2>2, <2>3, <2>4, DeeperKeeps
  <1> QED
    BY <1>3, <1>4

LEMMA ReturnsKeeps ==
  ASSUME NEW h, BootInv(h), NEW p \in BootProc, BootReturn(p) PROVE BootInv(h)'
  <1>1. /\ BootTypeOK /\ InPhase(p) /\ IsSure(h, p) /\ BootAt(p, "load")
        /\ UNCHANGED <<bootRow, sure, alone>>
    BY DEF BootInv, BootReturn, cache, bootHistory
  <1>2. CASE Len(calls[p]) = 1
    <2>1. BootEnd(p, "ready") /\ UNCHANGED calls /\ phase[p] # "idle"
      BY <1>1, <1>2 DEF BootReturn, BootAt
    <2> QED
      BY <1>1, <2>1, BootEnds
  <1>3. CASE Len(calls[p]) # 1
    <2> DEFINE new == Front(calls[p])
    <2>1. /\ calls' = [calls EXCEPT ![p] = new]
          /\ UNCHANGED <<phase, option, bootReload, todo, saving, bootOutcome>>
      BY <1>3 DEF BootReturn
    <2>2. /\ calls[p] \in Seq(Call) /\ calls[p] # <<>> /\ Len(calls[p]) \in Nat \ {0}
      BY <1>1, BootTopIs
    <2>3. /\ new \in Seq(Call) /\ Len(new) = Len(calls[p]) - 1
          /\ \A k \in 1..(Len(calls[p]) - 1) : new[k] = calls[p][k]
      BY <2>2, OnTop
    <2> HIDE DEF new
    <2>4. new # <<>>
      <3>1. Len(new) # 0
        BY <1>3, <2>2, <2>3
      <3> QED
        BY <2>3, <3>1, EmptySeq
    <2>5. ASSUME sure[p], NEW k \in 1..Len(new) PROVE Fits(h, k, new[k])
      <3>1. k \in 1..Len(calls[p]) /\ new[k] = calls[p][k]
        BY <2>2, <2>3
      <3> QED
        BY <1>1, <2>5, <3>1 DEF IsSure
    <2> QED
      BY <1>1, <2>1, <2>3, <2>4, <2>5, CallsChange DEF BootTypeOK
  <1> QED
    BY <1>2, <1>3

LEMMA FetchesKeeps ==
  ASSUME NEW h, RoomFor(h), BootInv(h), NEW p \in BootProc, BootFetch(p) PROVE BootInv(h)'
  <1>1. BootTypeOK /\ InPhase(p) /\ BootAt(p, "load") /\ BootTop(p).at = "fetch"
    BY DEF BootInv, BootFetch
  <1>2. BootTop(p).name \in BootName
    BY <1>1, BootTopIs
  <1>3. bootRow \subseteq bootRow' /\ bootRow' \subseteq BootName
    BY <1>1, <1>2 DEF BootFetch, BootTypeOK
  <1> QED
    BY <1>1, <1>3, SyncedKeeps DEF BootFetch, bootHistory

LEMMA BootNextInv ==
  ASSUME NEW h, RoomFor(h) PROVE BootInv(h) /\ [BootNext]_bootVars => BootInv(h)'
  <1> SUFFICES ASSUME BootInv(h), [BootNext]_bootVars PROVE BootInv(h)'
    OBVIOUS
  <1>1. CASE UNCHANGED bootVars
    <2>1. UNCHANGED <<bootRow, phase, option, bootReload, todo, saving, calls, bootOutcome,
                      sure, alone>>
      BY <1>1 DEF bootVars, cache, bootProcess, bootHistory
    <2>2. BootTypeOK'
      BY <2>1 DEF BootInv, BootTypeOK
    <2>3. \A p \in BootProc : InPhase(p)' /\ IsSure(h, p)' /\ IsAlone(p)'
      BY <2>1 DEF BootInv, InPhase, IsSure, IsAlone, Caching, CachedBy, BootAt
    <2> QED
      BY <2>2, <2>3 DEF BootInv
  <1>2. ASSUME NEW p \in BootProc, BootCrash(p) \/ BootFetchFails(p) PROVE BootInv(h)'
    <2>1. /\ phase[p] # "idle"
          /\ BootEnd(p, "crash") \/ BootEnd(p, "download")
          /\ UNCHANGED <<bootRow, calls, sure, alone>>
      BY <1>2 DEF BootCrash, BootFetchFails, BootAt, cache, bootHistory
    <2> QED
      BY <2>1, BootEnds
  <1>3. ASSUME NEW p \in BootProc, BootStart(p) \/ BootCrash(p) \/ BootStep(p)
        PROVE  BootInv(h)'
    BY <1>2, <1>3, BootStartKeeps, BeginsKeeps, ForgetsKeeps, SavesKeeps, NextPhaseKeeps,
       LoadsKeeps, LooksKeeps, ReturnsKeeps, FetchesKeeps DEF BootStep
  <1> QED
    BY <1>1, <1>3 DEF BootNext

\* While every shipped package has a row no shipped package is asked of the network, and the
\* calls do not fill the stack, when what is declared does not go round and the stack has room
\* for it: for any number of processes that share the repository (sync.lua:115-129).
THEOREM CachedStaysOffline ==
  ASSUME NEW h, RoomFor(h) PROVE BootSpec => []CachedNeedsNoNetwork
  <1>1. BootInv(h) => CachedNeedsNoNetwork
    BY DEF BootInv, IsSure, CachedNeedsNoNetwork, Fits
  <1>2. BootInit => BootInv(h)
    BY BootInitInv
  <1>3. BootInv(h) /\ [BootNext]_bootVars => BootInv(h)'
    BY BootNextInv
  <1> QED
    BY <1>1, <1>2, <1>3, PTL DEF BootSpec

\* A process that runs alone with -reload ends ready, unless it is killed or a download of a
\* package that is not shipped fails, whatever earlier runs, also killed ones, have left
\* (gsmake.lua:71-87), under the same condition.
THEOREM ReloadAlwaysCures ==
  ASSUME NEW h, RoomFor(h) PROVE BootSpec => []ReloadCures
  <1>1. BootInv(h) => ReloadCures
    BY DEF BootInv, IsAlone, ReloadCures
  <1>2. BootInit => BootInv(h)
    BY BootInitInv
  <1>3. BootInv(h) /\ [BootNext]_bootVars => BootInv(h)'
    BY BootNextInv
  <1> QED
    BY <1>1, <1>2, <1>3, PTL DEF BootSpec

=============================================================================
