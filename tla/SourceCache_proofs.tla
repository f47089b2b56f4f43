------------------------- MODULE SourceCache_proofs -------------------------
(***************************************************************************)
(* Theorems about the source cache, for any number of processes, versions, *)
(* faults and lost directories.                                            *)
(***************************************************************************)
EXTENDS SourceCache, TLAPS

-----------------------------------------------------------------------------
(* Type correctness. *)

Place == {"idle", "look", "look sync", "mirror", "fetch", "download", "unzip",
          "unzipping", "clear", "clearing", "clone", "cloning", "checkout",
          "delete sync", "insert sync", "delete source", "insert source",
          "verify", "returned"}
Part    == {"none", "mirror", "sync_remote", "sync_source"}
Outcome == {"none", "done", "crash", "assert", "rm", "git", "download", "unzip",
            "constraint", "locked"}
State   == {"absent", "partial", "cloned", "ready"}

TypeDisk ==
  dir \in [Dir -> State] /\ hand \in [Dir -> Proc \cup {Nobody}] /\ mirrored \subseteq Version
TypeProcess ==
  /\ pc \in [Proc -> Place] /\ task \in [Proc -> Part] /\ want \in [Proc -> Version]
  /\ fetched \in [Proc -> SUBSET Version] /\ outcome \in [Proc -> Outcome]
TypeRows == source \subseteq Version /\ syncRow \subseteq Version
TypePast == faults \in 0..MaxFaults /\ interrupted \subseteq Version /\ shared \subseteq Version
TypeWorld == published \subseteq Version /\ losses \in 0..MaxLosses

LEMMA TypeParts ==
  /\ TypeOK  <=> TypeDisk /\ TypeProcess /\ TypeRows /\ TypePast /\ TypeWorld
  /\ TypeOK' <=> TypeDisk' /\ TypeProcess' /\ TypeRows' /\ TypePast' /\ TypeWorld'
  BY DEF TypeOK, TypeDisk, TypeProcess, TypeRows, TypePast, TypeWorld, Place, Part, Outcome, State

LEMMA TargetType == ASSUME TypeProcess, NEW p \in Proc PROVE Target(p) \in Dir
  BY DEF TypeProcess, Target, Dir

LEMMA ThrowType ==
  ASSUME TypeProcess, TypePast, NEW p \in Proc, NEW why \in Outcome, Throw(p, why),
         faults' \in 0..MaxFaults
  PROVE  TypeProcess' /\ TypePast'
  <1>1. TypeProcess'
    BY DEF TypeProcess, Throw, Go, Place, Part
  <1>2. TypePast'
    BY DEF TypeProcess, TypePast, Throw
  <1> QED
    BY <1>1, <1>2

LEMMA MoveType ==
  ASSUME TypeProcess, NEW p \in Proc, NEW place \in Place, NEW part \in Part,
         Walk(p, place) \/ Enter(p, part, place)
  PROVE  TypeProcess'
  BY DEF TypeProcess, Walk, Enter, Go

LEMMA SetType ==
  ASSUME TypeDisk, NEW d \in Dir, NEW s \in State, NEW p \in Proc \cup {Nobody}, Set(d, s, p)
  PROVE  TypeDisk'
  BY DEF TypeDisk, Set

LEMMA Spend ==
  ASSUME TypePast, faults' = faults \/ (faults < MaxFaults /\ faults' = faults + 1)
  PROVE  faults' \in 0..MaxFaults
  BY CacheAssumption DEF TypePast

LEMMA StepType ==
  ASSUME TypeOK, NEW p \in Proc, Crash(p) \/ Step(p)
  PROVE  TypeOK'
  <1>t. TypeDisk /\ TypeProcess /\ TypeRows /\ TypePast /\ TypeWorld
    BY TypeParts
  <1>d. Target(p) \in Dir /\ want[p] \in Dir /\ want[p] \in Version
    BY <1>t, TargetType DEF TypeProcess, Dir
  <1>1. CASE Crash(p)
    <2>1. Throw(p, "crash") /\ UNCHANGED <<rows, disk, world>> /\ "crash" \in Outcome
          /\ faults' \in 0..MaxFaults
      BY <1>1, <1>t, Spend DEF Crash, Outcome
    <2> QED
      BY <1>t, <2>1, ThrowType, TypeParts DEF rows, disk, world, TypeDisk, TypeRows, TypeWorld
  <1>2. CASE Engine(p)
    <2>1. TypeProcess' /\ TypePast'
      <3>1. CASE FindSource(p)
        BY <1>t, <3>1, MoveType DEF FindSource, Place, Part, past, TypePast
      <3>2. CASE FindSync(p)
        BY <1>t, <3>2, MoveType DEF FindSync, Place, Part, past, TypePast
      <3>3. CASE Verify(p)
        BY <1>t, <3>3, MoveType DEF Verify, Place, Part, past, TypePast
      <3>4. CASE AssertFails(p)
        BY <1>t, <3>4, ThrowType, Spend DEF AssertFails, Outcome
      <3>5. CASE Leave(p)
        BY <1>t, <3>5 DEF Leave, Go, Place, Part, Outcome, past, TypePast, TypeProcess
      <3> QED
        BY <1>2, <3>1, <3>2, <3>3, <3>4, <3>5 DEF Engine
    <2>2. UNCHANGED <<rows, disk, world>>
      BY <1>2 DEF Engine, FindSource, FindSync, Verify, AssertFails, Leave
    <2> QED
      BY <1>t, <2>1, <2>2, TypeParts DEF rows, disk, world, TypeDisk, TypeRows, TypeWorld
  <1>3. CASE Build(p)
    <2>1. TypeDisk' /\ TypeProcess' /\ TypePast'
      <3>1. CASE StartClear(p)
        <4>1. TypeProcess' /\ TypePast'
          BY <1>t, <3>1, MoveType DEF StartClear, Place, Part, past, TypePast
        <4>2. TypeDisk'
          BY <1>t, <1>d, <3>1, SetType DEF StartClear, State, disk, TypeDisk
        <4> QED
          BY <4>1, <4>2
      <3>2. CASE EndClear(p)
        BY <1>t, <1>d, <3>2, MoveType, SetType DEF EndClear, Place, Part, State, past, TypePast
      <3>3. CASE ClearFails(p)
        BY <1>t, <3>3, ThrowType, Spend DEF ClearFails, Outcome, disk, TypeDisk
      <3>4. CASE StartClone(p)
        <4>1. CASE dir[Target(p)] = "absent"
          BY <1>t, <1>d, <3>4, <4>1, MoveType, SetType
             DEF StartClone, Place, Part, State, past, TypePast
        <4>2. CASE dir[Target(p)] # "absent"
          BY <1>t, <3>4, <4>2, ThrowType, Spend DEF StartClone, Outcome, disk, TypeDisk
        <4> QED
          BY <4>1, <4>2
      <3>5. CASE EndCloneMirror(p)
        <4>1. TypeProcess' /\ TypePast'
          BY <1>t, <3>5, MoveType DEF EndCloneMirror, Place, Part, past, TypePast
        <4>2. TypeDisk'
          BY <1>t, <3>5 DEF EndCloneMirror, State, TypeDisk, TypeProcess
        <4> QED
          BY <4>1, <4>2
      <3>6. CASE EndCloneTree(p)
        BY <1>t, <1>d, <3>6, MoveType, SetType DEF EndCloneTree, Place, Part, State, past, TypePast
      <3>7. CASE CloneFails(p)
        <4>1. Throw(p, "git") /\ Set(Target(p), "absent", Nobody) /\ faults' \in 0..MaxFaults
          BY <1>t, <3>7, Spend DEF CloneFails
        <4> QED
          BY <1>t, <1>d, <4>1, ThrowType, SetType DEF Outcome, State
      <3>8. CASE Checkout(p)
        BY <1>t, <1>d, <3>8, MoveType, SetType DEF Checkout, Place, Part, State, past, TypePast
      <3>9. CASE CheckoutFails(p)
        <4>1. Throw(p, "git") /\ UNCHANGED disk /\ faults' \in 0..MaxFaults
          BY <1>t, <3>9, Spend DEF CheckoutFails
        <4> QED
          BY <1>t, <4>1, ThrowType DEF Outcome, disk, TypeDisk
      <3> QED
        BY <1>3, <3>1, <3>2, <3>3, <3>4, <3>5, <3>6, <3>7, <3>8, <3>9 DEF Build
    <2>2. UNCHANGED <<rows, world>>
      BY <1>3 DEF Build, StartClear, EndClear, ClearFails, StartClone, EndCloneMirror,
                  EndCloneTree, CloneFails, Checkout, CheckoutFails
    <2> QED
      BY <1>t, <2>1, <2>2, TypeParts DEF rows, world, TypeRows, TypeWorld
  <1>4. CASE Remote(p)
    <2>1. TypeDisk' /\ TypeProcess' /\ TypePast'
      <3>1. CASE LookForMirror(p)
        BY <1>t, <3>1, MoveType DEF LookForMirror, Place, Part, past, TypePast, disk, TypeDisk
      <3>2. CASE Fetch(p)
        BY <1>t, <3>2
           DEF Fetch, Go, Place, Part, past, TypePast, TypeProcess, TypeWorld, disk, TypeDisk
      <3>3. CASE Download(p)
        BY <1>t, <3>3
           DEF Download, Go, Place, past, TypePast, TypeProcess, TypeWorld, disk, TypeDisk
      <3>4. CASE DownloadFails(p)
        <4>1. Throw(p, "download") /\ UNCHANGED disk /\ faults' \in 0..MaxFaults
          BY <1>t, <3>4, Spend DEF DownloadFails
        <4> QED
          BY <1>t, <4>1, ThrowType DEF Outcome, disk, TypeDisk
      <3>5. CASE StartUnzip(p) \/ EndUnzip(p)
        BY <1>t, <1>d, <3>5, MoveType, SetType
           DEF StartUnzip, EndUnzip, Place, Part, State, past, TypePast
      <3>6. CASE UnzipFails(p)
        <4>1. Throw(p, "unzip") /\ UNCHANGED disk /\ faults' \in 0..MaxFaults
          BY <1>t, <3>6, Spend DEF UnzipFails
        <4> QED
          BY <1>t, <4>1, ThrowType DEF Outcome, disk, TypeDisk
      <3> QED
        BY <1>4, <3>1, <3>2, <3>3, <3>4, <3>5, <3>6 DEF Remote
    <2>2. UNCHANGED <<rows, world>>
      BY <1>4 DEF Remote, LookForMirror, Fetch, Download, DownloadFails, StartUnzip, EndUnzip,
                  UnzipFails
    <2> QED
      BY <1>t, <2>1, <2>2, TypeParts DEF rows, world, TypeRows, TypeWorld
  <1>5. CASE Save(p)
    <2>1. TypeRows' /\ TypeProcess' /\ TypePast'
      <3>1. CASE DeleteSync(p) \/ InsertSync(p) \/ DeleteSource(p)
        BY <1>t, <1>d, <3>1, MoveType
           DEF DeleteSync, InsertSync, DeleteSource, Place, Part, past, TypePast, TypeRows
      <3>2. CASE InsertSource(p)
        BY <1>t, <1>d, <3>2, MoveType DEF InsertSource, Place, Part, past, TypePast, TypeRows
      <3>3. CASE InsertFails(p)
        BY <1>t, <3>3, ThrowType, Spend DEF InsertFails, Outcome, rows, TypeRows
      <3>4. CASE DatabaseLocked(p)
        BY <1>t, <3>4, ThrowType, Spend DEF DatabaseLocked, Outcome, rows, TypeRows
      <3> QED
        BY <1>5, <3>1, <3>2, <3>3, <3>4 DEF Save
    <2>2. UNCHANGED <<disk, world>>
      BY <1>5 DEF Save, DeleteSync, InsertSync, DeleteSource, InsertSource, InsertFails,
                  DatabaseLocked
    <2> QED
      BY <1>t, <2>1, <2>2, TypeParts DEF disk, world, TypeDisk, TypeWorld
  <1> QED
    BY <1>1, <1>2, <1>3, <1>4, <1>5 DEF Step

LEMMA TypeStep == TypeOK /\ [Next]_vars => TypeOK'
  <1> SUFFICES ASSUME TypeOK, [Next]_vars PROVE TypeOK'
    OBVIOUS
  <1>t. TypeDisk /\ TypeProcess /\ TypeRows /\ TypePast /\ TypeWorld
    BY TypeParts
  <1>1. ASSUME NEW v \in Version, Publish(v) PROVE TypeOK'
    BY <1>1, <1>t, TypeParts DEF Publish, rows, disk, process, past, TypeDisk, TypeProcess,
       TypeRows, TypePast, TypeWorld
  <1>2. ASSUME NEW d \in Dir, Lose(d) PROVE TypeOK'
    <2>1. losses' \in 0..MaxLosses
      BY <1>2, <1>t, CacheAssumption DEF Lose, TypeWorld
    <2> QED
      BY <1>2, <1>t, <2>1, TypeParts DEF Lose, rows, process, past, TypeDisk, TypeProcess,
         TypeRows, TypePast, TypeWorld, State
  <1>3. ASSUME NEW p \in Proc, NEW v \in Version, Begin(p, v) PROVE TypeOK'
    <2>1. TypeProcess'
      BY <1>3, <1>t DEF Begin, TypeProcess, Place, Outcome
    <2>2. TypePast'
      BY <1>3, <1>t DEF Begin, TypePast
    <2> QED
      BY <1>3, <1>t, <2>1, <2>2, TypeParts
         DEF Begin, rows, disk, world, TypeDisk, TypeRows, TypeWorld
  <1>4. CASE UNCHANGED vars
    BY <1>4, <1>t, TypeParts DEF vars, rows, disk, process, past, world, TypeDisk, TypeProcess,
       TypeRows, TypePast, TypeWorld
  <1> QED
    BY <1>1, <1>2, <1>3, <1>4, StepType DEF Next

\* Every variable keeps its type.
THEOREM TypeCorrect == Spec => []TypeOK
  <1>1. Init => TypeOK
    <2> SUFFICES ASSUME Init PROVE TypeOK
      OBVIOUS
    <2>1. TypeDisk /\ TypeProcess /\ TypeRows
      BY DEF Init, TypeDisk, TypeProcess, TypeRows, State, Place, Part, Outcome
    <2>2. TypePast /\ TypeWorld
      BY CacheAssumption DEF Init, TypePast, TypeWorld
    <2> QED
      BY <2>1, <2>2, TypeParts
  <1> QED
    BY <1>1, TypeStep, PTL DEF Spec

-----------------------------------------------------------------------------
(* The invariant behind PathIsReady and DatabaseErrorsNeedSharing.           *)

\* Between the removal of the old tree and the end of the work on the new one.
Building(p) ==
  /\ pc[p] \in {"clearing", "cloning", "checkout", "unzipping"} /\ task[p] # "mirror"

\* From the end of that work to the end of the sync.
Saving == {"delete sync", "insert sync", "delete source", "insert source", "verify", "returned"}

Spoilt == interrupted \cup shared

\* One process at a time syncs a version that is not marked as shared.
Alone ==
  \A p, q \in Proc :
    p # q /\ Active(p) /\ Active(q) /\ want[p] = want[q] => want[p] \in shared

\* A row vouches for the tree, unless a process is building that anew.
RowsTrusted ==
  \A v \in source \ Spoilt :
    dir[v] \in {"ready", "absent"} \/ \E p \in Proc : want[p] = v /\ Building(p)

\* What a process saves or answers is built.
SavesReady == \A p \in Proc : pc[p] \in Saving => dir[want[p]] = "ready" \/ want[p] \in Spoilt

\* What a delete removed stays removed, what an insert wrote stays.
RowsMine ==
  \A p \in Proc :
    \/ want[p] \in shared
    \/ /\ pc[p] = "insert sync" => want[p] \notin syncRow
       /\ pc[p] = "insert source" => want[p] \notin source
       /\ pc[p] = "verify" => want[p] \in source

MirrorTask ==
  \A p \in Proc : task[p] = "mirror" => pc[p] \in {"clear", "clearing", "clone", "cloning"}

SInv == /\ Alone /\ RowsTrusted /\ SavesReady /\ RowsMine /\ MirrorTask
        /\ DatabaseErrorsNeedSharing

\* A process p that syncs v changes nothing but its own place, the rows and the
\* tree of v.
Local(p, v) ==
  /\ v = want[p] /\ Active(p)
  /\ UNCHANGED <<want, shared>> /\ interrupted \subseteq interrupted'
  /\ \A q \in Proc \ {p} : pc'[q] = pc[q] /\ task'[q] = task[q] /\ outcome'[q] = outcome[q]
  /\ \A u \in Version \ {v} : dir'[u] = dir[u]
  /\ \A u \in Version \ {v} : u \in source' <=> u \in source
  /\ \A u \in Version \ {v} : u \in syncRow' <=> u \in syncRow

\* Then this is what the invariant asks of it.
TreeOwed(p, v) ==
  /\ v \in source' \ Spoilt' => dir'[v] \in {"ready", "absent"} \/ Building(p)'
  /\ pc'[p] \in Saving => dir'[v] = "ready" \/ v \in Spoilt'
  /\ task'[p] = "mirror" => pc'[p] \in {"clear", "clearing", "clone", "cloning"}

RowsOwed(p, v) ==
  /\ v \notin shared /\ pc'[p] = "insert sync" => v \notin syncRow'
  /\ v \notin shared /\ pc'[p] = "insert source" => v \notin source'
  /\ v \notin shared /\ pc'[p] = "verify" => v \in source'
  /\ outcome'[p] \in {"constraint", "assert"} => v \in shared

LEMMA LocalStep ==
  ASSUME TypeOK, TypeOK', SInv, NEW p \in Proc, NEW v \in Version,
         Local(p, v), TreeOwed(p, v), RowsOwed(p, v)
  PROVE  SInv'
  <1>t. TypeProcess /\ TypeRows
    BY TypeParts
  <1>1. /\ want[p] = v /\ Active(p) /\ shared' = shared
        /\ \A q \in Proc : want'[q] = want[q] /\ want[q] \in Version
        /\ \A q \in Proc \ {p} : pc'[q] = pc[q] /\ task'[q] = task[q] /\ outcome'[q] = outcome[q]
    BY <1>t DEF Local, TypeProcess
  <1>s. /\ \A u \in Version \ {v} : dir'[u] = dir[u]
        /\ \A u \in Version \ {v} : u \in source' <=> u \in source
        /\ \A u \in Version \ {v} : u \in syncRow' <=> u \in syncRow
        /\ source' \subseteq Version
    BY TypeParts DEF Local, TypeRows
  <1>2. Alone /\ RowsTrusted /\ SavesReady /\ RowsMine /\ MirrorTask /\ DatabaseErrorsNeedSharing
    BY DEF SInv
  <1>3. \A q \in Proc \ {p} : Active(q) /\ want[q] = v => v \in shared
    BY <1>1, <1>2 DEF Alone
  <1>4. Spoilt \subseteq Spoilt'
    BY <1>1 DEF Spoilt, Local
  <1>5. Alone'
    BY <1>1, <1>2 DEF Alone, Active
  <1>6. RowsTrusted'
    <2> SUFFICES ASSUME NEW u \in source' \ Spoilt'
                 PROVE  \/ dir'[u] \in {"ready", "absent"}
                        \/ \E q \in Proc : want'[q] = u /\ Building(q)'
      BY DEF RowsTrusted
    <2>1. CASE u = v
      BY <1>1, <2>1 DEF TreeOwed
    <2>2. CASE u # v
      <3>1. u \in source \ Spoilt /\ dir'[u] = dir[u]
        BY <1>4, <1>s, <2>2
      <3>2. CASE dir[u] \in {"ready", "absent"}
        BY <3>1, <3>2
      <3>3. ASSUME NEW q \in Proc, want[q] = u, Building(q)
            PROVE  want'[q] = u /\ Building(q)'
        <4>1. q \in Proc \ {p}
          BY <1>1, <2>2, <3>3
        <4>2. pc'[q] = pc[q] /\ task'[q] = task[q] /\ want'[q] = want[q]
          BY <1>1, <4>1
        <4> QED
          BY <3>3, <4>2 DEF Building
      <3> QED
        BY <1>2, <3>1, <3>2, <3>3 DEF RowsTrusted
    <2> QED
      BY <2>1, <2>2
  <1>7. SavesReady'
    <2> SUFFICES ASSUME NEW q \in Proc, pc'[q] \in Saving
                 PROVE  dir'[want'[q]] = "ready" \/ want'[q] \in Spoilt'
      BY DEF SavesReady
    <2>1. CASE q = p
      BY <1>1, <2>1 DEF TreeOwed
    <2>2. CASE q # p /\ want[q] = v
      <3>1. Active(q)
        BY <1>1, <2>2 DEF Active, Saving
      <3> QED
        BY <1>1, <1>3, <2>2, <3>1 DEF Spoilt
    <2>3. CASE q # p /\ want[q] # v
      BY <1>1, <1>s, <1>2, <1>4, <2>3 DEF SavesReady
    <2> QED
      BY <2>1, <2>2, <2>3
  <1>8. RowsMine'
    <2> SUFFICES ASSUME NEW q \in Proc, want'[q] \notin shared'
                 PROVE  /\ pc'[q] = "insert sync" => want'[q] \notin syncRow'
                        /\ pc'[q] = "insert source" => want'[q] \notin source'
                        /\ pc'[q] = "verify" => want'[q] \in source'
      BY DEF RowsMine
    <2>1. CASE q = p
      BY <1>1, <2>1 DEF RowsOwed
    <2>2. CASE q # p /\ want[q] = v
      <3>1. ~Active(q)
        BY <1>1, <1>3, <2>2
      <3> QED
        BY <1>1, <2>2, <3>1 DEF Active
    <2>3. CASE q # p /\ want[q] # v
      <3>1. /\ want[q] \in Version \ {v} /\ want[q] \notin shared
            /\ want'[q] = want[q] /\ pc'[q] = pc[q]
        BY <1>1, <2>3
      <3>2. /\ want[q] \in source' <=> want[q] \in source
            /\ want[q] \in syncRow' <=> want[q] \in syncRow
        BY <1>s, <3>1
      <3>3. /\ pc[q] = "insert sync" => want[q] \notin syncRow
            /\ pc[q] = "insert source" => want[q] \notin source
            /\ pc[q] = "verify" => want[q] \in source
        BY <1>2, <3>1 DEF RowsMine
      <3> QED
        BY <3>1, <3>2, <3>3
    <2> QED
      BY <2>1, <2>2, <2>3
  <1>9. MirrorTask'
    BY <1>1, <1>2 DEF MirrorTask, TreeOwed
  <1>10. DatabaseErrorsNeedSharing'
    BY <1>1, <1>2 DEF DatabaseErrorsNeedSharing, RowsOwed
  <1> QED
    BY <1>5, <1>6, <1>7, <1>8, <1>9, <1>10 DEF SInv

\* The tree of a process that is not building one is as its row says.
LEMMA TreeSettled ==
  ASSUME TypeOK, SInv, NEW p \in Proc, Active(p), ~Building(p), want[p] \in source \ Spoilt
  PROVE  dir[want[p]] \in {"ready", "absent"}
  <1>t. TypeProcess
    BY TypeParts
  <1> SUFFICES ASSUME dir[want[p]] \notin {"ready", "absent"} PROVE FALSE
    OBVIOUS
  <1>1. PICK q \in Proc : want[q] = want[p] /\ Building(q)
    BY DEF SInv, RowsTrusted
  <1>2. Active(q) /\ want[p] \notin shared
    BY <1>1 DEF Building, Active, Spoilt
  <1> QED
    BY <1>1, <1>2 DEF SInv, Alone

Moves(p, place) == Walk(p, place) \/ \E part \in Part : Enter(p, part, place)

\* The same for a process that moves on, for one that moves on and leaves the
\* trees and the rows alone, and for one that throws.
LEMMA MoveStep ==
  ASSUME TypeOK, TypeOK', SInv, NEW p \in Proc, Active(p),
         NEW place, Moves(p, place),
         UNCHANGED <<interrupted, shared>>,
         \A u \in Version \ {want[p]} : dir'[u] = dir[u],
         \A u \in Version \ {want[p]} : u \in source' <=> u \in source,
         \A u \in Version \ {want[p]} : u \in syncRow' <=> u \in syncRow,
         TreeOwed(p, want[p]), RowsOwed(p, want[p])
  PROVE  SInv'
  <1>t. TypeProcess
    BY TypeParts
  <1>1. PICK v \in Version : v = want[p]
    BY <1>t DEF TypeProcess
  <1>2. /\ UNCHANGED <<want, outcome>>
        /\ \A q \in Proc \ {p} : pc'[q] = pc[q] /\ task'[q] = task[q]
    BY <1>t DEF Moves, Walk, Enter, Go, TypeProcess
  <1>3. Local(p, v)
    BY <1>1, <1>2 DEF Local
  <1> QED
    BY <1>1, <1>3, LocalStep

LEMMA WalkStep ==
  ASSUME TypeOK, TypeOK', SInv, NEW p \in Proc, Active(p), ~Building(p),
         NEW place, Moves(p, place),
         UNCHANGED <<source, syncRow, interrupted, shared>>,
         \A u \in Version : dir'[u] = dir[u],
         place \notin Saving \/ dir[want[p]] = "ready" \/ want[p] \in Spoilt,
         place \notin {"insert sync", "insert source", "verify"},
         task'[p] # "mirror" \/ place \in {"clear", "clearing", "clone", "cloning"}
  PROVE  SInv'
  <1>t. TypeProcess
    BY TypeParts
  <1>1. pc'[p] = place /\ outcome'[p] = outcome[p] /\ want[p] \in Version
    BY <1>t DEF Moves, Walk, Enter, Go, TypeProcess
  <1>2. RowsOwed(p, want[p])
    BY <1>1 DEF RowsOwed, SInv, DatabaseErrorsNeedSharing
  <1>3. want[p] \in source' \ Spoilt' => dir'[want[p]] \in {"ready", "absent"}
    BY <1>1, TreeSettled DEF Spoilt
  <1>4. TreeOwed(p, want[p])
    BY <1>1, <1>3 DEF TreeOwed, Spoilt
  <1> QED
    BY <1>2, <1>4, MoveStep

LEMMA ThrowStep ==
  ASSUME TypeOK, TypeOK', SInv, NEW p \in Proc, Active(p), NEW why \in Outcome,
         Throw(p, why), UNCHANGED <<source, syncRow>>,
         \A u \in Version \ {want[p]} : dir'[u] = dir[u],
         why \in {"constraint", "assert"} => want[p] \in shared
  PROVE  SInv'
  <1>t. TypeProcess
    BY TypeParts
  <1>1. PICK v \in Version : v = want[p]
    BY <1>t DEF TypeProcess
  <1>2. /\ UNCHANGED <<want, shared>>
        /\ \A q \in Proc \ {p} : pc'[q] = pc[q] /\ task'[q] = task[q] /\ outcome'[q] = outcome[q]
        /\ pc'[p] = "idle" /\ task'[p] = "none" /\ outcome'[p] = why
        /\ interrupted' = IF v \in source THEN interrupted \cup {v} ELSE interrupted
    BY <1>1, <1>t DEF Throw, Go, TypeProcess
  <1>3. Local(p, v)
    BY <1>1, <1>2 DEF Local
  <1>4. v \notin source' \ Spoilt'
    BY <1>2 DEF Spoilt
  <1>5. TreeOwed(p, v)
    BY <1>2, <1>4 DEF TreeOwed, Saving
  <1>6. RowsOwed(p, v)
    BY <1>1, <1>2 DEF RowsOwed
  <1> QED
    BY <1>3, <1>5, <1>6, LocalStep

LEMMA EngineInv ==
  ASSUME TypeOK, TypeOK', SInv, NEW p \in Proc, Engine(p)
  PROVE  SInv'
  <1>t. TypeProcess
    BY TypeParts
  <1>1. CASE FindSource(p)
    <2>1. Active(p) /\ ~Building(p)
      BY <1>1 DEF FindSource, At, Active, Building
    <2>2. CASE want[p] \in source /\ dir[want[p]] # "absent"
      <3>1. dir[want[p]] = "ready" \/ want[p] \in Spoilt
        BY <2>1, <2>2, TreeSettled
      <3>2. Walk(p, "returned") /\ UNCHANGED <<source, syncRow, dir, interrupted, shared>>
        BY <1>1, <2>2 DEF FindSource, rows, disk, past
      <3>3. task'[p] # "mirror"
        BY <1>1, <3>2 DEF SInv, MirrorTask, Walk, FindSource, At
      <3> QED
        BY <2>1, <3>1, <3>2, <3>3, WalkStep DEF Moves
    <2>3. CASE ~(want[p] \in source /\ dir[want[p]] # "absent")
      <3>1. Walk(p, "look sync") /\ UNCHANGED <<source, syncRow, dir, interrupted, shared>>
        BY <1>1, <2>3 DEF FindSource, rows, disk, past
      <3>2. task'[p] # "mirror"
        BY <1>1, <3>1 DEF SInv, MirrorTask, Walk, FindSource, At
      <3> QED
        BY <2>1, <3>1, <3>2, WalkStep DEF Saving, Moves
    <2> QED
      BY <2>2, <2>3
  <1>2. CASE FindSync(p)
    <2>1. Active(p) /\ ~Building(p)
      BY <1>2 DEF FindSync, At, Active, Building
    <2>2. UNCHANGED <<source, syncRow, dir, interrupted, shared>>
      BY <1>2 DEF FindSync, rows, disk, past
    <2>3. PICK part \in {"sync_source", "sync_remote"}, place \in {"clear", "mirror", "download"} :
            Enter(p, part, place)
      BY <1>2 DEF FindSync
    <2>4. task'[p] # "mirror"
      BY <1>t, <2>3 DEF Enter, TypeProcess
    <2> QED
      BY <2>1, <2>2, <2>3, <2>4, WalkStep DEF Saving, Moves, Part
  <1>3. CASE Verify(p)
    <2>1. Active(p) /\ ~Building(p) /\ pc[p] \in Saving
      BY <1>3 DEF Verify, At, Active, Building, Saving
    <2>2. Walk(p, "returned") /\ UNCHANGED <<source, syncRow, dir, interrupted, shared>>
      BY <1>3 DEF Verify, rows, disk, past
    <2>3. task'[p] # "mirror"
      BY <1>3, <2>2 DEF SInv, MirrorTask, Walk, Verify, At
    <2>4. dir[want[p]] = "ready" \/ want[p] \in Spoilt
      BY <2>1 DEF SInv, SavesReady
    <2> QED
      BY <2>1, <2>2, <2>3, <2>4, WalkStep DEF Moves
  <1>4. CASE AssertFails(p)
    <2>1. Active(p) /\ want[p] \in shared
      BY <1>4 DEF AssertFails, At, Active, SInv, RowsMine
    <2> QED
      BY <1>4, <2>1, ThrowStep DEF AssertFails, Outcome, rows, disk
  <1>5. CASE Leave(p)
    <2>1. PICK v \in Version : v = want[p]
      BY <1>t DEF TypeProcess
    <2>2. Active(p) /\ pc[p] \in Saving
      BY <1>5 DEF Leave, At, Active, Saving
    <2>3. /\ UNCHANGED <<want, source, syncRow, dir, interrupted, shared>>
          /\ \A q \in Proc \ {p} : pc'[q] = pc[q] /\ task'[q] = task[q] /\ outcome'[q] = outcome[q]
          /\ pc'[p] = "idle" /\ task'[p] = "none" /\ outcome'[p] = "done"
      BY <1>5, <1>t DEF Leave, Go, TypeProcess, rows, disk, past
    <2>4. Local(p, v)
      BY <2>1, <2>2, <2>3 DEF Local
    <2>5. dir[v] = "ready" \/ v \in Spoilt
      BY <2>1, <2>2 DEF SInv, SavesReady
    <2>6. TreeOwed(p, v)
      BY <2>3, <2>5 DEF TreeOwed, Saving, Spoilt
    <2>7. RowsOwed(p, v)
      BY <2>3 DEF RowsOwed
    <2> QED
      BY <2>4, <2>6, <2>7, LocalStep
  <1> QED
    BY <1>1, <1>2, <1>3, <1>4, <1>5 DEF Engine

LEMMA SaveInv ==
  ASSUME TypeOK, TypeOK', SInv, NEW p \in Proc, Save(p)
  PROVE  SInv'
  <1>t. TypeProcess
    BY TypeParts
  <1>s. ASSUME pc[p] \in Saving
        PROVE  /\ Active(p) /\ task[p] # "mirror"
               /\ dir[want[p]] = "ready" \/ want[p] \in Spoilt
    BY <1>s DEF SInv, SavesReady, MirrorTask, Active, Saving
  <1>o. outcome[p] \in {"constraint", "assert"} => want[p] \in shared
    BY DEF SInv, DatabaseErrorsNeedSharing
  <1>1. CASE DeleteSync(p)
    <2>1. pc[p] \in Saving /\ Walk(p, "insert sync")
      BY <1>1 DEF DeleteSync, At, Saving
    <2>2. UNCHANGED <<source, dir, interrupted, shared>> /\ syncRow' = syncRow \ {want[p]}
      BY <1>1 DEF DeleteSync, disk, past
    <2>3. pc'[p] = "insert sync" /\ task'[p] = task[p] /\ outcome'[p] = outcome[p]
      BY <1>t, <2>1 DEF Walk, Go, TypeProcess
    <2>4. TreeOwed(p, want[p])
      BY <1>s, <2>1, <2>2, <2>3 DEF TreeOwed, Spoilt
    <2>5. RowsOwed(p, want[p])
      BY <1>o, <2>2, <2>3 DEF RowsOwed
    <2> QED
      BY <1>s, <2>1, <2>2, <2>4, <2>5, MoveStep DEF Moves
  <1>2. CASE InsertSync(p)
    <2>1. pc[p] \in Saving /\ Walk(p, "delete source")
      BY <1>2 DEF InsertSync, At, Saving
    <2>2. UNCHANGED <<source, dir, interrupted, shared>> /\ syncRow' = syncRow \cup {want[p]}
      BY <1>2 DEF InsertSync, disk, past
    <2>3. pc'[p] = "delete source" /\ task'[p] = task[p] /\ outcome'[p] = outcome[p]
      BY <1>t, <2>1 DEF Walk, Go, TypeProcess
    <2>4. TreeOwed(p, want[p])
      BY <1>s, <2>1, <2>2, <2>3 DEF TreeOwed, Spoilt
    <2>5. RowsOwed(p, want[p])
      BY <1>o, <2>2, <2>3 DEF RowsOwed
    <2> QED
      BY <1>s, <2>1, <2>2, <2>4, <2>5, MoveStep DEF Moves
  <1>3. CASE DeleteSource(p)
    <2>1. pc[p] \in Saving /\ Walk(p, "insert source")
      BY <1>3 DEF DeleteSource, At, Saving
    <2>2. UNCHANGED <<syncRow, dir, interrupted, shared>> /\ source' = source \ {want[p]}
      BY <1>3 DEF DeleteSource, disk, past
    <2>3. pc'[p] = "insert source" /\ task'[p] = task[p] /\ outcome'[p] = outcome[p]
      BY <1>t, <2>1 DEF Walk, Go, TypeProcess
    <2>4. TreeOwed(p, want[p])
      BY <1>s, <2>1, <2>2, <2>3 DEF TreeOwed, Spoilt
    <2>5. RowsOwed(p, want[p])
      BY <1>o, <2>2, <2>3 DEF RowsOwed
    <2> QED
      BY <1>s, <2>1, <2>2, <2>4, <2>5, MoveStep DEF Moves
  <1>4. CASE InsertSource(p)
    <2>1. pc[p] \in Saving
      BY <1>4 DEF InsertSource, At, Saving
    <2>2. UNCHANGED <<syncRow, dir, interrupted, shared>> /\ source' = source \cup {want[p]}
      BY <1>4 DEF InsertSource, disk, past
    <2>3. PICK place \in {"clear", "verify"} : Enter(p, "sync_source", place)
      BY <1>4 DEF InsertSource
    <2>4. pc'[p] = place /\ task'[p] = "sync_source" /\ outcome'[p] = outcome[p]
      BY <1>t, <2>3 DEF Enter, Go, TypeProcess
    <2>5. TreeOwed(p, want[p])
      BY <1>s, <2>1, <2>2, <2>4 DEF TreeOwed, Spoilt
    <2>6. RowsOwed(p, want[p])
      BY <1>o, <2>2, <2>4 DEF RowsOwed
    <2>7. Moves(p, place)
      BY <2>3 DEF Moves, Part
    <2> QED
      BY <1>s, <2>1, <2>2, <2>5, <2>6, <2>7, MoveStep
  <1>5. CASE InsertFails(p)
    <2>1. Active(p) /\ want[p] \in shared
      BY <1>5 DEF InsertFails, At, Active, SInv, RowsMine
    <2> QED
      BY <1>5, <2>1, ThrowStep DEF InsertFails, Outcome, rows, disk
  <1>6. CASE DatabaseLocked(p)
    <2>1. Active(p)
      BY <1>6 DEF DatabaseLocked, Writes, Active
    <2> QED
      BY <1>6, <2>1, ThrowStep DEF DatabaseLocked, Outcome, rows, disk
  <1> QED
    BY <1>1, <1>2, <1>3, <1>4, <1>5, <1>6 DEF Save

\* What a step does to a tree that it builds.
LEMMA TreeStep ==
  ASSUME TypeOK, TypeOK', SInv, NEW p \in Proc, Active(p), NEW place, NEW state, NEW owner,
         Walk(p, place), Set(want[p], state, owner),
         UNCHANGED <<source, syncRow, interrupted, shared>>,
         \/ state \in {"ready", "absent"}
         \/ place \in {"clearing", "cloning", "checkout", "unzipping"},
         place \notin Saving \/ state = "ready",
         place \notin {"insert sync", "insert source", "verify"},
         task[p] # "mirror"
  PROVE  SInv'
  <1>t. TypeProcess /\ TypeDisk /\ TypeProcess'
    BY TypeParts
  <1>1. /\ pc'[p] = place /\ task'[p] = task[p] /\ outcome'[p] = outcome[p]
        /\ want[p] \in Version /\ want[p] \in Dir
    BY <1>t DEF Walk, Go, TypeProcess, Dir
  <1>2. dir'[want[p]] = state /\ \A u \in Version \ {want[p]} : dir'[u] = dir[u]
    BY <1>t, <1>1 DEF Set, TypeDisk, Dir
  <1>3. RowsOwed(p, want[p])
    BY <1>1 DEF RowsOwed, SInv, DatabaseErrorsNeedSharing
  <1>4. TreeOwed(p, want[p])
    BY <1>1, <1>2 DEF TreeOwed, Building
  <1> QED
    BY <1>2, <1>3, <1>4, MoveStep DEF Moves

LEMMA RemoteInv ==
  ASSUME TypeOK, TypeOK', SInv, NEW p \in Proc, Remote(p)
  PROVE  SInv'
  <1>t. TypeProcess
    BY TypeParts
  <1>m. task[p] = "mirror" => pc[p] \in {"clear", "clearing", "clone", "cloning"}
    BY DEF SInv, MirrorTask
  <1>1. CASE LookForMirror(p)
    <2>1. Active(p) /\ ~Building(p) /\ task[p] # "mirror"
      BY <1>1, <1>m DEF LookForMirror, At, Active, Building
    <2>2. UNCHANGED <<source, syncRow, dir, interrupted, shared>>
      BY <1>1 DEF LookForMirror, rows, disk, past
    <2>3. PICK place \in {"fetch", "clear"} : Walk(p, place)
      BY <1>1 DEF LookForMirror
    <2>4. task'[p] # "mirror"
      BY <2>1, <2>3 DEF Walk
    <2> QED
      BY <2>1, <2>2, <2>3, <2>4, WalkStep DEF Moves, Saving
  <1>2. CASE Fetch(p) \/ Download(p)
    <2>1. PICK v \in Version : v = want[p]
      BY <1>t DEF TypeProcess
    <2>2. Active(p) /\ ~Building(p)
      BY <1>2 DEF Fetch, Download, At, Active, Building
    <2>3. /\ UNCHANGED <<want, outcome, source, syncRow, dir, interrupted, shared>>
          /\ \A q \in Proc \ {p} : pc'[q] = pc[q] /\ task'[q] = task[q]
          /\ pc'[p] \in {"clear", "unzip"}
          /\ task'[p] = "mirror" => pc'[p] = "clear"
      BY <1>2, <1>m, <1>t DEF Fetch, Download, At, Go, TypeProcess, rows, disk, past
    <2>4. Local(p, v)
      BY <2>1, <2>2, <2>3 DEF Local
    <2>5. v \in source' \ Spoilt' => dir'[v] \in {"ready", "absent"}
      BY <2>1, <2>2, <2>3, TreeSettled DEF Spoilt
    <2>6. TreeOwed(p, v)
      BY <2>3, <2>5 DEF TreeOwed, Saving
    <2>7. RowsOwed(p, v)
      BY <2>1, <2>3 DEF RowsOwed, SInv, DatabaseErrorsNeedSharing
    <2> QED
      BY <2>4, <2>6, <2>7, LocalStep
  <1>3. CASE DownloadFails(p)
    <2>1. Active(p)
      BY <1>3 DEF DownloadFails, At, Active
    <2> QED
      BY <1>3, <2>1, ThrowStep DEF DownloadFails, Outcome, rows, disk
  <1>4. CASE StartUnzip(p)
    <2>1. Active(p) /\ task[p] # "mirror"
      BY <1>4, <1>m DEF StartUnzip, At, Active
    <2>2. /\ UNCHANGED <<source, syncRow, interrupted, shared>>
          /\ Set(want[p], "partial", p) /\ Walk(p, "unzipping")
      BY <1>4 DEF StartUnzip, rows, past
    <2> QED
      BY <2>1, <2>2, TreeStep DEF Saving
  <1>5. CASE EndUnzip(p)
    <2>1. Active(p) /\ task[p] # "mirror"
      BY <1>5, <1>m DEF EndUnzip, At, Active
    <2>2. /\ UNCHANGED <<source, syncRow, interrupted, shared>>
          /\ Set(want[p], "ready", Nobody) /\ Walk(p, "delete source")
      BY <1>5 DEF EndUnzip, rows, past
    <2> QED
      BY <2>1, <2>2, TreeStep
  <1>6. CASE UnzipFails(p)
    <2>1. Active(p)
      BY <1>6 DEF UnzipFails, At, Active
    <2> QED
      BY <1>6, <2>1, ThrowStep DEF UnzipFails, Outcome, rows, disk
  <1> QED
    BY <1>1, <1>2, <1>3, <1>4, <1>5, <1>6 DEF Remote

\* A step that changes only the directory of the mirror leaves the trees alone.
LEMMA SetMirror ==
  ASSUME TypeOK, NEW state, NEW owner, Set(Mirror, state, owner)
  PROVE  \A u \in Version : dir'[u] = dir[u]
  BY TypeParts, CacheAssumption DEF Set, TypeDisk, Dir

\* Clearing and cloning: the step goes on to place and sets the directory.
LEMMA TargetStep ==
  ASSUME TypeOK, TypeOK', SInv, NEW p \in Proc, Active(p), NEW place, NEW state, NEW owner,
         Walk(p, place), Set(Target(p), state, owner),
         UNCHANGED <<source, syncRow, interrupted, shared>>,
         state = "absent" \/ place \in {"clearing", "cloning"},
         place \in {"clear", "clearing", "clone", "cloning"}
  PROVE  SInv'
  <1>1. place \notin Saving
    BY DEF Saving
  <1>2. CASE task[p] = "mirror"
    BY <1>1, <1>2, SetMirror, WalkStep DEF Target, Building, Moves
  <1>3. CASE task[p] # "mirror"
    BY <1>1, <1>3, TreeStep DEF Target
  <1> QED
    BY <1>2, <1>3

LEMMA BuildInv ==
  ASSUME TypeOK, TypeOK', SInv, NEW p \in Proc, Build(p)
  PROVE  SInv'
  <1>t. TypeProcess
    BY TypeParts
  <1>m. task[p] = "mirror" => pc[p] \in {"clear", "clearing", "clone", "cloning"}
    BY DEF SInv, MirrorTask
  <1>1. CASE StartClear(p)
    <2>1. Active(p) /\ ~Building(p) /\ UNCHANGED <<source, syncRow, interrupted, shared>>
      BY <1>1 DEF StartClear, At, Active, Building, rows, past
    <2>2. CASE Walk(p, "clone") /\ UNCHANGED disk
      BY <2>1, <2>2, WalkStep DEF Moves, Saving, disk
    <2>3. CASE Walk(p, "clearing") /\ Set(Target(p), "partial", p)
      BY <2>1, <2>3, TargetStep
    <2> QED
      BY <1>1, <2>2, <2>3 DEF StartClear
  <1>2. CASE EndClear(p)
    <2>1. Active(p) /\ UNCHANGED <<source, syncRow, interrupted, shared>>
      BY <1>2 DEF EndClear, At, Active, rows, past
    <2> QED
      BY <1>2, <2>1, TargetStep DEF EndClear
  <1>3. CASE ClearFails(p)
    <2>1. Active(p)
      BY <1>3 DEF ClearFails, At, Active
    <2> QED
      BY <1>3, <2>1, ThrowStep DEF ClearFails, Outcome, rows, disk
  <1>4. CASE StartClone(p)
    <2>1. Active(p) /\ UNCHANGED <<source, syncRow>>
      BY <1>4 DEF StartClone, At, Active, rows
    <2>2. CASE Set(Target(p), "partial", p) /\ Walk(p, "cloning") /\ UNCHANGED past
      BY <2>1, <2>2, TargetStep DEF past
    <2>3. CASE Throw(p, "git") /\ UNCHANGED disk
      BY <2>1, <2>3, ThrowStep DEF Outcome, disk
    <2> QED
      BY <1>4, <2>2, <2>3 DEF StartClone
  <1>5. CASE EndCloneMirror(p)
    <2>1. Active(p) /\ ~Building(p) /\ Enter(p, "sync_remote", "clear")
      BY <1>5 DEF EndCloneMirror, At, Active, Building
    <2>2. \A u \in Version : dir'[u] = dir[u]
      BY <1>5, TypeParts, CacheAssumption DEF EndCloneMirror, TypeDisk, Dir
    <2>3. UNCHANGED <<source, syncRow, interrupted, shared>>
      BY <1>5 DEF EndCloneMirror, rows, past
    <2>4. task'[p] # "mirror"
      BY <1>t, <2>1 DEF Enter, TypeProcess
    <2> QED
      <3>1. Moves(p, "clear")
        BY <2>1 DEF Moves, Part
      <3> QED
        BY <2>1, <2>2, <2>3, <2>4, <3>1, WalkStep DEF Saving
  <1>6. CASE EndCloneTree(p)
    <2>1. Active(p) /\ UNCHANGED <<source, syncRow, interrupted, shared>>
      BY <1>6 DEF EndCloneTree, At, Active, rows, past
    <2> QED
      BY <1>6, <2>1, TreeStep DEF EndCloneTree, Saving
  <1>7. CASE CloneFails(p)
    <2>1. Active(p) /\ UNCHANGED <<source, syncRow>> /\ Throw(p, "git")
      BY <1>7 DEF CloneFails, At, Active, rows
    <2>2. \A u \in Version \ {want[p]} : dir'[u] = dir[u]
      BY <1>7, TypeParts, CacheAssumption DEF CloneFails, Set, Target, TypeDisk, Dir
    <2> QED
      BY <2>1, <2>2, ThrowStep DEF Outcome
  <1>8. CASE Checkout(p)
    <2>1. Active(p) /\ task[p] # "mirror" /\ UNCHANGED <<source, syncRow, interrupted, shared>>
      BY <1>8, <1>m DEF Checkout, At, Active, rows, past
    <2> QED
      BY <1>8, <2>1, TreeStep DEF Checkout
  <1>9. CASE CheckoutFails(p)
    <2>1. Active(p)
      BY <1>9 DEF CheckoutFails, At, Active
    <2> QED
      BY <1>9, <2>1, ThrowStep DEF CheckoutFails, Outcome, rows, disk
  <1> QED
    BY <1>1, <1>2, <1>3, <1>4, <1>5, <1>6, <1>7, <1>8, <1>9 DEF Build

LEMMA BeginInv ==
  ASSUME TypeOK, TypeOK', SInv, NEW p \in Proc, NEW v \in Version, Begin(p, v)
  PROVE  SInv'
  <1>t. TypeProcess
    BY TypeParts
  <1>1. /\ ~Active(p) /\ pc'[p] = "look" /\ want'[p] = v /\ outcome'[p] = "none"
        /\ \A q \in Proc \ {p} : pc'[q] = pc[q] /\ want'[q] = want[q] /\ outcome'[q] = outcome[q]
        /\ UNCHANGED <<source, syncRow, dir, task, interrupted>>
        /\ shared \subseteq shared'
        /\ \A q \in Proc \ {p} : Active(q) /\ want[q] = v => v \in shared'
    BY <1>t DEF Begin, TypeProcess, rows, disk
  <1>2. Spoilt \subseteq Spoilt'
    BY <1>1 DEF Spoilt
  <1>3. Alone'
    BY <1>1 DEF SInv, Alone, Active
  <1>4. RowsTrusted'
    <2> SUFFICES ASSUME NEW u \in source \ Spoilt
                 PROVE  \/ dir[u] \in {"ready", "absent"}
                        \/ \E q \in Proc : want'[q] = u /\ Building(q)'
      BY <1>1, <1>2 DEF RowsTrusted
    <2>1. ASSUME NEW q \in Proc, want[q] = u, Building(q)
          PROVE  want'[q] = u /\ Building(q)'
      <3>1. q \in Proc \ {p}
        BY <1>1, <2>1 DEF Building, Active
      <3> QED
        BY <1>1, <2>1, <3>1 DEF Building
    <2> QED
      BY <2>1 DEF SInv, RowsTrusted
  <1>5. SavesReady'
    BY <1>1, <1>2 DEF SInv, SavesReady, Saving
  <1>6. RowsMine'
    BY <1>1 DEF SInv, RowsMine
  <1>7. MirrorTask'
    BY <1>1 DEF SInv, MirrorTask, Active
  <1>8. DatabaseErrorsNeedSharing'
    BY <1>1 DEF SInv, DatabaseErrorsNeedSharing
  <1> QED
    BY <1>3, <1>4, <1>5, <1>6, <1>7, <1>8 DEF SInv

LEMMA LoseInv ==
  ASSUME TypeOK, SInv, NEW d \in Dir, Lose(d)
  PROVE  SInv'
  <1>1. /\ UNCHANGED <<pc, task, want, outcome, source, syncRow, interrupted, shared>>
        /\ \A p \in Proc : pc[p] = "idle"
        /\ \A u \in Version : dir'[u] \in {dir[u], "absent"}
    BY TypeParts DEF Lose, rows, process, past, Active, TypeDisk, Dir
  <1>2. RowsTrusted'
    <2> SUFFICES ASSUME NEW u \in source \ Spoilt PROVE dir'[u] \in {"ready", "absent"}
      BY <1>1 DEF RowsTrusted, Spoilt
    <2>1. dir[u] \in {"ready", "absent"}
      BY <1>1 DEF SInv, RowsTrusted, Building
    <2> QED
      BY <1>1, <2>1, TypeParts DEF TypeRows
  <1>3. Alone' /\ SavesReady' /\ RowsMine'
    BY <1>1 DEF SInv, Alone, Active, SavesReady, Saving, RowsMine
  <1>4. MirrorTask' /\ DatabaseErrorsNeedSharing'
    BY <1>1 DEF SInv, MirrorTask, DatabaseErrorsNeedSharing
  <1> QED
    BY <1>2, <1>3, <1>4 DEF SInv

\* A step that touches nothing the invariant is about.
LEMMA StillInv ==
  ASSUME SInv, UNCHANGED <<pc, task, want, outcome, source, syncRow, dir, interrupted, shared>>
  PROVE  SInv'
  <1>1. Alone'
    BY DEF SInv, Alone, Active
  <1>2. RowsTrusted'
    BY DEF SInv, RowsTrusted, Building, Spoilt
  <1>3. SavesReady'
    BY DEF SInv, SavesReady, Spoilt
  <1>4. RowsMine' /\ MirrorTask' /\ DatabaseErrorsNeedSharing'
    BY DEF SInv, RowsMine, MirrorTask, DatabaseErrorsNeedSharing
  <1> QED
    BY <1>1, <1>2, <1>3, <1>4 DEF SInv

LEMMA SInvInit == Init => SInv
  BY DEF Init, SInv, Alone, RowsTrusted, SavesReady, RowsMine, MirrorTask,
         DatabaseErrorsNeedSharing, Active, Saving

LEMMA SInvStep == TypeOK /\ TypeOK' /\ SInv /\ [Next]_vars => SInv'
  <1> SUFFICES ASSUME TypeOK, TypeOK', SInv, [Next]_vars PROVE SInv'
    OBVIOUS
  <1>1. ASSUME NEW v \in Version, Publish(v) PROVE SInv'
    BY <1>1, StillInv DEF Publish, rows, disk, process, past
  <1>2. ASSUME NEW p \in Proc, Crash(p) PROVE SInv'
    BY <1>2, ThrowStep DEF Crash, Outcome, rows, disk
  <1>3. ASSUME NEW p \in Proc, Step(p) PROVE SInv'
    BY <1>3, EngineInv, BuildInv, RemoteInv, SaveInv DEF Step
  <1>4. CASE UNCHANGED vars
    BY <1>4, StillInv DEF vars, rows, disk, process, past
  <1> QED
    BY <1>1, <1>2, <1>3, <1>4, LoseInv, BeginInv DEF Next

LEMMA SInvAlways == Spec => [](TypeOK /\ SInv)
  BY TypeCorrect, SInvInit, SInvStep, PTL DEF Spec

\* sync answers with a finished tree of the version that was asked for, unless
\* two processes synced that version at once or an earlier sync of it was broken
\* off while its row stood.
THEOREM AnswersAreReady == Spec => []PathIsReady
  <1>1. TypeOK /\ SInv => PathIsReady
    BY DEF SInv, SavesReady, Saving, Spoilt, PathIsReady
  <1> QED
    BY <1>1, SInvAlways, PTL

\* A constraint error and the assertion of sync_source are met only by processes
\* whose version another process was syncing too.
THEOREM DatabaseErrorsAreShared == Spec => []DatabaseErrorsNeedSharing
  <1>1. TypeOK /\ SInv => DatabaseErrorsNeedSharing
    BY DEF SInv
  <1> QED
    BY <1>1, SInvAlways, PTL

-----------------------------------------------------------------------------
(* The invariant behind RowMeansReady: the curl downloader.                  *)

CurlPlace == {"idle", "look", "look sync", "download", "unzip", "unzipping",
              "delete source", "insert source", "verify", "returned"}

\* From the look-up that found no row to the new row.
Fetching == {"look sync", "download", "unzip", "unzipping", "delete source", "insert source"}

\* The curl plugin saves no _SYNC row, so there is never a mirror to copy from; a row is
\* written for a whole tree, and no tree that has a row is touched.
CurlRows ==
  /\ \A v \in source : dir[v] = "ready"
  /\ \A p \in Proc : pc[p] \in Fetching => want[p] \notin source
  /\ \A p \in Proc : pc[p] \in {"delete source", "insert source"} => dir[want[p]] = "ready"

CurlInv ==
  /\ syncRow = {} /\ \A p \in Proc : pc[p] \in CurlPlace
  /\ losses = 0 => CurlRows

\* A step of the only process.
LEMMA CurlStep ==
  ASSUME Downloader = "curl", TypeOK, CurlInv, NEW p \in Proc, Crash(p) \/ Step(p)
  PROVE  CurlInv'
  <1>t. TypeProcess /\ TypeDisk /\ TypeRows
    BY TypeParts
  <1>1. /\ \A q \in Proc : q = p
        /\ pc[p] \in CurlPlace /\ syncRow = {} /\ (losses = 0 => CurlRows)
        /\ want[p] \in Version /\ Version \subseteq Dir
    BY <1>t, CacheAssumption DEF CurlInv, TypeProcess, Dir
  \* Where it goes, and what it does to the rows and the tree.
  <1> DEFINE Kept == UNCHANGED <<source, syncRow, dir, losses, want>>
  <1>2. CASE Crash(p) \/ AssertFails(p) \/ DownloadFails(p) \/ UnzipFails(p) \/ InsertFails(p)
             \/ DatabaseLocked(p) \/ Leave(p)
    <2>1. pc'[p] = "idle" /\ Kept
      BY <1>t, <1>2 DEF Crash, AssertFails, DownloadFails, UnzipFails, InsertFails, DatabaseLocked,
                        Leave, Throw, Go, rows, disk, world, TypeProcess
    <2> QED
      BY <1>1, <2>1 DEF CurlInv, CurlRows, CurlPlace, Fetching
  <1>3. CASE FindSource(p)
    <2>1. Kept
      BY <1>3 DEF FindSource, Walk, rows, disk, world
    <2>2. CASE want[p] \in source /\ dir[want[p]] # "absent"
      <3>1. pc'[p] = "returned"
        BY <1>t, <1>3, <2>2 DEF FindSource, Walk, Go, TypeProcess
      <3> QED
        BY <1>1, <2>1, <3>1 DEF CurlInv, CurlRows, CurlPlace, Fetching
    <2>3. CASE ~(want[p] \in source /\ dir[want[p]] # "absent")
      <3>1. pc'[p] = "look sync"
        BY <1>t, <1>3, <2>3 DEF FindSource, Walk, Go, TypeProcess
      <3>2. CurlRows => want[p] \notin source
        BY <2>3 DEF CurlRows
      <3> QED
        BY <1>1, <2>1, <3>1, <3>2 DEF CurlInv, CurlRows, CurlPlace, Fetching
    <2> QED
      BY <2>2, <2>3
  <1>4. CASE FindSync(p) \/ Download(p)
    <2>1. pc'[p] \in {"download", "unzip"} /\ Kept /\ pc[p] \in Fetching
      BY <1>t, <1>1, <1>4 DEF FindSync, Download, Enter, Go, At, rows, disk, world, TypeProcess,
                              Fetching
    <2> QED
      BY <1>1, <2>1 DEF CurlInv, CurlRows, CurlPlace, Fetching
  <1>5. CASE Verify(p)
    <2>1. pc'[p] = "returned" /\ Kept
      BY <1>t, <1>5 DEF Verify, Walk, Go, rows, disk, world, TypeProcess
    <2> QED
      BY <1>1, <2>1 DEF CurlInv, CurlRows, CurlPlace, Fetching
  <1>6. CASE StartUnzip(p)
    <2>1. /\ pc'[p] = "unzipping" /\ pc[p] \in Fetching
          /\ UNCHANGED <<source, syncRow, losses, want>>
          /\ \A v \in Version : v # want[p] => dir'[v] = dir[v]
      BY <1>t, <1>1, <1>6 DEF StartUnzip, Walk, Go, At, Set, rows, world, TypeProcess, TypeDisk,
                              Fetching
    <2> QED
      BY <1>t, <1>1, <2>1 DEF CurlInv, CurlRows, CurlPlace, Fetching, TypeRows
  <1>7. CASE EndUnzip(p)
    <2>1. /\ pc'[p] = "delete source" /\ pc[p] \in Fetching
          /\ UNCHANGED <<source, syncRow, losses, want>> /\ dir'[want[p]] = "ready"
          /\ \A v \in Version : v # want[p] => dir'[v] = dir[v]
      BY <1>t, <1>1, <1>7 DEF EndUnzip, Walk, Go, At, Set, rows, world, TypeProcess, TypeDisk,
                              Fetching
    <2> QED
      BY <1>t, <1>1, <2>1 DEF CurlInv, CurlRows, CurlPlace, Fetching, TypeRows
  <1>8. CASE DeleteSource(p)
    <2>1. /\ pc'[p] = "insert source" /\ pc[p] = "delete source"
          /\ source' = source \ {want[p]} /\ UNCHANGED <<syncRow, dir, losses, want>>
      BY <1>t, <1>8 DEF DeleteSource, Walk, Go, At, disk, world, TypeProcess
    <2> QED
      BY <1>1, <2>1 DEF CurlInv, CurlRows, CurlPlace, Fetching
  <1>9. CASE InsertSource(p)
    <2>1. /\ pc'[p] = "verify" /\ pc[p] = "insert source"
          /\ source' = source \cup {want[p]} /\ UNCHANGED <<syncRow, dir, losses, want>>
      BY <1>t, <1>9 DEF InsertSource, Enter, Go, At, disk, world, TypeProcess
    <2> QED
      BY <1>1, <2>1 DEF CurlInv, CurlRows, CurlPlace, Fetching
  <1>10. CASE \/ Build(p) \/ LookForMirror(p) \/ Fetch(p) \/ DeleteSync(p) \/ InsertSync(p)
    <2>1. pc[p] \in {"clear", "clearing", "clone", "cloning", "checkout", "mirror", "fetch",
                     "delete sync", "insert sync"}
      BY <1>10
         DEF Build, StartClear, EndClear, ClearFails, StartClone, EndCloneMirror, EndCloneTree,
                   CloneFails, Checkout, CheckoutFails, LookForMirror, Fetch, DeleteSync,
                   InsertSync,
                   At
    <2> QED
      BY <1>1, <2>1 DEF CurlPlace
  <1> QED
    BY <1>2, <1>3, <1>4, <1>5, <1>6, <1>7, <1>8, <1>9, <1>10 DEF Step, Engine, Remote, Save

LEMMA CurlInvStep ==
  ASSUME Downloader = "curl"
  PROVE  TypeOK /\ CurlInv /\ [Next]_vars => CurlInv'
  <1> SUFFICES ASSUME TypeOK, CurlInv, [Next]_vars PROVE CurlInv'
    OBVIOUS
  <1>1. ASSUME NEW v \in Version, Publish(v) PROVE CurlInv'
    BY <1>1 DEF Publish, rows, disk, process, CurlInv, CurlRows
  <1>2. ASSUME NEW d \in Dir, Lose(d) PROVE CurlInv'
    <2>1. losses' # 0 /\ syncRow' = syncRow /\ pc' = pc
      BY <1>2, TypeParts, CacheAssumption DEF Lose, TypeWorld, rows, process
    <2> QED
      BY <2>1 DEF CurlInv
  <1>3. ASSUME NEW p \in Proc, NEW v \in Version, Begin(p, v) PROVE CurlInv'
    <2>1. pc'[p] = "look" /\ UNCHANGED <<source, syncRow, dir, losses>> /\ \A q \in Proc : q = p
      BY <1>3, TypeParts, CacheAssumption DEF Begin, TypeProcess, rows, disk, world
    <2> QED
      BY <2>1 DEF CurlInv, CurlRows, CurlPlace, Fetching
  <1>4. CASE UNCHANGED vars
    BY <1>4 DEF vars, rows, disk, process, world, CurlInv, CurlRows
  <1> QED
    BY <1>1, <1>2, <1>3, <1>4, CurlStep DEF Next

\* With the curl downloader, and while nobody removes a directory, a package that can be
\* answered from its row is whole, after any crash and any failure: the one row is saved
\* after the last change of the tree (curl plugin.lua:65-82).
THEOREM CurlRowsMeanReady ==
  ASSUME Downloader = "curl"
  PROVE  Spec => []RowMeansReady
  <1>1. Init => CurlInv
    BY DEF Init, CurlInv, CurlRows, CurlPlace, Fetching
  <1>2. TypeOK /\ CurlInv => RowMeansReady
    BY DEF CurlInv, CurlRows, RowMeansReady
  <1> QED
    BY <1>1, <1>2, CurlInvStep, TypeCorrect, PTL DEF Spec

=============================================================================
