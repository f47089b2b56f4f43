-------------------------- MODULE TaskRunner_proofs --------------------------
(***************************************************************************)
(* Theorems about the task runner, for every set of names and owners,      *)
(* every table of declarations and any number of runs.                     *)
(***************************************************************************)
EXTENDS TaskRunner, TLAPS, SequenceTheorems, FiniteSetTheorems, WellFoundedInduction

-----------------------------------------------------------------------------
(* The inductive invariant. *)

\* The shape of topSort's stack: an activation and the one it called are
\* linked by the Prev of the task the caller is looking at.
PrevAt(k, i) == decl[taskGroups[frames[k].group][i]][frames[k].group]

StackShape ==
  /\ phase = "sort" => Len(frames) > 0
  /\ phase \in {"idle", "register", "invoke"} => frames = <<>>
  /\ phase = "sort" => requested \in Name /\ frames[1].group = requested
  /\ \A k \in 1..Len(frames) :
       /\ taskGroups[frames[k].group] # <<>>
       /\ frames[k].next <= Len(taskGroups[frames[k].group]) + 1
       /\ \A i \in 1..Len(frames[k].sort) : taskGroups[frames[k].sort[i]] # <<>>
  /\ \A k \in 1..(Len(frames) - 1) :
       /\ frames[k].next <= Len(taskGroups[frames[k].group])
       /\ PrevAt(k, frames[k].next) = frames[k + 1].group

\* Where run stands in the schedule, and that there is none before the sort ends.
CallShape ==
  /\ phase \in {"register", "sort"} => callstack = <<>> /\ invoked = <<>> /\ at = 1 /\ slot = 1
  /\ \A i \in 1..Len(callstack) : taskGroups[callstack[i]] # <<>>
  /\ phase = "invoke" => /\ at <= Len(callstack)
                         /\ slot <= Len(taskGroups[callstack[at]])

Shape == TypeOK /\ StackShape /\ CallShape

-----------------------------------------------------------------------------
(* Type correctness. *)

LEMMA OwnerFacts == Plugin \subseteq Owner /\ Package \in Owner
  BY DEF Owner

LEMMA InitShape == Init => Shape
  <1> SUFFICES ASSUME Init PROVE Shape
    OBVIOUS
  <1>1. TypeOK
    BY NamesAssumption DEF Init, TypeOK
  <1>2. StackShape /\ CallShape
    BY DEF Init, StackShape, CallShape
  <1> QED
    BY <1>1, <1>2 DEF Shape

\* The task topSort is looking at is a task of its group.
LEMMA TopType ==
  ASSUME TypeOK, Len(frames) > 0
  PROVE  /\ Len(frames) \in Nat \ {0}
         /\ Top \in Activation
         /\ Top.group \in Name /\ Top.next \in Nat \ {0} /\ Top.sort \in Seq(Name)
         /\ taskGroups[Top.group] \in Seq(Owner)
         /\ Sorted \in Seq(Name)
  <1>1. frames \in Seq(Activation)
    BY DEF TypeOK
  <1>2. Len(frames) \in Nat \ {0} /\ Top \in Activation
    BY <1>1 DEF Top
  <1>3. Top.group \in Name /\ Top.next \in Nat \ {0} /\ Top.sort \in Seq(Name)
    BY <1>2 DEF Activation
  <1>4. Sorted \in Seq(Name)
    BY <1>3 DEF Sorted
  <1> QED
    BY <1>2, <1>3, <1>4 DEF TypeOK

LEMMA EnterType ==
  ASSUME TypeOK, NEW g \in Name, Enter(g)
  PROVE  /\ mark' \in [Name -> {"white", "gray", "black"}]
         /\ checkerOfDCG' \in Seq(Name)
         /\ frames' \in Seq(Activation)
         /\ Len(frames') = Len(frames) + 1
         /\ frames'[Len(frames')] = Frame(g)
         /\ \A k \in 1..Len(frames) : frames'[k] = frames[k]
  <1>1. Frame(g) \in Activation
    BY DEF Frame, Activation
  <1>2. frames \in Seq(Activation) /\ checkerOfDCG \in Seq(Name)
    BY DEF TypeOK
  <1>3. frames' = Append(frames, Frame(g)) /\ checkerOfDCG' = Append(checkerOfDCG, g)
    BY DEF Enter
  <1>4. mark' \in [Name -> {"white", "gray", "black"}]
    BY DEF TypeOK, Enter
  <1> QED
    BY <1>1, <1>2, <1>3, <1>4

\* The stack after the innermost topSort has gone on to its next task.
LEMMA SkipFrames ==
  ASSUME TypeOK, Len(frames) > 0, frames' = [frames EXCEPT ![Len(frames)] = Advance(@)]
  PROVE  /\ frames' \in Seq(Activation) /\ Len(frames') = Len(frames)
         /\ \A k \in 1..(Len(frames) - 1) : frames'[k] = frames[k]
         /\ frames'[Len(frames)].group = Top.group
         /\ frames'[Len(frames)].next = Top.next + 1
         /\ frames'[Len(frames)].sort = Top.sort
  <1>1. frames \in Seq(Activation)
    BY DEF TypeOK
  <1>2. frames' = [frames EXCEPT ![Len(frames)] = Advance(Top)]
    BY DEF Top
  <1>5. Len(frames) \in 1..Len(frames)
    BY <1>1
  <1>3. Advance(Top) \in Activation /\ Advance(Top).group = Top.group
        /\ Advance(Top).next = Top.next + 1 /\ Advance(Top).sort = Top.sort
    BY SMTT(30), TopType DEF Advance, Activation
  <1>4. frames' \in Seq(Activation) /\ Len(frames') = Len(frames)
    BY <1>1, <1>2, <1>3, <1>5, ExceptSeq
  <1>6. \A k \in 1..(Len(frames) - 1) : frames'[k] = frames[k]
    BY <1>1, <1>2, <1>3, <1>5, ExceptSeq
  <1>7. frames'[Len(frames)] = Advance(Top)
    BY <1>1, <1>2, <1>3, <1>5, ExceptSeq
  <1> QED
    BY <1>3, <1>4, <1>6, <1>7

LEMMA ResumeType ==
  ASSUME NEW f \in Activation, NEW s \in Seq(Name)
  PROVE  /\ Resume(f, s) \in Activation
         /\ Resume(f, s).group = f.group
         /\ Resume(f, s).next = f.next + 1
         /\ Resume(f, s).sort = f.sort \o s
  <1>1. f.group \in Name /\ f.next \in Nat \ {0} /\ f.sort \in Seq(Name)
    BY DEF Activation
  <1>2. f.sort \o s \in Seq(Name) /\ f.next + 1 \in Nat \ {0}
    BY <1>1
  <1>3. /\ Advance(f) \in Activation /\ Advance(f).group = f.group
        /\ Advance(f).next = f.next + 1 /\ Advance(f).sort = f.sort
    BY <1>1, <1>2 DEF Advance, Activation
  <1> QED
    BY <1>2, <1>3 DEF Resume, Activation

\* The stack after the innermost topSort has returned to the one that called it.
LEMMA ReturnFrames ==
  ASSUME TypeOK, ReturnToTopSort, NEW n, n = Len(frames) - 1
  PROVE  /\ n \in Nat \ {0} /\ frames' \in Seq(Activation) /\ Len(frames') = n
         /\ \A k \in 1..(n - 1) : frames'[k] = frames[k]
         /\ frames'[n].group = frames[n].group
         /\ frames'[n].next = frames[n].next + 1
         /\ frames'[n].sort = frames[n].sort \o Sorted
  <1>a. frames \in Seq(Activation)
    BY DEF TypeOK
  <1>b. Len(frames) > 1
    BY DEF ReturnToTopSort
  <1>e. Len(frames) \in Nat
    BY <1>a
  <1>c. n \in Nat \ {0} /\ n \in 1..Len(frames)
    BY <1>b, <1>e
  <1>d. Len(frames) > 0
    BY <1>a, <1>b
  <1>1. Sorted \in Seq(Name)
    BY <1>d, TopType
  <1>2. frames' = [i \in 1..n |-> IF i = n THEN Resume(frames[i], Sorted) ELSE frames[i]]
    BY DEF ReturnToTopSort
  <1>3. frames[n] \in Activation
    BY <1>a, <1>c
  <1>4. Resume(frames[n], Sorted) \in Activation
        /\ Resume(frames[n], Sorted).group = frames[n].group
        /\ Resume(frames[n], Sorted).next = frames[n].next + 1
        /\ Resume(frames[n], Sorted).sort = frames[n].sort \o Sorted
    BY <1>1, <1>3, ResumeType
  <1>5. \A i \in 1..n : frames'[i] \in Activation
    BY <1>a, <1>1, <1>2, <1>4, <1>c
  <1>6. frames' \in Seq(Activation) /\ Len(frames') = n
    BY <1>1, <1>2, <1>5, <1>c
  <1>7. frames'[n].group = frames[n].group /\ frames'[n].next = frames[n].next + 1
        /\ frames'[n].sort = frames[n].sort \o Sorted
    BY <1>1, <1>2, <1>4, <1>c
  <1>8. \A k \in 1..(n - 1) : frames'[k] = frames[k]
    BY <1>1, <1>2, <1>c
  <1> QED
    BY <1>c, <1>6, <1>7, <1>8

\* topSort's return uncolours nothing: the group on top turns black.
LEMMA FinishType ==
  ASSUME TypeOK, Len(frames) > 0, FinishGroup
  PROVE  mark' \in [Name -> {"white", "gray", "black"}] /\ checkerOfDCG' \in Seq(Name)
  <1>1. checkerOfDCG \in Seq(Name)
    BY DEF TypeOK
  <1>2. checkerOfDCG' \in Seq(Name)
    BY <1>1 DEF FinishGroup
  <1> QED
    BY <1>2 DEF TypeOK, FinishGroup

\* A task that is called is a task of the group at the cursor.
LEMMA CallType ==
  ASSUME Shape, CallTask
  PROVE  /\ Current \in Name /\ taskGroups[Current] \in Seq(Owner)
         /\ at \in 1..Len(callstack) /\ slot \in 1..Len(taskGroups[Current])
         /\ invoked' \in Seq(Call)
  <1>1. callstack \in Seq(Name) /\ at \in Nat \ {0} /\ slot \in Nat \ {0}
        /\ taskGroups \in [Name -> Seq(Owner)] /\ invoked \in Seq(Call)
    BY DEF Shape, TypeOK
  <1>2. at <= Len(callstack) /\ slot <= Len(taskGroups[Current])
    BY DEF Shape, CallShape, CallTask, Current
  <1>3. at \in 1..Len(callstack)
    BY <1>1, <1>2
  <1>4. Current \in Name /\ taskGroups[Current] \in Seq(Owner)
    BY <1>1, <1>3 DEF Current
  <1>5. slot \in 1..Len(taskGroups[Current])
    BY <1>1, <1>2, <1>4
  <1>6. taskGroups[Current][slot] \in Owner
    BY <1>4, <1>5
  <1>7. [group |-> Current, owner |-> taskGroups[Current][slot],
         userArgs |-> at = Len(callstack)] \in Call
    BY <1>4, <1>6 DEF Call
  <1>8. invoked' \in Seq(Call)
    BY <1>1, <1>7 DEF CallTask
  <1> QED
    BY <1>3, <1>4, <1>5, <1>8

LEMMA TypeStep ==
  ASSUME Shape, [Next]_vars
  PROVE  TypeOK'
  <1>0. TypeOK /\ StackShape
    BY DEF Shape
  <1>1. CASE UNCHANGED vars
    BY <1>0, <1>1 DEF TypeOK, vars, registry, sorting, invoking, control
  <1>2. ASSUME NEW p \in Plugin, Attach(p)
        PROVE  TypeOK'
    BY <1>0, <1>2 DEF TypeOK, Attach, sorting, invoking, control
  <1>3. ASSUME NEW name \in Name \cup {NoName}, Run(name)
        PROVE  TypeOK'
    <2>1. runs \in 0..MaxRuns /\ runs < MaxRuns /\ runs' = runs + 1
      BY <1>0, <1>3 DEF TypeOK, Run
    <2>2. runs' \in 0..MaxRuns
      BY <2>1, NamesAssumption
    <2>3. pending' \in SUBSET Owner
      BY <1>0, <1>3, OwnerFacts DEF TypeOK, Run
    <2>4. at' \in Nat \ {0} /\ slot' \in Nat \ {0}
      BY <1>3 DEF Run
    <2>5. settled' \in SUBSET Name /\ callstack' \in Seq(Name) /\ invoked' \in Seq(Call)
          /\ requested' \in Name \cup {NoName} /\ phase' = "register" /\ outcome' = "none"
          /\ UNCHANGED <<registry, sorting, report>>
      BY <1>3 DEF Run
    <2> QED
      BY <1>0, <2>2, <2>3, <2>4, <2>5 DEF TypeOK, registry, sorting
  <1>4. ASSUME NEW o \in Owner, Register(o)
        PROVE  TypeOK'
    <2>1. taskGroups \in [Name -> Seq(Owner)]
      BY <1>0 DEF TypeOK
    <2>2. taskGroups' \in [Name -> Seq(Owner)]
      BY <1>4, <2>1 DEF Register
    <2>3. pending' \in SUBSET Owner
      BY <1>0, <1>4 DEF TypeOK, Register
    <2> QED
      BY <1>0, <1>4, <2>2, <2>3 DEF TypeOK, Register, sorting, invoking
  <1>5. CASE ReturnUnnamed
    BY <1>0, <1>5 DEF TypeOK, ReturnUnnamed, Return, registry, sorting, invoking
  <1>6. CASE ThrowUnknownTask
    BY <1>0, <1>6 DEF TypeOK, ThrowUnknownTask, Throw, registry, sorting, invoking
  <1>7. CASE CallTopSort
    <2>1. requested \in Name /\ Enter(requested)
      BY <1>0, <1>7 DEF TypeOK, CallTopSort
    <2> QED
      BY <1>0, <1>7, <2>1, EnterType DEF TypeOK, CallTopSort, registry, invoking
  <1>8. CASE CallTopSortOnBlack
    BY <1>0, <1>8 DEF TypeOK, CallTopSortOnBlack, Throw, registry, sorting, invoking
  <1>9. CASE SkipTask
    <2>1. frames' \in Seq(Activation)
      BY <1>0, <1>9, SkipFrames DEF SkipTask, AtTask, StackShape
    <2> QED
      BY <1>0, <1>9, <2>1 DEF TypeOK, SkipTask, registry, invoking, control
  <1>10. CASE SortPrev
    <2>1. PrevAtTop \in Name /\ Enter(PrevAtTop)
      BY <1>10 DEF SortPrev
    <2> QED
      BY <1>0, <1>10, <2>1, EnterType DEF TypeOK, SortPrev, registry, invoking, control
  <1>11. CASE ThrowUnknownPrev
    BY <1>0, <1>11 DEF TypeOK, ThrowUnknownPrev, Throw, registry, sorting, invoking
  <1>12. CASE ThrowCycle
    <2>1. PICK i \in 1..Len(checkerOfDCG) :
            report' = Append(SubSeq(checkerOfDCG, i, Len(checkerOfDCG)), PrevAtTop)
      BY <1>12 DEF ThrowCycle
    <2>2. checkerOfDCG \in Seq(Name)
      BY <1>0 DEF TypeOK
    <2>3. SubSeq(checkerOfDCG, i, Len(checkerOfDCG)) \in Seq(Name)
      BY <2>2
    <2>4. report' \in Seq(Name)
      BY <1>12, <2>1, <2>3 DEF ThrowCycle
    <2> QED
      BY <1>0, <1>12, <2>4 DEF TypeOK, ThrowCycle, Throw, registry, sorting, invoking
  <1>13. CASE ReturnToTopSort
    <2>1. Len(frames) > 0 /\ FinishGroup
      BY <1>0, <1>13 DEF ReturnToTopSort, FinishGroup, StackShape
    <2> QED
      BY <1>0, <1>13, <2>1, FinishType, ReturnFrames
      DEF TypeOK, ReturnToTopSort, registry, invoking, control
  <1>14. CASE ReturnToRun
    <2>1. Len(frames) > 0 /\ FinishGroup
      BY <1>0, <1>14 DEF ReturnToRun, FinishGroup, StackShape
    <2>2. callstack' \in Seq(Name) /\ frames' \in Seq(Activation)
      BY <1>0, <1>14, <2>1, TopType DEF ReturnToRun
    <2> QED
      BY <1>0, <1>14, <2>1, <2>2, FinishType DEF TypeOK, ReturnToRun, registry
  <1>15. CASE TaskSucceeds
    <2>a. at \in Nat \ {0} /\ slot \in Nat \ {0}
      BY <1>0 DEF TypeOK
    <2>1. at' \in Nat \ {0} /\ slot' \in Nat \ {0}
      BY <2>a, <1>15 DEF TaskSucceeds
    <2>2. invoked' \in Seq(Call) /\ UNCHANGED <<registry, sorting, callstack, control>>
      BY <1>15, CallType DEF TaskSucceeds, CallTask
    <2> QED
      BY <1>0, <2>1, <2>2 DEF TypeOK, registry, sorting, control
  <1>16. CASE LastTaskSucceeds
    <2>1. invoked' \in Seq(Call) /\ UNCHANGED <<registry, sorting, callstack>>
      BY <1>16, CallType DEF LastTaskSucceeds, CallTask
    <2> QED
      BY <1>0, <1>16, <2>1 DEF TypeOK, LastTaskSucceeds, Return, registry, sorting
  <1>17. CASE TaskStops
    <2>1. invoked' \in Seq(Call) /\ UNCHANGED <<registry, sorting, callstack>>
      BY <1>17, CallType DEF TaskStops, CallTask
    <2> QED
      BY <1>0, <1>17, <2>1 DEF TypeOK, TaskStops, Return, registry, sorting
  <1>18. CASE TaskThrows
    <2>1. invoked' \in Seq(Call) /\ UNCHANGED <<registry, sorting, callstack>>
      BY <1>18, CallType DEF TaskThrows, CallTask
    <2> QED
      BY <1>0, <1>18, <2>1 DEF TypeOK, TaskThrows, Throw, registry, sorting
  <1> QED
    BY <1>1, <1>2, <1>3, <1>4, <1>5, <1>6, <1>7, <1>8, <1>9, <1>10, <1>11, <1>12,
       <1>13, <1>14, <1>15, <1>16, <1>17, <1>18
    DEF Next, Proceed, Sort, Invoke

-----------------------------------------------------------------------------
(* The shape of the stack. *)

\* Steps that leave the stack and the groups alone.
Quiet == UNCHANGED <<decl, taskGroups, frames>>

LEMMA QuietStack ==
  ASSUME StackShape, Quiet,
         phase' = "sort" => phase = "sort" /\ requested' = requested,
         phase' \in {"idle", "register", "invoke"} => frames = <<>>
  PROVE  StackShape'
  BY DEF StackShape, Quiet, PrevAt

\* An activation of topSort that has just begun, on top of the others.
LEMMA EnterStack ==
  ASSUME Shape, NEW g \in Name, Enter(g), taskGroups[g] # <<>>, UNCHANGED <<decl, taskGroups>>,
         phase' = "sort", requested' \in Name,
         IF Len(frames) = 0 THEN g = requested' ELSE
           /\ phase = "sort" /\ requested' = requested
           /\ Top.next <= Len(taskGroups[Top.group]) /\ PrevAtTop = g
  PROVE  StackShape'
  <1>1. TypeOK /\ StackShape
    BY DEF Shape
  <1>2. /\ frames' \in Seq(Activation) /\ Len(frames') = Len(frames) + 1
        /\ frames'[Len(frames')] = Frame(g)
        /\ \A k \in 1..Len(frames) : frames'[k] = frames[k]
    BY <1>1, EnterType
  <1>a. frames \in Seq(Activation) /\ taskGroups \in [Name -> Seq(Owner)]
    BY <1>1 DEF TypeOK
  <1>b. Len(frames) \in Nat
    BY <1>a
  <1>c. \A k \in 1..Len(frames') : k \in 1..Len(frames) \/ k = Len(frames')
    BY <1>b, <1>2
  <1>3. frames \in Seq(Activation) /\ Len(frames) \in Nat
        /\ taskGroups \in [Name -> Seq(Owner)]
    BY <1>a, <1>b
  <1>4. Frame(g).group = g /\ Frame(g).next = 1 /\ Frame(g).sort = <<>>
    BY DEF Frame
  <1>5. frames'[1].group = requested'
    <2>1. CASE Len(frames) = 0
      BY <1>2, <1>4, <2>1
    <2>2. CASE Len(frames) > 0
      BY <1>1, <1>2, <1>3, <2>2 DEF StackShape
    <2> QED
      BY <1>3, <2>1, <2>2
  <1>6. ASSUME NEW k \in 1..Len(frames')
        PROVE  /\ taskGroups[frames'[k].group] # <<>>
               /\ frames'[k].next <= Len(taskGroups[frames'[k].group]) + 1
               /\ \A i \in 1..Len(frames'[k].sort) : taskGroups[frames'[k].sort[i]] # <<>>
    <2>1. CASE k \in 1..Len(frames)
      BY <1>1, <1>2, <2>1 DEF StackShape
    <2>2. CASE k = Len(frames')
      <3>1. Len(taskGroups[g]) \in Nat
        BY <1>3
      <3> QED
        BY <1>2, <1>4, <2>2, <3>1
    <2> QED
      BY <1>c, <2>1, <2>2
  <1>7. ASSUME NEW k \in 1..(Len(frames') - 1)
        PROVE  /\ frames'[k].next <= Len(taskGroups[frames'[k].group])
               /\ PrevAt(k, frames[k].next)' = frames'[k + 1].group
    <2>1. CASE k \in 1..(Len(frames) - 1)
      <3>1. k + 1 \in 1..Len(frames) /\ k \in 1..Len(frames)
        BY <1>3, <2>1
      <3>2. frames'[k] = frames[k] /\ frames'[k + 1] = frames[k + 1]
        BY <1>2, <3>1
      <3> QED
        BY <1>1, <2>1, <3>2 DEF StackShape, PrevAt
    <2>2. CASE k = Len(frames)
      <3>1. k \in 1..Len(frames) /\ frames'[k] = Top /\ frames'[k + 1] = Frame(g)
        BY <1>2, <1>3, <2>2 DEF Top
      <3> QED
        BY <1>3, <1>4, <2>2, <3>1 DEF PrevAt, PrevAtTop
    <2> QED
      BY <1>2, <1>3, <2>1, <2>2
  <1> QED
    BY <1>2, <1>3, <1>5, <1>6, <1>7 DEF StackShape

LEMMA SkipStack ==
  ASSUME Shape, SkipTask
  PROVE  StackShape'
  <1>1. TypeOK /\ StackShape /\ Len(frames) > 0 /\ phase = "sort"
        /\ UNCHANGED <<decl, taskGroups, phase, requested>>
    BY DEF Shape, StackShape, SkipTask, AtTask, registry, control
  <1>2. /\ frames' \in Seq(Activation) /\ Len(frames') = Len(frames)
        /\ \A k \in 1..(Len(frames) - 1) : frames'[k] = frames[k]
        /\ frames'[Len(frames)].group = Top.group
        /\ frames'[Len(frames)].next = Top.next + 1
        /\ frames'[Len(frames)].sort = Top.sort
    BY <1>1, SkipFrames DEF SkipTask
  <1>3. Len(frames) \in Nat /\ Top.next \in Nat /\ Len(taskGroups[Top.group]) \in Nat
        /\ Top = frames[Len(frames)] /\ Top.next <= Len(taskGroups[Top.group])
    BY <1>1, TopType DEF SkipTask, AtTask, Top
  <1>4. \A k \in 1..Len(frames) : frames'[k].group = frames[k].group
    BY <1>2, <1>3
  <1>5. ASSUME NEW k \in 1..Len(frames')
        PROVE  /\ taskGroups[frames'[k].group] # <<>>
               /\ frames'[k].next <= Len(taskGroups[frames'[k].group]) + 1
               /\ \A i \in 1..Len(frames'[k].sort) : taskGroups[frames'[k].sort[i]] # <<>>
    <2>1. CASE k \in 1..(Len(frames) - 1)
      <3>1. k \in 1..Len(frames) /\ frames'[k] = frames[k]
        BY <1>2, <1>3, <2>1
      <3> QED
        BY <1>1, <3>1 DEF StackShape
    <2>2. CASE k = Len(frames)
      <3>1. /\ taskGroups[Top.group] # <<>>
            /\ \A i \in 1..Len(Top.sort) : taskGroups[Top.sort[i]] # <<>>
        BY <1>1, <1>2, <1>3, <2>2 DEF StackShape
      <3>2. /\ frames'[k].group = Top.group /\ frames'[k].next = Top.next + 1
            /\ frames'[k].sort = Top.sort
        BY <1>2, <2>2
      <3>3. Top.next + 1 <= Len(taskGroups[Top.group]) + 1
        BY <1>3
      <3> QED
        BY <1>1, <3>1, <3>2, <3>3
    <2> QED
      BY <1>2, <1>3, <2>1, <2>2
  <1>6. ASSUME NEW k \in 1..(Len(frames') - 1)
        PROVE  /\ frames'[k].next <= Len(taskGroups[frames'[k].group])
               /\ PrevAt(k, frames[k].next)' = frames'[k + 1].group
    <2>1. k \in 1..(Len(frames) - 1) /\ k + 1 \in 1..Len(frames) /\ frames'[k] = frames[k]
      BY <1>2, <1>3
    <2> QED
      BY <1>1, <1>4, <2>1 DEF StackShape, PrevAt
  <1>7. frames'[1].group = requested
    BY <1>1, <1>3, <1>4 DEF StackShape
  <1> QED
    BY <1>1, <1>2, <1>3, <1>5, <1>6, <1>7 DEF StackShape, TypeOK

LEMMA ReturnStack ==
  ASSUME Shape, ReturnToTopSort
  PROVE  StackShape'
  <1>1. TypeOK /\ StackShape /\ Len(frames) > 0 /\ phase = "sort"
        /\ UNCHANGED <<decl, taskGroups, phase, requested>>
    BY DEF Shape, StackShape, ReturnToTopSort, FinishGroup, registry, control
  <1>2. PICK n : n = Len(frames) - 1
    OBVIOUS
  <1>3. /\ n \in Nat \ {0} /\ frames' \in Seq(Activation) /\ Len(frames') = n
        /\ \A k \in 1..(n - 1) : frames'[k] = frames[k]
        /\ frames'[n].group = frames[n].group
        /\ frames'[n].next = frames[n].next + 1
        /\ frames'[n].sort = frames[n].sort \o Sorted
    BY <1>1, <1>2, ReturnFrames
  <1>a. frames \in Seq(Activation) /\ taskGroups \in [Name -> Seq(Owner)]
    BY <1>1 DEF TypeOK
  <1>b. Len(frames) \in Nat
    BY <1>a
  <1>4. Len(frames) \in Nat /\ Len(frames) = n + 1 /\ frames \in Seq(Activation)
        /\ taskGroups \in [Name -> Seq(Owner)]
    BY <1>2, <1>a, <1>b
  <1>c. n \in 1..Len(frames) /\ \A k \in 1..(n - 1) : k \in 1..Len(frames)
    BY <1>3, <1>4
  <1>5. frames[n] \in Activation
    BY <1>3, <1>4
  <1>6. frames[n].group \in Name /\ frames[n].next \in Nat /\ frames[n].sort \in Seq(Name)
        /\ Len(taskGroups[frames[n].group]) \in Nat
    BY <1>4, <1>5 DEF Activation
  <1>7. frames[n].next <= Len(taskGroups[frames[n].group])
    BY <1>1, <1>3, <1>4 DEF StackShape
  <1>8. \A i \in 1..Len(Sorted) : taskGroups[Sorted[i]] # <<>>
    <2>1. /\ Top.sort \in Seq(Name) /\ taskGroups[Top.group] # <<>>
          /\ \A i \in 1..Len(Top.sort) : taskGroups[Top.sort[i]] # <<>>
      BY <1>1, TopType DEF StackShape, Top
    <2> QED
      BY <2>1 DEF Sorted
  <1>9. \A i \in 1..Len(frames'[n].sort) : taskGroups[frames'[n].sort[i]] # <<>>
    <2>1. Sorted \in Seq(Name)
      BY <1>1, TopType
    <2>2. \A i \in 1..Len(frames[n].sort) : taskGroups[frames[n].sort[i]] # <<>>
      BY SMTT(30), <1>1, <1>3, <1>4 DEF StackShape
    <2>3. PICK s : s = frames[n].sort
      OBVIOUS
    <2>4. PICK a, b : a = Len(s) /\ b = Len(Sorted)
      OBVIOUS
    <2>5. /\ a \in Nat /\ b \in Nat /\ Len(s \o Sorted) = a + b
          /\ \A i \in 1..a : (s \o Sorted)[i] = s[i]
          /\ \A i \in 1..b : (s \o Sorted)[a + i] = Sorted[i]
      <3>1. s \in Seq(Name)
        BY <1>6, <2>3
      <3> QED
        BY <2>1, <2>4, <3>1, ConcatProperties
    <2>6. ASSUME NEW i \in 1..(a + b)
          PROVE  taskGroups[(s \o Sorted)[i]] # <<>>
      <3>1. CASE i \in 1..a
        BY <2>2, <2>3, <2>4, <2>5, <3>1
      <3>2. CASE i - a \in 1..b
        <4>1. (s \o Sorted)[a + (i - a)] = Sorted[i - a] /\ a + (i - a) = i
          BY <2>5, <3>2
        <4> QED
          BY <1>8, <2>4, <3>2, <4>1
      <3> QED
        BY <2>5, <3>1, <3>2
    <2> QED
      BY <1>3, <2>3, <2>5, <2>6
  <1>10. ASSUME NEW k \in 1..Len(frames')
        PROVE  /\ taskGroups[frames'[k].group] # <<>>
               /\ frames'[k].next <= Len(taskGroups[frames'[k].group]) + 1
               /\ \A i \in 1..Len(frames'[k].sort) : taskGroups[frames'[k].sort[i]] # <<>>
    <2>1. CASE k \in 1..(n - 1)
      <3>1. k \in 1..Len(frames) /\ frames'[k] = frames[k]
        BY <1>3, <1>c, <2>1
      <3> QED
        BY <1>1, <3>1 DEF StackShape
    <2>2. CASE k = n
      <3>1. taskGroups[frames[n].group] # <<>>
        BY <1>1, <1>c DEF StackShape
      <3>2. frames[n].next + 1 <= Len(taskGroups[frames[n].group]) + 1
        BY <1>6, <1>7
      <3> QED
        BY <1>1, <1>3, <1>9, <2>2, <3>1, <3>2
    <2> QED
      BY <1>3, <2>1, <2>2
  <1>11. ASSUME NEW k \in 1..(Len(frames') - 1)
         PROVE  /\ frames'[k].next <= Len(taskGroups[frames'[k].group])
                /\ PrevAt(k, frames[k].next)' = frames'[k + 1].group
    <2>1. k \in 1..(n - 1) /\ k \in 1..(Len(frames) - 1) /\ k + 1 \in 1..n
      BY <1>3, <1>4
    <2>2. frames'[k] = frames[k] /\ frames'[k + 1].group = frames[k + 1].group
      BY <1>3, <2>1
    <2> QED
      BY <1>1, <2>1, <2>2 DEF StackShape, PrevAt
  <1>12. frames'[1].group = requested
    <2>1. frames[1].group = requested
      BY <1>1 DEF StackShape
    <2>2. n = 1 \/ 1 \in 1..(n - 1)
      BY <1>3
    <2> QED
      BY <1>3, <2>1, <2>2
  <1>13. Len(frames') > 0
    BY <1>3
  <1> QED
    BY <1>1, <1>10, <1>11, <1>12, <1>13 DEF StackShape, TypeOK

LEMMA StackStep ==
  ASSUME Shape, [Next]_vars
  PROVE  StackShape'
  <1>0. TypeOK /\ StackShape
    BY DEF Shape
  <1>1. CASE UNCHANGED vars
    BY <1>0, <1>1, QuietStack DEF vars, registry, sorting, control, Quiet, StackShape
  <1>2. ASSUME NEW p \in Plugin, Attach(p)
        PROVE  StackShape'
    BY <1>0, <1>2, QuietStack DEF Attach, sorting, control, Quiet, StackShape
  <1>3. ASSUME NEW name \in Name \cup {NoName}, Run(name)
        PROVE  StackShape'
    BY <1>0, <1>3, QuietStack DEF Run, registry, sorting, Quiet, StackShape
  <1>4. ASSUME NEW o \in Owner, Register(o)
        PROVE  StackShape'
    BY <1>0, <1>4 DEF StackShape, Register, sorting
  <1>5. CASE ReturnUnnamed
    BY <1>0, <1>5, QuietStack DEF ReturnUnnamed, Return, registry, sorting, Quiet, StackShape
  <1>6. CASE ThrowUnknownTask
    BY <1>0, <1>6, QuietStack DEF ThrowUnknownTask, Throw, registry, sorting, Quiet, StackShape
  <1>7. CASE CallTopSort
    <2>1. requested \in Name /\ Enter(requested) /\ taskGroups[requested] # <<>>
          /\ UNCHANGED <<decl, taskGroups, requested>> /\ phase' = "sort"
      BY <1>0, <1>7 DEF TypeOK, CallTopSort, registry
    <2>2. Len(frames) = 0
      BY <1>0, <1>7 DEF StackShape, CallTopSort
    <2> QED
      BY <2>1, <2>2, EnterStack
  <1>8. CASE CallTopSortOnBlack
    BY <1>0, <1>8, QuietStack DEF CallTopSortOnBlack, Throw, registry, sorting, Quiet, StackShape
  <1>9. CASE SkipTask
    BY <1>9, SkipStack
  <1>10. CASE SortPrev
    <2>1. PrevAtTop \in Name /\ Enter(PrevAtTop) /\ taskGroups[PrevAtTop] # <<>>
          /\ UNCHANGED <<decl, taskGroups, requested, phase>> /\ phase = "sort"
          /\ Top.next <= Len(taskGroups[Top.group])
      BY <1>10 DEF SortPrev, AtTask, registry, control
    <2>2. Len(frames) # 0 /\ requested \in Name
      BY <1>0, <2>1 DEF StackShape
    <2> QED
      BY <2>1, <2>2, EnterStack
  <1>11. CASE ThrowUnknownPrev
    BY <1>0, <1>11, QuietStack DEF ThrowUnknownPrev, Throw, registry, sorting, Quiet, StackShape
  <1>12. CASE ThrowCycle
    BY <1>0, <1>12, QuietStack DEF ThrowCycle, Throw, registry, sorting, Quiet, StackShape
  <1>13. CASE ReturnToTopSort
    BY <1>13, ReturnStack
  <1>14. CASE ReturnToRun
    BY <1>0, <1>14 DEF ReturnToRun, StackShape
  <1>15. CASE TaskSucceeds
    BY <1>0, <1>15, QuietStack DEF TaskSucceeds, CallTask, registry, sorting, control, Quiet,
                                 StackShape
  <1>16. CASE LastTaskSucceeds
    BY <1>0, <1>16, QuietStack DEF LastTaskSucceeds, CallTask, Return, registry, sorting, Quiet,
                                 StackShape
  <1>17. CASE TaskStops
    BY <1>0, <1>17, QuietStack DEF TaskStops, CallTask, Return, registry, sorting, Quiet, StackShape
  <1>18. CASE TaskThrows
    BY <1>0, <1>18, QuietStack DEF TaskThrows, CallTask, Throw, registry, sorting, Quiet, StackShape
  <1> QED
    BY <1>1, <1>2, <1>3, <1>4, <1>5, <1>6, <1>7, <1>8, <1>9, <1>10, <1>11, <1>12,
       <1>13, <1>14, <1>15, <1>16, <1>17, <1>18
    DEF Next, Proceed, Sort, Invoke

-----------------------------------------------------------------------------
(* The cursor of run stays inside the schedule. *)

LEMMA CallStep ==
  ASSUME Shape, [Next]_vars
  PROVE  CallShape'
  <1>0. TypeOK /\ StackShape /\ CallShape
    BY DEF Shape
  <1>1. CASE UNCHANGED vars
    BY <1>0, <1>1 DEF vars, registry, invoking, control, CallShape
  <1>2. ASSUME NEW p \in Plugin, Attach(p)
        PROVE  CallShape'
    BY <1>0, <1>2 DEF Attach, invoking, control, CallShape
  <1>3. ASSUME NEW name \in Name \cup {NoName}, Run(name)
        PROVE  CallShape'
    BY <1>0, <1>3 DEF Run, CallShape
  <1>4. ASSUME NEW o \in Owner, Register(o)
        PROVE  CallShape'
    BY <1>0, <1>4 DEF Register, invoking, CallShape
  <1>5. CASE ReturnUnnamed
    BY <1>0, <1>5 DEF ReturnUnnamed, Return, registry, invoking, CallShape
  <1>6. CASE ThrowUnknownTask
    BY <1>0, <1>6 DEF ThrowUnknownTask, Throw, registry, invoking, CallShape
  <1>7. CASE CallTopSort
    BY <1>0, <1>7 DEF CallTopSort, registry, invoking, CallShape
  <1>8. CASE CallTopSortOnBlack
    BY <1>0, <1>8 DEF CallTopSortOnBlack, Throw, registry, invoking, CallShape
  <1>9. CASE SkipTask
    BY <1>0, <1>9 DEF SkipTask, registry, invoking, control, CallShape
  <1>10. CASE SortPrev
    BY <1>0, <1>10 DEF SortPrev, registry, invoking, control, CallShape
  <1>11. CASE ThrowUnknownPrev
    BY <1>0, <1>11 DEF ThrowUnknownPrev, Throw, registry, invoking, CallShape
  <1>12. CASE ThrowCycle
    BY <1>0, <1>12 DEF ThrowCycle, Throw, registry, invoking, CallShape
  <1>13. CASE ReturnToTopSort
    BY <1>0, <1>13 DEF ReturnToTopSort, registry, invoking, control, CallShape
  <1>14. CASE ReturnToRun
    <2>1. /\ callstack' = Sorted /\ phase' = "invoke" /\ at' = 1 /\ slot' = 1
          /\ taskGroups' = taskGroups
      BY <1>0, <1>14 DEF ReturnToRun, FinishGroup, registry, CallShape
    <2>2. Len(frames) > 0
      BY <1>14 DEF ReturnToRun
    <2>3. /\ Top.sort \in Seq(Name) /\ Top.group \in Name /\ taskGroups[Top.group] # <<>>
          /\ \A i \in 1..Len(Top.sort) : taskGroups[Top.sort[i]] # <<>>
      BY <1>0, <2>2, TopType DEF StackShape, Top
    <2>4. /\ Len(Sorted) \in Nat \ {0} /\ \A i \in 1..Len(Sorted) : Sorted[i] \in Name
          /\ \A i \in 1..Len(Sorted) : taskGroups[Sorted[i]] # <<>>
      BY <2>3 DEF Sorted
    <2>5. 1 <= Len(taskGroups[Sorted[1]])
      <3>2. taskGroups \in [Name -> Seq(Owner)]
        BY <1>0 DEF TypeOK
      <3>3. 1 \in 1..Len(Sorted)
        BY <2>4
      <3>1. taskGroups[Sorted[1]] \in Seq(Owner) /\ taskGroups[Sorted[1]] # <<>>
        BY <2>4, <3>2, <3>3
      <3> QED
        BY <3>1
    <2> QED
      BY <2>1, <2>4, <2>5 DEF CallShape
  <1>15. CASE TaskSucceeds
    <2>1. /\ Current \in Name /\ taskGroups[Current] \in Seq(Owner)
          /\ at \in 1..Len(callstack) /\ slot \in 1..Len(taskGroups[Current])
      BY <1>15, CallType DEF TaskSucceeds
    <2>2. /\ UNCHANGED <<taskGroups, callstack, phase>> /\ phase = "invoke"
          /\ ~LastOfGroup \/ at < Len(callstack)
          /\ at' = IF LastOfGroup THEN at + 1 ELSE at
          /\ slot' = IF LastOfGroup THEN 1 ELSE slot + 1
      BY <1>15 DEF TaskSucceeds, CallTask, registry, control
    <2>3. callstack \in Seq(Name) /\ taskGroups \in [Name -> Seq(Owner)]
      BY <1>0 DEF TypeOK
    <2>4. at' <= Len(callstack) /\ slot' <= Len(taskGroups[callstack[at']])
      <3>1. CASE LastOfGroup
        <4>1. at + 1 \in 1..Len(callstack) /\ at' = at + 1 /\ slot' = 1
          BY <2>1, <2>2, <2>3, <3>1
        <4>2. /\ taskGroups[callstack[at + 1]] \in Seq(Owner)
              /\ taskGroups[callstack[at + 1]] # <<>>
          BY <1>0, <2>3, <4>1 DEF CallShape
        <4> QED
          BY <4>1, <4>2
      <3>2. CASE ~LastOfGroup
        BY <2>1, <2>2, <3>2 DEF LastOfGroup, Current
      <3> QED
        BY <3>1, <3>2
    <2> QED
      BY <1>0, <2>2, <2>4 DEF CallShape
  <1>16. CASE LastTaskSucceeds
    BY <1>0, <1>16 DEF LastTaskSucceeds, CallTask, Return, registry, CallShape
  <1>17. CASE TaskStops
    BY <1>0, <1>17 DEF TaskStops, CallTask, Return, registry, CallShape
  <1>18. CASE TaskThrows
    BY <1>0, <1>18 DEF TaskThrows, CallTask, Throw, registry, CallShape
  <1> QED
    BY <1>1, <1>2, <1>3, <1>4, <1>5, <1>6, <1>7, <1>8, <1>9, <1>10, <1>11, <1>12,
       <1>13, <1>14, <1>15, <1>16, <1>17, <1>18
    DEF Next, Proceed, Sort, Invoke

LEMMA ShapeStep == Shape /\ [Next]_vars => Shape'
  BY TypeStep, StackStep, CallStep DEF Shape

LEMMA ShapeInvariant == Spec => []Shape
  <1> QED
    BY InitShape, ShapeStep, PTL DEF Spec

\* Every variable of a runner keeps its type, whatever is declared and however
\* often the runner is run.
THEOREM TypeCorrect == Spec => []TypeOK
  <1>1. Shape => TypeOK
    BY DEF Shape
  <1> QED
    BY <1>1, ShapeInvariant, PTL

-----------------------------------------------------------------------------
(* The gray groups are the groups on the stack. *)

LEMMA EnterGray ==
  ASSUME Shape, StackIsGray, NEW g \in Name, mark[g] = "white", Enter(g)
  PROVE  StackIsGray'
  <1>1. TypeOK
    BY DEF Shape
  <1>2. /\ frames' \in Seq(Activation) /\ Len(frames') = Len(frames) + 1
        /\ frames'[Len(frames')] = Frame(g)
        /\ \A k \in 1..Len(frames) : frames'[k] = frames[k]
    BY <1>1, EnterType
  <1>3. frames \in Seq(Activation) /\ checkerOfDCG \in Seq(Name)
        /\ mark \in [Name -> {"white", "gray", "black"}]
    BY <1>1 DEF TypeOK
  <1>4. Len(frames) \in Nat /\ Len(checkerOfDCG) = Len(frames)
        /\ \A k \in 1..Len(frames) : checkerOfDCG[k] = frames[k].group
    BY <1>3 DEF StackIsGray
  <1>5. /\ Len(checkerOfDCG') = Len(frames) + 1
        /\ checkerOfDCG'[Len(frames) + 1] = g
        /\ \A k \in 1..Len(frames) : checkerOfDCG'[k] = checkerOfDCG[k]
    BY <1>3, <1>4 DEF Enter
  <1>6. \A k \in 1..Len(frames') : k \in 1..Len(frames) \/ k = Len(frames) + 1
    BY <1>2, <1>4
  <1>7. Frame(g).group = g /\ frames'[Len(frames) + 1].group = g
    BY <1>2 DEF Frame
  <1>8. \A k \in 1..Len(frames') : checkerOfDCG'[k] = frames'[k].group
    BY <1>2, <1>4, <1>5, <1>6, <1>7
  <1>9. \A n \in Name : mark'[n] = "gray" <=> mark[n] = "gray" \/ n = g
    BY <1>3 DEF Enter
  <1>10. \A n \in Name : n \in Elements(checkerOfDCG') <=> n \in Elements(checkerOfDCG) \/ n = g
    BY <1>4, <1>5 DEF Elements
  <1>11. \A n \in Name : mark'[n] = "gray" <=> n \in Elements(checkerOfDCG')
    BY <1>9, <1>10 DEF StackIsGray
  <1>12. \A k \in 1..Len(frames) : frames[k].group # g
    BY <1>4 DEF StackIsGray, Elements
  <1>13. \A i, j \in 1..Len(frames') : frames'[i].group = frames'[j].group => i = j
    BY <1>2, <1>6, <1>7, <1>12 DEF StackIsGray
  <1> QED
    BY <1>2, <1>5, <1>8, <1>11, <1>13 DEF StackIsGray

LEMMA FinishGray ==
  ASSUME Shape, StackIsGray, FinishGroup, Len(frames) > 0,
         Len(frames') = Len(frames) - 1,
         \A k \in 1..(Len(frames) - 1) : frames'[k].group = frames[k].group
  PROVE  StackIsGray'
  <1>1. frames \in Seq(Activation) /\ checkerOfDCG \in Seq(Name)
        /\ mark \in [Name -> {"white", "gray", "black"}]
    BY DEF Shape, TypeOK
  <1>2. PICK n : n = Len(frames)
    OBVIOUS
  <1>3. n \in Nat \ {0} /\ Len(checkerOfDCG) = n
        /\ \A k \in 1..n : checkerOfDCG[k] = frames[k].group
    BY <1>1, <1>2 DEF StackIsGray
  <1>4. Top.group = checkerOfDCG[n] /\ Top.group \in Name
    BY <1>1, <1>2, <1>3 DEF Top
  <1>5. Len(checkerOfDCG') = n - 1 /\ \A k \in 1..(n - 1) : checkerOfDCG'[k] = checkerOfDCG[k]
    BY <1>1, <1>3 DEF FinishGroup
  <1>6. \A k \in 1..Len(frames') : checkerOfDCG'[k] = frames'[k].group
    BY <1>2, <1>3, <1>5
  <1>7. \A i, j \in 1..n : checkerOfDCG[i] = checkerOfDCG[j] => i = j
    BY <1>2, <1>3 DEF StackIsGray
  <1>8. \A m \in Name : m \in Elements(checkerOfDCG')
                          <=> m \in Elements(checkerOfDCG) /\ m # Top.group
    BY <1>3, <1>4, <1>5, <1>7 DEF Elements
  <1>9. \A m \in Name : mark'[m] = "gray" <=> mark[m] = "gray" /\ m # Top.group
    BY <1>1, <1>4 DEF FinishGroup
  <1>10. \A m \in Name : mark'[m] = "gray" <=> m \in Elements(checkerOfDCG')
    BY <1>8, <1>9 DEF StackIsGray
  <1>11. \A i, j \in 1..Len(frames') : frames'[i].group = frames'[j].group => i = j
    BY SMTT(30), <1>2, <1>3, <1>5, <1>6, <1>7
  <1> QED
    BY <1>2, <1>5, <1>6, <1>10, <1>11 DEF StackIsGray

LEMMA GrayStep ==
  ASSUME Shape, StackIsGray, [Next]_vars
  PROVE  StackIsGray'
  <1>1. CASE UNCHANGED sorting
    BY <1>1 DEF sorting, StackIsGray
  <1>2. CASE CallTopSort
    BY <1>2, EnterGray DEF CallTopSort, Shape, TypeOK
  <1>3. CASE SortPrev
    BY <1>3, EnterGray DEF SortPrev
  <1>4. CASE SkipTask
    <2>1. /\ frames \in Seq(Activation) /\ Len(frames) > 0 /\ UNCHANGED <<mark, checkerOfDCG>>
      BY <1>4 DEF Shape, TypeOK, StackShape, SkipTask, AtTask
    <2>2. /\ Len(frames') = Len(frames)
          /\ \A k \in 1..(Len(frames) - 1) : frames'[k] = frames[k]
          /\ frames'[Len(frames)].group = frames[Len(frames)].group
      BY <1>4, <2>1, SkipFrames DEF Shape, SkipTask, Top
    <2>3. \A k \in 1..Len(frames) : frames'[k].group = frames[k].group
      BY <2>1, <2>2
    <2> QED
      BY <2>1, <2>2, <2>3 DEF StackIsGray
  <1>5. CASE ReturnToTopSort
    <2>1. FinishGroup /\ Len(frames) > 0
      BY <1>5 DEF Shape, StackShape, ReturnToTopSort, FinishGroup
    <2>2. PICK n : n = Len(frames) - 1
      OBVIOUS
    <2>3. /\ n \in Nat \ {0} /\ Len(frames') = n
          /\ \A k \in 1..(n - 1) : frames'[k] = frames[k]
          /\ frames'[n].group = frames[n].group
      BY <1>5, <2>2, ReturnFrames DEF Shape
    <2>4. \A k \in 1..n : frames'[k].group = frames[k].group
      BY <2>3
    <2> QED
      BY <2>1, <2>2, <2>3, <2>4, FinishGray
  <1>6. CASE ReturnToRun
    BY <1>6, FinishGray DEF ReturnToRun
  <1> QED
    BY <1>1, <1>2, <1>3, <1>4, <1>5, <1>6
    DEF Next, Proceed, Sort, Invoke, vars, Attach, Run, Register, ReturnUnnamed,
        ThrowUnknownTask, CallTopSortOnBlack, ThrowUnknownPrev, ThrowCycle,
        TaskSucceeds, LastTaskSucceeds, TaskStops, TaskThrows, CallTask

\* At every moment, in every run, the gray groups are those on topSort's stack,
\* each once: a group met gray is one whose own sorting is still going on.
THEOREM GrayIsOnStack == Spec => []StackIsGray
  <1>1. Init => StackIsGray
    BY DEF Init, StackIsGray, Elements
  <1>2. Shape /\ StackIsGray /\ [Next]_vars => StackIsGray'
    BY GrayStep
  <1> QED
    BY <1>1, <1>2, ShapeInvariant, PTL DEF Spec

-----------------------------------------------------------------------------
(* A reported cycle is one. *)

CycleInv == outcome = "cycle" => phase = "thrown" /\ IsCycle(report)

\* The group an activation has called is a Prev of its own group.
LEMMA StackLinks ==
  ASSUME Shape, NEW k \in 1..(Len(frames) - 1), frames[k + 1].group \in Name
  PROVE  frames[k + 1].group \in Prevs(frames[k].group)
  <1>1. frames \in Seq(Activation) /\ taskGroups \in [Name -> Seq(Owner)]
    BY DEF Shape, TypeOK
  <1>2. frames[k].next <= Len(taskGroups[frames[k].group])
        /\ PrevAt(k, frames[k].next) = frames[k + 1].group
    BY DEF Shape, StackShape
  <1>0. Len(frames) \in Nat
    BY <1>1
  <1>3. k \in 1..Len(frames)
    BY <1>0
  <1>7. frames[k] \in Activation
    BY <1>1, <1>3
  <1>4. frames[k].group \in Name /\ frames[k].next \in Nat \ {0}
    BY <1>7 DEF Activation
  <1>5. Len(taskGroups[frames[k].group]) \in Nat
    BY <1>1, <1>4
  <1>6. frames[k].next \in 1..Len(taskGroups[frames[k].group])
    BY <1>2, <1>4, <1>5
  <1> QED
    BY <1>2, <1>6, NamesAssumption DEF PrevAt, Prevs, Members

LEMMA TopLink ==
  ASSUME Shape, AtTask, PrevAtTop \in Name
  PROVE  PrevAtTop \in Prevs(Top.group)
  <1>1. Top.group \in Name /\ Top.next \in Nat \ {0} /\ taskGroups[Top.group] \in Seq(Owner)
    BY TopType DEF Shape, StackShape, AtTask
  <1>2. Top.next \in 1..Len(taskGroups[Top.group])
    BY <1>1 DEF AtTask
  <1> QED
    BY <1>2, NamesAssumption DEF PrevAtTop, Prevs, Members

\* The innermost activation is one of the stack.
LEMMA TopFrame ==
  ASSUME Shape, AtTask
  PROVE  Len(frames) \in 1..Len(frames) /\ Top = frames[Len(frames)]
  <1>1. Len(frames) > 0 /\ frames \in Seq(Activation)
    BY DEF Shape, TypeOK, StackShape, AtTask
  <1> QED
    BY <1>1 DEF Top

LEMMA CycleThrown ==
  ASSUME Shape, StackIsGray, ThrowCycle
  PROVE  IsCycle(report)'
  <1>1. PICK i \in 1..Len(checkerOfDCG) :
          /\ checkerOfDCG[i] = PrevAtTop
          /\ report' = Append(SubSeq(checkerOfDCG, i, Len(checkerOfDCG)), PrevAtTop)
    BY DEF ThrowCycle
  <1>2. frames \in Seq(Activation) /\ checkerOfDCG \in Seq(Name)
    BY DEF Shape, TypeOK
  <1>3. PICK n : n = Len(frames)
    OBVIOUS
  <1>4. /\ n \in Nat /\ Len(checkerOfDCG) = n /\ i \in 1..n
        /\ \A k \in 1..n : checkerOfDCG[k] = frames[k].group /\ frames[k].group \in Name
    <2>1. n \in Nat /\ Len(checkerOfDCG) = n /\ i \in 1..n
      BY <1>2, <1>3 DEF StackIsGray
    <2>2. \A k \in 1..n : checkerOfDCG[k] = frames[k].group
      BY <1>3 DEF StackIsGray
    <2>3. \A k \in 1..n : checkerOfDCG[k] \in Name
      BY <1>2, <2>1
    <2> QED
      BY <2>1, <2>2, <2>3
  <1>5. PICK path : path = SubSeq(checkerOfDCG, i, n)
    OBVIOUS
  <1>6. path \in Seq(Name) /\ Len(path) = n - i + 1
        /\ \A k \in 1..(n - i + 1) : path[k] = checkerOfDCG[i + k - 1]
    BY <1>2, <1>4, <1>5
  <1>7. PICK m : m = n - i + 1
    OBVIOUS
  <1>8. m \in Nat \ {0} /\ Len(path) = m /\ m + i - 1 = n
    BY <1>4, <1>6, <1>7
  <1>9. PrevAtTop \in Name /\ report' = Append(path, PrevAtTop)
    BY <1>1, <1>4, <1>5 DEF ThrowCycle
  <1>10. Len(report') = m + 1 /\ report'[m + 1] = PrevAtTop
         /\ \A k \in 1..m : report'[k] = path[k]
    BY <1>6, <1>8, <1>9
  <1>11. report'[1] = PrevAtTop
    BY <1>1, <1>4, <1>6, <1>7, <1>8, <1>10
  <1>12. ASSUME NEW k \in 1..m
         PROVE  report'[k + 1] \in Prevs(report'[k])
    <2>1. i + k - 1 \in 1..n /\ report'[k] = frames[i + k - 1].group
      BY <1>4, <1>6, <1>7, <1>8, <1>10
    <2>2. CASE k = m
      <3>1. report'[k] = Top.group
        BY <1>3, <1>4, <1>8, <2>1, <2>2 DEF Top
      <3>2. AtTask
        BY DEF ThrowCycle
      <3> QED
        BY <1>9, <1>10, <2>2, <3>1, <3>2, TopLink
    <2>3. CASE k \in 1..(m - 1)
      <3>1. PICK q : q = i + k - 1
        OBVIOUS
      <3>2. q \in 1..(n - 1) /\ q + 1 \in 1..n /\ k + 1 \in 1..m /\ i + (k + 1) - 1 = q + 1
        BY <1>4, <1>7, <1>8, <2>3, <3>1
      <3>3. report'[k + 1] = frames[q + 1].group /\ frames[q + 1].group \in Name
        BY <1>4, <1>6, <1>7, <1>10, <3>2
      <3> QED
        BY <1>3, <2>1, <3>1, <3>2, <3>3, StackLinks
    <2> QED
      BY <1>8, <2>2, <2>3
  <1>13. UNCHANGED <<taskGroups, decl>>
    BY DEF ThrowCycle, registry
  <1>14. \A k \in 1..(Len(report') - 1) : report'[k + 1] \in Prevs(report'[k])
    BY <1>8, <1>10, <1>12
  <1>15. Len(report') > 1 /\ report'[1] = report'[Len(report')]
    BY <1>8, <1>10, <1>11
  <1> QED
    <2>1. ASSUME NEW k \in 1..(Len(report') - 1)
          PROVE  (report[k + 1] \in Prevs(report[k]))'
      BY <1>13, <1>14, <2>1, Zenon DEF Prevs, Members
    <2> QED
      BY <1>15, <2>1 DEF IsCycle

LEMMA CycleStep ==
  ASSUME Shape, StackIsGray, CycleInv, [Next]_vars
  PROVE  CycleInv'
  <1>1. CASE UNCHANGED vars
    <2>1. UNCHANGED <<decl, taskGroups, outcome, phase, report>>
      BY <1>1 DEF vars, registry, control
    <2>2. \A n : Prevs(n)' = Prevs(n)
      BY <2>1 DEF Prevs, Members
    <2> QED
      BY <2>1, <2>2 DEF CycleInv, IsCycle
  <1>2. CASE ThrowCycle
    BY <1>2, CycleThrown DEF CycleInv, ThrowCycle, Throw
  <1>3. ASSUME Next, ~ThrowCycle
        PROVE  outcome' # "cycle"
    BY <1>3
    DEF CycleInv, Next, Proceed, Sort, Invoke, Attach, Run, Register, ReturnUnnamed, Return,
        Throw, ThrowUnknownTask, CallTopSort, CallTopSortOnBlack, AtTask, SkipTask, SortPrev,
        ThrowUnknownPrev, FinishGroup, ReturnToTopSort, ReturnToRun, TaskSucceeds,
        LastTaskSucceeds, TaskStops, TaskThrows, CallTask, control
  <1> QED
    BY <1>1, <1>2, <1>3 DEF CycleInv

\* "DCG detected" is never a false alarm: the path it prints is a closed chain
\* of Prev links between tasks that are registered.
THEOREM CycleReportSound == Spec => []CycleReportIsReal
  <1>1. Init => CycleInv
    BY DEF Init, CycleInv
  <1>2. Shape /\ StackIsGray /\ CycleInv /\ [Next]_vars => CycleInv'
    BY CycleStep
  <1>3. CycleInv => CycleReportIsReal
    BY DEF CycleInv, CycleReportIsReal
  <1> QED
    BY <1>1, <1>2, <1>3, ShapeInvariant, GrayIsOnStack, PTL DEF Spec

-----------------------------------------------------------------------------
(* Prerequisites come first. *)

\* Group n has a place before the activation frames[k]: an earlier run settled
\* it, or one of the activations that enclose frames[k] has it in its list.
SortedBefore(n, k) == n \in settled \/ \E m \in 1..(k - 1) : n \in Elements(frames[m].sort)

\* The list of an activation, and later the schedule, is in prerequisite order;
\* what an activation has looked at has a place; so has every black group.
ListsOrdered ==
  \A k \in 1..Len(frames) : \A i \in 1..Len(frames[k].sort) : \A p \in Prevs(frames[k].sort[i]) :
    SortedBefore(p, k) \/ \E j \in 1..(i - 1) : frames[k].sort[j] = p

SeenPlaced ==
  \A k \in 1..Len(frames) : \A i \in 1..(frames[k].next - 1) :
    PrevAt(k, i) = NoPrev \/ SortedBefore(PrevAt(k, i), k + 1)

BlackPlaced ==
  phase \in {"register", "sort"} =>
    \A n \in Name : mark[n] = "black" => SortedBefore(n, Len(frames) + 1)

ScheduleOrdered ==
  \A i \in 1..Len(callstack) : \A p \in Prevs(callstack[i]) :
    p \in settled \/ \E j \in 1..(i - 1) : callstack[j] = p

OrderInv == ListsOrdered /\ SeenPlaced /\ BlackPlaced /\ ScheduleOrdered

\* Steps that move neither the stack, the groups, the marks nor the schedule.
LEMMA QuietOrder ==
  ASSUME OrderInv, UNCHANGED <<decl, taskGroups, mark, frames, callstack, settled>>,
         phase' \in {"register", "sort"} => phase \in {"register", "sort"}
  PROVE  OrderInv'
  <1>a. \A n, k : SortedBefore(n, k)' <=> SortedBefore(n, k)
    BY DEF SortedBefore, Elements
  <1>1. ListsOrdered'
    <2>1. \A n : Prevs(n)' = Prevs(n)
      BY DEF Prevs, Members
    <2> QED
      BY <1>a, <2>1 DEF OrderInv, ListsOrdered
  <1>2. SeenPlaced'
    <2>1. \A k, i : PrevAt(k, i)' = PrevAt(k, i)
      BY DEF PrevAt
    <2> QED
      BY <1>a, <2>1 DEF OrderInv, SeenPlaced
  <1>3. BlackPlaced'
    BY DEF OrderInv, BlackPlaced, SortedBefore, Elements
  <1>4. ScheduleOrdered'
    BY DEF OrderInv, ScheduleOrdered, Prevs, Members
  <1> QED
    BY <1>1, <1>2, <1>3, <1>4 DEF OrderInv

LEMMA EnterOrder ==
  ASSUME Shape, OrderInv, NEW g \in Name, Enter(g),
         UNCHANGED <<decl, taskGroups, callstack, settled>>,
         phase \in {"register", "sort"}, phase' = "sort"
  PROVE  OrderInv'
  <1>1. PICK n : n = Len(frames)
    OBVIOUS
  <1>2. /\ n \in Nat /\ Len(frames') = n + 1 /\ frames'[n + 1] = Frame(g)
        /\ \A k \in 1..n : frames'[k] = frames[k]
        /\ \A k \in 1..(n + 1) : k \in 1..n \/ k = n + 1
    <2>1. TypeOK /\ frames \in Seq(Activation)
      BY DEF Shape, TypeOK
    <2>2. n \in Nat
      BY <1>1, <2>1
    <2> QED
      BY <1>1, <2>1, <2>2, EnterType
  <1>3. Frame(g).group = g /\ Frame(g).next = 1 /\ Frame(g).sort = <<>>
    BY DEF Frame
  <1>4. \A x : \A k \in 1..(n + 1) : SortedBefore(x, k)' <=> SortedBefore(x, k)
    BY <1>2 DEF SortedBefore
  <1>5. ListsOrdered'
    <2> SUFFICES ASSUME NEW k \in 1..(n + 1), NEW i \in 1..Len(frames'[k].sort),
                        NEW p \in Prevs(frames[k].sort[i])'
                 PROVE  SortedBefore(p, k)' \/ \E j \in 1..(i - 1) : frames'[k].sort[j] = p
      BY <1>2 DEF ListsOrdered
    <2>1. k \in 1..n /\ frames'[k] = frames[k]
      BY <1>2, <1>3
    <2>2. p \in Prevs(frames[k].sort[i]) /\ i \in 1..Len(frames[k].sort)
      BY <2>1 DEF Prevs, Members
    <2> QED
      BY <1>1, <1>4, <2>1, <2>2 DEF OrderInv, ListsOrdered
  <1>6. SeenPlaced'
    <2> SUFFICES ASSUME NEW k \in 1..(n + 1), NEW i \in 1..(frames'[k].next - 1)
                 PROVE  PrevAt(k, i)' = NoPrev \/ SortedBefore(PrevAt(k, i), k + 1)'
      BY <1>2 DEF SeenPlaced
    <2>1. k \in 1..n /\ frames'[k] = frames[k] /\ k + 1 \in 1..(n + 1)
      BY <1>2, <1>3
    <2>2. PrevAt(k, i)' = PrevAt(k, i) /\ i \in 1..(frames[k].next - 1)
      BY <2>1 DEF PrevAt
    <2>3. PrevAt(k, i) = NoPrev \/ SortedBefore(PrevAt(k, i), k + 1)
      BY <1>1, <2>1, <2>2 DEF OrderInv, SeenPlaced
    <2> QED
      BY <1>2, <2>1, <2>2, <2>3 DEF SortedBefore
  <1>7. BlackPlaced'
    <2> SUFFICES ASSUME NEW x \in Name, mark'[x] = "black"
                 PROVE  SortedBefore(x, n + 2)'
      BY <1>2 DEF BlackPlaced
    <2>1. mark[x] = "black"
      BY DEF Enter, Shape, TypeOK
    <2>2. SortedBefore(x, n + 1)
      BY <1>1, <2>1 DEF OrderInv, BlackPlaced
    <2>3. SortedBefore(x, n + 1)'
      BY <1>2, <1>4, <2>2
    <2> QED
      BY <1>2, <2>3 DEF SortedBefore
  <1>8. ScheduleOrdered'
    BY DEF OrderInv, ScheduleOrdered, Prevs, Members
  <1> QED
    BY <1>5, <1>6, <1>7, <1>8 DEF OrderInv

LEMMA SkipOrder ==
  ASSUME Shape, OrderInv, SkipTask
  PROVE  OrderInv'
  <1>1. PICK n : n = Len(frames)
    OBVIOUS
  <1>2. /\ n \in Nat \ {0} /\ Len(frames') = n
        /\ \A k \in 1..(n - 1) : frames'[k] = frames[k]
        /\ frames[n] = Top /\ Top.next \in Nat \ {0}
        /\ frames'[n].group = Top.group /\ frames'[n].next = Top.next + 1
        /\ frames'[n].sort = Top.sort
    <2>1. TypeOK /\ Len(frames) > 0 /\ frames' = [frames EXCEPT ![Len(frames)] = Advance(@)]
      BY DEF Shape, StackShape, SkipTask, AtTask
    <2> QED
      BY <1>1, <2>1, TopType, SkipFrames DEF Top
  <1>3. UNCHANGED <<decl, taskGroups, mark, callstack, settled, phase>>
    BY DEF SkipTask, registry, invoking, control
  <1>4. \A k \in 1..n : k \in 1..(n - 1) \/ k = n
    BY <1>2
  <1>5. \A k \in 1..n : frames'[k].sort = frames[k].sort /\ frames'[k].group = frames[k].group
    BY <1>2, <1>4
  <1>6. \A x : \A k \in 1..(n + 1) : SortedBefore(x, k)' <=> SortedBefore(x, k)
    BY <1>2, <1>3, <1>5 DEF SortedBefore
  <1>7. ListsOrdered'
    <2> SUFFICES ASSUME NEW k \in 1..n, NEW i \in 1..Len(frames'[k].sort),
                        NEW p \in Prevs(frames[k].sort[i])'
                 PROVE  SortedBefore(p, k)' \/ \E j \in 1..(i - 1) : frames'[k].sort[j] = p
      BY <1>2 DEF ListsOrdered
    <2>1. p \in Prevs(frames[k].sort[i]) /\ i \in 1..Len(frames[k].sort)
      BY SMTT(30), <1>3, <1>5 DEF Prevs, Members
    <2>2. SortedBefore(p, k) \/ \E j \in 1..(i - 1) : frames[k].sort[j] = p
      BY <1>1, <2>1 DEF OrderInv, ListsOrdered
    <2>3. k \in 1..(n + 1)
      BY <1>2
    <2> QED
      BY <1>5, <1>6, <2>2, <2>3
  <1>8. SeenPlaced'
    <2> SUFFICES ASSUME NEW k \in 1..n, NEW i \in 1..(frames'[k].next - 1)
                 PROVE  PrevAt(k, i)' = NoPrev \/ SortedBefore(PrevAt(k, i), k + 1)'
      BY <1>2 DEF SeenPlaced
    <2>1. PrevAt(k, i)' = PrevAt(k, i)
      BY <1>3, <1>5 DEF PrevAt
    <2>2. SortedBefore(PrevAt(k, i), k + 1)' <=> SortedBefore(PrevAt(k, i), k + 1)
      BY <1>2, <1>3, <1>5, <2>1 DEF SortedBefore
    <2>3. CASE i \in 1..(frames[k].next - 1)
      BY <1>1, <1>2, <2>1, <2>2, <2>3 DEF OrderInv, SeenPlaced
    <2>4. CASE k = n /\ i = Top.next
      <3>1. PrevAt(k, i) = PrevAtTop
        BY <1>2, <2>4 DEF PrevAt, PrevAtTop
      <3>2. PrevAtTop = NoPrev \/ (PrevAtTop \in Name /\ mark[PrevAtTop] = "black")
        BY DEF SkipTask
      <3>3. phase = "sort"
        BY DEF SkipTask, AtTask
      <3> QED
        BY <1>1, <2>1, <2>2, <2>4, <3>1, <3>2, <3>3 DEF OrderInv, BlackPlaced
    <2> QED
      BY <1>2, <1>4, <2>3, <2>4
  <1>9. BlackPlaced' /\ ScheduleOrdered'
    <2>1. BlackPlaced'
      <3>1. n + 1 \in 1..(n + 1)
        BY <1>2
      <3> QED
        BY <1>1, <1>2, <1>3, <1>6, <3>1 DEF OrderInv, BlackPlaced
    <2>2. ScheduleOrdered'
      BY <1>3 DEF OrderInv, ScheduleOrdered, Prevs, Members
    <2> QED
      BY <2>1, <2>2
  <1> QED
    BY <1>7, <1>8, <1>9 DEF OrderInv

\* What an activation returns is in prerequisite order, given what had a place
\* before it was called.
LEMMA SortedOrder ==
  ASSUME Shape, OrderInv, FinishGroup, Len(frames) > 0,
         NEW i \in 1..Len(Sorted), NEW p \in Prevs(Sorted[i])
  PROVE  SortedBefore(p, Len(frames)) \/ \E j \in 1..(i - 1) : Sorted[j] = p
  <1>1. PICK n : n = Len(frames)
    OBVIOUS
  <1>2. /\ n \in Nat \ {0} /\ n \in 1..Len(frames) /\ frames[n] = Top
        /\ Top.sort \in Seq(Name) /\ Top.group \in Name /\ Top.next \in Nat \ {0}
    BY <1>1, TopType DEF Shape, Top
  <1>3. /\ Len(Top.sort) \in Nat /\ Len(Sorted) = Len(Top.sort) + 1
        /\ Sorted[Len(Top.sort) + 1] = Top.group
        /\ \A j \in 1..Len(Top.sort) : Sorted[j] = Top.sort[j]
    BY <1>2 DEF Sorted
  <1>4. CASE i \in 1..Len(Top.sort)
    <2>1. p \in Prevs(frames[n].sort[i])
      BY <1>2, <1>3, <1>4
    <2>2. SortedBefore(p, n) \/ \E j \in 1..(i - 1) : Top.sort[j] = p
      BY SMTT(30), <1>2, <1>4, <2>1 DEF OrderInv, ListsOrdered
    <2> QED
      BY SMTT(30), <1>1, <1>3, <1>4, <2>2
  <1>5. CASE i = Len(Top.sort) + 1
    <2>1. taskGroups[Top.group] \in Seq(Owner) /\ Len(taskGroups[Top.group]) \in Nat
      <3>1. taskGroups[Top.group] \in Seq(Owner)
        BY <1>2 DEF Shape, TypeOK
      <3> QED
        BY <3>1
    <2>2. PICK q \in 1..Len(taskGroups[Top.group]) :
            p = decl[taskGroups[Top.group][q]][Top.group] /\ p # NoPrev
      BY <1>3, <1>5 DEF Prevs, Members
    <2>3. q \in 1..(Top.next - 1)
      BY <1>2, <2>1 DEF FinishGroup
    <2>4. PrevAt(n, q) = p
      BY <1>2, <2>2 DEF PrevAt
    <2>5. SortedBefore(p, n + 1)
      BY <1>2, <2>2, <2>3, <2>4 DEF OrderInv, SeenPlaced
    <2>6. CASE SortedBefore(p, n)
      BY <1>1, <2>6
    <2>7. CASE p \in Elements(Top.sort)
      BY <1>3, <1>5, <2>7 DEF Elements
    <2> QED
      BY <1>2, <2>5, <2>6, <2>7 DEF SortedBefore
  <1> QED
    BY <1>3, <1>4, <1>5

LEMMA ReturnOrder ==
  ASSUME Shape, OrderInv, ReturnToTopSort
  PROVE  OrderInv'
  <1>0. TypeOK /\ Len(frames) > 0 /\ FinishGroup /\ phase = "sort"
    BY DEF Shape, StackShape, ReturnToTopSort, FinishGroup
  <1>1. PICK n : n = Len(frames) - 1
    OBVIOUS
  <1>2. /\ n \in Nat \ {0} /\ Len(frames') = n
        /\ \A k \in 1..(n - 1) : frames'[k] = frames[k]
        /\ frames'[n].group = frames[n].group
        /\ frames'[n].next = frames[n].next + 1
        /\ frames'[n].sort = frames[n].sort \o Sorted
    BY <1>0, <1>1, ReturnFrames
  <1>3. UNCHANGED <<decl, taskGroups, callstack, settled, phase>>
    BY DEF ReturnToTopSort, registry, invoking, control
  <1>4. \A k \in 1..n : k \in 1..(n - 1) \/ k = n
    BY <1>2
  <1>5. /\ frames \in Seq(Activation) /\ Len(frames) = n + 1 /\ frames[n + 1] = Top
        /\ Sorted \in Seq(Name) /\ Top.sort \in Seq(Name) /\ Top.group \in Name
    <2>1. frames \in Seq(Activation)
      BY <1>0 DEF TypeOK
    <2>2. Len(frames) \in Nat
      BY <2>1
    <2>3. Len(frames) = n + 1
      BY <1>1, <2>2
    <2> QED
      BY <1>0, <2>1, <2>3, TopType DEF Top
  <1>6. frames[n].sort \in Seq(Name) /\ frames[n].next \in Nat \ {0}
    <2>1. frames[n] \in Activation
      BY <1>2, <1>5
    <2> QED
      BY <2>1 DEF Activation
  <1>7. PICK a, b : a = Len(frames[n].sort) /\ b = Len(Sorted)
    OBVIOUS
  <1>8. /\ a \in Nat /\ b \in Nat /\ Len(frames'[n].sort) = a + b
        /\ \A i \in 1..a : frames'[n].sort[i] = frames[n].sort[i]
        /\ \A i \in 1..b : frames'[n].sort[a + i] = Sorted[i]
    BY <1>2, <1>5, <1>6, <1>7, ConcatProperties
  <1>9. \A x : x \in Elements(frames'[n].sort)
                 <=> x \in Elements(frames[n].sort) \/ x \in Elements(Sorted)
    <2> SUFFICES ASSUME NEW x
                 PROVE  x \in Elements(frames'[n].sort)
                          <=> x \in Elements(frames[n].sort) \/ x \in Elements(Sorted)
      OBVIOUS
    <2>1. ASSUME NEW i \in 1..(a + b), x = frames'[n].sort[i]
          PROVE  x \in Elements(frames[n].sort) \/ x \in Elements(Sorted)
      <3>1. CASE i \in 1..a
        BY <1>7, <1>8, <2>1, <3>1 DEF Elements
      <3>2. CASE i - a \in 1..b
        <4>1. frames'[n].sort[a + (i - a)] = Sorted[i - a] /\ a + (i - a) = i
          BY <1>8, <3>2
        <4> QED
          BY <1>7, <2>1, <3>2, <4>1 DEF Elements
      <3> QED
        BY <1>8, <3>1, <3>2
    <2>2. ASSUME NEW i \in 1..a, x = frames[n].sort[i]
          PROVE  x \in Elements(frames'[n].sort)
      <3>1. i \in 1..(a + b)
        BY <1>8
      <3> QED
        BY <1>8, <2>2, <3>1 DEF Elements
    <2>3. ASSUME NEW i \in 1..b, x = Sorted[i]
          PROVE  x \in Elements(frames'[n].sort)
      <3>1. a + i \in 1..(a + b)
        BY <1>8
      <3> QED
        BY <1>8, <2>3, <3>1 DEF Elements
    <2> QED
      BY <1>7, <1>8, <2>1, <2>2, <2>3 DEF Elements
  <1>10. /\ Len(Top.sort) \in Nat /\ b = Len(Top.sort) + 1
         /\ Sorted[Len(Top.sort) + 1] = Top.group
         /\ \A j \in 1..Len(Top.sort) : Sorted[j] = Top.sort[j]
    BY <1>5, <1>7 DEF Sorted
  <1>11. \A x : x \in Elements(Sorted) <=> x \in Elements(Top.sort) \/ x = Top.group
    BY <1>7, <1>10 DEF Elements
  <1>12. \A x : \A k \in 1..n : SortedBefore(x, k)' <=> SortedBefore(x, k)
    <2> SUFFICES ASSUME NEW x, NEW k \in 1..n
                 PROVE  SortedBefore(x, k)' <=> SortedBefore(x, k)
      OBVIOUS
    <2>1. \A m \in 1..(k - 1) : frames'[m] = frames[m]
      BY <1>2
    <2> QED
      BY <1>3, <2>1 DEF SortedBefore, Elements
  \* What had a place on the stack has one on the shorter stack, Top's group too.
  <1>13. \A x : SortedBefore(x, n + 2) \/ x = Top.group => SortedBefore(x, n + 1)'
    <2> SUFFICES ASSUME NEW x, SortedBefore(x, n + 2) \/ x = Top.group
                 PROVE  SortedBefore(x, n + 1)'
      OBVIOUS
    <2>1. CASE SortedBefore(x, n)
      <3>1. SortedBefore(x, n)'
        BY <1>2, <1>12, <2>1
      <3> QED
        BY <1>2, <3>1 DEF SortedBefore
    <2>2. CASE x \in Elements(frames'[n].sort)
      <3>1. n \in 1..((n + 1) - 1)
        BY <1>2
      <3> QED
        BY <2>2, <3>1 DEF SortedBefore, Elements
    <2>3. SortedBefore(x, n) \/ x \in Elements(frames[n].sort)
            \/ x \in Elements(Top.sort) \/ x = Top.group
      BY <1>2, <1>5 DEF SortedBefore
    <2> QED
      BY <1>9, <1>11, <2>1, <2>2, <2>3
  <1>14. ListsOrdered'
    <2> SUFFICES ASSUME NEW k \in 1..n, NEW i \in 1..Len(frames'[k].sort),
                        NEW p \in Prevs(frames[k].sort[i])'
                 PROVE  SortedBefore(p, k)' \/ \E j \in 1..(i - 1) : frames'[k].sort[j] = p
      BY <1>2 DEF ListsOrdered
    <2>1. p \in Prevs(frames'[k].sort[i])
      BY <1>3 DEF Prevs, Members
    <2>2. CASE k \in 1..(n - 1)
      <3>1. frames'[k] = frames[k] /\ k \in 1..Len(frames)
        BY <1>2, <1>5, <2>2
      <3> QED
        BY <1>12, <2>1, <3>1 DEF OrderInv, ListsOrdered
    <2>3. CASE k = n /\ i \in 1..a
      <3>1. p \in Prevs(frames[n].sort[i]) /\ n \in 1..Len(frames)
        <4>1. n \in 1..Len(frames)
          BY <1>2, <1>5
        <4>2. frames'[k].sort[i] = frames[n].sort[i]
          BY <1>8, <2>3
        <4> QED
          BY <2>1, <4>1, <4>2
      <3>2. SortedBefore(p, n) \/ \E j \in 1..(i - 1) : frames[n].sort[j] = p
        BY <1>7, <2>3, <3>1 DEF OrderInv, ListsOrdered
      <3>3. CASE SortedBefore(p, n)
        BY <1>2, <1>12, <2>3, <3>3
      <3>4. ASSUME NEW j \in 1..(i - 1), frames[n].sort[j] = p
            PROVE  frames'[k].sort[j] = p
        <4>1. j \in 1..a
          BY <1>8, <2>3
        <4> QED
          BY <1>8, <2>3, <3>4, <4>1
      <3> QED
        BY <3>2, <3>3, <3>4
    <2>4. CASE k = n /\ i - a \in 1..b
      <3>1. PICK h : h = i - a
        OBVIOUS
      <3>2. h \in 1..b /\ i = a + h /\ frames'[n].sort[i] = Sorted[h]
        BY <1>8, <2>4, <3>1
      <3>3. SortedBefore(p, n + 1) \/ \E j \in 1..(h - 1) : Sorted[j] = p
        BY <1>0, <1>5, <1>7, <2>1, <2>4, <3>2, SortedOrder
      <3>4. CASE SortedBefore(p, n)
        BY <1>2, <1>12, <2>4, <3>4
      <3>5. CASE p \in Elements(frames[n].sort)
        <4>1. PICK j \in 1..a : p = frames[n].sort[j]
          BY <1>7, <3>5 DEF Elements
        <4>3. a \in Nat /\ h \in Nat \ {0} /\ i = a + h
          BY <1>8, <3>2
        <4>4. j \in 1..(i - 1)
          BY <4>3
        <4>2. j \in 1..(i - 1) /\ frames'[k].sort[j] = p
          BY <1>8, <2>4, <4>1, <4>4
        <4> QED
          BY <4>2
      <3>6. ASSUME NEW j \in 1..(h - 1), Sorted[j] = p
            PROVE  \E l \in 1..(i - 1) : frames'[k].sort[l] = p
        <4>1. j \in 1..b /\ a + j \in 1..(i - 1)
          BY <1>8, <3>2
        <4> QED
          BY <1>8, <2>4, <3>6, <4>1
      <3> QED
        BY <1>2, <3>3, <3>4, <3>5, <3>6 DEF SortedBefore
    <2> QED
      BY <1>2, <1>4, <1>8, <2>2, <2>3, <2>4
  <1>15. SeenPlaced'
    <2> SUFFICES ASSUME NEW k \in 1..n, NEW i \in 1..(frames'[k].next - 1)
                 PROVE  PrevAt(k, i)' = NoPrev \/ SortedBefore(PrevAt(k, i), k + 1)'
      BY <1>2 DEF SeenPlaced
    <2>1. PrevAt(k, i)' = PrevAt(k, i)
      BY <1>2, <1>3, <1>4 DEF PrevAt
    <2>2. CASE k \in 1..(n - 1)
      <3>1. frames'[k] = frames[k] /\ k \in 1..Len(frames) /\ k + 1 \in 1..n
        BY <1>2, <1>5, <2>2
      <3>2. PICK x : x = PrevAt(k, i)
        OBVIOUS
      <3>3. x = NoPrev \/ SortedBefore(x, k + 1)
        BY <3>1, <3>2 DEF OrderInv, SeenPlaced
      <3>4. x = NoPrev \/ SortedBefore(x, k + 1)'
        BY <1>12, <3>1, <3>3
      <3> QED
        BY <2>1, <3>2, <3>4 DEF SortedBefore
    <2>3. CASE k = n
      <3>1. PICK x : x = PrevAt(n, i)
        OBVIOUS
      <3>2. x = NoPrev \/ SortedBefore(x, n + 2) \/ x = Top.group
        <4>1. CASE i \in 1..(frames[n].next - 1)
          <5>1. x = NoPrev \/ SortedBefore(x, n + 1)
            BY <1>2, <1>5, <3>1, <4>1 DEF OrderInv, SeenPlaced
          <5> QED
            BY <1>2, <5>1 DEF SortedBefore
        <4>2. CASE i = frames[n].next
          BY <1>2, <1>5, <3>1, <4>2 DEF Shape, StackShape
        <4> QED
          BY <1>2, <1>6, <2>3, <4>1, <4>2
      <3>3. x = NoPrev \/ SortedBefore(x, n + 1)'
        BY <1>13, <3>2
      <3> QED
        BY <2>1, <2>3, <3>1, <3>3 DEF SortedBefore
    <2> QED
      BY <1>4, <2>2, <2>3
  <1>16. BlackPlaced'
    <2> SUFFICES ASSUME NEW x \in Name, mark'[x] = "black"
                 PROVE  SortedBefore(x, n + 1)'
      BY <1>2 DEF BlackPlaced
    <2>1. mark[x] = "black" \/ x = Top.group
      BY <1>0 DEF FinishGroup, TypeOK
    <2>2. mark[x] = "black" => SortedBefore(x, n + 2)
      BY <1>0, <1>2, <1>5 DEF OrderInv, BlackPlaced
    <2> QED
      BY <1>13, <2>1, <2>2
  <1>17. ScheduleOrdered'
    BY <1>3 DEF OrderInv, ScheduleOrdered, Prevs, Members
  <1> QED
    BY <1>14, <1>15, <1>16, <1>17 DEF OrderInv

LEMMA ReturnToRunOrder ==
  ASSUME Shape, OrderInv, ReturnToRun
  PROVE  OrderInv'
  <1>1. /\ FinishGroup /\ Len(frames) > 0 /\ Len(frames) = 1
        /\ frames' = <<>> /\ callstack' = Sorted /\ phase' = "invoke"
        /\ UNCHANGED <<decl, taskGroups, settled>>
    BY DEF ReturnToRun, registry
  <1>2. \A p : SortedBefore(p, 1) => p \in settled
    BY DEF SortedBefore
  <1>3. \A i \in 1..Len(Sorted) : \A p \in Prevs(Sorted[i]) :
          p \in settled \/ \E j \in 1..(i - 1) : Sorted[j] = p
    BY <1>1, <1>2, SortedOrder
  <1>4. ScheduleOrdered'
    BY <1>1, <1>3 DEF ScheduleOrdered, Prevs, Members
  <1> QED
    BY <1>1, <1>4 DEF OrderInv, ListsOrdered, SeenPlaced, BlackPlaced

LEMMA OrderStep ==
  ASSUME Shape, OrderInv, [Next]_vars
  PROVE  OrderInv'
  <1>1. CASE UNCHANGED vars
    BY <1>1, QuietOrder DEF vars, registry, sorting, invoking, control
  <1>2. ASSUME NEW p \in Plugin, Attach(p)
        PROVE  OrderInv'
    BY <1>2, QuietOrder DEF Attach, sorting, invoking, control
  <1>3. ASSUME NEW name \in Name \cup {NoName}, Run(name)
        PROVE  OrderInv'
    <2>1. /\ frames = <<>> /\ frames' = <<>> /\ callstack' = <<>>
          /\ mark' = mark /\ settled' = {n \in Name : mark[n] = "black"}
      BY <1>3 DEF Shape, StackShape, Run, sorting
    <2> QED
      BY <2>1 DEF OrderInv, ListsOrdered, SeenPlaced, BlackPlaced, ScheduleOrdered, SortedBefore
  <1>4. ASSUME NEW o \in Owner, Register(o)
        PROVE  OrderInv'
    <2>1. /\ frames = <<>> /\ frames' = <<>> /\ callstack = <<>> /\ callstack' = <<>>
          /\ phase = "register" /\ UNCHANGED <<mark, settled>>
      BY <1>4 DEF Shape, StackShape, CallShape, Register, sorting, invoking
    <2> QED
      BY <2>1 DEF OrderInv, ListsOrdered, SeenPlaced, BlackPlaced, ScheduleOrdered, SortedBefore
  <1>5. CASE ReturnUnnamed
    BY <1>5, QuietOrder DEF ReturnUnnamed, Return, registry, sorting, invoking
  <1>6. CASE ThrowUnknownTask
    BY <1>6, QuietOrder DEF ThrowUnknownTask, Throw, registry, sorting, invoking
  <1>7. CASE CallTopSort
    BY <1>7, EnterOrder DEF CallTopSort, registry, invoking, Shape, TypeOK
  <1>8. CASE CallTopSortOnBlack
    BY <1>8, QuietOrder DEF CallTopSortOnBlack, Throw, registry, sorting, invoking
  <1>9. CASE SkipTask
    BY <1>9, SkipOrder
  <1>10. CASE SortPrev
    BY <1>10, EnterOrder DEF SortPrev, AtTask, registry, invoking, control
  <1>11. CASE ThrowUnknownPrev
    BY <1>11, QuietOrder DEF ThrowUnknownPrev, Throw, registry, sorting, invoking
  <1>12. CASE ThrowCycle
    BY <1>12, QuietOrder DEF ThrowCycle, Throw, registry, sorting, invoking
  <1>13. CASE ReturnToTopSort
    BY <1>13, ReturnOrder
  <1>14. CASE ReturnToRun
    BY <1>14, ReturnToRunOrder
  <1>15. CASE TaskSucceeds
    BY <1>15, QuietOrder DEF TaskSucceeds, CallTask, registry, sorting, control
  <1>16. CASE LastTaskSucceeds
    BY <1>16, QuietOrder DEF LastTaskSucceeds, CallTask, Return, registry, sorting
  <1>17. CASE TaskStops
    BY <1>17, QuietOrder DEF TaskStops, CallTask, Return, registry, sorting
  <1>18. CASE TaskThrows
    BY <1>18, QuietOrder DEF TaskThrows, CallTask, Throw, registry, sorting
  <1> QED
    BY <1>1, <1>2, <1>3, <1>4, <1>5, <1>6, <1>7, <1>8, <1>9, <1>10, <1>11, <1>12,
       <1>13, <1>14, <1>15, <1>16, <1>17, <1>18
    DEF Next, Proceed, Sort, Invoke

-----------------------------------------------------------------------------
(* From the order of the schedule to the order of the calls. *)

\* The task at index m of group g has been called before the k-th call.
CalledBefore(g, m, k) ==
  \E j \in 1..(k - 1) : invoked[j].group = g /\ invoked[j].owner = taskGroups[g][m]

\* All tasks before the cursor have been called.
CursorCalled ==
  phase = "invoke" =>
    \A i \in 1..at : \A m \in 1..Len(taskGroups[callstack[i]]) :
      i < at \/ m < slot => CalledBefore(callstack[i], m, Len(invoked) + 1)

CallInv == CursorCalled /\ PrerequisitesFirst

LEMMA QuietCalls ==
  ASSUME CallInv, UNCHANGED <<decl, taskGroups, callstack, at, slot, invoked, settled>>,
         phase' = "invoke" => phase = "invoke"
  PROVE  CallInv'
  BY DEF CallInv, CursorCalled, CalledBefore, PrerequisitesFirst, Prevs, Members

\* A call keeps the calls in prerequisite order: the schedule is, and all tasks
\* of the groups before the cursor have been called.
LEMMA CallOrder ==
  ASSUME Shape, OrderInv, CallInv, CallTask, settled' = settled
  PROVE  /\ PrerequisitesFirst'
         /\ Len(invoked') = Len(invoked) + 1
         /\ \A k \in 1..Len(invoked) : invoked'[k] = invoked[k]
         /\ invoked'[Len(invoked) + 1].group = Current
         /\ invoked'[Len(invoked) + 1].owner = taskGroups[Current][slot]
         /\ invoked'[Len(invoked) + 1].userArgs = (at = Len(callstack))
         /\ Len(invoked) \in Nat
  <1>1. /\ at \in 1..Len(callstack) /\ phase = "invoke"
        /\ UNCHANGED <<decl, taskGroups, callstack, settled>>
    BY CallType DEF CallTask, registry
  <1>2. PICK n : n = Len(invoked)
    OBVIOUS
  <1>3. PICK c : c = [group |-> Current, owner |-> taskGroups[Current][slot],
                      userArgs |-> at = Len(callstack)]
    OBVIOUS
  <1>4. invoked \in Seq(Call) /\ n \in Nat
    <2>1. invoked \in Seq(Call)
      BY DEF Shape, TypeOK
    <2> QED
      BY <1>2, <2>1
  <1>5. invoked' = Append(invoked, c)
    BY <1>3 DEF CallTask
  <1>6. /\ Len(invoked') = n + 1 /\ invoked'[n + 1] = c
        /\ \A k \in 1..n : invoked'[k] = invoked[k]
    BY <1>2, <1>4, <1>5
  <1>7. c.group = Current /\ c.owner = taskGroups[Current][slot]
        /\ c.userArgs = (at = Len(callstack))
    BY <1>3
  <1>8. ASSUME NEW k \in 1..(n + 1), NEW p \in Prevs(invoked'[k].group), p \notin settled,
               NEW m \in 1..Len(taskGroups[p])
        PROVE  \E j \in 1..(k - 1) : invoked'[j].group = p /\ invoked'[j].owner = taskGroups[p][m]
    <2>1. CASE k \in 1..n
      <3>1. p \in Prevs(invoked[k].group)
        BY <1>6, <1>8, <2>1
      <3>2. PICK j \in 1..(k - 1) : invoked[j].group = p /\ invoked[j].owner = taskGroups[p][m]
        BY <1>2, <1>8, <2>1, <3>1 DEF CallInv, PrerequisitesFirst
      <3>3. j \in 1..n
        BY <1>4, <2>1
      <3> QED
        BY <1>6, <3>2, <3>3
    <2>2. CASE k = n + 1
      <3>1. p \in Prevs(callstack[at])
        BY <1>6, <1>7, <1>8, <2>2 DEF Current
      <3>2. PICK i \in 1..(at - 1) : callstack[i] = p
        BY <1>1, <1>8, <3>1 DEF OrderInv, ScheduleOrdered
      <3>3. i \in 1..at /\ i < at
        BY <1>1
      <3>4. CalledBefore(p, m, n + 1)
        BY <1>1, <1>2, <1>8, <3>2, <3>3 DEF CallInv, CursorCalled
      <3>5. PICK j \in 1..((n + 1) - 1) :
              invoked[j].group = p /\ invoked[j].owner = taskGroups[p][m]
        BY <3>4 DEF CalledBefore
      <3>6. j \in 1..n /\ j \in 1..(k - 1)
        BY <1>4, <2>2
      <3> QED
        BY <1>6, <3>5, <3>6
    <2> QED
      BY <1>4, <2>1, <2>2
  <1>9. PrerequisitesFirst'
    <2> SUFFICES ASSUME NEW k \in 1..(n + 1), NEW p \in Prevs(invoked[k].group)', p \notin settled,
                        NEW m \in 1..Len(taskGroups[p])
                 PROVE  \E j \in 1..(k - 1) :
                          invoked'[j].group = p /\ invoked'[j].owner = taskGroups[p][m]
      BY <1>1, <1>6 DEF PrerequisitesFirst
    <2>1. p \in Prevs(invoked'[k].group)
      BY <1>1 DEF Prevs, Members
    <2> QED
      BY <1>8, <2>1
  <1> QED
    BY <1>2, <1>4, <1>6, <1>7, <1>9

LEMMA CallInvStep ==
  ASSUME Shape, OrderInv, CallInv, [Next]_vars
  PROVE  CallInv'
  <1>1. CASE UNCHANGED vars
    BY <1>1, QuietCalls DEF vars, registry, sorting, invoking, control
  <1>2. ASSUME NEW p \in Plugin, Attach(p)
        PROVE  CallInv'
    BY <1>2, QuietCalls DEF Attach, sorting, invoking, control
  <1>3. ASSUME NEW name \in Name \cup {NoName}, Run(name)
        PROVE  CallInv'
    BY <1>3 DEF Run, CallInv, CursorCalled, PrerequisitesFirst
  <1>4. ASSUME NEW o \in Owner, Register(o)
        PROVE  CallInv'
    <2>1. invoked' = <<>> /\ phase' = "register"
      BY <1>4 DEF Shape, CallShape, Register, invoking
    <2> QED
      BY <2>1 DEF CallInv, CursorCalled, PrerequisitesFirst
  <1>5. CASE ReturnUnnamed
    BY <1>5, QuietCalls DEF ReturnUnnamed, Return, registry, sorting, invoking
  <1>6. CASE ThrowUnknownTask
    BY <1>6, QuietCalls DEF ThrowUnknownTask, Throw, registry, sorting, invoking
  <1>7. CASE CallTopSort
    BY <1>7, QuietCalls DEF CallTopSort, registry, invoking
  <1>8. CASE CallTopSortOnBlack
    BY <1>8, QuietCalls DEF CallTopSortOnBlack, Throw, registry, sorting, invoking
  <1>9. CASE SkipTask
    BY <1>9, QuietCalls DEF SkipTask, registry, invoking, control
  <1>10. CASE SortPrev
    BY <1>10, QuietCalls DEF SortPrev, registry, invoking, control
  <1>11. CASE ThrowUnknownPrev
    BY <1>11, QuietCalls DEF ThrowUnknownPrev, Throw, registry, sorting, invoking
  <1>12. CASE ThrowCycle
    BY <1>12, QuietCalls DEF ThrowCycle, Throw, registry, sorting, invoking
  <1>13. CASE ReturnToTopSort
    BY <1>13, QuietCalls DEF ReturnToTopSort, registry, invoking, control
  <1>14. CASE ReturnToRun
    <2>1. invoked = <<>> /\ invoked' = <<>> /\ at' = 1 /\ slot' = 1 /\ slot \in Nat
      BY <1>14 DEF Shape, CallShape, ReturnToRun, FinishGroup
    <2> QED
      BY <2>1 DEF CallInv, CursorCalled, PrerequisitesFirst
  <1>15. CASE TaskSucceeds
    <2>1. CallTask /\ UNCHANGED <<taskGroups, callstack, settled, phase>>
      BY <1>15 DEF TaskSucceeds, CallTask, registry, control
    <2>2. /\ at \in 1..Len(callstack) /\ slot \in 1..Len(taskGroups[Current])
          /\ Len(taskGroups[Current]) \in Nat /\ phase = "invoke"
      BY <2>1, CallType DEF CallTask
    <2>3. PICK n : n = Len(invoked)
      OBVIOUS
    <2>4. /\ PrerequisitesFirst' /\ n \in Nat /\ Len(invoked') = n + 1
          /\ \A k \in 1..n : invoked'[k] = invoked[k]
          /\ invoked'[n + 1].group = Current
          /\ invoked'[n + 1].owner = taskGroups[Current][slot]
      BY <2>1, <2>3, CallOrder
    <2>5. \A g, m : CalledBefore(g, m, n + 1)
                      => \E j \in 1..(n + 1) : /\ invoked'[j].group = g
                                               /\ invoked'[j].owner = taskGroups[g][m]
      BY <2>4 DEF CalledBefore
    <2>6. ASSUME NEW i \in 1..at', NEW m \in 1..Len(taskGroups[callstack[i]]), i < at' \/ m < slot'
          PROVE  \E j \in 1..(n + 1) : /\ invoked'[j].group = callstack[i]
                                       /\ invoked'[j].owner = taskGroups[callstack[i]][m]
      <3>1. at' = (IF LastOfGroup THEN at + 1 ELSE at)
            /\ slot' = (IF LastOfGroup THEN 1 ELSE slot + 1)
        BY <1>15 DEF TaskSucceeds
      <3>2. i \in 1..at
        BY <2>2, <2>6, <3>1
      <3>3. i < at \/ m < slot \/ (i = at /\ m = slot)
        BY <2>2, <2>6, <3>1, <3>2 DEF LastOfGroup, Current
      <3>4. CASE i < at \/ m < slot
        <4>1. CalledBefore(callstack[i], m, n + 1)
          BY <2>2, <2>3, <3>2, <3>4 DEF CallInv, CursorCalled
        <4> QED
          BY <2>5, <4>1
      <3>5. CASE i = at /\ m = slot
        BY <2>4, <3>5 DEF Current
      <3> QED
        BY <3>3, <3>4, <3>5
    <2>7. CursorCalled'
      BY <2>1, <2>4, <2>6 DEF CursorCalled, CalledBefore
    <2> QED
      BY <2>4, <2>7 DEF CallInv
  <1>16. CASE LastTaskSucceeds
    BY <1>16, CallOrder DEF LastTaskSucceeds, Return, CallInv, CursorCalled
  <1>17. CASE TaskStops
    BY <1>17, CallOrder DEF TaskStops, Return, CallInv, CursorCalled
  <1>18. CASE TaskThrows
    BY <1>18, CallOrder DEF TaskThrows, Throw, CallInv, CursorCalled
  <1> QED
    BY <1>1, <1>2, <1>3, <1>4, <1>5, <1>6, <1>7, <1>8, <1>9, <1>10, <1>11, <1>12,
       <1>13, <1>14, <1>15, <1>16, <1>17, <1>18
    DEF Next, Proceed, Sort, Invoke

LEMMA OrderInvariant == Spec => []OrderInv
  <1>1. Init => OrderInv
    BY DEF Init, OrderInv, ListsOrdered, SeenPlaced, BlackPlaced, ScheduleOrdered
  <1>2. Shape /\ OrderInv /\ [Next]_vars => OrderInv'
    BY OrderStep
  <1> QED
    BY <1>1, <1>2, ShapeInvariant, PTL DEF Spec

LEMMA CallInvariant == Spec => []CallInv
  <1>1. Init => CallInv
    BY DEF Init, CallInv, CursorCalled, PrerequisitesFirst
  <1>2. Shape /\ OrderInv /\ CallInv /\ [Next]_vars => CallInv'
    BY CallInvStep
  <1> QED
    BY <1>1, <1>2, ShapeInvariant, OrderInvariant, PTL DEF Spec

\* No task is ever called before all tasks of the groups its own group depends
\* on, unless an earlier run of the same runner settled them: whatever tasks
\* are declared, by whomever, and in whatever order they are registered.
THEOREM CallsFollowPrerequisites == Spec => []PrerequisitesFirst
  <1>1. CallInv => PrerequisitesFirst
    BY DEF CallInv
  <1> QED
    BY <1>1, CallInvariant, PTL

-----------------------------------------------------------------------------
(* The schedule is what the requested task needs. *)

Fresh == Needed \ settled

LEMMA SameNeeded ==
  ASSUME UNCHANGED <<decl, taskGroups, requested, settled>>
  PROVE  Needed' = Needed /\ Fresh' = Fresh
  <1>1. \A n : Prevs(n)' = Prevs(n)
    BY DEF Prevs, Members
  <1>2. Needed' = Needed
    BY <1>1 DEF Needed
  <1> QED
    BY <1>2 DEF Fresh

\* Needed holds the requested group and is closed under Prev links.
LEMMA NeededClosed ==
  /\ requested \in Name => requested \in Needed
  /\ \A n \in Fresh : \A p \in Prevs(n) \cap Name : p \in Needed
  <1>1. requested \in Name => requested \in Needed
    BY DEF Needed
  <1>2. ASSUME NEW n \in Fresh, NEW p \in Prevs(n) \cap Name
        PROVE  p \in Needed
    <2> SUFFICES ASSUME NEW S \in SUBSET Name, requested \in S,
                        \A x \in S \ settled : Prevs(x) \cap Name \subseteq S
                 PROVE  p \in S
      BY DEF Needed
    <2>1. n \in S \ settled
      BY DEF Needed, Fresh
    <2> QED
      BY <2>1
  <1> QED
    BY <1>1, <1>2

\* It is the least such set.
LEMMA NeededLeast ==
  ASSUME NEW S \in SUBSET Name, requested \in S,
         \A x \in S \ settled : Prevs(x) \cap Name \subseteq S
  PROVE  Needed \subseteq S
  BY DEF Needed

\* What an earlier run settled is black, and a black group has tasks.
SettledBlack  == \A n \in settled : mark[n] = "black"
BlackDeclared == \A n \in Name : mark[n] = "black" => taskGroups[n] # <<>>

\* topSort works only on groups this run needs and no run has settled; the
\* lists of its activations share no group and hold none twice.
FramesFresh == \A k \in 1..Len(frames) : frames[k].group \in Fresh

ListsFresh ==
  \A k \in 1..Len(frames) : \A i \in 1..Len(frames[k].sort) :
    frames[k].sort[i] \in Fresh /\ mark[frames[k].sort[i]] = "black"

ListsDistinct ==
  \A k, l \in 1..Len(frames) :
    \A i \in 1..Len(frames[k].sort) : \A j \in 1..Len(frames[l].sort) :
      frames[k].sort[i] = frames[l].sort[j] => k = l /\ i = j

\* So does the schedule, which ends with the requested group.
ScheduleFresh == \A i \in 1..Len(callstack) : callstack[i] \in Fresh

ScheduleDistinct == \A i, j \in 1..Len(callstack) : callstack[i] = callstack[j] => i = j

ScheduleEnds == callstack # <<>> => callstack[Len(callstack)] = requested

ListInv     == FramesFresh /\ ListsFresh /\ ListsDistinct
ScheduleInv == ScheduleFresh /\ ScheduleDistinct /\ ScheduleEnds
FreshInv    == SettledBlack /\ BlackDeclared /\ ListInv /\ ScheduleInv

LEMMA QuietFresh ==
  ASSUME FreshInv,
         UNCHANGED <<decl, taskGroups, mark, frames, callstack, requested, settled>>
  PROVE  FreshInv'
  <1>1. Fresh' = Fresh
    BY SameNeeded
  <1>2. SettledBlack' /\ BlackDeclared'
    BY DEF FreshInv, SettledBlack, BlackDeclared
  <1>3. ListInv'
    BY <1>1 DEF FreshInv, ListInv, FramesFresh, ListsFresh, ListsDistinct
  <1>4. ScheduleInv'
    BY <1>1 DEF FreshInv, ScheduleInv, ScheduleFresh, ScheduleDistinct, ScheduleEnds
  <1> QED
    BY <1>2, <1>3, <1>4 DEF FreshInv

LEMMA EnterFresh ==
  ASSUME Shape, FreshInv, NEW g \in Name, Enter(g), mark[g] = "white", g \in Needed,
         UNCHANGED <<decl, taskGroups, callstack, requested, settled>>
  PROVE  FreshInv'
  <1>1. Fresh' = Fresh
    BY SameNeeded
  <1>2. \A n \in Name : mark'[n] = "black" <=> mark[n] = "black"
    BY DEF Enter, Shape, TypeOK
  <1>3. g \in Fresh /\ settled \subseteq Name /\ Fresh \subseteq Name
    BY DEF FreshInv, SettledBlack, Fresh, Needed, Shape, TypeOK
  <1>4. PICK n : n = Len(frames)
    OBVIOUS
  <1>5. /\ n \in Nat /\ Len(frames') = n + 1 /\ frames'[n + 1] = Frame(g)
        /\ \A k \in 1..n : frames'[k] = frames[k]
        /\ \A k \in 1..(n + 1) : k \in 1..n \/ k = n + 1
    <2>1. TypeOK /\ frames \in Seq(Activation)
      BY DEF Shape, TypeOK
    <2>2. n \in Nat
      BY <1>4, <2>1
    <2> QED
      BY <1>4, <2>1, <2>2, EnterType
  <1>6. Frame(g).group = g /\ Frame(g).sort = <<>> /\ Len(Frame(g).sort) = 0
    BY DEF Frame
  <1>7. SettledBlack' /\ BlackDeclared'
    BY <1>2, <1>3 DEF FreshInv, SettledBlack, BlackDeclared
  <1>8. FramesFresh'
    BY <1>1, <1>3, <1>4, <1>5, <1>6 DEF FreshInv, ListInv, FramesFresh
  <1>9. ListsFresh'
    <2> SUFFICES ASSUME NEW k \in 1..(n + 1), NEW i \in 1..Len(frames'[k].sort)
                 PROVE  frames'[k].sort[i] \in Fresh /\ mark'[frames'[k].sort[i]] = "black"
      BY <1>1, <1>5 DEF ListsFresh
    <2>1. k \in 1..n /\ frames'[k] = frames[k]
      BY <1>5, <1>6
    <2> QED
      BY <1>2, <1>3, <1>4, <2>1 DEF FreshInv, ListInv, ListsFresh
  <1>10. ListsDistinct'
    <2> SUFFICES ASSUME NEW k \in 1..(n + 1), NEW l \in 1..(n + 1),
                        NEW i \in 1..Len(frames'[k].sort), NEW j \in 1..Len(frames'[l].sort),
                        frames'[k].sort[i] = frames'[l].sort[j]
                 PROVE  k = l /\ i = j
      BY <1>5 DEF ListsDistinct
    <2>1. /\ k \in 1..n /\ frames'[k] = frames[k]
          /\ l \in 1..n /\ frames'[l] = frames[l]
      BY <1>5, <1>6
    <2> QED
      BY <1>4, <2>1 DEF FreshInv, ListInv, ListsDistinct
  <1>11. ScheduleInv'
    BY <1>1 DEF FreshInv, ScheduleInv, ScheduleFresh, ScheduleDistinct, ScheduleEnds
  <1> QED
    BY <1>7, <1>8, <1>9, <1>10, <1>11 DEF FreshInv, ListInv

LEMMA SkipFresh ==
  ASSUME Shape, FreshInv, SkipTask
  PROVE  FreshInv'
  <1>0. UNCHANGED <<decl, taskGroups, mark, callstack, requested, settled>>
    BY DEF SkipTask, registry, invoking, control
  <1>1. Fresh' = Fresh
    BY <1>0, SameNeeded
  <1>2. PICK n : n = Len(frames)
    OBVIOUS
  <1>3. /\ n \in Nat \ {0} /\ Len(frames') = n
        /\ \A k \in 1..(n - 1) : frames'[k] = frames[k]
        /\ frames[n] = Top
        /\ frames'[n].group = Top.group /\ frames'[n].sort = Top.sort
    <2>1. TypeOK /\ Len(frames) > 0 /\ frames' = [frames EXCEPT ![Len(frames)] = Advance(@)]
      BY DEF Shape, StackShape, SkipTask, AtTask
    <2> QED
      BY <1>2, <2>1, TopType, SkipFrames DEF Top
  <1>4. \A k \in 1..n : k \in 1..(n - 1) \/ k = n
    BY <1>3
  <1>5. \A k \in 1..n : frames'[k].sort = frames[k].sort /\ frames'[k].group = frames[k].group
    BY <1>3, <1>4
  <1>6. SettledBlack' /\ BlackDeclared'
    BY <1>0 DEF FreshInv, SettledBlack, BlackDeclared
  <1>7. FramesFresh' /\ ListsFresh'
    BY SMTT(30), <1>0, <1>1, <1>2, <1>3, <1>5 DEF FreshInv, ListInv, FramesFresh, ListsFresh
  <1>8. ListsDistinct'
    <2> SUFFICES ASSUME NEW k \in 1..n, NEW l \in 1..n,
                        NEW i \in 1..Len(frames'[k].sort), NEW j \in 1..Len(frames'[l].sort),
                        frames'[k].sort[i] = frames'[l].sort[j]
                 PROVE  k = l /\ i = j
      BY <1>3 DEF ListsDistinct
    <2>1. frames'[k].sort = frames[k].sort /\ frames'[l].sort = frames[l].sort
      BY <1>5
    <2> QED
      BY <1>2, <2>1 DEF FreshInv, ListInv, ListsDistinct
  <1>9. ScheduleInv'
    BY <1>0, <1>1 DEF FreshInv, ScheduleInv, ScheduleFresh, ScheduleDistinct, ScheduleEnds
  <1> QED
    BY <1>6, <1>7, <1>8, <1>9 DEF FreshInv, ListInv

\* What an activation returns: fresh groups, black by then, each once and none
\* of them in the list of another activation; its own group comes last.
LEMMA SortedFresh ==
  ASSUME Shape, StackIsGray, FreshInv, FinishGroup, Len(frames) > 0
  PROVE  /\ Sorted \in Seq(Name) /\ Len(Sorted) \in Nat \ {0}
         /\ Sorted[Len(Sorted)] = Top.group
         /\ \A i \in 1..Len(Sorted) : Sorted[i] \in Fresh /\ mark'[Sorted[i]] = "black"
         /\ \A i, j \in 1..Len(Sorted) : Sorted[i] = Sorted[j] => i = j
         /\ \A k \in 1..(Len(frames) - 1) : \A i \in 1..Len(frames[k].sort) :
              \A j \in 1..Len(Sorted) : frames[k].sort[i] # Sorted[j]
         /\ \A m \in Name : mark'[m] = "black" <=> mark[m] = "black" \/ m = Top.group
         /\ Top.group \in Name /\ taskGroups[Top.group] # <<>>
  <1>1. PICK n : n = Len(frames)
    OBVIOUS
  <1>2. /\ n \in Nat \ {0} /\ n \in 1..Len(frames) /\ frames[n] = Top
        /\ Top.sort \in Seq(Name) /\ Top.group \in Name /\ Sorted \in Seq(Name)
    BY <1>1, TopType DEF Shape, Top
  <1>3. PICK a : a = Len(Top.sort)
    OBVIOUS
  <1>4. /\ a \in Nat /\ Len(Sorted) = a + 1 /\ Sorted[a + 1] = Top.group
        /\ \A j \in 1..a : Sorted[j] = Top.sort[j]
        /\ \A j \in 1..(a + 1) : j \in 1..a \/ j = a + 1
    BY <1>2, <1>3 DEF Sorted
  <1>5. \A m \in Name : mark'[m] = "black" <=> mark[m] = "black" \/ m = Top.group
    BY <1>2 DEF FinishGroup, Shape, TypeOK
  <1>6. mark[Top.group] = "gray" /\ mark[Top.group] # "black"
    <2>1. checkerOfDCG[n] = Top.group /\ Len(checkerOfDCG) = n
      BY <1>1, <1>2 DEF StackIsGray
    <2>2. Top.group \in Elements(checkerOfDCG)
      BY <1>2, <2>1 DEF Elements
    <2> QED
      BY <1>2, <2>2 DEF StackIsGray
  <1>7. Top.group \in Fresh /\ taskGroups[Top.group] # <<>>
    BY <1>2 DEF FreshInv, ListInv, FramesFresh, Shape, StackShape
  <1>8. \A k \in 1..n : \A i \in 1..Len(frames[k].sort) :
          frames[k].sort[i] \in Fresh /\ mark[frames[k].sort[i]] = "black"
    BY <1>1 DEF FreshInv, ListInv, ListsFresh
  <1>9. \A j \in 1..a : Sorted[j] \in Fresh /\ mark[Sorted[j]] = "black"
    BY SMTT(30), <1>2, <1>3, <1>4, <1>8
  <1>10. \A i \in 1..Len(Sorted) : Sorted[i] \in Fresh /\ mark'[Sorted[i]] = "black"
    <2>1. \A x \in Fresh : x \in Name
      BY DEF Fresh, Needed
    <2> QED
      BY <1>4, <1>5, <1>7, <1>9, <2>1
  <1>d. \A k \in 1..n : \A i \in 1..Len(frames[k].sort) : \A j \in 1..a :
          frames[k].sort[i] = Top.sort[j] => k = n /\ i = j
    BY SMTT(30), <1>1, <1>2, <1>3 DEF FreshInv, ListInv, ListsDistinct
  <1>11. \A i, j \in 1..a : Sorted[i] = Sorted[j] => i = j
    <2>1. \A i, j \in 1..a : Top.sort[i] = Top.sort[j] => i = j
      BY <1>1, <1>2, <1>3, <1>d
    <2> QED
      BY <1>4, <2>1
  <1>12. \A i, j \in 1..Len(Sorted) : Sorted[i] = Sorted[j] => i = j
    BY <1>4, <1>6, <1>9, <1>11
  <1>13. ASSUME NEW k \in 1..(n - 1), NEW i \in 1..Len(frames[k].sort), NEW j \in 1..(a + 1)
         PROVE  frames[k].sort[i] # Sorted[j]
    <2>1. k \in 1..n /\ k # n /\ n \in 1..n
      BY <1>2
    <2>2. CASE j \in 1..a
      BY <1>4, <1>d, <2>1, <2>2
    <2>3. CASE j = a + 1
      BY <1>4, <1>6, <1>8, <2>1, <2>3
    <2> QED
      BY <1>4, <2>2, <2>3
  <1> QED
    BY <1>1, <1>2, <1>4, <1>5, <1>7, <1>10, <1>12, <1>13

LEMMA ReturnFresh ==
  ASSUME Shape, StackIsGray, FreshInv, ReturnToTopSort
  PROVE  FreshInv'
  <1>0. /\ TypeOK /\ Len(frames) > 0 /\ FinishGroup
        /\ UNCHANGED <<decl, taskGroups, callstack, requested, settled>>
    BY DEF Shape, StackShape, ReturnToTopSort, FinishGroup, registry, invoking, control
  <1>1. Fresh' = Fresh /\ Fresh \subseteq Name /\ settled \subseteq Name
    BY <1>0, SameNeeded DEF Fresh, Needed, TypeOK
  <1>2. PICK n : n = Len(frames) - 1
    OBVIOUS
  <1>3. /\ n \in Nat \ {0} /\ Len(frames') = n /\ Len(frames) = n + 1
        /\ \A k \in 1..(n - 1) : frames'[k] = frames[k]
        /\ frames'[n].group = frames[n].group
        /\ frames'[n].sort = frames[n].sort \o Sorted
        /\ \A k \in 1..n : k \in 1..(n - 1) \/ k = n
        /\ \A k \in 1..n : k \in 1..Len(frames)
    <2>1. /\ n \in Nat \ {0} /\ Len(frames') = n
          /\ \A k \in 1..(n - 1) : frames'[k] = frames[k]
          /\ frames'[n].group = frames[n].group
          /\ frames'[n].sort = frames[n].sort \o Sorted
      BY <1>0, <1>2, ReturnFrames
    <2>2. frames \in Seq(Activation)
      BY <1>0 DEF TypeOK
    <2>3. Len(frames) \in Nat
      BY <2>2
    <2>4. Len(frames) = n + 1 /\ n \in Nat
      BY <1>2, <2>1, <2>3
    <2> QED
      BY <2>1, <2>4
  <1>4. /\ Sorted \in Seq(Name) /\ Len(Sorted) \in Nat
        /\ \A i \in 1..Len(Sorted) : Sorted[i] \in Fresh /\ mark'[Sorted[i]] = "black"
        /\ \A i, j \in 1..Len(Sorted) : Sorted[i] = Sorted[j] => i = j
        /\ \A k \in 1..n : \A i \in 1..Len(frames[k].sort) :
             \A j \in 1..Len(Sorted) : frames[k].sort[i] # Sorted[j]
        /\ \A m \in Name : mark'[m] = "black" <=> mark[m] = "black" \/ m = Top.group
        /\ Top.group \in Name /\ taskGroups[Top.group] # <<>>
    BY <1>0, <1>2, SortedFresh
  <1>5. frames[n].sort \in Seq(Name)
    <2>1. frames \in Seq(Activation)
      BY <1>0 DEF TypeOK
    <2>2. n \in 1..Len(frames)
      BY <1>3
    <2>3. frames[n] \in Activation
      BY <2>1, <2>2
    <2> QED
      BY <2>3 DEF Activation
  <1>6. PICK a, b : a = Len(frames[n].sort) /\ b = Len(Sorted)
    OBVIOUS
  <1>7. /\ a \in Nat /\ b \in Nat /\ Len(frames'[n].sort) = a + b
        /\ \A i \in 1..a : frames'[n].sort[i] = frames[n].sort[i]
        /\ \A i \in 1..b : frames'[n].sort[a + i] = Sorted[i]
    BY <1>3, <1>4, <1>5, <1>6, ConcatProperties
  <1>8. \A i \in 1..(a + b) : i \in 1..a
          \/ (i - a \in 1..b /\ frames'[n].sort[i] = Sorted[i - a])
    <2> SUFFICES ASSUME NEW i \in 1..(a + b), i \notin 1..a
                 PROVE  i - a \in 1..b /\ frames'[n].sort[i] = Sorted[i - a]
      OBVIOUS
    <2>1. i - a \in 1..b /\ a + (i - a) = i
      BY <1>7
    <2> QED
      BY <1>7, <2>1
  <1>9. \A k \in 1..n : \A i \in 1..Len(frames'[k].sort) :
           \/ i \in 1..Len(frames[k].sort) /\ frames'[k].sort[i] = frames[k].sort[i]
           \/ k = n /\ i - a \in 1..b /\ frames'[n].sort[i] = Sorted[i - a]
    <2> SUFFICES ASSUME NEW k \in 1..n, NEW i \in 1..Len(frames'[k].sort)
                 PROVE  \/ i \in 1..Len(frames[k].sort) /\ frames'[k].sort[i] = frames[k].sort[i]
                        \/ k = n /\ i - a \in 1..b /\ frames'[n].sort[i] = Sorted[i - a]
      OBVIOUS
    <2>1. CASE k \in 1..(n - 1)
      BY <1>3, <2>1
    <2>2. CASE k = n
      BY <1>6, <1>7, <1>8, <2>2
    <2> QED
      BY <1>3, <2>1, <2>2
  <1>10. SettledBlack' /\ BlackDeclared'
    BY <1>0, <1>1, <1>4 DEF FreshInv, SettledBlack, BlackDeclared
  <1>11. FramesFresh'
    BY <1>1, <1>3 DEF FreshInv, ListInv, FramesFresh
  <1>12. ListsFresh'
    <2> SUFFICES ASSUME NEW k \in 1..n, NEW i \in 1..Len(frames'[k].sort)
                 PROVE  frames'[k].sort[i] \in Fresh /\ mark'[frames'[k].sort[i]] = "black"
      BY <1>1, <1>3 DEF ListsFresh
    <2>1. CASE i \in 1..Len(frames[k].sort) /\ frames'[k].sort[i] = frames[k].sort[i]
      <3>1. frames[k].sort[i] \in Fresh /\ mark[frames[k].sort[i]] = "black"
        BY <1>3, <2>1 DEF FreshInv, ListInv, ListsFresh
      <3> QED
        BY <1>1, <1>4, <2>1, <3>1
    <2>2. CASE k = n /\ i - a \in 1..b /\ frames'[n].sort[i] = Sorted[i - a]
      BY <1>4, <1>6, <2>2
    <2> QED
      BY <1>9, <2>1, <2>2
  <1>13. ListsDistinct'
    <2> SUFFICES ASSUME NEW k \in 1..n, NEW l \in 1..n,
                        NEW i \in 1..Len(frames'[k].sort), NEW j \in 1..Len(frames'[l].sort),
                        frames'[k].sort[i] = frames'[l].sort[j]
                 PROVE  k = l /\ i = j
      BY <1>3 DEF ListsDistinct
    <2>1. \/ i \in 1..Len(frames[k].sort) /\ frames'[k].sort[i] = frames[k].sort[i]
          \/ k = n /\ i - a \in 1..b /\ frames'[n].sort[i] = Sorted[i - a]
      BY <1>9
    <2>2. \/ j \in 1..Len(frames[l].sort) /\ frames'[l].sort[j] = frames[l].sort[j]
          \/ l = n /\ j - a \in 1..b /\ frames'[n].sort[j] = Sorted[j - a]
      BY <1>9
    <2>3. CASE /\ i \in 1..Len(frames[k].sort) /\ frames'[k].sort[i] = frames[k].sort[i]
               /\ j \in 1..Len(frames[l].sort) /\ frames'[l].sort[j] = frames[l].sort[j]
      <3>1. k \in 1..Len(frames) /\ l \in 1..Len(frames)
            /\ frames[k].sort[i] = frames[l].sort[j]
        BY <1>3, <2>3
      <3> QED
        BY <2>3, <3>1 DEF FreshInv, ListInv, ListsDistinct
    <2>4. CASE /\ k = n /\ i - a \in 1..b /\ frames'[n].sort[i] = Sorted[i - a]
               /\ l = n /\ j - a \in 1..b /\ frames'[n].sort[j] = Sorted[j - a]
      <3>1. i - a = j - a
        BY <1>4, <1>6, <2>4
      <3> QED
        BY <1>7, <2>4, <3>1
    <2>5. CASE /\ i \in 1..Len(frames[k].sort) /\ frames'[k].sort[i] = frames[k].sort[i]
               /\ l = n /\ j - a \in 1..b /\ frames'[n].sort[j] = Sorted[j - a]
      <3>1. frames[k].sort[i] = Sorted[j - a]
        BY <2>5
      <3>2. j - a \in 1..Len(Sorted)
        BY <1>6, <2>5
      <3> QED
        BY <1>4, <2>5, <3>1, <3>2
    <2>6. CASE /\ k = n /\ i - a \in 1..b /\ frames'[n].sort[i] = Sorted[i - a]
               /\ j \in 1..Len(frames[l].sort) /\ frames'[l].sort[j] = frames[l].sort[j]
      <3>1. frames[l].sort[j] = Sorted[i - a]
        BY <2>6
      <3>2. i - a \in 1..Len(Sorted)
        BY <1>6, <2>6
      <3> QED
        BY <1>4, <2>6, <3>1, <3>2
    <2> QED
      BY <2>1, <2>2, <2>3, <2>4, <2>5, <2>6
  <1>14. ScheduleInv'
    BY <1>0, <1>1 DEF FreshInv, ScheduleInv, ScheduleFresh, ScheduleDistinct, ScheduleEnds
  <1> QED
    BY <1>10, <1>11, <1>12, <1>13, <1>14 DEF FreshInv, ListInv

LEMMA ReturnToRunFresh ==
  ASSUME Shape, StackIsGray, FreshInv, ReturnToRun
  PROVE  FreshInv'
  <1>1. /\ FinishGroup /\ Len(frames) = 1 /\ frames' = <<>> /\ callstack' = Sorted
        /\ phase = "sort" /\ UNCHANGED <<decl, taskGroups, requested, settled>>
    BY DEF ReturnToRun, FinishGroup, registry
  <1>2. Fresh' = Fresh /\ settled \subseteq Name
    BY <1>1, SameNeeded DEF Shape, TypeOK
  <1>3. Top.group = requested
    BY <1>1 DEF Shape, StackShape, Top
  <1>4. /\ Sorted[Len(Sorted)] = Top.group
        /\ \A i \in 1..Len(Sorted) : Sorted[i] \in Fresh
        /\ \A i, j \in 1..Len(Sorted) : Sorted[i] = Sorted[j] => i = j
        /\ \A m \in Name : mark'[m] = "black" <=> mark[m] = "black" \/ m = Top.group
        /\ Top.group \in Name /\ taskGroups[Top.group] # <<>>
    BY <1>1, SortedFresh
  <1>5. SettledBlack' /\ BlackDeclared'
    BY <1>1, <1>2, <1>4 DEF FreshInv, SettledBlack, BlackDeclared
  <1>6. ListInv'
    BY <1>1 DEF ListInv, FramesFresh, ListsFresh, ListsDistinct
  <1>7. ScheduleInv'
    BY <1>1, <1>2, <1>3, <1>4 DEF ScheduleInv, ScheduleFresh, ScheduleDistinct, ScheduleEnds
  <1> QED
    BY <1>5, <1>6, <1>7 DEF FreshInv

LEMMA FreshStep ==
  ASSUME Shape, StackIsGray, FreshInv, [Next]_vars
  PROVE  FreshInv'
  <1>1. CASE UNCHANGED vars
    BY <1>1, QuietFresh DEF vars, registry, sorting, invoking, control
  <1>2. ASSUME NEW p \in Plugin, Attach(p)
        PROVE  FreshInv'
    BY <1>2, QuietFresh DEF Attach, sorting, invoking, control
  <1>3. ASSUME NEW name \in Name \cup {NoName}, Run(name)
        PROVE  FreshInv'
    <2>1. /\ frames' = <<>> /\ callstack' = <<>> /\ UNCHANGED <<mark, taskGroups>>
          /\ settled' = {n \in Name : mark[n] = "black"}
      BY <1>3 DEF Run, Shape, StackShape, sorting, registry
    <2>2. SettledBlack' /\ BlackDeclared'
      BY <2>1 DEF FreshInv, SettledBlack, BlackDeclared
    <2> QED
      BY <2>1, <2>2 DEF FreshInv, ListInv, FramesFresh, ListsFresh, ListsDistinct,
                        ScheduleInv, ScheduleFresh, ScheduleDistinct, ScheduleEnds
  <1>4. ASSUME NEW o \in Owner, Register(o)
        PROVE  FreshInv'
    <2>1. /\ frames' = <<>> /\ callstack' = <<>> /\ UNCHANGED <<mark, settled>>
      BY <1>4 DEF Register, Shape, StackShape, CallShape, sorting, invoking
    <2>2. \A n \in Name : taskGroups[n] # <<>> => taskGroups'[n] # <<>>
      <3> SUFFICES ASSUME NEW n \in Name, taskGroups[n] # <<>>
                   PROVE  taskGroups'[n] # <<>>
        OBVIOUS
      <3>1. taskGroups[n] \in Seq(Owner)
        BY DEF Shape, TypeOK
      <3>2. taskGroups'[n] = taskGroups[n] \/ taskGroups'[n] = Append(taskGroups[n], o)
        BY <1>4 DEF Register
      <3>3. Append(taskGroups[n], o) # <<>>
        BY <3>1, AppendProperties
      <3> QED
        BY <3>2, <3>3
    <2>3. SettledBlack' /\ BlackDeclared'
      BY <2>1, <2>2 DEF FreshInv, SettledBlack, BlackDeclared
    <2> QED
      BY <2>1, <2>3 DEF FreshInv, ListInv, FramesFresh, ListsFresh, ListsDistinct,
                        ScheduleInv, ScheduleFresh, ScheduleDistinct, ScheduleEnds
  <1>5. CASE ReturnUnnamed
    BY <1>5, QuietFresh DEF ReturnUnnamed, Return, registry, sorting, invoking
  <1>6. CASE ThrowUnknownTask
    BY <1>6, QuietFresh DEF ThrowUnknownTask, Throw, registry, sorting, invoking
  <1>7. CASE CallTopSort
    <2>1. requested \in Name /\ requested \in Needed
      BY <1>7, NeededClosed DEF CallTopSort, Shape, TypeOK
    <2> QED
      BY <1>7, <2>1, EnterFresh DEF CallTopSort, registry, invoking
  <1>8. CASE CallTopSortOnBlack
    BY <1>8, QuietFresh DEF CallTopSortOnBlack, Throw, registry, sorting, invoking
  <1>9. CASE SkipTask
    BY <1>9, SkipFresh
  <1>10. CASE SortPrev
    <2>1. PrevAtTop \in Name /\ PrevAtTop \in Prevs(Top.group)
      BY <1>10, TopLink DEF SortPrev
    <2>2. Top.group \in Fresh
      BY <1>10, TopFrame DEF SortPrev, FreshInv, ListInv, FramesFresh
    <2>3. PrevAtTop \in Needed
      BY <2>1, <2>2, NeededClosed
    <2> QED
      BY <1>10, <2>1, <2>3, EnterFresh DEF SortPrev, registry, invoking, control
  <1>11. CASE ThrowUnknownPrev
    BY <1>11, QuietFresh DEF ThrowUnknownPrev, Throw, registry, sorting, invoking
  <1>12. CASE ThrowCycle
    BY <1>12, QuietFresh DEF ThrowCycle, Throw, registry, sorting, invoking
  <1>13. CASE ReturnToTopSort
    BY <1>13, ReturnFresh
  <1>14. CASE ReturnToRun
    BY <1>14, ReturnToRunFresh
  <1>15. CASE TaskSucceeds
    BY <1>15, QuietFresh DEF TaskSucceeds, CallTask, registry, sorting, control
  <1>16. CASE LastTaskSucceeds
    BY <1>16, QuietFresh DEF LastTaskSucceeds, CallTask, Return, registry, sorting
  <1>17. CASE TaskStops
    BY <1>17, QuietFresh DEF TaskStops, CallTask, Return, registry, sorting
  <1>18. CASE TaskThrows
    BY <1>18, QuietFresh DEF TaskThrows, CallTask, Throw, registry, sorting
  <1> QED
    BY <1>1, <1>2, <1>3, <1>4, <1>5, <1>6, <1>7, <1>8, <1>9, <1>10, <1>11, <1>12,
       <1>13, <1>14, <1>15, <1>16, <1>17, <1>18
    DEF Next, Proceed, Sort, Invoke

LEMMA FreshInvariant == Spec => []FreshInv
  <1>1. Init => FreshInv
    BY DEF Init, FreshInv, SettledBlack, BlackDeclared, ListInv, FramesFresh, ListsFresh,
           ListsDistinct, ScheduleInv, ScheduleFresh, ScheduleDistinct, ScheduleEnds
  <1>2. Shape /\ StackIsGray /\ FreshInv /\ [Next]_vars => FreshInv'
    BY FreshStep
  <1> QED
    BY <1>1, <1>2, ShapeInvariant, GrayIsOnStack, PTL DEF Spec

\* The arguments of run reach the tasks of the requested group and no others:
\* the last place of the schedule is the requested group's, and its only one.
THEOREM ArgumentsReachTheTask == Spec => []ArgumentsReachRequested
  <1>1. Init => ArgumentsReachRequested
    BY DEF Init, ArgumentsReachRequested
  <1>2. ASSUME Shape, OrderInv, FreshInv, CallInv, ArgumentsReachRequested, [Next]_vars
        PROVE  ArgumentsReachRequested'
    <2>1. CASE CallTask /\ UNCHANGED <<settled, requested>>
      <3>1. /\ Len(invoked') = Len(invoked) + 1 /\ Len(invoked) \in Nat
            /\ \A k \in 1..Len(invoked) : invoked'[k] = invoked[k]
            /\ invoked'[Len(invoked) + 1].group = Current
            /\ invoked'[Len(invoked) + 1].userArgs = (at = Len(callstack))
        BY <1>2, <2>1, CallOrder
      <3>2. at \in 1..Len(callstack) /\ Len(callstack) \in 1..Len(callstack)
        BY <1>2, <2>1, CallType
      <3>3. Len(callstack) = at <=> Current = requested
        BY <1>2, <3>2 DEF Current, FreshInv, ScheduleInv, ScheduleEnds, ScheduleDistinct
      <3>4. ASSUME NEW k \in 1..(Len(invoked) + 1)
            PROVE  invoked'[k].userArgs <=> invoked'[k].group = requested
        <4>1. CASE k \in 1..Len(invoked)
          BY <1>2, <3>1, <4>1 DEF ArgumentsReachRequested
        <4>2. CASE k = Len(invoked) + 1
          BY <3>1, <3>3, <4>2, Zenon
        <4> QED
          BY <3>1, <4>1, <4>2
      <3> QED
        BY <2>1, <3>1, <3>4 DEF ArgumentsReachRequested
    <2>2. CASE invoked' = <<>>
      BY <2>2 DEF ArgumentsReachRequested
    <2>3. CASE UNCHANGED <<invoked, requested>>
      BY <1>2, <2>3 DEF ArgumentsReachRequested
    <2> QED
      BY <1>2, <2>1, <2>2, <2>3
      DEF Next, Proceed, Sort, Invoke, Attach, Run, Register, ReturnUnnamed, Return, Throw,
          ThrowUnknownTask, CallTopSort, CallTopSortOnBlack, SkipTask, SortPrev,
          ThrowUnknownPrev, ThrowCycle, ReturnToTopSort, ReturnToRun, TaskSucceeds,
          LastTaskSucceeds, TaskStops, TaskThrows, vars, control, invoking
  <1> QED
    BY <1>1, <1>2, ShapeInvariant, OrderInvariant, FreshInvariant, CallInvariant, PTL DEF Spec

\* A set of numbers that is not empty has a least one.
LEMMA LeastNumber ==
  ASSUME NEW I \in SUBSET Nat, I # {}
  PROVE  \E i \in I : \A j \in I : i <= j
  <1>1. PICK F : F = {1..i : i \in I}
    OBVIOUS
  <1>2. F \subseteq FiniteSubsetsOf(Nat) /\ F # {}
    <2>1. \A i \in I : IsFiniteSet(1..i) /\ 1..i \in SUBSET Nat
      BY FS_Interval
    <2> QED
      BY <1>1, <2>1 DEF FiniteSubsetsOf
  <1>3. PICK x \in F : \A y \in F : ~(<<y, x>> \in StrictSubsetOrdering(Nat))
    BY <1>2, FS_StrictSubsetOrderingWellFounded, WFMin
  <1>4. PICK i \in I : x = 1..i
    BY <1>1
  <1>5. ASSUME NEW j \in I, j < i
        PROVE  FALSE
    <2>1. 1..j \subseteq 1..i /\ 1..j # 1..i
      <3>1. i \in 1..i /\ i \notin 1..j
        BY <1>5
      <3> QED
        BY <1>5, <3>1
    <2>2. <<1..j, x>> \in StrictSubsetOrdering(Nat)
      BY <1>4, <2>1 DEF StrictSubsetOrdering
    <2> QED
      BY <1>1, <1>3, <2>2
  <1> QED
    BY <1>5

\* The length of a sequence without repetitions is the number of its elements.
LEMMA DistinctLength ==
  ASSUME NEW s \in Seq(Name), \A i, j \in 1..Len(s) : s[i] = s[j] => i = j
  PROVE  Len(s) = Cardinality(Elements(s))
  <1>1. PICK n : n = Len(s)
    OBVIOUS
  <1>2. n \in Nat /\ IsFiniteSet(1..n) /\ Cardinality(1..n) = n
    <2>1. n \in Nat
      BY <1>1
    <2>2. /\ IsFiniteSet(1..n)
          /\ Cardinality(1..n) = IF 1 > n THEN 0 ELSE n - 1 + 1
      BY <2>1, FS_Interval
    <2> QED
      BY <2>1, <2>2
  <1>3. PICK f : f = [i \in 1..n |-> s[i]]
    OBVIOUS
  <1>4. f \in Bijection(1..n, Elements(s))
    <2>1. PICK E : E = Elements(s)
      OBVIOUS
    <2>2. f \in [1..n -> E] /\ \A x \in E : \E i \in 1..n : f[i] = x
      BY <1>1, <1>3, <2>1 DEF Elements
    <2>3. \A i, j \in 1..n : f[i] = f[j] => i = j
      BY <1>1, <1>3
    <2>4. DOMAIN f = 1..n
      BY <2>2
    <2>5. IsInjective(f)
      BY <2>3, <2>4, Zenon DEF IsInjective
    <2>6. f \in Bijection(1..n, E)
      BY <2>2, <2>5, Zenon DEF Bijection, Injection, Surjection
    <2> QED
      BY <2>1, <2>6
  <1> QED
    BY <1>1, <1>2, <1>4, FS_Bijection DEF ExistsBijection

\* A schedule is the set of groups the requested task needs: it holds the
\* requested group and is closed under Prev links, and each of its groups is
\* needed.  Its order shows that the links form no cycle.
LEMMA ScheduleExact ==
  ASSUME Shape, OrderInv, FreshInv, callstack # <<>>
  PROVE  /\ Elements(callstack) = Fresh
         /\ Len(callstack) = Cardinality(Fresh)
         /\ Acyclic(Fresh)
         /\ \A n \in Fresh : ~Unknown(n)
  <1>1. PICK n : n = Len(callstack)
    OBVIOUS
  <1>2. /\ callstack \in Seq(Name) /\ settled \subseteq Name
        /\ n \in Nat \ {0} /\ \A i \in 1..n : callstack[i] \in Name
    <2>1. callstack \in Seq(Name) /\ settled \subseteq Name
      BY DEF Shape, TypeOK
    <2> QED
      BY <1>1, <2>1
  <1>3. callstack[n] = requested /\ \A i \in 1..n : callstack[i] \in Fresh
    BY <1>1 DEF FreshInv, ScheduleInv, ScheduleEnds, ScheduleFresh
  <1>4. \A i \in 1..n : \A p \in Prevs(callstack[i]) :
          p \in settled \/ \E j \in 1..(i - 1) : callstack[j] = p
    BY <1>1 DEF OrderInv, ScheduleOrdered
  <1>5. \A i \in 1..n : \A j \in 1..(i - 1) : j \in 1..n
    BY <1>2
  <1>6. Elements(callstack) = Fresh
    <2>1. PICK S : S = Elements(callstack) \cup settled
      OBVIOUS
    <2>2. S \in SUBSET Name /\ requested \in S
      BY <1>1, <1>2, <1>3, <2>1 DEF Elements
    <2>3. \A x \in S \ settled : Prevs(x) \cap Name \subseteq S
      <3> SUFFICES ASSUME NEW x \in S \ settled, NEW p \in Prevs(x)
                   PROVE  p \in S
        OBVIOUS
      <3>1. PICK i \in 1..n : x = callstack[i]
        BY <1>1, <2>1 DEF Elements
      <3>2. p \in settled \/ \E j \in 1..n : callstack[j] = p
        BY <1>4, <1>5, <3>1
      <3> QED
        BY <1>1, <2>1, <3>2 DEF Elements
    <2>4. Needed \subseteq S
      BY <2>2, <2>3, NeededLeast
    <2> QED
      BY <1>1, <1>3, <2>1, <2>4 DEF Fresh, Elements
  <1>7. Len(callstack) = Cardinality(Fresh)
    BY <1>2, <1>6, DistinctLength DEF FreshInv, ScheduleInv, ScheduleDistinct
  <1>8. Acyclic(Fresh)
    <2> SUFFICES ASSUME NEW T \in SUBSET Fresh, T # {}
                 PROVE  \E x \in T : Prevs(x) \cap T = {}
      BY DEF Acyclic
    <2>1. PICK I : I = {i \in 1..n : callstack[i] \in T}
      OBVIOUS
    <2>2. I \in SUBSET Nat /\ I # {}
      BY <1>1, <1>2, <1>6, <2>1 DEF Elements
    <2>3. PICK i \in I : \A j \in I : i <= j
      BY <2>2, LeastNumber
    <2>4. i \in 1..n /\ callstack[i] \in T
      BY <2>1
    <2>5. ASSUME NEW p \in Prevs(callstack[i]), p \in T
          PROVE  FALSE
      <3>1. p \notin settled
        BY <2>5 DEF Fresh
      <3>2. PICK j \in 1..(i - 1) : callstack[j] = p
        BY <1>4, <2>4, <3>1
      <3>3. j \in 1..n /\ j < i
        BY <1>2, <2>4
      <3>4. j \in I
        BY <2>1, <2>5, <3>2, <3>3
      <3> QED
        BY <2>3, <2>4, <3>3, <3>4
    <2> QED
      BY <2>4, <2>5
  <1>9. ASSUME NEW x \in Fresh
        PROVE  ~Unknown(x)
    <2>1. PICK i \in 1..n : x = callstack[i]
      BY <1>1, <1>6 DEF Elements
    <2>2. ASSUME NEW p \in Prevs(x)
          PROVE  taskGroups[p] # <<>>
      <3>1. CASE p \in settled
        BY <1>2, <3>1 DEF FreshInv, SettledBlack, BlackDeclared
      <3>2. CASE \E j \in 1..n : callstack[j] = p
        BY <1>1, <3>2 DEF Shape, CallShape
      <3> QED
        BY <1>4, <1>5, <2>1, <3>1, <3>2
    <2> QED
      BY <2>2 DEF Unknown
  <1> QED
    BY <1>6, <1>7, <1>8, <1>9

\* How a run ended tells what its schedule was, or why there is none.
EndInv ==
  /\ outcome \in {"success", "stopped", "task error"} => callstack # <<>>
  /\ outcome = "cycle" => phase = "thrown" /\ ~Acyclic(Fresh)
  /\ outcome = "unknown prev" => phase = "thrown" /\ \E n \in Fresh : Unknown(n)

\* The groups on the stack from the one met again on have their Prev among them.
LEMMA CycleIsReal ==
  ASSUME Shape, StackIsGray, FreshInv, ThrowCycle
  PROVE  ~Acyclic(Fresh)
  <1>1. PICK i \in 1..Len(checkerOfDCG) : checkerOfDCG[i] = PrevAtTop
    BY DEF ThrowCycle
  <1>2. PICK n : n = Len(frames)
    OBVIOUS
  <1>3. AtTask /\ PrevAtTop \in Name /\ PrevAtTop \in Prevs(Top.group)
    BY TopLink DEF ThrowCycle
  <1>4. /\ n \in Nat /\ i \in 1..n /\ frames[n] = Top
        /\ frames[i].group = PrevAtTop
        /\ \A k \in 1..n : frames[k].group \in Fresh
    <2>1. frames \in Seq(Activation)
      BY DEF Shape, TypeOK
    <2>2. n \in Nat /\ frames[n] = Top
      BY <1>2, <1>3, <2>1, TopFrame
    <2>3. i \in 1..n /\ frames[i].group = PrevAtTop
      BY <1>1, <1>2 DEF StackIsGray
    <2> QED
      BY <1>2, <2>2, <2>3 DEF FreshInv, ListInv, FramesFresh
  <1>5. PICK T : T = {frames[k].group : k \in i..n}
    OBVIOUS
  <1>6. T \in SUBSET Fresh /\ T # {}
    <2>1. \A k \in i..n : k \in 1..n
      BY <1>4
    <2>2. i \in i..n
      BY <1>4
    <2> QED
      BY <1>4, <1>5, <2>1, <2>2
  <1>7. ASSUME NEW x \in T
        PROVE  Prevs(x) \cap T # {}
    <2>1. PICK k \in i..n : x = frames[k].group
      BY <1>5
    <2>2. CASE k = n
      <3>1. PrevAtTop \in T
        <4>1. i \in i..n
          BY <1>4
        <4> QED
          BY <1>4, <1>5, <4>1
      <3> QED
        BY <1>3, <1>4, <2>1, <2>2, <3>1
    <2>3. CASE k \in i..(n - 1)
      <3>1. k \in 1..(n - 1) /\ k + 1 \in i..n /\ k + 1 \in 1..n
        BY <1>4, <2>3
      <3>2. frames[k + 1].group \in Name
        BY <1>4, <3>1 DEF Fresh, Needed
      <3>3. frames[k + 1].group \in Prevs(frames[k].group)
        BY <1>2, <3>1, <3>2, StackLinks
      <3> QED
        BY <1>5, <2>1, <3>1, <3>3
    <2> QED
      BY <1>4, <2>2, <2>3
  <1> QED
    BY <1>6, <1>7 DEF Acyclic

LEMMA EndStep ==
  ASSUME Shape, StackIsGray, FreshInv, EndInv, [Next]_vars
  PROVE  EndInv'
  <1>1. ASSUME UNCHANGED <<decl, taskGroups, requested, settled>>
        PROVE  /\ Acyclic(Fresh)' = Acyclic(Fresh)
               /\ (\E n \in Fresh : Unknown(n)) => (\E n \in Fresh : Unknown(n))'
    <2>1. Fresh' = Fresh
      BY <1>1, SameNeeded
    <2>2. \A n : Prevs(n)' = Prevs(n)
      BY <1>1 DEF Prevs, Members
    <2>3. Acyclic(Fresh)' = Acyclic(Fresh)
      BY <2>1, <2>2 DEF Acyclic
    <2>4. \A n : Unknown(n)' = Unknown(n)
      BY <1>1, <2>2 DEF Unknown
    <2> QED
      BY <2>1, <2>3, <2>4
  <1>2. CASE UNCHANGED vars
    BY <1>1, <1>2 DEF EndInv, vars, registry, control, invoking
  <1>3. CASE ThrowCycle
    <2>1. /\ outcome' = "cycle" /\ phase' = "thrown"
          /\ UNCHANGED <<decl, taskGroups, requested, settled>>
      BY <1>3 DEF ThrowCycle, Throw, registry
    <2>2. ~Acyclic(Fresh)'
      BY <1>1, <1>3, <2>1, CycleIsReal
    <2> QED
      BY <2>1, <2>2 DEF EndInv
  <1>4. CASE ThrowUnknownPrev
    <2>1. /\ outcome' = "unknown prev" /\ phase' = "thrown"
          /\ UNCHANGED <<decl, taskGroups, requested, settled>>
      BY <1>4 DEF ThrowUnknownPrev, Throw, registry
    <2>2. AtTask /\ PrevAtTop \in Prevs(Top.group) /\ taskGroups[PrevAtTop] = <<>>
      BY <1>4, TopLink DEF ThrowUnknownPrev
    <2>3. Top.group \in Fresh
      BY <2>2, TopFrame DEF FreshInv, ListInv, FramesFresh
    <2>4. \E n \in Fresh : Unknown(n)
      BY <2>2, <2>3 DEF Unknown
    <2>5. (\E n \in Fresh : Unknown(n))'
      BY <1>1, <2>1, <2>4
    <2> QED
      BY <2>1, <2>5 DEF EndInv
  <1>5. CASE TaskSucceeds \/ LastTaskSucceeds \/ TaskStops \/ TaskThrows
    <2>1. CallTask /\ phase = "invoke" /\ callstack' = callstack
      BY <1>5 DEF TaskSucceeds, LastTaskSucceeds, TaskStops, TaskThrows, CallTask
    <2>2. callstack # <<>>
      BY <2>1, CallType
    <2>3. \/ outcome' = outcome /\ phase' = phase
          \/ outcome' \in {"success", "stopped", "task error"}
      BY <1>5 DEF TaskSucceeds, LastTaskSucceeds, TaskStops, TaskThrows, Return, Throw, control
    <2> QED
      BY <2>1, <2>2, <2>3 DEF EndInv
  <1>6. CASE outcome' = outcome /\ phase # "thrown" /\ callstack' = callstack
    BY <1>6 DEF EndInv
  <1>7. CASE ReturnToRun
    <2>1. outcome' = outcome /\ phase = "sort" /\ callstack = <<>>
      BY <1>7 DEF ReturnToRun, FinishGroup, Shape, CallShape
    <2> QED
      BY <2>1 DEF EndInv
  <1>8. CASE outcome' \in {"none", "listed", "unknown task", "ipairs(nil)"}
    BY <1>8 DEF EndInv
  <1>9. ASSUME NEW p \in Plugin, Attach(p)
        PROVE  EndInv'
    BY <1>6, <1>9 DEF Attach, control, invoking
  <1>10. ASSUME NEW name \in Name \cup {NoName}, Run(name)
         PROVE  EndInv'
    BY <1>8, <1>10 DEF Run
  <1>11. ASSUME NEW o \in Owner, Register(o)
         PROVE  EndInv'
    BY <1>6, <1>11 DEF Register, invoking
  <1>12. CASE ReturnUnnamed \/ ThrowUnknownTask \/ CallTopSortOnBlack
    BY <1>8, <1>12 DEF ReturnUnnamed, ThrowUnknownTask, CallTopSortOnBlack, Return, Throw
  <1>13. CASE CallTopSort \/ SkipTask \/ SortPrev \/ ReturnToTopSort
    BY <1>6, <1>13 DEF CallTopSort, SkipTask, SortPrev, ReturnToTopSort, AtTask, FinishGroup,
                       control, invoking
  <1> QED
    BY <1>2, <1>3, <1>4, <1>5, <1>7, <1>9, <1>10, <1>11, <1>12, <1>13
    DEF Next, Proceed, Sort, Invoke

LEMMA EndInvariant == Spec => []EndInv
  <1>1. Init => EndInv
    BY DEF Init, EndInv
  <1>2. Shape /\ StackIsGray /\ FreshInv /\ EndInv /\ [Next]_vars => EndInv'
    BY EndStep
  <1> QED
    BY <1>1, <1>2, ShapeInvariant, GrayIsOnStack, FreshInvariant, PTL DEF Spec

\* The groups topSort returns are exactly those the requested task needs and no
\* earlier run settled, each once; they have no cycle and no missing Prev, and
\* a sort that throws does so because of the one or the other.
THEOREM SchedulesAreExact == Spec => []ScheduleIsExact
  <1>1. ASSUME Shape, OrderInv, FreshInv, EndInv
        PROVE  ScheduleIsExact
    <2>1. phase = "invoke" => callstack # <<>>
      <3>1. callstack \in Seq(Name) /\ at \in Nat \ {0}
        BY <1>1 DEF Shape, TypeOK
      <3>2. phase = "invoke" => at <= Len(callstack)
        BY <1>1 DEF Shape, CallShape
      <3> QED
        BY <3>1, <3>2, EmptySeq
    <2>2. phase = "invoke" \/ outcome \in {"success", "stopped", "task error"}
            => callstack # <<>>
      BY <1>1, <2>1 DEF EndInv
    <2>3. callstack # <<>> => /\ Elements(callstack) = Fresh
                              /\ Len(callstack) = Cardinality(Fresh)
                              /\ Acyclic(Fresh)
                              /\ \A n \in Fresh : ~Unknown(n)
      BY <1>1, ScheduleExact
    <2>4. outcome = "cycle" => ~Acyclic(Fresh)
      BY <1>1 DEF EndInv
    <2>5. outcome = "unknown prev" => \E n \in Fresh : Unknown(n)
      BY <1>1 DEF EndInv
    <2> QED
      BY <2>2, <2>3, <2>4, <2>5 DEF ScheduleIsExact, Fresh
  <1> QED
    BY <1>1, ShapeInvariant, OrderInvariant, FreshInvariant, EndInvariant, PTL

-----------------------------------------------------------------------------
(* Calls and registrations. *)

\* The calls of owner o's tasks of group g, and their places among the first m.
Calls(g, o)    == {k \in 1..Len(invoked) : invoked[k].group = g /\ invoked[k].owner = o}
Slots(g, o, m) == {k \in 1..Len(taskGroups[g]) : k <= m /\ taskGroups[g][k] = o}

\* How many tasks of the i-th group of the schedule have been called.
Done(i) == IF i < at THEN Len(taskGroups[callstack[i]])
           ELSE IF i > at THEN 0
           ELSE IF phase = "invoke" THEN slot - 1 ELSE slot

CallsCounted ==
  \A i \in 1..Len(callstack) : \A o \in Owner :
    Cardinality(Calls(callstack[i], o)) = Cardinality(Slots(callstack[i], o, Done(i)))

CallsScheduled == \A k \in 1..Len(invoked) : invoked[k].group \in Elements(callstack)

SuccessIsLast ==
  outcome = "success" => /\ phase = "idle" /\ at = Len(callstack)
                         /\ slot = Len(taskGroups[callstack[at]])

CountInv == CallsCounted /\ CallsScheduled /\ SuccessIsLast

LEMMA CountsAre ==
  ASSUME TypeOK, NEW g \in Name, NEW o \in Owner
  PROVE  /\ CallsMade[g][o] = Cardinality(Calls(g, o))
         /\ Registered[g][o] = Cardinality(Slots(g, o, Len(taskGroups[g])))
  <1>1. taskGroups[g] \in Seq(Owner)
    BY DEF TypeOK
  <1>2. Slots(g, o, Len(taskGroups[g])) = {m \in 1..Len(taskGroups[g]) : taskGroups[g][m] = o}
    BY <1>1 DEF Slots
  <1> QED
    BY <1>2 DEF CallsMade, Registered, Calls

LEMMA FiniteCounts ==
  ASSUME TypeOK, NEW g \in Name, NEW o, NEW m
  PROVE  IsFiniteSet(Calls(g, o)) /\ IsFiniteSet(Slots(g, o, m))
  <1>1. Len(invoked) \in Nat /\ Len(taskGroups[g]) \in Nat
    <2>1. invoked \in Seq(Call) /\ taskGroups[g] \in Seq(Owner)
      BY DEF TypeOK
    <2> QED
      BY <2>1
  <1>2. IsFiniteSet(1..Len(invoked)) /\ IsFiniteSet(1..Len(taskGroups[g]))
    <2>1. IsFiniteSet(1..Len(invoked))
      BY <1>1, FS_Interval
    <2>2. IsFiniteSet(1..Len(taskGroups[g]))
      BY <1>1, FS_Interval
    <2> QED
      BY <2>1, <2>2
  <1>3. /\ Calls(g, o) \in SUBSET (1..Len(invoked))
        /\ Slots(g, o, m) \in SUBSET (1..Len(taskGroups[g]))
    BY DEF Calls, Slots
  <1> QED
    BY <1>2, <1>3, FS_Subset

\* A call counts for its own group and owner, and for no other.
LEMMA CallCounts ==
  ASSUME Shape, FreshInv, CountInv, CallTask, NEW i \in 1..Len(callstack), NEW o \in Owner
  PROVE  Cardinality(Calls(callstack[i], o)')
           = Cardinality(Slots(callstack[i], o, IF i = at THEN slot ELSE Done(i)))
  <1>1. /\ at \in 1..Len(callstack) /\ Current \in Name /\ taskGroups[Current] \in Seq(Owner)
        /\ slot \in 1..Len(taskGroups[Current]) /\ Len(taskGroups[Current]) \in Nat
        /\ phase = "invoke" /\ callstack' = callstack
    BY CallType DEF CallTask
  <1>2. PICK n : n = Len(invoked)
    OBVIOUS
  <1>3. PICK c : c = [group |-> Current, owner |-> taskGroups[Current][slot],
                      userArgs |-> at = Len(callstack)]
    OBVIOUS
  <1>4. /\ n \in Nat /\ Len(invoked') = n + 1
        /\ \A k \in 1..n : invoked'[k] = invoked[k]
        /\ invoked'[n + 1].group = Current /\ invoked'[n + 1].owner = taskGroups[Current][slot]
        /\ \A k \in 1..(n + 1) : k \in 1..n \/ k = n + 1
    <2>1. invoked \in Seq(Call) /\ invoked' = Append(invoked, c)
      BY <1>3 DEF CallTask, Shape, TypeOK
    <2>2. n \in Nat /\ Len(invoked') = n + 1 /\ invoked'[n + 1] = c
          /\ \A k \in 1..n : invoked'[k] = invoked[k]
      BY <1>2, <2>1
    <2> QED
      BY <1>3, <2>2
  <1>5. callstack[i] = Current <=> i = at
    BY <1>1 DEF Current, FreshInv, ScheduleInv, ScheduleDistinct
  <1>6. PICK g : g = callstack[i]
    OBVIOUS
  <1>7. Calls(callstack[i], o)' = {k \in 1..(n + 1) : invoked'[k].group = g
                                                       /\ invoked'[k].owner = o}
    BY <1>1, <1>4, <1>6 DEF Calls
  <1>8. g \in Name /\ TypeOK
    <2>1. callstack \in Seq(Name) /\ TypeOK
      BY DEF Shape, TypeOK
    <2> QED
      BY <1>6, <2>1
  <1>9. IsFiniteSet(Calls(g, o)) /\ \A m : IsFiniteSet(Slots(g, o, m))
    BY <1>8, FiniteCounts
  <1>10. Cardinality(Calls(g, o)) = Cardinality(Slots(g, o, Done(i)))
    BY <1>6 DEF CountInv, CallsCounted
  <1>11. CASE i = at /\ o = taskGroups[Current][slot]
    <2>1. Calls(callstack[i], o)' = Calls(g, o) \cup {n + 1}
      BY <1>2, <1>4, <1>5, <1>6, <1>7, <1>11 DEF Calls
    <2>2. n + 1 \notin Calls(g, o)
      BY <1>2, <1>4 DEF Calls
    <2>3. Slots(g, o, slot) = Slots(g, o, slot - 1) \cup {slot}
      BY <1>1, <1>5, <1>6, <1>11 DEF Slots
    <2>4. slot \notin Slots(g, o, slot - 1)
      BY <1>1 DEF Slots
    <2>5. Done(i) = slot - 1
      BY <1>1, <1>11 DEF Done
    <2>6. Cardinality(Calls(g, o) \cup {n + 1}) = Cardinality(Calls(g, o)) + 1
      BY <1>9, <2>2, FS_AddElement
    <2>7. Cardinality(Slots(g, o, slot)) = Cardinality(Slots(g, o, slot - 1)) + 1
      BY <1>9, <2>3, <2>4, FS_AddElement
    <2> QED
      BY <1>6, <1>10, <1>11, <2>1, <2>5, <2>6, <2>7
  <1>12. CASE i = at /\ o # taskGroups[Current][slot]
    <2>1. Calls(callstack[i], o)' = Calls(g, o)
      BY <1>2, <1>4, <1>7, <1>12 DEF Calls
    <2>2. Slots(g, o, slot) = Slots(g, o, slot - 1)
      BY <1>1, <1>5, <1>6, <1>12 DEF Slots
    <2>3. Done(i) = slot - 1
      BY <1>1, <1>12 DEF Done
    <2> QED
      BY <1>6, <1>10, <1>12, <2>1, <2>2, <2>3
  <1>13. CASE i # at
    <2>1. Calls(callstack[i], o)' = Calls(g, o)
      BY <1>2, <1>4, <1>5, <1>6, <1>7, <1>13 DEF Calls
    <2> QED
      BY <1>6, <1>10, <1>13, <2>1
  <1> QED
    BY <1>11, <1>12, <1>13

\* A call leaves the invariant true, whatever the task then returns.
LEMMA CallCount ==
  ASSUME Shape, FreshInv, CountInv, CallTask,
         \A i \in 1..Len(callstack) : Done(i)' = IF i = at THEN slot ELSE Done(i)
  PROVE  CallsCounted' /\ CallsScheduled'
  <1>1. UNCHANGED <<callstack, taskGroups>>
    BY DEF CallTask, registry
  <1>2. CallsCounted'
    <2> SUFFICES ASSUME NEW i \in 1..Len(callstack), NEW o \in Owner
                 PROVE  Cardinality(Calls(callstack[i], o)')
                          = Cardinality(Slots(callstack[i], o, Done(i))')
      BY <1>1 DEF CallsCounted
    <2>1. Slots(callstack[i], o, Done(i))'
            = Slots(callstack[i], o, IF i = at THEN slot ELSE Done(i))
      BY <1>1 DEF Slots
    <2> QED
      BY <2>1, CallCounts
  <1>3. CallsScheduled'
    <2>1. invoked \in Seq(Call)
      BY DEF Shape, TypeOK
    <2>2. PICK c : c = [group |-> Current, owner |-> taskGroups[Current][slot],
                        userArgs |-> at = Len(callstack)]
      OBVIOUS
    <2>3. invoked' = Append(invoked, c) /\ c.group = Current
      BY <2>2 DEF CallTask
    <2>4. Current \in Elements(callstack)
      BY CallType DEF Current, Elements
    <2>5. \A k \in 1..Len(invoked') : k \in 1..Len(invoked) \/ invoked'[k] = c
      BY <2>1, <2>3
    <2>6. \A k \in 1..Len(invoked) : invoked'[k] = invoked[k]
      BY <2>1, <2>3
    <2>7. \A k \in 1..Len(invoked') : invoked'[k].group \in Elements(callstack)
      BY <2>3, <2>4, <2>5, <2>6 DEF CountInv, CallsScheduled
    <2> QED
      BY <1>1, <2>7 DEF CallsScheduled, Elements
  <1> QED
    BY <1>2, <1>3

LEMMA CountStep ==
  ASSUME Shape, FreshInv, CountInv, [Next]_vars
  PROVE  CountInv'
  <1>1. ASSUME UNCHANGED <<taskGroups, invoked, callstack, at, slot, phase, outcome>>
        PROVE  CountInv'
    BY <1>1 DEF CountInv, CallsCounted, CallsScheduled, SuccessIsLast, Calls, Slots, Done, Elements
  <1>2. ASSUME callstack' = <<>>, invoked' = <<>>, outcome' # "success"
        PROVE  CountInv'
    BY <1>2 DEF CountInv, CallsCounted, CallsScheduled, SuccessIsLast
  <1>3. ASSUME phase \in {"register", "sort"}, UNCHANGED <<callstack, invoked>>,
               outcome' # "success" \/ outcome' = outcome
        PROVE  CountInv'
    BY <1>2, <1>3 DEF Shape, CallShape, CountInv, SuccessIsLast
  <1>4. CASE ReturnToRun
    <2>1. /\ invoked' = <<>> /\ at' = 1 /\ slot' = 1 /\ phase' = "invoke"
          /\ phase = "sort" /\ outcome' = outcome
      BY <1>4 DEF Shape, CallShape, ReturnToRun, FinishGroup
    <2>2. \A i \in 1..Len(callstack') : Done(i)' = 0
      BY <2>1 DEF Done
    <2>3. \A g, o : Calls(g, o)' = {} /\ Slots(g, o, 0)' = {}
      BY <2>1 DEF Calls, Slots
    <2>4. CallsCounted'
      <3> SUFFICES ASSUME NEW i \in 1..Len(callstack'), NEW o \in Owner
                   PROVE  Cardinality(Calls(callstack[i], o)')
                            = Cardinality(Slots(callstack[i], o, Done(i))')
        BY DEF CallsCounted
      <3>1. Slots(callstack[i], o, Done(i))' = Slots(callstack[i], o, 0)'
        BY <2>2 DEF Slots
      <3> QED
        BY <2>3, <3>1
    <2> QED
      BY <2>1, <2>4 DEF CountInv, CallsScheduled, SuccessIsLast
  <1>5. ASSUME CallTask
        PROVE  /\ phase = "invoke" /\ outcome # "success" /\ UNCHANGED <<callstack, taskGroups>>
               /\ at \in 1..Len(callstack) /\ slot \in Nat \ {0}
    BY <1>5, CallType DEF CallTask, registry, CountInv, SuccessIsLast, Shape, TypeOK
  <1>6. CASE TaskSucceeds
    <2>1. CallTask /\ UNCHANGED <<phase, outcome>>
      BY <1>6 DEF TaskSucceeds, control
    <2>2. \A i \in 1..Len(callstack) : Done(i)' = IF i = at THEN slot ELSE Done(i)
      BY <1>5, <1>6, <2>1 DEF TaskSucceeds, Done, LastOfGroup, Current
    <2> QED
      BY <1>5, <2>1, <2>2, CallCount DEF CountInv, SuccessIsLast
  <1>7. CASE LastTaskSucceeds \/ TaskStops \/ TaskThrows
    <2>1. CallTask /\ UNCHANGED <<at, slot>> /\ phase' \in {"idle", "thrown"}
      BY <1>7 DEF LastTaskSucceeds, TaskStops, TaskThrows, Return, Throw
    <2>2. \A i \in 1..Len(callstack) : Done(i)' = IF i = at THEN slot ELSE Done(i)
      BY <1>5, <2>1 DEF Done
    <2>3. outcome' = "success" => LastTaskSucceeds
      BY <1>7 DEF TaskStops, TaskThrows, Return, Throw
    <2>4. SuccessIsLast'
      BY <1>5, <2>1, <2>3 DEF LastTaskSucceeds, LastOfGroup, Current, Return, SuccessIsLast
    <2> QED
      BY <2>1, <2>2, <2>4, CallCount DEF CountInv
  <1>8. CASE UNCHANGED vars
    BY <1>1, <1>8 DEF vars, registry, invoking, control
  <1>9. ASSUME NEW p \in Plugin, Attach(p)
        PROVE  CountInv'
    BY <1>1, <1>9 DEF Attach, control, invoking
  <1>10. ASSUME NEW name \in Name \cup {NoName}, Run(name)
         PROVE  CountInv'
    BY <1>2, <1>10 DEF Run
  <1>11. ASSUME NEW o \in Owner, Register(o)
         PROVE  CountInv'
    BY <1>3, <1>11 DEF Register, invoking
  <1>12. CASE ReturnUnnamed \/ ThrowUnknownTask \/ CallTopSortOnBlack
    BY <1>3, <1>12 DEF ReturnUnnamed, ThrowUnknownTask, CallTopSortOnBlack, Return, Throw, invoking
  <1>13. CASE CallTopSort \/ SkipTask \/ SortPrev \/ ReturnToTopSort
    BY <1>3, <1>13 DEF CallTopSort, SkipTask, SortPrev, ReturnToTopSort, AtTask, FinishGroup,
                       control, invoking
  <1>14. CASE ThrowUnknownPrev \/ ThrowCycle
    BY <1>3, <1>14 DEF ThrowUnknownPrev, ThrowCycle, AtTask, Throw, invoking
  <1> QED
    BY <1>4, <1>6, <1>7, <1>8, <1>9, <1>10, <1>11, <1>12, <1>13, <1>14
    DEF Next, Proceed, Sort, Invoke

\* A task runs as often as it is registered when the run succeeds, never more
\* often, and only when the requested task needs it and no earlier run settled
\* its group: the calls of a group follow its places one by one.
THEOREM TasksRunAsRegistered == Spec => []CallsMatchRegistrations
  <1>1. Init => CountInv
    BY DEF Init, CountInv, CallsCounted, CallsScheduled, SuccessIsLast
  <1>2. Shape /\ FreshInv /\ CountInv /\ [Next]_vars => CountInv'
    BY CountStep
  <1>3. ASSUME Shape, OrderInv, FreshInv, EndInv, CountInv
        PROVE  CallsMatchRegistrations
    <2> SUFFICES ASSUME NEW g \in Name, NEW o \in Owner
                 PROVE  /\ Cardinality(Calls(g, o))
                             <= Cardinality(Slots(g, o, Len(taskGroups[g])))
                        /\ Cardinality(Calls(g, o)) > 0 => g \in Fresh
                        /\ outcome = "success" /\ g \in Fresh
                             => Cardinality(Calls(g, o))
                                  = Cardinality(Slots(g, o, Len(taskGroups[g])))
      BY <1>3, CountsAre DEF CallsMatchRegistrations, Fresh, Shape
    <2>1. PICK all : all = Slots(g, o, Len(taskGroups[g]))
      OBVIOUS
    <2>2. IsFiniteSet(all) /\ Cardinality(all) \in Nat /\ Len(taskGroups[g]) \in Nat
      <3>1. IsFiniteSet(all)
        BY <1>3, <2>1, FiniteCounts DEF Shape
      <3>2. taskGroups[g] \in Seq(Owner)
        BY <1>3 DEF Shape, TypeOK
      <3> QED
        BY <3>1, <3>2, FS_CardinalityType
    <2>3. ASSUME NEW i \in 1..Len(callstack), callstack[i] = g
          PROVE  /\ Cardinality(Calls(g, o)) <= Cardinality(all)
                 /\ g \in Fresh
                 /\ outcome = "success" => Cardinality(Calls(g, o)) = Cardinality(all)
      <3>1. Cardinality(Calls(g, o)) = Cardinality(Slots(g, o, Done(i)))
        BY <1>3, <2>3 DEF CountInv, CallsCounted
      <3>2. Slots(g, o, Done(i)) \in SUBSET all
        BY <2>1, <2>2 DEF Slots
      <3>3. Cardinality(Slots(g, o, Done(i))) <= Cardinality(all)
        BY <2>2, <3>2, FS_Subset
      <3>4. g \in Fresh
        BY <1>3, <2>3 DEF FreshInv, ScheduleInv, ScheduleFresh
      <3>5. outcome = "success" => Done(i) = Len(taskGroups[g])
        <4>1. callstack \in Seq(Name)
          BY <1>3 DEF Shape, TypeOK
        <4> QED
          BY <1>3, <2>3, <4>1 DEF CountInv, SuccessIsLast, Done
      <3> QED
        BY <2>1, <3>1, <3>3, <3>4, <3>5
    <2>4. ASSUME g \notin Elements(callstack)
          PROVE  Calls(g, o) = {} /\ ~(outcome = "success" /\ g \in Fresh)
      <3>1. Calls(g, o) = {}
        BY <1>3, <2>4 DEF Calls, CountInv, CallsScheduled
      <3>2. outcome = "success" => Elements(callstack) = Fresh
        BY <1>3, ScheduleExact DEF EndInv
      <3> QED
        BY <2>4, <3>1, <3>2
    <2>5. CASE g \in Elements(callstack)
      BY <2>1, <2>3, <2>5 DEF Elements
    <2>6. CASE g \notin Elements(callstack)
      <3>1. Cardinality(Calls(g, o)) = 0
        BY <2>4, <2>6, FS_EmptySet
      <3>2. ~(outcome = "success" /\ g \in Fresh)
        BY <2>4, <2>6
      <3> QED
        BY <2>1, <2>2, <3>1, <3>2
    <2> QED
      BY <2>5, <2>6
  <1> QED
    BY <1>1, <1>2, <1>3, ShapeInvariant, OrderInvariant, FreshInvariant, EndInvariant, PTL
    DEF Spec

-----------------------------------------------------------------------------
(* The runner keeps the promise of the abstract schedule. *)

\* After a sort the black groups are those settled before and those of the schedule; a run
\* that had a schedule and returned has called something.
BlackIs ==
  /\ phase \in {"invoke", "idle"} =>
       \A n \in Name : mark[n] = "black" <=> n \in settled \/ n \in Elements(callstack)
  /\ phase = "idle" /\ callstack # <<>> => outcome \in {"success", "stopped"}
  /\ phase = "idle" => outcome \in {"none", "listed", "success", "stopped"}

LEMMA ReturnToRunBlack ==
  ASSUME Shape, OrderInv, FreshInv, ReturnToRun
  PROVE  \A n \in Name : mark'[n] = "black" <=> n \in settled \/ n \in Elements(callstack')
  <1>1. /\ TypeOK /\ phase = "sort" /\ Len(frames) = 1 /\ Len(frames) > 0
        /\ mark' = [mark EXCEPT ![Top.group] = "black"] /\ callstack' = Sorted
    BY DEF ReturnToRun, FinishGroup, Shape
  <1>2. Top = frames[1] /\ Top.group \in Name /\ Top.sort \in Seq(Name)
    BY <1>1, TopType DEF Top
  <1>3. Elements(callstack') = Elements(Top.sort) \cup {Top.group}
    <2>1. PICK l \in Nat : l = Len(Top.sort)
      BY <1>2
    <2>2. /\ Len(Sorted) = l + 1 /\ Sorted[l + 1] = Top.group
          /\ \A i \in 1..l : Sorted[i] = Top.sort[i]
      BY <1>2, <2>1 DEF Sorted
    <2>3. 1..(l + 1) = (1..l) \cup {l + 1}
      OBVIOUS
    <2>4. /\ Elements(Sorted) = {Sorted[i] : i \in 1..(l + 1)}
          /\ Elements(Top.sort) = {Top.sort[i] : i \in 1..l}
      BY <2>1, <2>2 DEF Elements
    <2>5. \A x : x \in Elements(Sorted) => x \in Elements(Top.sort) \/ x = Top.group
      BY <2>2, <2>3, <2>4
    <2>6. \A x : x \in Elements(Top.sort) \/ x = Top.group => x \in Elements(Sorted)
      BY <2>2, <2>3, <2>4
    <2> QED
      BY <1>1, <2>5, <2>6
  <1>4. \A n \in Name : mark'[n] = "black" <=> n = Top.group \/ mark[n] = "black"
    BY <1>1, <1>2 DEF TypeOK
  <1>5. \A n \in Name : mark[n] = "black" => n \in settled \/ n \in Elements(Top.sort)
    <2>1. \A n \in Name : mark[n] = "black" => SortedBefore(n, 2)
      BY <1>1 DEF OrderInv, BlackPlaced
    <2> QED
      BY <1>2, <2>1 DEF SortedBefore
  <1>6. \A n \in Elements(Top.sort) : mark[n] = "black"
    BY <1>1, <1>2 DEF FreshInv, ListInv, ListsFresh, Elements
  <1>7. \A n \in settled : mark[n] = "black"
    BY DEF FreshInv, SettledBlack
  <1> QED
    BY <1>3, <1>4, <1>5, <1>6, <1>7

LEMMA BlackStep ==
  ASSUME Shape, OrderInv, FreshInv, BlackIs, [Next]_vars
  PROVE  BlackIs'
  <1>1. ASSUME UNCHANGED <<mark, settled, callstack, phase, outcome>>
        PROVE  BlackIs'
    BY <1>1 DEF BlackIs, Elements
  <1>2. ASSUME phase' \in {"register", "sort", "thrown"}
        PROVE  BlackIs'
    BY <1>2 DEF BlackIs
  <1>3. CASE ReturnUnnamed
    <2>1. /\ phase = "register" /\ frames = <<>> /\ callstack = <<>>
          /\ UNCHANGED <<mark, settled, callstack>> /\ outcome' = "listed"
      BY <1>3 DEF ReturnUnnamed, Return, sorting, invoking, Shape, StackShape, CallShape
    <2>2. \A n \in Name : mark[n] = "black" <=> n \in settled
      BY <2>1, EmptySeq DEF OrderInv, BlackPlaced, SortedBefore, FreshInv, SettledBlack
    <2>3. Elements(callstack) = {}
      BY <2>1 DEF Elements
    <2> QED
      BY <2>1, <2>2, <2>3 DEF BlackIs, Elements
  <1>4. CASE ReturnToRun
    <2>1. phase' = "invoke" /\ settled' = settled
      BY <1>4 DEF ReturnToRun
    <2> QED
      BY <1>4, <2>1, ReturnToRunBlack DEF BlackIs, Elements
  <1>5. CASE TaskSucceeds
    BY <1>1, <1>5 DEF TaskSucceeds, CallTask, sorting, control
  <1>6. CASE LastTaskSucceeds \/ TaskStops
    <2>1. /\ phase = "invoke" /\ phase' = "idle" /\ UNCHANGED <<mark, settled, callstack>>
          /\ outcome' \in {"success", "stopped"}
      BY <1>6 DEF LastTaskSucceeds, TaskStops, CallTask, Return, sorting
    <2> QED
      BY <2>1 DEF BlackIs, Elements
  <1>7. CASE UNCHANGED vars
    BY <1>1, <1>7 DEF vars, sorting, invoking, control
  <1>8. ASSUME NEW p \in Plugin, Attach(p)
        PROVE  BlackIs'
    BY <1>1, <1>8 DEF Attach, sorting, invoking, control
  <1>9. ASSUME NEW name \in Name \cup {NoName}, Run(name)
        PROVE  BlackIs'
    BY <1>2, <1>9 DEF Run
  <1>10. ASSUME NEW o \in Owner, Register(o)
         PROVE  BlackIs'
    BY <1>2, <1>10 DEF Register
  <1>11. CASE ThrowUnknownTask \/ CallTopSortOnBlack \/ ThrowUnknownPrev \/ ThrowCycle \/ TaskThrows
    BY <1>2, <1>11 DEF ThrowUnknownTask, CallTopSortOnBlack, ThrowUnknownPrev, ThrowCycle,
                       TaskThrows, Throw
  <1>12. CASE CallTopSort \/ SkipTask \/ SortPrev \/ ReturnToTopSort
    BY <1>2, <1>12 DEF CallTopSort, SkipTask, SortPrev, ReturnToTopSort, AtTask, FinishGroup,
                       control
  <1> QED
    BY <1>3, <1>4, <1>5, <1>6, <1>7, <1>8, <1>9, <1>10, <1>11, <1>12
    DEF Next, Proceed, Sort, Invoke

\* What a step of the runner keeps the promise from.
Promised == /\ Shape /\ StackIsGray /\ OrderInv /\ CallInv /\ FreshInv /\ EndInv /\ CountInv
            /\ BlackIs /\ CallsMatchRegistrations

LEMMA PromisedInvariant == Spec => []Promised
  <1>1. Init => BlackIs
    BY DEF Init, BlackIs, Elements
  <1>2. Shape /\ OrderInv /\ FreshInv /\ BlackIs /\ [Next]_vars => BlackIs'
    BY BlackStep
  <1>3. Spec => []BlackIs
    BY <1>1, <1>2, ShapeInvariant, OrderInvariant, FreshInvariant, PTL DEF Spec
  <1>4. Init => CountInv
    BY DEF Init, CountInv, CallsCounted, CallsScheduled, SuccessIsLast
  <1>5. Shape /\ FreshInv /\ CountInv /\ [Next]_vars => CountInv'
    BY CountStep
  <1>6. Spec => []CountInv
    BY <1>4, <1>5, ShapeInvariant, FreshInvariant, PTL DEF Spec
  <1> QED
    BY <1>3, <1>6, ShapeInvariant, GrayIsOnStack, OrderInvariant, CallInvariant, FreshInvariant,
       EndInvariant, TasksRunAsRegistered, PTL DEF Promised

\* The counts are numbers, and the mapped operators mean what they mean here.
LEMMA MappedCounts ==
  ASSUME TypeOK
  PROVE  /\ Registered \in [Name -> [Owner -> Nat]] /\ CallsMade \in [Name -> [Owner -> Nat]]
         /\ \A n \in Name : Promise!Missing(n) <=> taskGroups[n] = <<>>
  <1>1. ASSUME NEW g \in Name, NEW o \in Owner
        PROVE  Registered[g][o] \in Nat /\ CallsMade[g][o] \in Nat
    BY <1>1, CountsAre, FiniteCounts, FS_CardinalityType
  <1>2. Registered \in [Name -> [Owner -> Nat]] /\ CallsMade \in [Name -> [Owner -> Nat]]
    <2>1. Registered = [g \in Name |-> [o \in Owner |-> Registered[g][o]]]
      BY DEF Registered
    <2>2. CallsMade = [g \in Name |-> [o \in Owner |-> CallsMade[g][o]]]
      BY DEF CallsMade
    <2> QED
      BY <1>1, <2>1, <2>2
  <1>3. ASSUME NEW n \in Name
        PROVE  Promise!Missing(n) <=> taskGroups[n] = <<>>
    <2>1. taskGroups[n] \in Seq(Owner)
      BY DEF TypeOK
    <2>2. taskGroups[n] = <<>> => \A o \in Owner : Registered[n][o] = 0
      BY CountsAre, FS_EmptySet DEF Slots
    <2>3. ASSUME taskGroups[n] # <<>>
          PROVE  \E o \in Owner : Registered[n][o] # 0
      <3>1. 1 \in 1..Len(taskGroups[n])
        BY <2>1, <2>3, EmptySeq
      <3>2. PICK o \in Owner : o = taskGroups[n][1]
        BY <2>1, <3>1, ElementOfSeq
      <3>3. 1 \in Slots(n, o, Len(taskGroups[n]))
        BY <2>1, <3>1, <3>2 DEF Slots
      <3>4. Registered[n][o] # 0
        BY <3>3, CountsAre, FiniteCounts, FS_EmptySet
      <3> QED
        BY <3>4
    <2>4. Promise!Missing(n) <=> \A o \in Owner : Registered[n][o] = 0
      BY <1>2 DEF Promise!Missing
    <2> QED
      BY <2>2, <2>3, <2>4
  <1> QED
    BY <1>2, <1>3

LEMMA MappedNeeded ==
  /\ Promise!Needed = Needed /\ Promise!Fresh = Fresh /\ Fresh \subseteq Name
  /\ Promise!HasCycle <=> ~Acyclic(Fresh)
  <1>1. \A n \in Name : AllPrevs[n] = Prevs(n)
    BY DEF AllPrevs
  <1>2. Promise!Needed = Needed
    BY <1>1 DEF Promise!Needed, Needed
  <1>3. Promise!Fresh = Fresh /\ Fresh \subseteq Name
    BY <1>2 DEF Promise!Fresh, Fresh, Needed
  <1> QED
    BY <1>1, <1>2, <1>3 DEF Promise!HasCycle, Acyclic

\* Before a sort has ended nothing has been called.
LEMMA NothingCalled ==
  ASSUME TypeOK, invoked = <<>>
  PROVE  CallsMade = Promise!None
  <1>1. \A g \in Name, o \in Owner : CallsMade[g][o] = 0
    BY CountsAre, FS_EmptySet DEF Calls
  <1> QED
    BY <1>1 DEF Promise!None, CallsMade

LEMMA SameMapping ==
  ASSUME UNCHANGED <<decl, taskGroups, invoked>>
  PROVE  UNCHANGED <<Registered, AllPrevs, CallsMade>>
  <1>1. \A n : Prevs(n)' = Prevs(n)
    BY DEF Prevs, Members
  <1>2. AllPrevs' = AllPrevs
    BY <1>1 DEF AllPrevs
  <1> QED
    BY <1>2 DEF Registered, CallsMade

\* The task at the cursor is still to be called.
LEMMA CursorTask ==
  ASSUME Promised, phase = "invoke", NEW o, o = taskGroups[Current][slot]
  PROVE  /\ o \in Owner /\ Current \in Fresh /\ CallsMade[Current][o] < Registered[Current][o]
         /\ CallsMade[Current][o] \in Nat
  <1>1. /\ TypeOK /\ callstack \in Seq(Name) /\ at \in Nat \ {0} /\ slot \in Nat \ {0}
        /\ taskGroups \in [Name -> Seq(Owner)]
        /\ at <= Len(callstack) /\ slot <= Len(taskGroups[callstack[at]])
    BY DEF Promised, Shape, TypeOK, CallShape
  <1>2. at \in 1..Len(callstack) /\ Current = callstack[at]
    BY <1>1 DEF Current
  <1>3. Current \in Name /\ Current \in Fresh
    BY <1>1, <1>2, ElementOfSeq DEF Promised, FreshInv, ScheduleInv, ScheduleFresh
  <1>4. PICK all \in Nat : all = Len(taskGroups[Current])
    BY <1>1, <1>3
  <1>5. slot \in 1..all /\ o \in Owner
    BY <1>1, <1>2, <1>3, <1>4, ElementOfSeq
  <1>6. CallsMade[Current][o] = Cardinality(Slots(Current, o, slot - 1))
    <2>1. Done(at) = slot - 1
      BY <1>1 DEF Done
    <2> QED
      BY <1>1, <1>2, <1>3, <1>5, <2>1, CountsAre DEF Promised, CountInv, CallsCounted
  <1>7. Registered[Current][o] = Cardinality(Slots(Current, o, all))
    BY <1>1, <1>3, <1>4, <1>5, CountsAre
  <1>8. PICK less, more : less = Slots(Current, o, slot - 1) /\ more = Slots(Current, o, all)
    OBVIOUS
  <1>9. IsFiniteSet(less) /\ IsFiniteSet(more)
    BY <1>1, <1>3, <1>8, FiniteCounts
  <1>10. less \cup {slot} \subseteq more /\ slot \notin less
    BY <1>4, <1>5, <1>8 DEF Slots
  <1>11. Cardinality(less \cup {slot}) = Cardinality(less) + 1
    BY <1>9, <1>10, FS_AddElement
  <1>12. Cardinality(less \cup {slot}) <= Cardinality(more)
    BY <1>9, <1>10, FS_Subset
  <1>13. Cardinality(less) \in Nat /\ Cardinality(more) \in Nat
    BY <1>9, FS_CardinalityType
  <1> QED
    BY <1>3, <1>5, <1>6, <1>7, <1>8, <1>11, <1>12, <1>13

TaskIsLeft ==
  phase = "invoke" =>
    /\ Current \in Fresh
    /\ \E o \in Owner : /\ CallsMade[Current][o] < Registered[Current][o]
                        /\ CallsMade[Current][o] \in Nat

CountsAreNumbers ==
  Registered \in [Name -> [Owner -> Nat]] /\ CallsMade \in [Name -> [Owner -> Nat]]

\* Both hold after a step as well.
LEMMA CountsNext == Promised' => TaskIsLeft' /\ CountsAreNumbers'
  <1>1. Promised => TaskIsLeft
    BY CursorTask DEF TaskIsLeft
  <1>2. Promised => CountsAreNumbers
    BY MappedCounts DEF Promised, Shape, CountsAreNumbers
  <1> QED
    BY <1>1, <1>2, PTL

\* All tasks of the groups that the current one names have been called.
LEMMA CursorPrevs ==
  ASSUME Promised, phase = "invoke"
  PROVE  \A p \in Prevs(Current) \cap Fresh : CallsMade[p] = Registered[p]
  <1> SUFFICES ASSUME NEW p \in Prevs(Current) \cap Fresh
               PROVE  CallsMade[p] = Registered[p]
    OBVIOUS
  <1>1. /\ TypeOK /\ callstack \in Seq(Name) /\ at \in Nat \ {0}
        /\ at <= Len(callstack)
    BY DEF Promised, Shape, TypeOK, CallShape
  <1>2. at \in 1..Len(callstack) /\ Current = callstack[at] /\ Len(callstack) \in Nat
    BY <1>1 DEF Current
  <1>3. p \in Name /\ p \notin settled
    BY MappedNeeded DEF Fresh
  <1>4. PICK j \in 1..(at - 1) : callstack[j] = p
    BY <1>2, <1>3 DEF Promised, OrderInv, ScheduleOrdered
  <1>5. j \in 1..Len(callstack) /\ Done(j) = Len(taskGroups[p])
    BY <1>1, <1>2, <1>4 DEF Done
  <1>6. \A o \in Owner : CallsMade[p][o] = Registered[p][o]
    BY <1>1, <1>3, <1>4, <1>5, CountsAre DEF Promised, CountInv, CallsCounted
  <1> QED
    BY <1>1, <1>3, <1>6, MappedCounts

\* A call is counted for the task at the cursor and no other.
LEMMA CallAdds ==
  ASSUME Promised, CallTask, NEW o, o = taskGroups[Current][slot]
  PROVE  CallsMade' = [CallsMade EXCEPT ![Current][o] = @ + 1]
  <1>1. phase = "invoke" /\ TypeOK /\ invoked \in Seq(Call) /\ Current \in Name /\ o \in Owner
    BY CursorTask, MappedNeeded DEF CallTask, Promised, Shape, TypeOK
  <1>2. PICK c : c = [group |-> Current, owner |-> o, userArgs |-> at = Len(callstack)]
    OBVIOUS
  <1>3. PICK n \in Nat : n = Len(invoked)
    BY <1>1
  <1>4. /\ invoked' = Append(invoked, c) /\ Len(invoked') = n + 1 /\ invoked'[n + 1] = c
        /\ \A k \in 1..n : invoked'[k] = invoked[k]
    BY <1>1, <1>2, <1>3 DEF CallTask
  <1>5. c.group = Current /\ c.owner = o
    BY <1>2
  <1>6. 1..(n + 1) = (1..n) \cup {n + 1} /\ n + 1 \notin 1..n
    OBVIOUS
  <1>7. ASSUME NEW g \in Name, NEW q \in Owner
        PROVE  CallsMade'[g][q] = IF g = Current /\ q = o THEN CallsMade[g][q] + 1
                                  ELSE CallsMade[g][q]
    <2>1. CallsMade[g][q] = Cardinality(Calls(g, q)) /\ IsFiniteSet(Calls(g, q))
      BY <1>1, CountsAre, FiniteCounts
    <2>2. CallsMade'[g][q] = Cardinality(Calls(g, q)')
      BY DEF CallsMade, Calls
    <2>3. Calls(g, q)' = {k \in 1..(n + 1) : invoked'[k].group = g /\ invoked'[k].owner = q}
      BY <1>4 DEF Calls
    <2>4. Calls(g, q) = {k \in 1..n : invoked[k].group = g /\ invoked[k].owner = q}
      BY <1>3 DEF Calls
    <2>5. CASE g = Current /\ q = o
      <3>1. Calls(g, q)' = Calls(g, q) \cup {n + 1} /\ n + 1 \notin Calls(g, q)
        BY <1>4, <1>5, <1>6, <2>3, <2>4, <2>5
      <3>2. Cardinality(Calls(g, q) \cup {n + 1}) = Cardinality(Calls(g, q)) + 1
        BY <2>1, <3>1, FS_AddElement
      <3> QED
        BY <2>1, <2>2, <2>5, <3>1, <3>2
    <2>6. CASE ~(g = Current /\ q = o)
      <3>1. Calls(g, q)' = Calls(g, q)
        BY <1>4, <1>5, <1>6, <2>3, <2>4, <2>6
      <3> QED
        BY <2>1, <2>2, <2>6, <3>1
    <2> QED
      BY <2>5, <2>6
  <1>8. CallsMade' = [g \in Name |-> [q \in Owner |-> CallsMade'[g][q]]]
    BY DEF CallsMade
  <1>9. CallsMade \in [Name -> [Owner -> Nat]]
    BY <1>1, MappedCounts
  <1> DEFINE made == [CallsMade EXCEPT ![Current][o] = @ + 1]
  <1>10. made = [g \in Name |-> [q \in Owner |-> made[g][q]]]
    BY <1>9
  <1>11. \A g \in Name, q \in Owner :
           made[g][q] = IF g = Current /\ q = o THEN CallsMade[g][q] + 1 ELSE CallsMade[g][q]
    BY <1>1, <1>9
  <1>12. \A g \in Name, q \in Owner : made[g][q] = CallsMade'[g][q]
    BY <1>7, <1>11
  <1> HIDE DEF made
  <1>13. [g \in Name |-> [q \in Owner |-> made[g][q]]]
           = [g \in Name |-> [q \in Owner |-> CallsMade'[g][q]]]
    BY <1>12
  <1>14. CallsMade' = made
    BY <1>8, <1>10, <1>13
  <1> QED
    BY <1>14 DEF made

\* A task is called only when the schedule is sound and what it needs has been called.
LEMMA CallKeeps ==
  ASSUME Promised, Promised', CallTask, UNCHANGED <<requested, settled>>,
         \/ TaskSucceeds \/ LastTaskSucceeds \/ TaskStops \/ TaskThrows
  PROVE  \E g \in Name, o \in Owner : Promise!Call(g, o)
  <1>1. PICK o : o = taskGroups[Current][slot]
    OBVIOUS
  <1>2. /\ phase = "invoke" /\ Stage = "running" /\ TypeOK
        /\ UNCHANGED <<decl, taskGroups, callstack>> /\ callstack # <<>>
    <2>1. callstack \in Seq(Name) /\ at \in Nat \ {0} /\ at <= Len(callstack) /\ TypeOK
      BY DEF Promised, Shape, TypeOK, CallShape, CallTask
    <2> QED
      BY <2>1, EmptySeq DEF CallTask, registry, Stage
  <1>3. /\ o \in Owner /\ Current \in Fresh /\ Current \in Name
        /\ CallsMade[Current][o] < Registered[Current][o]
    BY <1>1, <1>2, CursorTask, MappedNeeded
  <1>4. ~Promise!HasCycle /\ ~Promise!HasMissing
    <2>1. Acyclic(Fresh) /\ Elements(callstack) = Fresh /\ \A n \in Fresh : ~Unknown(n)
      BY <1>2, ScheduleExact DEF Promised
    <2>2. \A n \in Fresh : \A p \in Prevs(n) : p \in Name /\ taskGroups[p] # <<>>
      <3> SUFFICES ASSUME NEW n \in Fresh, NEW p \in Prevs(n)
                   PROVE  p \in Name /\ taskGroups[p] # <<>>
        OBVIOUS
      <3>1. PICK i \in 1..Len(callstack) : callstack[i] = n
        BY <2>1 DEF Elements
      <3>2. p \in settled \/ \E j \in 1..(i - 1) : callstack[j] = p
        BY <3>1 DEF Promised, OrderInv, ScheduleOrdered
      <3>3. p \in settled \/ p \in Elements(callstack)
        <4>1. callstack \in Seq(Name)
          BY <1>2 DEF TypeOK
        <4> QED
          BY <3>1, <3>2, <4>1 DEF Elements
      <3> QED
        BY <1>2, <2>1, <3>3, MappedNeeded DEF Unknown, TypeOK
    <2>3. \A n \in Fresh : \A p \in AllPrevs[n] : ~Promise!Missing(p)
      BY <1>2, <2>2, MappedCounts, MappedNeeded DEF AllPrevs
    <2> QED
      BY <2>1, <2>3, MappedNeeded DEF Promise!HasMissing
  <1>5. \A p \in AllPrevs[Current] \cap Promise!Fresh : Promise!AllCalled(p)
    BY <1>2, <1>3, CursorPrevs, MappedNeeded DEF Promise!AllCalled, AllPrevs
  <1>6. UNCHANGED <<Registered, AllPrevs>> /\ Fresh' = Fresh
    <2>1. \A n : Prevs(n)' = Prevs(n)
      BY <1>2 DEF Prevs, Members
    <2> QED
      BY <1>2, <2>1, SameNeeded DEF Registered, AllPrevs
  <1>7. CallsMade' = [CallsMade EXCEPT ![Current][o] = @ + 1]
    BY <1>1, CallAdds
  <1>8. Promise!After
    <2>1. \A n \in Fresh : Promise!AllCalled(n)' <=> CallsMade'[n] = Registered'[n]
      BY DEF Promise!AllCalled
    <2>2. CASE TaskSucceeds
      <3>1. phase' = "invoke" /\ outcome' = outcome /\ Stage' = Stage
        BY <1>2, <2>2 DEF TaskSucceeds, control, Stage
      <3>2. Current' \in Fresh'
        BY <3>1, CountsNext DEF TaskIsLeft
      <3>3. PICK q \in Owner : /\ CallsMade'[Current'][q] < Registered'[Current'][q]
                               /\ CallsMade'[Current'][q] \in Nat
        BY <3>1, CountsNext DEF TaskIsLeft
      <3>4. CallsMade'[Current'] # Registered'[Current']
        BY <3>3
      <3>5. ~\A n \in Fresh : Promise!AllCalled(n)'
        BY <1>6, <2>1, <3>2, <3>4
      <3> QED
        BY <3>1, <3>5, MappedNeeded DEF Promise!After
    <2>3. CASE LastTaskSucceeds
      <3>1. outcome' = "success" /\ Stage' = "idle"
        BY <2>3 DEF LastTaskSucceeds, Return, Stage
      <3>2. \A n \in Fresh, q \in Owner : CallsMade'[n][q] = Registered'[n][q]
        BY <1>6, <3>1, MappedNeeded DEF Promised, CallsMatchRegistrations, Fresh
      <3>3. /\ Registered' \in [Name -> [Owner -> Nat]]
            /\ CallsMade' \in [Name -> [Owner -> Nat]]
        BY CountsNext DEF CountsAreNumbers
      <3>4. \A n \in Fresh : CallsMade'[n] = Registered'[n]
        BY <3>2, <3>3, MappedNeeded
      <3> QED
        BY <2>1, <3>1, <3>4, MappedNeeded DEF Promise!After
    <2>4. CASE TaskStops
      BY <2>4 DEF TaskStops, Return, Stage, Promise!After
    <2>5. CASE TaskThrows
      BY <2>5 DEF TaskThrows, Throw, Stage, Promise!After
    <2> QED
      BY <2>2, <2>3, <2>4, <2>5
  <1>9. Promise!Call(Current, o)
    BY <1>2, <1>3, <1>4, <1>5, <1>6, <1>7, <1>8, MappedNeeded DEF Promise!Call
  <1> QED
    BY <1>3, <1>9

\* The counts after a step.
CountsAreSlots ==
  \A g \in Name, o \in Owner :
    /\ Registered[g][o] = Cardinality(Slots(g, o, Len(taskGroups[g])))
    /\ IsFiniteSet(Slots(g, o, Len(taskGroups[g])))

LEMMA CountsAreNext == Promised' => CountsAreSlots'
  <1>1. Promised => CountsAreSlots
    BY CountsAre, FiniteCounts DEF Promised, Shape, CountsAreSlots
  <1> QED
    BY <1>1, PTL

LEMMA NothingCalledNext == (TypeOK /\ invoked = <<>> => CallsMade = Promise!None)'
  <1>1. TypeOK /\ invoked = <<>> => CallsMade = Promise!None
    BY NothingCalled
  <1> QED
    BY <1>1, PTL

LEMMA BeginsWithNone ==
  ASSUME invoked' = <<>>, UNCHANGED <<decl, taskGroups>>, TypeOK'
  PROVE  CallsMade' = Promise!None /\ UNCHANGED <<Registered, AllPrevs>>
  <1>1. \A n : Prevs(n)' = Prevs(n)
    BY DEF Prevs, Members
  <1> QED
    BY <1>1, NothingCalledNext DEF Promise!None, Registered, AllPrevs

\* Steps that register nothing and call nothing leave the promised state as it is.
LEMMA QuietPromise ==
  ASSUME UNCHANGED <<decl, taskGroups, invoked, requested, settled, outcome>>, Stage' = Stage
  PROVE  UNCHANGED Promise!vars
  BY SameMapping DEF Promise!vars

LEMMA RegisterKeeps ==
  ASSUME Promised, Promised', NEW owner \in Owner, Register(owner)
  PROVE  Promise!Declare
  <1>1. /\ phase = "register" /\ invoked = <<>> /\ TypeOK /\ TypeOK'
        /\ UNCHANGED <<decl, invoked, requested, settled, phase, outcome>>
        /\ taskGroups' = [n \in Name |-> IF decl[owner][n] = Absent THEN taskGroups[n]
                                         ELSE Append(taskGroups[n], owner)]
    BY DEF Promised, Shape, CallShape, Register, invoking
  <1>2. ASSUME NEW n \in Name
        PROVE  /\ Len(taskGroups[n]) \in Nat /\ Len(taskGroups'[n]) \in Nat
               /\ Len(taskGroups[n]) <= Len(taskGroups'[n])
               /\ \A m \in 1..Len(taskGroups[n]) : taskGroups'[n][m] = taskGroups[n][m]
    <2>1. taskGroups[n] \in Seq(Owner) /\ Len(taskGroups[n]) \in Nat
      <3>1. taskGroups[n] \in Seq(Owner)
        BY <1>1 DEF TypeOK
      <3> QED
        BY <3>1
    <2>2. taskGroups'[n] = taskGroups[n] \/ taskGroups'[n] = Append(taskGroups[n], owner)
      BY <1>1
    <2> QED
      BY <2>1, <2>2, AppendProperties
  <1>3. ASSUME NEW n \in Name, NEW o \in Owner
        PROVE  Registered[n][o] <= Registered'[n][o]
    <2>1. PICK old, new : /\ old = Slots(n, o, Len(taskGroups[n]))
                          /\ new = Slots(n, o, Len(taskGroups[n]))'
      OBVIOUS
    <2>2. Registered[n][o] = Cardinality(old)
      BY <1>1, <2>1, CountsAre
    <2>3. /\ Registered'[n][o] = Cardinality(new) /\ IsFiniteSet(new)
      BY <2>1, CountsAreNext DEF CountsAreSlots
    <2>4. old \subseteq new
      BY <1>2, <2>1 DEF Slots
    <2> QED
      BY <2>2, <2>3, <2>4, FS_Subset
  <1>4. ASSUME NEW n \in Name
        PROVE  AllPrevs[n] \subseteq AllPrevs'[n]
    <2>1. Members(n) \subseteq Members(n)'
      BY <1>2 DEF Members
    <2> QED
      BY <1>1, <2>1 DEF AllPrevs, Prevs
  <1>5. CallsMade = Promise!None /\ CallsMade' = CallsMade
    BY <1>1, NothingCalled DEF CallsMade
  <1> QED
    BY <1>1, <1>3, <1>4, <1>5 DEF Promise!Declare, Stage

LEMMA RunKeeps ==
  ASSUME Promised, Promised', NEW name \in Name \cup {NoName}, Run(name)
  PROVE  Promise!Begin(name)
  <1>1. /\ phase = "idle" /\ phase' = "register" /\ requested' = name /\ outcome' = "none"
        /\ settled' = {n \in Name : mark[n] = "black"} /\ invoked' = <<>>
        /\ UNCHANGED <<decl, taskGroups>>
    BY DEF Run, registry
  <1>2. settled \subseteq Name /\ Fresh \subseteq Name
    BY MappedNeeded DEF Promised, Shape, TypeOK
  <1>3. CASE callstack = <<>>
    <2>1. outcome \notin {"success", "stopped"} /\ Elements(callstack) = {}
      <3>1. outcome \notin {"success", "stopped"}
        BY <1>3 DEF Promised, EndInv
      <3>2. Elements(callstack) = {}
        BY <1>3 DEF Elements
      <3> QED
        BY <3>1, <3>2
    <2>2. settled' = settled
      BY <1>1, <1>2, <2>1 DEF Promised, BlackIs
    <2> QED
      BY <1>1, <2>1, <2>2, BeginsWithNone DEF Promise!Begin, Stage, Promised, Shape
  <1>4. CASE callstack # <<>>
    <2>1. outcome \in {"success", "stopped"} /\ Elements(callstack) = Fresh
      BY <1>1, <1>4, ScheduleExact DEF Promised, BlackIs
    <2>2. settled' = settled \cup Needed
      BY <1>1, <1>2, <2>1 DEF Promised, BlackIs, Fresh
    <2> QED
      BY <1>1, <2>1, <2>2, BeginsWithNone, MappedNeeded
         DEF Promise!Begin, Stage, Promised, Shape
  <1> QED
    BY <1>3, <1>4

LEMMA RefuseKeeps ==
  ASSUME Promised,
         ThrowUnknownTask \/ CallTopSortOnBlack \/ ThrowUnknownPrev \/ ThrowCycle
  PROVE  \E why \in {"unknown task", "ipairs(nil)", "unknown prev", "cycle"} : Promise!Refuse(why)
  <1>1. /\ phase \in {"register", "sort"} /\ phase' = "thrown" /\ TypeOK
        /\ UNCHANGED <<decl, taskGroups, invoked, requested, settled>>
    BY DEF Promised, Shape, ThrowUnknownTask, CallTopSortOnBlack, ThrowUnknownPrev, ThrowCycle,
           AtTask, Throw, registry, invoking
  <1>2. UNCHANGED <<Registered, AllPrevs, CallsMade>> /\ CallsMade = Promise!None
    BY <1>1, SameMapping, NothingCalled DEF Promised, Shape, CallShape
  <1>3. Stage = "running" /\ Stage' = "thrown"
    BY <1>1 DEF Stage
  <1>4. requested \in Name
    <2>1. phase = "sort" => requested \in Name
      BY DEF Promised, Shape, StackShape
    <2>2. phase = "register" => requested # NoName
      BY DEF ThrowUnknownTask, CallTopSortOnBlack, ThrowUnknownPrev, ThrowCycle, AtTask
    <2> QED
      BY <1>1, <2>1, <2>2 DEF TypeOK
  <1>5. CASE ThrowUnknownTask
    <2>1. Promise!Missing(requested) /\ outcome' = "unknown task"
      BY <1>1, <1>4, <1>5, MappedCounts DEF ThrowUnknownTask, Throw
    <2> QED
      BY <1>1, <1>2, <1>3, <1>4, <2>1 DEF Promise!Refuse
  <1>6. CASE CallTopSortOnBlack
    <2>1. /\ phase = "register" /\ frames = <<>> /\ mark[requested] = "black"
          /\ outcome' = "ipairs(nil)"
      BY <1>6 DEF CallTopSortOnBlack, Throw, Promised, Shape, StackShape
    <2>2. SortedBefore(requested, 1)
      BY <1>4, <2>1, EmptySeq DEF Promised, OrderInv, BlackPlaced
    <2>3. requested \in settled
      BY <2>2 DEF SortedBefore
    <2> QED
      BY <1>1, <1>2, <1>3, <1>4, <2>1, <2>3 DEF Promise!Refuse
  <1>7. CASE ThrowUnknownPrev
    <2>1. /\ AtTask /\ PrevAtTop \in Name /\ taskGroups[PrevAtTop] = <<>>
          /\ outcome' = "unknown prev"
      BY <1>7 DEF ThrowUnknownPrev, Throw
    <2>2. PrevAtTop \in Prevs(Top.group)
      BY <2>1, TopLink DEF Promised
    <2>3. Top.group \in Fresh
      BY <2>1, TopFrame DEF Promised, FreshInv, ListInv, FramesFresh
    <2>4. Promise!HasMissing
      BY <1>1, <2>1, <2>2, <2>3, MappedCounts, MappedNeeded DEF Promise!HasMissing, AllPrevs
    <2> QED
      BY <1>1, <1>2, <1>3, <1>4, <2>1, <2>4 DEF Promise!Refuse
  <1>8. CASE ThrowCycle
    <2>1. Promise!HasCycle /\ outcome' = "cycle"
      BY <1>8, CycleIsReal, MappedNeeded DEF Promised, ThrowCycle, Throw
    <2> QED
      BY <1>1, <1>2, <1>3, <1>4, <2>1 DEF Promise!Refuse
  <1> QED
    BY <1>5, <1>6, <1>7, <1>8

LEMMA PromiseStep ==
  ASSUME Promised, Promised', [Next]_vars
  PROVE  [Promise!Next]_(Promise!vars)
  <1>1. CASE UNCHANGED vars
    BY <1>1, QuietPromise DEF vars, registry, invoking, control, Stage
  <1>2. ASSUME NEW p \in Plugin, Attach(p)
        PROVE  UNCHANGED Promise!vars
    BY <1>2, QuietPromise DEF Attach, sorting, invoking, control, Stage
  <1>3. ASSUME NEW name \in Name \cup {NoName}, Run(name)
        PROVE  Promise!Next
    BY <1>3, RunKeeps DEF Promise!Next
  <1>4. ASSUME NEW o \in Owner, Register(o)
        PROVE  Promise!Next
    BY <1>4, RegisterKeeps DEF Promise!Next
  <1>5. CASE ReturnUnnamed
    <2>1. /\ phase = "register" /\ invoked = <<>> /\ TypeOK /\ requested = NoName
          /\ phase' = "idle" /\ outcome' = "listed"
          /\ UNCHANGED <<decl, taskGroups, invoked, requested, settled>>
      BY <1>5 DEF ReturnUnnamed, Return, registry, invoking, Promised, Shape, CallShape
    <2>2. Promise!ListTasks
      BY <2>1, SameMapping, NothingCalled DEF Promise!ListTasks, Stage
    <2> QED
      BY <2>2 DEF Promise!Next
  <1>6. CASE ThrowUnknownTask \/ CallTopSortOnBlack \/ ThrowUnknownPrev \/ ThrowCycle
    BY <1>6, RefuseKeeps DEF Promise!Next
  <1>7. CASE CallTopSort
    BY <1>7, QuietPromise DEF CallTopSort, registry, invoking, Stage
  <1>8. CASE SkipTask \/ SortPrev \/ ReturnToTopSort
    BY <1>8, QuietPromise
       DEF SkipTask, SortPrev, ReturnToTopSort, registry, invoking, control, Stage
  <1>9. CASE ReturnToRun
    BY <1>9, QuietPromise DEF ReturnToRun, FinishGroup, registry, Stage
  <1>10. CASE TaskSucceeds \/ LastTaskSucceeds \/ TaskStops \/ TaskThrows
    <2>1. CallTask /\ UNCHANGED <<requested, settled>>
      BY <1>10 DEF TaskSucceeds, LastTaskSucceeds, TaskStops, TaskThrows, Return, Throw, control
    <2> QED
      BY <1>10, <2>1, CallKeeps DEF Promise!Next
  <1> QED
    BY <1>1, <1>2, <1>3, <1>4, <1>5, <1>6, <1>7, <1>8, <1>9, <1>10
    DEF Next, Proceed, Sort, Invoke

\* Whatever tasks are declared, a run of the runner is a run of the abstract schedule: nothing
\* is called unless all that the task needs is there and free of cycles, no task before those
\* its group names, none more often than it is registered, and a throw has the reason it gives.
THEOREM RunnerKeepsPromise == Spec => ImplementsSchedule
  <1>1. Init => Promise!Init
    <2> SUFFICES ASSUME Init PROVE Promise!Init
      OBVIOUS
    <2>1. TypeOK /\ invoked = <<>> /\ \A n \in Name : taskGroups[n] = <<>>
      BY InitShape DEF Init, Shape
    <2>2. \A g \in Name, o \in Owner : Registered[g][o] = 0
      BY <2>1, CountsAre, FS_EmptySet DEF Slots
    <2>3. Registered = Promise!None
      BY <2>2 DEF Promise!None, Registered
    <2>4. AllPrevs = [n \in Name |-> {}]
      BY <2>1 DEF AllPrevs, Prevs, Members
    <2> QED
      BY <2>1, <2>3, <2>4, NothingCalled DEF Init, Promise!Init, Stage
  <1>2. Promised /\ Promised' /\ [Next]_vars => [Promise!Next]_(Promise!vars)
    BY PromiseStep
  <1> QED
    BY <1>1, <1>2, PromisedInvariant, PTL DEF Spec, ImplementsSchedule, Promise!Spec

=============================================================================
