----------------------------- MODULE TaskRunner -----------------------------
(***************************************************************************)
(* The task runner of one package (lib/gsmake/gsmake/runner.lua).          *)
(*                                                                         *)
(* A package and its plugins each declare tasks; a task may name the task  *)
(* that has to run before it (task.Prev).  run(name) groups the declared   *)
(* tasks by name, sorts the groups that name depends on (topSort, a depth  *)
(* first search that colours the groups) and calls the tasks of the sorted *)
(* groups one after the other until one of them returns true or throws.    *)
(*                                                                         *)
(* The recursion of topSort is kept as the explicit stack of its           *)
(* activations.  A runner outlives one run: Plugin.setup runs "install",   *)
(* then the sync engine attaches the plugin to its own package and runs a  *)
(* sync task on the same runner.  Marks and groups survive between runs.   *)
(***************************************************************************)
EXTENDS Integers, Sequences, FiniteSets

CONSTANTS
  Name,         \* task names
  Plugin,       \* plugins that may be attached to the package
  Package,      \* the package itself, an owner of tasks as its plugins are
  NoPrev,       \* task.Prev is nil or ""
  Absent,       \* the owner declares no task of that name
  NoName,       \* run() without a task name
  Declarations, \* the tables of declared tasks to consider
  MaxRuns       \* bound: how often one runner is run

Owner == Plugin \cup {Package}

ASSUME NamesAssumption ==
  /\ Package \notin Plugin
  /\ NoPrev \notin Name /\ Absent \notin Name /\ NoName \notin Name
  /\ NoPrev # Absent
  /\ MaxRuns \in Nat
  /\ Declarations \subseteq [Owner -> [Name -> Name \cup {NoPrev, Absent}]]

VARIABLES
  decl,         \* decl[o][n]: Prev of the task n that owner o declares
  plugins,      \* package.Plugins
  taskGroups,   \* taskGroups[n]: owners of the tasks of group n; <<>> is nil
  mark,         \* taskgroup.mark
  checkerOfDCG, \* the groups topSort is working on, in call order
  frames,       \* activations of topSort, outermost first
  callstack,    \* what topSort returned to run
  at,           \* index of the group run is invoking in callstack
  slot,         \* index of the task run is invoking in that group
  phase,        \* where run is
  requested,    \* argument of run
  pending,      \* owners whose tasks this run has not registered yet
  runs,         \* number of calls of run
  outcome,      \* how the last run ended
  report,       \* the path printed by the "DCG detected" error
  settled,      \* history: groups that were black when this run began
  invoked       \* history: the tasks this run has called, in order

registry == <<decl, plugins, taskGroups>>
sorting  == <<mark, checkerOfDCG, frames>>
invoking == <<callstack, at, slot, invoked>>
control  == <<phase, requested, pending, runs, outcome, report, settled>>
vars     == <<registry, sorting, invoking, control>>

-----------------------------------------------------------------------------
(* Reading the declarations. *)

Members(n)  == {taskGroups[n][i] : i \in 1..Len(taskGroups[n])}
Prevs(n)    == {decl[o][n] : o \in Members(n)} \ {NoPrev}
Elements(s) == {s[i] : i \in 1..Len(s)}

(* Operators named Faulty... are mistakes a change of the code could make; the  *)
(* specification does not use them.                                          *)

Top        == frames[Len(frames)]
Frame(g)   == [group |-> g, next |-> 1, sort |-> <<>>]
FaultyAdvance(f) == f                                          \* no ipairs step
Advance(f) == [f EXCEPT !.next = @ + 1]

\* The Prev of the task that the innermost topSort is looking at.
PrevAtTop == decl[taskGroups[Top.group][Top.next]][Top.group]

-----------------------------------------------------------------------------
Init ==
  /\ decl \in Declarations
  /\ plugins \in SUBSET Plugin
  /\ taskGroups = [n \in Name |-> <<>>]
  /\ mark = [n \in Name |-> "white"]
  /\ checkerOfDCG = <<>> /\ frames = <<>>
  /\ callstack = <<>> /\ at = 1 /\ slot = 1 /\ invoked = <<>>
  /\ phase = "idle" /\ requested = NoName /\ pending = {} /\ runs = 0
  /\ outcome = "none" /\ report = <<>> /\ settled = {}

\* Between two runs the sync engine attaches the plugin to its own package.
Attach(p) ==
  /\ phase = "idle" /\ runs = 1 /\ p \notin plugins
  /\ plugins' = plugins \cup {p}
  /\ UNCHANGED <<decl, taskGroups, sorting, invoking, control>>

\* run(name): no caller asks one runner for the same task twice.
Run(name) ==
  /\ phase = "idle" /\ runs < MaxRuns
  /\ runs = 0 \/ name \in Name \ {requested}
  /\ phase' = "register" /\ requested' = name /\ runs' = runs + 1
  /\ pending' = plugins \cup {Package}
  /\ outcome' = "none" /\ settled' = {n \in Name : mark[n] = "black"}
  /\ callstack' = <<>> /\ at' = 1 /\ slot' = 1 /\ invoked' = <<>>
  /\ UNCHANGED <<registry, sorting, report>>

\* One round of the registration loops: plugins in the order of pairs(), then
\* the package.  A group that exists already gets the task appended again.
Register(o) ==
  /\ phase = "register" /\ o \in pending
  /\ o = Package => pending = {Package}
  /\ pending' = pending \ {o}
  /\ taskGroups' = [n \in Name |-> IF decl[o][n] = Absent THEN taskGroups[n]
                                   ELSE Append(taskGroups[n], o)]
  /\ UNCHANGED <<decl, plugins, sorting, invoking>>
  /\ UNCHANGED <<phase, requested, runs, outcome, report, settled>>

-----------------------------------------------------------------------------
(* The ends of a run. *)

\* run returns to its caller, who may run the runner again.
Return(how) ==
  /\ phase' = "idle" /\ outcome' = how
  /\ UNCHANGED <<requested, pending, runs, report, settled>>

\* throw: nothing between here and main catches it, the process ends.
Throw(why) ==
  /\ phase' = "thrown" /\ outcome' = why
  /\ UNCHANGED <<requested, pending, runs, settled>>

\* run without a name only registers.
ReturnUnnamed ==
  /\ phase = "register" /\ pending = {} /\ requested = NoName
  /\ Return("listed")
  /\ UNCHANGED <<registry, sorting, invoking>>

ThrowUnknownTask ==
  /\ phase = "register" /\ pending = {} /\ requested # NoName
  /\ taskGroups[requested] = <<>>
  /\ Throw("unknown task")
  /\ UNCHANGED <<registry, sorting, invoking, report>>

-----------------------------------------------------------------------------
(* topSort. *)

\* Entering a white group: colour it, remember it, start on its tasks.
Enter(g) ==
  /\ mark' = [mark EXCEPT ![g] = "gray"]
  /\ checkerOfDCG' = Append(checkerOfDCG, g)
  /\ frames' = Append(frames, Frame(g))

\* run calls topSort on the requested group.
CallTopSort ==
  /\ phase = "register" /\ pending = {} /\ requested # NoName
  /\ taskGroups[requested] # <<>> /\ mark[requested] = "white"
  /\ Enter(requested)
  /\ phase' = "sort"
  /\ UNCHANGED <<registry, invoking>>
  /\ UNCHANGED <<requested, pending, runs, outcome, report, settled>>

FaultyOnBlack ==   \* takes nil for an empty list
  /\ phase = "register" /\ pending = {} /\ requested # NoName
  /\ taskGroups[requested] # <<>> /\ mark[requested] = "black"
  /\ Return("success")
  /\ UNCHANGED <<registry, sorting, invoking>>

\* A black group: topSort returns nil and run fails in ipairs(nil).
CallTopSortOnBlack ==
  /\ phase = "register" /\ pending = {} /\ requested # NoName
  /\ taskGroups[requested] # <<>> /\ mark[requested] = "black"
  /\ Throw("ipairs(nil)")
  /\ UNCHANGED <<registry, sorting, invoking, report>>

\* The innermost topSort still has a task of its group to look at.
AtTask == phase = "sort" /\ Top.next <= Len(taskGroups[Top.group])

\* Nothing to sort for this task: no Prev, or a Prev sorted already.
SkipTask ==
  /\ AtTask
  /\ \/ PrevAtTop = NoPrev
     \/ /\ PrevAtTop \in Name /\ taskGroups[PrevAtTop] # <<>>
        /\ mark[PrevAtTop] = "black"
  /\ frames' = [frames EXCEPT ![Len(frames)] = Advance(@)]
  /\ UNCHANGED <<registry, invoking, control, mark, checkerOfDCG>>

SortPrev ==
  /\ AtTask
  /\ PrevAtTop \in Name /\ taskGroups[PrevAtTop] # <<>>
  /\ mark[PrevAtTop] = "white"
  /\ Enter(PrevAtTop)
  /\ UNCHANGED <<registry, invoking, control>>

ThrowUnknownPrev ==
  /\ AtTask
  /\ PrevAtTop \in Name /\ taskGroups[PrevAtTop] = <<>>
  /\ Throw("unknown prev")
  /\ UNCHANGED <<registry, sorting, invoking, report>>

FaultyThrowCycle ==   \* prints the stack from its bottom
  /\ AtTask
  /\ PrevAtTop \in Name /\ taskGroups[PrevAtTop] # <<>>
  /\ mark[PrevAtTop] = "gray"
  /\ report' = Append(checkerOfDCG, PrevAtTop)
  /\ Throw("cycle")
  /\ UNCHANGED <<registry, sorting, invoking>>

\* A gray group: the error prints checkerOfDCG from that group on.
ThrowCycle ==
  /\ AtTask
  /\ PrevAtTop \in Name /\ taskGroups[PrevAtTop] # <<>>
  /\ mark[PrevAtTop] = "gray"
  /\ \E i \in 1..Len(checkerOfDCG) :
       /\ checkerOfDCG[i] = PrevAtTop
       /\ \A j \in 1..(i - 1) : checkerOfDCG[j] # PrevAtTop
       /\ report' = Append(SubSeq(checkerOfDCG, i, Len(checkerOfDCG)), PrevAtTop)
  /\ Throw("cycle")
  /\ UNCHANGED <<registry, sorting, invoking>>

\* What an activation returns, and its caller when that is topSort itself.
FaultySorted == <<Top.group>> \o Top.sort   \* inserts at the front
Sorted == Append(Top.sort, Top.group)
Resume(f, sorted) == [Advance(f) EXCEPT !.sort = @ \o sorted]

FaultyFinishPath ==   \* without table.remove
  /\ phase = "sort" /\ Top.next > Len(taskGroups[Top.group])
  /\ mark' = [mark EXCEPT ![Top.group] = "black"]
  /\ UNCHANGED checkerOfDCG

FaultyFinishMark ==   \* colours the group white again
  /\ phase = "sort" /\ Top.next > Len(taskGroups[Top.group])
  /\ mark' = [mark EXCEPT ![Top.group] = "white"]
  /\ checkerOfDCG' = SubSeq(checkerOfDCG, 1, Len(checkerOfDCG) - 1)

\* All tasks of the group seen: the group is black, the caller goes on.
FinishGroup ==
  /\ phase = "sort" /\ Top.next > Len(taskGroups[Top.group])
  /\ mark' = [mark EXCEPT ![Top.group] = "black"]
  /\ checkerOfDCG' = SubSeq(checkerOfDCG, 1, Len(checkerOfDCG) - 1)

ReturnToTopSort ==
  /\ FinishGroup
  /\ Len(frames) > 1
  /\ frames' = [i \in 1..(Len(frames) - 1) |->
                  IF i = Len(frames) - 1 THEN Resume(frames[i], Sorted) ELSE frames[i]]
  /\ UNCHANGED <<registry, invoking, control>>

ReturnToRun ==
  /\ FinishGroup
  /\ Len(frames) = 1
  /\ frames' = <<>>
  /\ callstack' = Sorted
  /\ phase' = "invoke"
  /\ UNCHANGED <<registry, at, slot, invoked>>
  /\ UNCHANGED <<requested, pending, runs, outcome, report, settled>>

-----------------------------------------------------------------------------
(* Invoking the sorted groups. *)

Current == callstack[at]

FaultyCallTask ==   \* the first group gets the arguments
  /\ phase = "invoke"
  /\ invoked' = Append(invoked, [group |-> Current, owner |-> taskGroups[Current][slot],
                                 userArgs |-> at = 1])
  /\ UNCHANGED <<registry, sorting, callstack>>

\* task.F is called; only the tasks of the last group get run's arguments.
CallTask ==
  /\ phase = "invoke"
  /\ invoked' = Append(invoked, [group |-> Current, owner |-> taskGroups[Current][slot],
                                 userArgs |-> at = Len(callstack)])
  /\ UNCHANGED <<registry, sorting, callstack>>

FaultyLastOfGroup == slot + 1 >= Len(taskGroups[Current])   \* off by one
LastOfGroup == slot = Len(taskGroups[Current])

TaskSucceeds ==
  /\ CallTask
  /\ ~LastOfGroup \/ at < Len(callstack)
  /\ at' = IF LastOfGroup THEN at + 1 ELSE at
  /\ slot' = IF LastOfGroup THEN 1 ELSE slot + 1
  /\ UNCHANGED control

LastTaskSucceeds ==
  /\ CallTask
  /\ LastOfGroup /\ at = Len(callstack)
  /\ Return("success")
  /\ UNCHANGED <<at, slot>>

\* task.F returns true: the run stops and returns true.
TaskStops ==
  /\ CallTask
  /\ Return("stopped")
  /\ UNCHANGED <<at, slot>>

TaskThrows ==
  /\ CallTask
  /\ Throw("task error")
  /\ UNCHANGED <<at, slot, report>>

-----------------------------------------------------------------------------
Sort   == \/ CallTopSort \/ CallTopSortOnBlack \/ SkipTask \/ SortPrev
          \/ ThrowUnknownPrev \/ ThrowCycle \/ ReturnToTopSort \/ ReturnToRun
Invoke == TaskSucceeds \/ LastTaskSucceeds \/ TaskStops \/ TaskThrows

\* Steps the interpreter takes by itself once run has been called.
Proceed ==
  \/ \E o \in Owner : Register(o)
  \/ ReturnUnnamed \/ ThrowUnknownTask
  \/ Sort \/ Invoke

Next ==
  \/ \E p \in Plugin : Attach(p)
  \/ \E name \in Name \cup {NoName} : Run(name)
  \/ Proceed

Spec     == Init /\ [][Next]_vars
\* The interpreter keeps executing a run it has begun, and every task returns.
FairSpec == Spec /\ WF_vars(Proceed)

-----------------------------------------------------------------------------
(* Properties. *)

Activation == [group : Name, next : Nat \ {0}, sort : Seq(Name)]
Call       == [group : Name, owner : Owner, userArgs : BOOLEAN]

\* Every variable has its type.
TypeOK ==
  /\ decl \in [Owner -> [Name -> Name \cup {NoPrev, Absent}]]
  /\ plugins \in SUBSET Plugin
  /\ taskGroups \in [Name -> Seq(Owner)]
  /\ mark \in [Name -> {"white", "gray", "black"}]
  /\ checkerOfDCG \in Seq(Name)
  /\ frames \in Seq(Activation)
  /\ callstack \in Seq(Name) /\ at \in Nat \ {0} /\ slot \in Nat \ {0}
  /\ invoked \in Seq(Call)
  /\ phase \in {"idle", "register", "sort", "invoke", "thrown"}
  /\ requested \in Name \cup {NoName}
  /\ pending \in SUBSET Owner /\ runs \in 0..MaxRuns
  /\ outcome \in {"none", "listed", "success", "stopped", "unknown task",
                  "unknown prev", "cycle", "task error", "ipairs(nil)"}
  /\ report \in Seq(Name) /\ settled \in SUBSET Name

\* The gray groups are exactly those on topSort's stack, each on it once, and
\* checkerOfDCG lists them in call order: what the cycle test relies on, and
\* what a throw leaves behind (runner.lua:98-117, 121-123, 149-151).
StackIsGray ==
  /\ Len(checkerOfDCG) = Len(frames)
  /\ \A i \in 1..Len(frames) : checkerOfDCG[i] = frames[i].group
  /\ \A n \in Name : mark[n] = "gray" <=> n \in Elements(checkerOfDCG)
  /\ \A i, j \in 1..Len(frames) : frames[i].group = frames[j].group => i = j

\* The path that "DCG detected" prints is a cycle of Prev links: the groups on
\* it are linked one by one and it ends where it began (runner.lua:98-117).
IsCycle(path) ==
  /\ Len(path) > 1 /\ path[1] = path[Len(path)]
  /\ \A i \in 1..(Len(path) - 1) : path[i + 1] \in Prevs(path[i])

CycleReportIsReal == outcome = "cycle" => IsCycle(report)

\* Reference definition: the groups the requested one depends on, a group
\* settled by an earlier run not being looked into again.
Needed ==
  {n \in Name :
     \A S \in SUBSET Name :
       (requested \in S /\ \A x \in S \ settled : Prevs(x) \cap Name \subseteq S) => n \in S}

Unknown(n) == \E p \in Prevs(n) : taskGroups[p] = <<>>
Acyclic(S) == \A T \in SUBSET S : T # {} => \E n \in T : Prevs(n) \cap T = {}

\* topSort returns the groups the task needs, no other and none twice, exactly
\* when their Prev links exist and are free of cycles, and it throws only for
\* the reason it gives (runner.lua:94-154).
ScheduleIsExact ==
  LET fresh == Needed \ settled IN
  /\ phase = "invoke" \/ outcome \in {"success", "stopped", "task error"} =>
       /\ Elements(callstack) = fresh
       /\ Len(callstack) = Cardinality(fresh)
       /\ Acyclic(fresh)
       /\ \A n \in fresh : ~Unknown(n)
  /\ outcome = "cycle" => ~Acyclic(fresh)
  /\ outcome = "unknown prev" => \E n \in fresh : Unknown(n)

\* When a task is called, every task of every group its own group names as
\* Prev has been called earlier in the run, unless that group was sorted by an
\* earlier run of this runner (runner.lua:68-90, 135-147).
PrerequisitesFirst ==
  \A k \in 1..Len(invoked) : \A p \in Prevs(invoked[k].group) :
    \/ p \in settled
    \/ \A m \in 1..Len(taskGroups[p]) :
         \E j \in 1..(k - 1) : /\ invoked[j].group = p
                               /\ invoked[j].owner = taskGroups[p][m]

\* run's own arguments reach the tasks of the requested group and no other
\* task: `i == #callstack` picks the requested group (runner.lua:77-85).
ArgumentsReachRequested ==
  \A k \in 1..Len(invoked) : invoked[k].userArgs <=> invoked[k].group = requested

\* How often each owner's task of a group is registered, and has been called.
Registered  == [g \in Name |-> [o \in Owner |->
                  Cardinality({m \in 1..Len(taskGroups[g]) : taskGroups[g][m] = o})]]
CallsMade   == [g \in Name |-> [o \in Owner |->
                  Cardinality({k \in 1..Len(invoked) :
                                 invoked[k].group = g /\ invoked[k].owner = o})]]

\* A task is called as often as it was registered when the run succeeds and
\* never more often; no task of a group settled before is called again.
CallsMatchRegistrations ==
  \A g \in Name, o \in Owner :
    /\ CallsMade[g][o] <= Registered[g][o]
    /\ CallsMade[g][o] > 0 => g \in Needed \ settled
    /\ outcome = "success" /\ g \in Needed \ settled => CallsMade[g][o] = Registered[g][o]

AllPrevs == [g \in Name |-> Prevs(g)]
Stage    == IF phase \in {"idle", "thrown"} THEN phase ELSE "running"

Promise == INSTANCE TaskSchedule WITH
  tasks <- Registered, links <- AllPrevs, calls <- CallsMade, state <- Stage

\* The runner keeps the promise of the abstract schedule (runner.lua:22-154).
ImplementsSchedule == Promise!Spec

\* A run that was begun ends, whatever the declarations are: the colouring
\* keeps topSort from recursing for ever (runner.lua:96-98).
RunEnds == phase \in {"register", "sort", "invoke"} ~> phase \in {"idle", "thrown"}

=============================================================================
