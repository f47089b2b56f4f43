---------------------------- MODULE TaskSchedule ----------------------------
(***************************************************************************)
(* What a task runner promises to the one who runs a task: nothing is      *)
(* called unless everything the task needs is there and free of cycles;    *)
(* the tasks of a group are called after all tasks of the groups it names, *)
(* each as often as it is registered; a run succeeds with the last call    *)
(* and throws only for a reason.  In which order the groups are found, and *)
(* how, is left open.  TaskRunner implements it.                           *)
(***************************************************************************)
EXTENDS Naturals

CONSTANTS Name, Owner, NoName

VARIABLES
  tasks,      \* tasks[n][o]: how often owner o's task of that name is registered
  links,      \* links[n]: what the tasks of group n name as to be run before
  requested,  \* the task asked for
  settled,    \* the groups that earlier runs have sorted
  calls,      \* calls[n][o]: how often this run has called that task
  state,      \* idle, running or thrown
  outcome     \* how the last run ended

vars == <<tasks, links, requested, settled, calls, state, outcome>>

None == [n \in Name |-> [o \in Owner |-> 0]]

\* The groups that the task depends on, those settled not being looked into again.
Needed ==
  {n \in Name :
     \A S \in SUBSET Name :
       (requested \in S /\ \A x \in S \ settled : links[x] \cap Name \subseteq S) => n \in S}
Fresh == Needed \ settled

HasCycle     == \E T \in SUBSET Fresh : T # {} /\ \A n \in T : links[n] \cap T # {}
Missing(n)   == tasks[n] = [o \in Owner |-> 0]
HasMissing   == \E n \in Fresh : \E p \in links[n] : Missing(p)
AllCalled(g) == calls[g] = tasks[g]

Init ==
  /\ tasks = None /\ links = [n \in Name |-> {}]
  /\ requested = NoName /\ settled = {} /\ calls = None
  /\ state = "idle" /\ outcome = "none"

\* A run begins.  One that called something has settled all that it needed.
Begin(name) ==
  /\ state = "idle" /\ state' = "running" /\ outcome' = "none"
  /\ requested' = name /\ calls' = None
  /\ settled' = IF outcome \in {"success", "stopped"} THEN settled \cup Needed ELSE settled
  /\ UNCHANGED <<tasks, links>>

\* Tasks are registered before the first call.
Declare ==
  /\ state = "running" /\ calls = None
  /\ \A n \in Name : /\ links[n] \subseteq links'[n]
                     /\ \A o \in Owner : tasks[n][o] <= tasks'[n][o]
  /\ UNCHANGED <<requested, settled, calls, state, outcome>>

\* The end of a run that calls nothing.
ListTasks ==
  /\ state = "running" /\ requested = NoName /\ calls = None
  /\ state' = "idle" /\ outcome' = "listed"
  /\ UNCHANGED <<tasks, links, requested, settled, calls>>

\* A run throws before it calls anything, and for these reasons only.
Refuse(why) ==
  /\ state = "running" /\ requested \in Name /\ calls = None
  /\ \/ why = "unknown task" /\ Missing(requested)
     \/ why = "ipairs(nil)"  /\ requested \in settled
     \/ why = "unknown prev" /\ HasMissing
     \/ why = "cycle"        /\ HasCycle
  /\ state' = "thrown" /\ outcome' = why
  /\ UNCHANGED <<tasks, links, requested, settled, calls>>

\* What the run is after a call: it goes on while tasks are left.
After ==
  \/ UNCHANGED <<state, outcome>> /\ ~\A n \in Fresh : AllCalled(n)'
  \/ state' = "idle" /\ outcome' = "success" /\ \A n \in Fresh : AllCalled(n)'
  \/ state' = "idle" /\ outcome' = "stopped"
  \/ state' = "thrown" /\ outcome' = "task error"

Call(g, o) ==
  /\ state = "running" /\ ~HasCycle /\ ~HasMissing
  /\ g \in Fresh /\ calls[g][o] < tasks[g][o]
  /\ \A p \in links[g] \cap Fresh : AllCalled(p)
  /\ calls' = [calls EXCEPT ![g][o] = @ + 1]
  /\ After
  /\ UNCHANGED <<tasks, links, requested, settled>>

Next ==
  \/ \E name \in Name \cup {NoName} : Begin(name)
  \/ Declare \/ ListTasks
  \/ \E why \in {"unknown task", "ipairs(nil)", "unknown prev", "cycle"} : Refuse(why)
  \/ \E g \in Name, o \in Owner : Call(g, o)

Spec == Init /\ [][Next]_vars

=============================================================================
