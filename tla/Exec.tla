-------------------------------- MODULE Exec --------------------------------
(***************************************************************************)
(* Running a command (lemon/os/exec.hpp, exec_posix.hpp, lemoon/os.cpp).   *)
(*                                                                         *)
(* An exec object has an io service (Reactor) with a stream for each pipe  *)
(* of the child, a mutex, and a thread that waits for the child's end.     *)
(* The main thread runs the script: it makes the object, which asks for    *)
(* the first read of each stream, and calls start and wait.  wait() holds  *)
(* the mutex while it runs the io service and lets go of it only to sleep. *)
(* Each callback hands its bytes to the script and reads again.            *)
(*                                                                         *)
(* The child is external: it writes and ends, by exit or by a signal.      *)
(***************************************************************************)
EXTENDS Reactor

CONSTANTS
  main,      \* the thread of the script
  MaxStarts  \* bound: calls of start

\* Each of the two read callbacks has a static buffer of its own (os.cpp:231, 248), which all
\* exec objects share; there is one object here.
ASSUME ExecAssumption ==
  /\ Client = {main} /\ MaxStarts \in Nat
  /\ \A s, r \in Stream : BufferOf[s] = BufferOf[r] => s = r

VARIABLES
  options,   \* the object has pipes, or exec_options::none
  at,        \* where the main thread is
  mutex,     \* who holds exec._mutex
  joined,    \* exec._joined
  waiter,    \* the thread _waiter
  child,     \* the child process
  exitCode,  \* exec._exit_code
  starts,    \* calls of start
  result,    \* what the last wait() returned; -1 before
  ended,     \* history: how the child of the last start ended
  owed,      \* history: a start that no wait() has answered
  late       \* history: a wait of the io service ran out with work at hand

object   == <<options, joined, exitCode, starts>>
outcome  == <<result, ended, owed, late>>
execVars == <<object, at, mutex, waiter, child, outcome>>
allVars  == <<vars, execVars>>

\* idle: in the script.  loop: at the head of wait()'s loop.  pump, drain: in
\* io_service_run, before and after the child's end.  nap, doze: in its condition
\* wait, entered from pump and drain.  sleep: in the condition wait without pipes.
\* join: before _waiter.join().  aborted: ended by std::terminate.

-----------------------------------------------------------------------------
\* The constructor; the reads are asked for in MakeReads.
ExecInit ==
  /\ Init
  /\ options \in {"none", "pipes"} /\ joined = TRUE /\ exitCode = 0 /\ starts = 0
  /\ at = IF options = "pipes" THEN "make" ELSE "idle"
  /\ mutex = "free" /\ waiter = "none" /\ child = "none"
  /\ result = -1 /\ ended = "none" /\ owed = FALSE /\ late = FALSE

Running == at \notin {"gone", "replaced", "aborted"}

\* A stream is being read.  It never ends and never fails: the object itself holds the
\* writing side open.
Asked(s) == Waiting(s) # {}

\* lua_exec_out_callback and lua_exec_err_callback of the constructor.
MakeReads ==
  /\ at = "make"
  /\ \/ \E s \in Stream : ~Asked(s) /\ TryRead(main, s) /\ UNCHANGED at
     \/ FinishRead(main) /\ UNCHANGED at
     \/ /\ \A s \in Stream : Asked(s)
        /\ reading[main] = nullptr /\ at' = "idle" /\ UNCHANGED vars
  /\ UNCHANGED <<object, mutex, waiter, child, outcome>>

-----------------------------------------------------------------------------
(* start. *)

CanStart == at = "idle" /\ mutex = "free" /\ joined /\ starts < MaxStarts

\* The thread object is assigned: std::terminate when the old one was not joined.
NewWaiter(state) ==
  /\ starts' = starts + 1 /\ owed' = TRUE
  /\ IF waiter = "none"
       THEN at' = at /\ waiter' = state /\ joined' = FALSE
       ELSE at' = "aborted" /\ waiter' = waiter /\ joined' = FALSE
  /\ UNCHANGED <<vars, options, mutex, exitCode, result, late>>

\* fork and execv succeed; when execv does not, the child goes on as a second gsmake.
Start ==
  /\ CanStart
  /\ child' \in {"running", "copy"} /\ ended' = "none"
  /\ NewWaiter("waitpid")

\* fork fails and falls through to the child's part: the command replaces gsmake, or,
\* when execv fails too, the waiter looks for a child that is not there.
ForkFails ==
  /\ CanStart
  /\ child' = "none" /\ ended' = "none"
  /\ NewWaiter("echild")

ReplaceSelf ==
  /\ CanStart /\ at' = "replaced"
  /\ UNCHANGED <<vars, object, mutex, waiter, child, outcome>>

-----------------------------------------------------------------------------
(* The child and the thread that waits for it. *)

\* A child with pipes writes into one of them; a copy of gsmake writes as well.
ChildWrite(s) ==
  /\ Running /\ options = "pipes" /\ child \in {"running", "copy"}
  /\ Write(s)
  /\ UNCHANGED execVars

ChildEnd(how) ==
  /\ Running /\ child \in {"running", "copy"}
  /\ child' = how
  /\ ended' = IF child = "copy" THEN "copy" ELSE how
  /\ UNCHANGED <<vars, object, at, mutex, waiter, result, owed, late>>

ExitStatus(how) == IF how = "failed" THEN 1 ELSE 0

FaultyReap ==   \* the status of the first call is not kept
  /\ Running /\ waiter = "waitpid" /\ child \in {"exited", "failed", "killed"}
  /\ waiter' = "report" /\ exitCode' = 0 /\ child' = "none"
  /\ UNCHANGED <<vars, options, joined, starts, at, mutex, outcome>>

\* process::wait: waitpid reaps the child; when a signal ended it, it is called again.
Reap ==
  /\ Running /\ waiter = "waitpid" /\ child \in {"exited", "failed", "killed"}
  /\ waiter' = IF child = "killed" THEN "echild" ELSE "report"
  /\ exitCode' = IF child = "killed" THEN exitCode ELSE ExitStatus(child)
  /\ child' = "none"
  /\ UNCHANGED <<vars, options, joined, starts, at, mutex, outcome>>

\* ECHILD is not an error, and the exit status of the signal's status is 0.
NoChild ==
  /\ Running /\ waiter = "echild"
  /\ waiter' = "report" /\ exitCode' = 0
  /\ UNCHANGED <<vars, options, joined, starts, at, mutex, child, outcome>>

FaultyReport ==   \* without the notification
  /\ Running /\ waiter = "report" /\ mutex = "free"
  /\ joined' = TRUE /\ waiter' = "ended"
  /\ UNCHANGED <<vars, options, exitCode, starts, at, mutex, child, outcome>>

\* wait_proc, under the mutex; a main thread in a condition wait is notified.
Report ==
  /\ Running /\ waiter = "report" /\ mutex = "free"
  /\ joined' = TRUE /\ waiter' = "ended"
  /\ at' = IF at = "sleep" THEN "woken" ELSE at
  /\ UNCHANGED <<vars, options, exitCode, starts, mutex, child, outcome>>

-----------------------------------------------------------------------------
(* wait. *)

Goto(from, to) ==
  /\ at = from /\ at' = to
  /\ UNCHANGED <<vars, object, waiter, child, outcome>>

Wait == mutex = "free" /\ Goto("idle", "loop") /\ mutex' = "main"

FaultyLook ==   \* no drain after the end of the child
  /\ \/ joined /\ Goto("loop", "join") /\ UNCHANGED mutex
     \/ ~joined /\ options # "none" /\ Goto("loop", "pump") /\ UNCHANGED mutex
     \/ ~joined /\ options = "none" /\ Goto("loop", "sleep") /\ mutex' = "free"

\* The head of the loop.
Look ==
  /\ \/ joined /\ Goto("loop", IF options = "none" THEN "join" ELSE "drain") /\ UNCHANGED mutex
     \/ ~joined /\ options # "none" /\ Goto("loop", "pump") /\ UNCHANGED mutex
     \/ ~joined /\ options = "none" /\ Goto("loop", "sleep") /\ mutex' = "free"

\* _condition.wait returns, notified or by itself.
WakeUp         == mutex = "free" /\ Goto("woken", "loop") /\ mutex' = "main"
SpuriousReturn == mutex = "free" /\ Goto("sleep", "loop") /\ mutex' = "main"

InService == at \in {"pump", "drain"}

\* io_service_run calls run_one again and again, until the time of one is over.
Pump ==
  /\ InService
  /\ Sleep(main) \/ SpuriousWakeup(main) \/ ReturnEmpty(main) \/ Pop(main) \/ Callback(main)
  /\ UNCHANGED execVars

\* A callback without an error reads again; then run_one deletes its operation.
InCallback == InService /\ calling[main] # nullptr /\ op[calling[main]].phase = "called"

ReadAgain ==
  /\ InCallback
  /\ LET s == op[calling[main]].stream IN
       \/ ~Asked(s) /\ TryRead(main, s)
       \/ FinishRead(main)
       \/ Asked(s) /\ Delete(main)
  /\ UNCHANGED execVars

\* There was an event to report, or an operation to call back.
AtHand == raised # {} \/ ~Empty \/ \E s \in Stream : edge[s]

PumpEnds ==
  /\ InService /\ TimeOut(main)
  /\ at' = IF at = "pump" THEN "nap" ELSE "doze"
  /\ mutex' = "free"
  /\ late' = (late \/ AtHand)
  /\ UNCHANGED <<object, waiter, child, result, ended, owed>>

\* The ten milliseconds of the condition wait are over, or it is notified.
NapEnds ==
  /\ mutex = "free" /\ mutex' = "main"
  /\ Goto("nap", "loop") \/ Goto("doze", "join")

\* join() of a thread that there is not throws, and nobody catches it.
JoinWaiter ==
  /\ at = "join" /\ waiter \in {"ended", "none"}
  /\ waiter' = "none" /\ mutex' = "free" /\ owed' = FALSE
  /\ at' = IF waiter = "none" THEN "aborted" ELSE "idle"
  /\ result' = IF waiter = "none" THEN result ELSE exitCode
  /\ UNCHANGED <<vars, object, child, ended, late>>

-----------------------------------------------------------------------------
(* The destructor: join, then the streams and the service. *)

Destroy ==
  /\ at = "idle" /\ waiter \in {"ended", "none"}
  /\ at' = "destroy" /\ waiter' = "none"
  /\ UNCHANGED <<vars, object, mutex, child, outcome>>

DestroyService ==
  /\ at = "destroy"
  /\ \/ \E s \in Stream : Unregister(s)
     \/ CloseEvents
     \/ JoinDispatcher
  /\ at' = IF alive' = "gone" THEN "gone" ELSE at
  /\ UNCHANGED <<object, mutex, waiter, child, outcome>>

-----------------------------------------------------------------------------
Dispatch == Running /\ Process /\ UNCHANGED execVars

Child ==
  \/ \E s \in Stream : ChildWrite(s)
  \/ \E how \in {"exited", "failed", "killed"} : ChildEnd(how)

MainInWait == Look \/ WakeUp \/ Pump \/ ReadAgain \/ PumpEnds \/ NapEnds \/ JoinWaiter

Script == MakeReads \/ Start \/ ForkFails \/ ReplaceSelf \/ Wait \/ Destroy

ExecNext ==
  \/ Script \/ MainInWait \/ SpuriousReturn \/ Dispatch \/ DestroyService
  \/ Child \/ Reap \/ NoChild \/ Report

ExecSpec == ExecInit /\ [][ExecNext]_allVars

\* The threads are scheduled, the time of run_one passes when nothing else happens, the
\* waiting thread gets the mutex that wait() releases again and again, and the child ends.
FairExecSpec ==
  /\ ExecSpec
  /\ WF_allVars(MainInWait) /\ WF_allVars(Dispatch)
  /\ WF_allVars(Reap) /\ WF_allVars(NoChild) /\ SF_allVars(Report)
  /\ SF_allVars(PumpEnds)
  /\ WF_allVars(\E how \in {"exited", "failed", "killed"} : ChildEnd(how))

-----------------------------------------------------------------------------
(* Properties. *)

\* wait() returns only after the child's end, with the status of the child of the last
\* start: a failure is never answered as 0, except that of a signal, of a fork or execv
\* that failed (exec.hpp:150-183, 244-253; exec_posix.hpp:42-48, 64-84).
ResultIsTheChilds ==
  [][result' # result \/ (at = "join" /\ at' = "idle") =>
       /\ child = "none"
       /\ ended = "failed" => result' = 1
       /\ ended \notin {"failed", "copy"} => result' = 0]_allVars

\* What the child wrote has been given to the callbacks when wait() returns, in order,
\* unless an edge was lost or ten milliseconds ran out with work at hand
\* (exec.hpp:158-161, 215-236).
OutputArrives ==
  [][at = "join" /\ at' = "idle" /\ ~late =>
       \A s \in Stream \ raced : delivered[s] = sent[s]]_allVars

\* wait() returns once the child has ended and stays silent.
WaitReturns == at = "loop" ~> at \in {"idle", "aborted"} \/ alive = "crashed"

=============================================================================
