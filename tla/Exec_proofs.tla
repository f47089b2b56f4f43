---------------------------- MODULE Exec_proofs ----------------------------
(***************************************************************************)
(* Theorems about running a command, for any number of pipes, any length   *)
(* of reads, any number of operations, of bytes and of starts.             *)
(***************************************************************************)
EXTENDS Exec, Reactor_proofs

\* A step of the command is one of the io service, and starts a read only of a stream that
\* is not being read.
LEMMA ServiceStep ==
  ASSUME TypeInv, [ExecNext]_allVars
  PROVE  /\ [Next]_vars
         /\ doubled = {} => doubled' = {}
  <1> DEFINE Quiet == UNCHANGED doubled /\ [Next]_vars
  <1>1. main \in Client
    BY ExecAssumption
  <1>2. ASSUME NEW s \in Stream, TryRead(main, s), ~Asked(s)
        PROVE  Next /\ doubled' = doubled
    BY <1>1, <1>2 DEF TryRead, Asked, Next
  <1>3. CASE UNCHANGED allVars
    BY <1>3 DEF allVars, vars, history
  <1>4. ASSUME FinishRead(main) PROVE Next /\ doubled' = doubled
    BY <1>1, <1>4 DEF Next, FinishRead, PushReadOp, Complete, CrashInComplete, Crash, history
  <1>5. CASE MakeReads
    BY <1>2, <1>4, <1>5 DEF MakeReads, vars, history
  <1>6. CASE ReadAgain
    <2> DEFINE s == op[calling[main]].stream
    <2>1. CASE ~Asked(s) /\ TryRead(main, s)
      <3>1. s \in Stream
        BY <2>1 DEF TryRead, TypeInv, TypeOK
      <3> QED
        BY <1>2, <2>1, <3>1
    <2>2. CASE FinishRead(main)
      BY <1>4, <2>2
    <2>3. CASE Delete(main)
      BY <1>1, <2>3 DEF Delete, history, Next, RunOne
    <2> QED
      BY <1>6, <2>1, <2>2, <2>3 DEF ReadAgain
  <1>7. CASE Pump
    BY <1>1, <1>7 DEF Pump, Next, RunOne, Sleep, SpuriousWakeup, ReturnEmpty, Pop, Callback,
       Rest, history
  <1>8. CASE PumpEnds
    BY <1>1, <1>8 DEF PumpEnds, Next, TimeOut, Rest, history
  <1>9. CASE Dispatch
    BY <1>9 DEF Dispatch, Next, Process, EventsWait, EndRound, EndDispatcher, CrashInRound,
       IgnoreEvent, PerformEvent, CrashInEvent, FinishEvent, Crash, history
  <1>10. CASE DestroyService
    BY <1>10 DEF DestroyService, Next, Unregister, CloseEvents, JoinDispatcher, history
  <1>11. CASE Child
    BY <1>11 DEF Child, ChildWrite, ChildEnd, Next, Write, vars, history
  <1>12. CASE \/ Start \/ ForkFails \/ ReplaceSelf \/ Wait \/ Destroy \/ Look \/ WakeUp
              \/ NapEnds \/ JoinWaiter \/ SpuriousReturn \/ Reap \/ NoChild \/ Report
    BY <1>12 DEF Start, ForkFails, NewWaiter, ReplaceSelf, Wait, Destroy, Look, WakeUp,
       NapEnds, JoinWaiter, SpuriousReturn, Goto, Reap, NoChild, Report, vars, history
  <1> QED
    BY <1>3, <1>5, <1>6, <1>7, <1>8, <1>9, <1>10, <1>11, <1>12 DEF ExecNext, Script, MainInWait

\* The service of a command: one read of a stream at a time, each with its own memory.
SingleReads == DataInv /\ doubled = {}

LEMMA SingleReadsInit == ExecInit => SingleReads
  BY DataInit DEF ExecInit, Init, SingleReads

LEMMA SingleReadsNext == SingleReads /\ [ExecNext]_allVars => SingleReads'
  <1> SUFFICES ASSUME SingleReads, [ExecNext]_allVars PROVE SingleReads'
    OBVIOUS
  <1>1. [Next]_vars /\ doubled' = {}
    BY ServiceStep DEF SingleReads, DataInv, ListInv
  <1>2. OwnBuffers
    BY ExecAssumption DEF OwnBuffers
  <1> QED
    BY <1>1, <1>2, DataNext DEF SingleReads

\* A command never makes the two kinds of lists of its service run into each other: each
\* holds what it should, always (exec.hpp:215-236; lemoon/os.cpp:227-262;
\* reactor_io_object.hpp:138-163, reactor_io_service.hpp:83-93, 162-180).
THEOREM CommandListsAreSound == ExecSpec => [](doubled = {} /\ ListsAreSound)
  <1>1. SingleReads => ListsAreSound
    BY ListInvIsSound DEF SingleReads, DataInv
  <1> QED
    BY <1>1, SingleReadsInit, SingleReadsNext, PTL DEF ExecSpec, SingleReads

\* The script's callbacks get what the child wrote into each pipe, in order, nothing lost
\* or twice (lemoon/os.cpp:227-262, exec.hpp:215-236, reactor_io_*.hpp).
THEOREM CommandImplementsStreams == ExecSpec => ImplementsStreams
  <1>1. OwnBuffers
    BY ExecAssumption DEF OwnBuffers
  <1>2. SingleReads /\ SingleReads' /\ [ExecNext]_allVars => [Streams!Next]_(Streams!vars)
    BY <1>1, ServiceStep, RefineNext DEF SingleReads, DataInv, ListInv
  <1>3. ExecInit => Streams!Init
    BY RefineInit DEF ExecInit
  <1> QED
    BY <1>2, <1>3, SingleReadsInit, SingleReadsNext, PTL
       DEF ExecSpec, ImplementsStreams, Streams!Spec

\* The service of a command kills the process at its end only: when the destructor closes it
\* while the dispatcher is busy (os.cpp:217-226; reactor_io_service_epoll.hpp:37-40).
THEOREM OnlyTheEndCrashes ==
  ExecSpec => [](CrashNeedsCause /\ (alive = "crashed" => registered = {}))
  <1> DEFINE Inv == SingleReads /\ CrashInv
  <1>1. ExecInit => Inv
    BY SingleReadsInit, CrashInit DEF ExecInit
  <1>2. Inv /\ [ExecNext]_allVars => Inv'
    BY SingleReadsNext, ServiceStep, CrashNext DEF SingleReads, DataInv, ListInv
  <1>3. Inv => CrashNeedsCause /\ (alive = "crashed" => registered = {})
    BY DEF CrashInv, CrashNeedsCause, SingleReads
  <1> QED
    BY <1>1, <1>2, <1>3, PTL DEF ExecSpec

-----------------------------------------------------------------------------
(* What wait() returns. *)

\* The waiting thread goes from the child's status to the flag _joined, and the status it
\* has is that of the child of the last start.
Reported ==
  at # "aborted" =>
    /\ waiter \in {"none", "waitpid", "echild", "report", "ended"}
    /\ joined <=> waiter \in {"none", "ended"}
    /\ waiter # "waitpid" => child = "none"
    /\ child \in {"none", "running", "copy", "exited", "failed", "killed"}
    /\ child \in {"running", "copy"} => ended = "none"
    /\ child \in {"exited", "failed", "killed"} => ended \in {child, "copy"}
    /\ waiter = "echild" => ended \in {"none", "killed", "copy"}
    /\ waiter \in {"report", "ended"} =>
         /\ ended = "failed" => exitCode = 1
         /\ ended \notin {"failed", "copy"} => exitCode = 0

LEMMA ReportedInit == ExecInit => Reported
  BY DEF ExecInit, Reported

LEMMA ReportedNext == Reported /\ [ExecNext]_allVars => Reported'
  <1> SUFFICES ASSUME Reported, [ExecNext]_allVars PROVE Reported'
    OBVIOUS
  <1>1. CASE UNCHANGED allVars
    BY <1>1 DEF allVars, execVars, object, outcome, Reported
  <1>2. CASE MakeReads \/ DestroyService
    BY <1>2 DEF MakeReads, DestroyService, object, outcome, Reported
  <1>3. CASE Start \/ ForkFails \/ ReplaceSelf
    BY <1>3 DEF Start, ForkFails, NewWaiter, CanStart, ReplaceSelf, object, outcome, Reported
  <1>4. CASE \/ Wait \/ Destroy \/ Look \/ WakeUp \/ NapEnds \/ JoinWaiter \/ SpuriousReturn
    BY <1>4 DEF Wait, Destroy, Look, WakeUp, NapEnds, JoinWaiter, SpuriousReturn, Goto, object,
       outcome, Reported
  <1>5. CASE Pump \/ ReadAgain \/ PumpEnds \/ Dispatch
    BY <1>5 DEF Pump, ReadAgain, PumpEnds, Dispatch, InCallback, InService, execVars, object,
       outcome, Reported
  <1>6. CASE Child
    BY <1>6 DEF Child, ChildWrite, ChildEnd, Running, execVars, object, outcome, Reported
  <1>7. CASE Reap \/ NoChild \/ Report
    BY <1>7 DEF Reap, NoChild, Report, Running, ExitStatus, object, outcome, Reported
  <1> QED
    BY <1>1, <1>2, <1>3, <1>4, <1>5, <1>6, <1>7 DEF ExecNext, Script, MainInWait

\* wait() returns only after the child's end, and what it returns is the status of the
\* child of the last start, or 0 for one that a signal ended or that was never made
\* (exec.hpp:150-183, 244-253; exec_posix.hpp:42-48, 64-84).
THEOREM WaitReturnsTheStatus == ExecSpec => ResultIsTheChilds
  <1> DEFINE Good == result' # result \/ (at = "join" /\ at' = "idle") =>
               /\ child = "none"
               /\ ended = "failed" => result' = 1
               /\ ended \notin {"failed", "copy"} => result' = 0
  <1>1. ASSUME Reported, [ExecNext]_allVars PROVE Good
    <2>1. CASE JoinWaiter
      BY <1>1, <2>1 DEF JoinWaiter, Reported
    <2>2. CASE ~JoinWaiter
      <3>1. UNCHANGED result
        BY <1>1, <2>2 DEF allVars, execVars, ExecNext, Script, MainInWait, MakeReads,
           DestroyService, Start, ForkFails, NewWaiter, ReplaceSelf, Wait, Destroy, Look,
           WakeUp, NapEnds, SpuriousReturn, Goto, Pump, ReadAgain, PumpEnds, Dispatch, Child,
           ChildWrite, ChildEnd, Reap, NoChild, Report, outcome
      <3>2. ~(at = "join" /\ at' = "idle")
        BY <1>1, <2>2 DEF allVars, execVars, ExecNext, Script, MainInWait, MakeReads,
           DestroyService, Start, ForkFails, NewWaiter, CanStart, ReplaceSelf, Wait, Destroy,
           Look, WakeUp, NapEnds, SpuriousReturn, Goto, Pump, ReadAgain, PumpEnds, InService,
           InCallback, Dispatch, Child, ChildWrite, ChildEnd, Reap, NoChild, Report
      <3> QED
        BY <3>1, <3>2
    <2> QED
      BY <2>1, <2>2
  <1>2. Reported /\ [ExecNext]_allVars => [Good]_allVars
    BY <1>1
  <1> QED
    BY <1>2, ReportedInit, ReportedNext, PTL DEF ExecSpec, ResultIsTheChilds

-----------------------------------------------------------------------------
(* That the output arrives. *)

\* An operation that is in no list is in the hands of the main thread.
InHands ==
  \A o \in Op :
    /\ op[o].phase \in {"empty", "answered"} => reading[main] = o
    /\ op[o].phase \in {"taken", "called"} => calling[main] = o

\* The bytes that a read waits for have an event on the way, unless their edge was lost.
Noticed ==
  \A o \in Op : op[o].phase \in {"empty", "queued"} =>
    LET s == op[o].stream IN
      s \in registered /\ pipe[s] # <<>> => edge[s] \/ s \in raised \/ s \in raced

SleepersAreIdle == sleep[main] # "no" => Idle(main)

\* The dispatcher waits for events only when it has none.
WaitsForNone == dispatcher = "waiting" => raised = {}

Service == InHands /\ Noticed /\ SleepersAreIdle /\ WaitsForNone

\* A step that makes no operation, tells of no new bytes and forgets no event.
LEMMA ServiceKept ==
  ASSUME Service, InHands', SleepersAreIdle', WaitsForNone', registered' \subseteq registered,
         \A o \in Op : op'[o].phase \in {"empty", "queued"} =>
           op[o].phase \in {"empty", "queued"} /\ op'[o].stream = op[o].stream,
         \A s \in registered : pipe'[s] # <<>> /\ pipe'[s] # pipe[s] => edge'[s],
         \A s \in registered' : edge[s] \/ s \in raised \/ s \in raced =>
           edge'[s] \/ s \in raised' \/ s \in raced'
  PROVE  Service'
  BY DEF Service, Noticed

LEMMA TryReadService ==
  ASSUME TypeInv, TypeInv', Lists, Service, NEW s \in Stream, TryRead(main, s), ~Asked(s)
  PROVE  Service'
  <1>1. PICK o \in Op :
          /\ op[o].phase = "free" /\ reading' = [reading EXCEPT ![main] = o]
          /\ op'[o].phase = IF WouldBlock(s) THEN "empty" ELSE "answered"
          /\ op'[o].stream = s
          /\ \A p \in Op \ {o} : op'[p] = op[p]
    BY TryReadStep, ExecAssumption
  <1>2. /\ UNCHANGED <<edge, sleep, calling, dispatcher, raised, raced, registered>>
        /\ reading[main] = nullptr /\ sleep[main] = "no" /\ pipe' = Drain(s)
    BY DEF TryRead, loop, service
  <1>3. reading \in [Client -> Pointer] /\ main \in Client /\ \A p \in Op : p # nullptr
    BY ExecAssumption DEF TypeInv, TypeOK, Op, nullptr
  <1>4. reading'[main] = o
    BY <1>1, <1>3
  <1>5. InHands'
    BY <1>1, <1>2, <1>3, <1>4 DEF Service, InHands
  <1>6. SleepersAreIdle' /\ WaitsForNone'
    BY <1>2 DEF SleepersAreIdle, WaitsForNone, Service
  <1>7. \A r \in Stream \ {s} : pipe'[r] = pipe[r]
    BY <1>2, ReadStep DEF TypeInv
  <1>8. op'[o].phase = "empty" => pipe'[s] = <<>>
    <2> SUFFICES ASSUME WouldBlock(s) PROVE pipe'[s] = <<>>
      BY <1>1
    <2>1. pipe[s] = <<>>
      BY DEF WouldBlock
    <2>2. Available(s) \o Drain(s)[s] = pipe[s] /\ Available(s) \in Seq(Byte)
          /\ Drain(s)[s] \in Seq(Byte)
      BY ReadStep DEF TypeInv
    <2> QED
      BY <1>2, <2>1, <2>2, ConcatEqualIffEmpty
  <1>9. ASSUME NEW p \in Op, op'[p].phase \in {"empty", "queued"}
        PROVE  LET r == op'[p].stream IN
                 r \in registered' /\ pipe'[r] # <<>> => edge'[r] \/ r \in raised' \/ r \in raced'
    <2>1. CASE p = o
      BY <1>1, <1>8, <1>9, <2>1
    <2>2. CASE p # o
      <3>1. op'[p] = op[p] /\ op[p].stream \in Stream
        BY <1>1, <1>9, <2>2 DEF TypeInv, GotFits
      <3>2. op[p].stream # s
        BY <1>9, <3>1 DEF Asked, Waiting
      <3> QED
        BY <1>2, <1>7, <1>9, <3>1, <3>2 DEF Service, Noticed
    <2> QED
      BY <2>1, <2>2
  <1> QED
    BY <1>5, <1>6, <1>9 DEF Service, Noticed

\* The dispatcher forgets an event only after it has looked at the waiting read.
LEMMA EventService ==
  ASSUME TypeInv, TypeInv', Lists, Service, NEW s \in Stream, IgnoreEvent(s) \/ PerformEvent(s)
  PROVE  Service'
  <1>1. /\ UNCHANGED <<edge, reading, calling, registered>>
        /\ raised' = raised \ {s} /\ raced \subseteq raced' /\ dispatcher' = "locked"
        /\ sleep' = sleep \/ NotifyAll
    BY DEF IgnoreEvent, PerformEvent, FinishEvent, service
  <1>2. SleepersAreIdle' /\ WaitsForNone'
    <2>1. sleep'[main] # "no" => sleep[main] # "no"
      BY <1>1, ExecAssumption DEF NotifyAll
    <2> QED
      BY <1>1, <2>1 DEF Service, SleepersAreIdle, Idle, WaitsForNone
  <1>3. CASE IgnoreEvent(s)
    <2>1. UNCHANGED <<op, pipe>>
      BY <1>3 DEF IgnoreEvent
    <2>2. InHands'
      BY <1>1, <2>1 DEF Service, InHands
    <2>3. ASSUME NEW o \in Op, op[o].phase \in {"empty", "queued"}, op[o].stream = s,
                 s \in registered, pipe[s] # <<>>
          PROVE  s \in raced'
      <3>1. CASE op[o].phase = "empty"
        <4>1. o \in Waiting(s)
          BY <2>3, <3>1 DEF Waiting
        <4> QED
          BY <1>3, <3>1, <4>1 DEF IgnoreEvent
      <3>2. CASE op[o].phase = "queued"
        <4>1. header[s] = o /\ header[s] # nullptr
          BY <2>3, <3>2 DEF Lists, Queues, Op, nullptr
        <4>2. WouldBlock(s)
          BY <1>3, <2>3, <4>1 DEF IgnoreEvent
        <4> QED
          BY <2>3, <4>2 DEF WouldBlock
      <3> QED
        BY <2>3, <3>1, <3>2
    <2> QED
      BY <1>1, <1>2, <2>1, <2>2, <2>3 DEF Service, Noticed
  <1>4. CASE PerformEvent(s)
    <2>1. PICK o \in Op :
          /\ o = header[s] /\ o # nullptr /\ op'[o].phase = "performed"
          /\ \A p \in Op \ {o} : op'[p] = op[p]
      BY <1>4, PerformEventStep DEF Op, nullptr
    <2>2. op[o].phase = "queued" /\ op[o].stream = s /\ Waits(o)
      BY <2>1 DEF Lists, Queues, Waits
    <2>3. pipe' = Drain(s)
      BY <1>4, <2>1, <2>2 DEF PerformEvent
    <2>4. \A r \in Stream \ {s} : pipe'[r] = pipe[r]
      BY <2>3, ReadStep DEF TypeInv
    <2>5. InHands'
      BY <1>1, <2>1 DEF Service, InHands
    <2>6. ASSUME NEW p \in Op, op'[p].phase \in {"empty", "queued"}
          PROVE  op'[p] = op[p] /\ op[p].stream \in Stream \ {s}
      <3>1. op'[p] = op[p] /\ p # o
        BY <2>1, <2>6
      <3>2. op[p].stream # s
        BY <2>2, <2>6, <3>1 DEF Lists, Alone, Waits
      <3> QED
        BY <2>6, <3>1, <3>2 DEF TypeInv, GotFits
    <2> QED
      BY <1>1, <1>2, <2>4, <2>5, <2>6 DEF Service, Noticed
  <1> QED
    BY <1>3, <1>4

\* A step that only moves an operation on.
LEMMA MoveService ==
  ASSUME TypeInv, Service, InHands', SleepersAreIdle', WaitsForNone',
         NEW o \in Op, NEW to \in Phase \ {"free", "empty"},
         op' = [op EXCEPT ![o].phase = to], op[o].phase # "free",
         to = "queued" => op[o].phase \in {"empty", "queued"},
         UNCHANGED <<pipe, edge, raised, registered, raced>>
  PROVE  Service'
  <1>1. \A p \in Op : /\ op'[p].stream = op[p].stream
                      /\ op'[p].phase = IF p = o THEN to ELSE op[p].phase
    BY ZenonT(60), PhaseStep
  <1> QED
    BY <1>1, ServiceKept

LEMMA QuietService ==
  ASSUME TypeInv, TypeInv', Lists, Service, QuietNext
  PROVE  Service'
  <1>1. UNCHANGED <<op, reading, calling, registered>>
    BY TypeQuiet
  <1>2. InHands'
    BY <1>1 DEF Service, InHands
  <1>3. main \in Client /\ Client = {main} /\ sleep \in [Client -> {"no", "waiting", "woken"}]
    BY ExecAssumption DEF TypeInv, TypeOK
  <1>4. SleepersAreIdle'
    <2>1. sleep'[main] # "no" => sleep[main] # "no" \/ Idle(main)
      BY <1>3 DEF QuietNext, Write, EndStream, IgnoreEvent, CrashInEvent, Sleep, CrashInPop,
         ReturnEmpty, CrashInComplete, SpuriousWakeup, TimeOut, EventsWait, EndRound,
         EndDispatcher, CrashInRound, CloseEvents, JoinDispatcher, Rest, Crash, threads
    <2> QED
      BY <1>1, <2>1 DEF Service, SleepersAreIdle, Idle
  <1>5. WaitsForNone'
    BY DEF Service, WaitsForNone, QuietNext, Write, EndStream, IgnoreEvent, CrashInEvent, Sleep,
       CrashInPop, ReturnEmpty, CrashInComplete, SpuriousWakeup, TimeOut, EventsWait, EndRound,
       EndDispatcher, CrashInRound, CloseEvents, JoinDispatcher, Rest, Crash, FinishEvent, loop
  <1>6. CASE \E s \in Stream : Write(s) \/ EndStream(s)
    <2>1. PICK s \in Stream : Write(s) \/ EndStream(s)
      BY <1>6
    <2>2. /\ \A r \in Stream \ {s} : pipe'[r] = pipe[r] /\ edge'[r] = edge[r]
          /\ edge'[s] = (s \in registered) /\ UNCHANGED <<raised, raced>>
      BY ZenonT(60), <2>1 DEF Write, EndStream, loop, history, TypeInv, TypeOK
    <2>3. registered \subseteq Stream
      BY DEF TypeInv, TypeOK
    <2> QED
      BY <1>1, <1>2, <1>4, <1>5, <2>2, <2>3, ServiceKept
  <1>7. CASE EventsWait
    <2>1. /\ raised' = {s \in Stream : edge[s]} /\ edge' = [s \in Stream |-> FALSE]
          /\ UNCHANGED <<pipe, raced>> /\ dispatcher = "waiting"
      BY <1>7 DEF EventsWait, history
    <2>2. raised = {} /\ registered \subseteq Stream
      BY <2>1 DEF Service, WaitsForNone, TypeInv, TypeOK
    <2> QED
      BY <1>1, <1>2, <1>4, <1>5, <2>1, <2>2 DEF Service, Noticed
  <1>8. CASE \E s \in Stream : IgnoreEvent(s)
    BY <1>8, EventService
  <1>9. CASE ~(EventsWait \/ \E s \in Stream : Write(s) \/ EndStream(s) \/ IgnoreEvent(s))
    <2>1. UNCHANGED <<pipe, edge, raised, raced>>
      BY <1>9 DEF QuietNext, CrashInEvent, Sleep, CrashInPop, ReturnEmpty,
         CrashInComplete, SpuriousWakeup, TimeOut, EndRound, EndDispatcher, CrashInRound,
         CloseEvents, JoinDispatcher, Rest, Crash, kernel, loop, history
    <2> QED
      BY <1>1, <1>2, <1>4, <1>5, <2>1, ServiceKept
  <1> QED
    BY <1>6, <1>7, <1>8, <1>9

LEMMA ServiceNext ==
  ASSUME TypeInv, TypeInv', Lists, Service, [Next]_vars, doubled' = {}
  PROVE  Service'
  <1>1. Client = {main} /\ \A o \in Op : o # nullptr
    BY ExecAssumption DEF Op, nullptr
  <1>2. /\ reading \in [Client -> Pointer] /\ calling \in [Client -> Pointer]
        /\ sleep \in [Client -> {"no", "waiting", "woken"}]
    BY DEF TypeInv, TypeOK
  <1>3. CASE UNCHANGED vars
    BY <1>3, ServiceKept DEF vars, kernel, lists, threads, loop, service, history, Service,
       InHands, SleepersAreIdle, WaitsForNone, Idle
  <1>4. CASE QuietNext
    BY <1>4, QuietService
  <1>5. ASSUME NEW s \in Stream, TryRead(main, s) PROVE Service'
    <2>1. ~Asked(s)
      BY <1>5 DEF TryRead, Asked
    <2> QED
      BY <1>5, <2>1, TryReadService
  <1>6. ASSUME PushReadOp(main) PROVE Service'
    <2>1. PICK o \in Op : /\ o = reading[main] /\ op[o].phase = "empty"
                          /\ op' = [op EXCEPT ![o].phase = "queued"]
      BY <1>1, <1>6, PushReadOpStep
    <2>2. /\ UNCHANGED <<pipe, edge, dispatcher, raised, registered, raced, calling, sleep>>
          /\ reading' = [reading EXCEPT ![main] = nullptr]
      BY <1>6 DEF PushReadOp, kernel, loop, service, history
    <2>3. "queued" \in Phase \ {"free"} /\ "queued" # "empty" /\ op[o].phase # "free"
      BY <2>1 DEF Phase
    <2>4. \A p \in Op : /\ op'[p].stream = op[p].stream
                        /\ op'[p].phase = IF p = o THEN "queued" ELSE op[p].phase
      <3>1. op' = [op EXCEPT ![o].phase = "queued"]
        BY <2>1
      <3> QED
        BY <2>3, <3>1, PhaseStep
    <2>5. InHands'
      BY <2>1, <2>2, <2>4 DEF Service, InHands
    <2>6. SleepersAreIdle' /\ WaitsForNone'
      BY <1>1, <1>2, <2>2 DEF Service, WaitsForNone, SleepersAreIdle, Idle
    <2> QED
      BY <2>1, <2>2, <2>3, <2>5, <2>6, MoveService
  <1>7. ASSUME Complete(main) PROVE Service'
    <2>1. PICK o \in Op : /\ o = reading[main] /\ op[o].phase = "answered"
                          /\ op' = [op EXCEPT ![o].phase = "completed"]
      BY <1>1, <1>7, CompleteStep
    <2>2. /\ UNCHANGED <<pipe, edge, dispatcher, raised, registered, raced, calling, sleep>>
          /\ reading' = [reading EXCEPT ![main] = nullptr]
      BY <1>7 DEF Complete, kernel, loop, service, history
    <2>3. "completed" \in Phase \ {"free"} /\ "completed" # "empty" /\ op[o].phase # "free"
      BY <2>1 DEF Phase
    <2>4. \A p \in Op : /\ op'[p].stream = op[p].stream
                        /\ op'[p].phase = IF p = o THEN "completed" ELSE op[p].phase
      <3>1. op' = [op EXCEPT ![o].phase = "completed"]
        BY <2>1
      <3> QED
        BY <2>3, <3>1, PhaseStep
    <2>5. InHands'
      BY <2>1, <2>2, <2>4 DEF Service, InHands
    <2>6. SleepersAreIdle' /\ WaitsForNone'
      BY <1>1, <1>2, <2>2 DEF Service, WaitsForNone, SleepersAreIdle, Idle
    <2> QED
      BY <2>1, <2>2, <2>3, <2>5, <2>6, MoveService
  <1>8. ASSUME Pop(main) PROVE Service'
    <2>1. PICK o \in Op : /\ o = completes.header /\ Done(o)
                          /\ op' = [op EXCEPT ![o].phase = "taken"]
      <3>1. completes.header # nullptr
        BY <1>8 DEF Pop
      <3> QED
        BY <1>1, <1>8, <3>1, PopStep, FirstIsDone DEF Lists
    <2>2. /\ UNCHANGED <<pipe, edge, dispatcher, raised, registered, raced, reading>>
          /\ calling' = [calling EXCEPT ![main] = o] /\ calling[main] = nullptr
          /\ sleep' = [sleep EXCEPT ![main] = "no"]
      BY <1>8, <2>1 DEF Pop, kernel, lists, loop, service, history, Idle
    <2>3. "taken" \in Phase \ {"free"} /\ "taken" # "empty" /\ op[o].phase # "free"
      BY <2>1 DEF Phase, Done
    <2>4. \A p \in Op : /\ op'[p].stream = op[p].stream
                        /\ op'[p].phase = IF p = o THEN "taken" ELSE op[p].phase
      <3>1. op' = [op EXCEPT ![o].phase = "taken"]
        BY <2>1
      <3> QED
        BY <2>3, <3>1, PhaseStep
    <2>5. InHands'
      BY <1>1, <1>2, <2>1, <2>2, <2>4 DEF Service, InHands
    <2>6. SleepersAreIdle' /\ WaitsForNone'
      BY <1>1, <1>2, <2>2 DEF Service, WaitsForNone, SleepersAreIdle
    <2> QED
      BY <2>1, <2>2, <2>3, <2>5, <2>6, MoveService
  <1>9. ASSUME Callback(main) PROVE Service'
    <2>1. PICK o \in Op : /\ o = calling[main] /\ op[o].phase = "taken"
                          /\ op' = [op EXCEPT ![o].phase = "called"]
      BY <1>1, <1>9, CallbackStep
    <2>2. UNCHANGED <<pipe, edge, dispatcher, raised, registered, raced, reading, calling, sleep>>
      BY <1>9 DEF Callback, kernel, threads, loop, service, history
    <2>3. "called" \in Phase \ {"free"} /\ "called" # "empty" /\ op[o].phase # "free"
      BY <2>1 DEF Phase
    <2>4. \A p \in Op : /\ op'[p].stream = op[p].stream
                        /\ op'[p].phase = IF p = o THEN "called" ELSE op[p].phase
      <3>1. op' = [op EXCEPT ![o].phase = "called"]
        BY <2>1
      <3> QED
        BY <2>3, <3>1, PhaseStep
    <2>5. InHands'
      BY <2>1, <2>2, <2>4 DEF Service, InHands
    <2>6. SleepersAreIdle' /\ WaitsForNone'
      BY <2>2 DEF Service, WaitsForNone, SleepersAreIdle, Idle
    <2> QED
      BY <2>1, <2>2, <2>3, <2>5, <2>6, MoveService
  <1>10. ASSUME Delete(main) PROVE Service'
    <2>1. /\ calling[main] # nullptr /\ op[calling[main]].phase = "called"
          /\ op'[calling[main]].phase = "free"
          /\ \A p \in Op \ {calling[main]} : op'[p] = op[p]
      BY <1>1, <1>10, DeleteStep
    <2>2. /\ UNCHANGED <<pipe, edge, dispatcher, raised, registered, raced, reading, sleep>>
          /\ calling' = [calling EXCEPT ![main] = nullptr]
      BY <1>10 DEF Delete, kernel, loop, service, history
    <2>3. InHands'
      BY <2>1, <2>2 DEF Service, InHands
    <2>4. SleepersAreIdle' /\ WaitsForNone'
      BY <1>1, <1>2, <2>1, <2>2 DEF Service, WaitsForNone, SleepersAreIdle, Idle
    <2> QED
      BY <2>1, <2>2, <2>3, <2>4, ServiceKept
  <1>11. ASSUME NEW s \in Stream, Unregister(s) PROVE Service'
    <2>1. /\ UNCHANGED <<op, pipe, dispatcher, raised, raced, reading, calling, sleep>>
          /\ registered' = registered \ {s} /\ edge' = [edge EXCEPT ![s] = FALSE]
      BY <1>11 DEF Unregister, threads, loop, history
    <2>2. \A r \in registered' : edge'[r] = edge[r]
      BY <2>1 DEF TypeInv, TypeOK
    <2>3. InHands' /\ SleepersAreIdle' /\ WaitsForNone'
      BY <2>1 DEF Service, InHands, SleepersAreIdle, WaitsForNone, Idle
    <2> QED
      BY <2>1, <2>2, <2>3, ServiceKept
  <1>12. CASE ListNext
    BY <1>1, <1>5, <1>6, <1>7, <1>8, <1>9, <1>10, <1>11, <1>12, EventService DEF ListNext
  <1> QED
    BY <1>3, <1>4, <1>12, NextSplit

\* The callback of a read of s is running, and has not asked again yet.
Called(s) ==
  /\ calling[main] # nullptr
  /\ op[calling[main]].phase = "called" /\ op[calling[main]].stream = s

\* A read waits until it is called back, and a callback runs until its operation is deleted.
LEMMA ReadsStay ==
  ASSUME TypeInv, Lists, [Next]_vars
  PROVE  /\ \A s \in Stream : Asked(s) /\ ~Callback(main) => Asked(s)'
         /\ \A s \in Stream : Called(s) /\ ~Delete(main) => Called(s)'
  <1> DEFINE Stays == /\ \A p \in Op : Waits(p) => Waits(p)' /\ op'[p].stream = op[p].stream
                      /\ \A s \in Stream : Called(s) => Called(s)'
  <1>1. /\ Client = {main} /\ calling \in [Client -> Pointer]
        /\ \A p \in Op : p # nullptr
    BY ExecAssumption DEF TypeInv, TypeOK, Op, nullptr
  <1>2. \A s \in Stream : Called(s) => calling[main] \in Op
    BY <1>1 DEF Called, Pointer
  <1>3. ASSUME Stays PROVE \A s \in Stream : Asked(s) => Asked(s)'
    BY <1>3 DEF Asked, Waiting, Waits
  <1>4. ASSUME UNCHANGED <<op, calling>> PROVE Stays
    BY <1>4 DEF Waits, Called
  <1>5. ASSUME UNCHANGED calling, NEW o \in Op, op[o].phase # "called",
               \A p \in Op \ {o} : op'[p] = op[p],
               Waits(o) => Waits(o)' /\ op'[o].stream = op[o].stream
        PROVE  Stays
    BY <1>2, <1>5 DEF Waits, Called
  <1>6. CASE UNCHANGED vars
    BY <1>3, <1>4, <1>6 DEF vars, threads
  <1>7. CASE QuietNext
    BY <1>3, <1>4, <1>7, TypeQuiet
  <1>8. ASSUME NEW s \in Stream, TryRead(main, s) PROVE Stays
    <2>1. PICK o \in Op : op[o].phase = "free" /\ \A p \in Op \ {o} : op'[p] = op[p]
      BY <1>1, <1>8, TryReadStep
    <2>2. calling' = calling
      BY <1>8 DEF TryRead
    <2> QED
      BY <1>5, <2>1, <2>2 DEF Waits
  <1>9. ASSUME NEW o \in Op, NEW to \in Phase \ {"free", "called"},
               op' = [op EXCEPT ![o].phase = to], op[o].phase \notin {"free", "called"},
               UNCHANGED calling
        PROVE  Stays
    <2>1. \A p \in Op : /\ op'[p].stream = op[p].stream
                        /\ op'[p].phase = IF p = o THEN to ELSE op[p].phase
      BY ZenonT(60), <1>9, PhaseStep
    <2> QED
      BY <1>2, <1>9, <2>1 DEF Waits, Called
  <1>10. ASSUME PushReadOp(main) PROVE Stays
    <2>1. PICK o \in Op : op[o].phase = "empty" /\ op' = [op EXCEPT ![o].phase = "queued"]
      BY <1>1, <1>10, PushReadOpStep
    <2>2. "queued" \in Phase \ {"free", "called"} /\ calling' = calling
      BY <1>10 DEF Phase, PushReadOp
    <2> QED
      BY <1>9, <2>1, <2>2
  <1>11. ASSUME Complete(main) PROVE Stays
    <2>1. PICK o \in Op : op[o].phase = "answered" /\ op' = [op EXCEPT ![o].phase = "completed"]
      BY <1>1, <1>11, CompleteStep
    <2>2. "completed" \in Phase \ {"free", "called"} /\ calling' = calling
      BY <1>11 DEF Phase, Complete
    <2> QED
      BY <1>9, <2>1, <2>2
  <1>12. ASSUME Pop(main) PROVE Stays
    <2>1. PICK o \in Op : Done(o) /\ op' = [op EXCEPT ![o].phase = "taken"]
      <3>1. completes.header # nullptr
        BY <1>12 DEF Pop
      <3> QED
        BY <1>1, <1>12, <3>1, PopStep, FirstIsDone DEF Lists
    <2>2. "taken" \in Phase \ {"free", "called"} /\ op[o].phase \notin {"free", "called"}
      BY <2>1 DEF Phase, Done
    <2>3. \A p \in Op : /\ op'[p].stream = op[p].stream
                        /\ op'[p].phase = IF p = o THEN "taken" ELSE op[p].phase
      <3>1. op' = [op EXCEPT ![o].phase = "taken"]
        BY <2>1
      <3>2. "taken" \in Phase \ {"free"} /\ op[o].phase # "free"
        BY <2>2
      <3> QED
        BY <3>1, <3>2, PhaseStep
    <2>4. calling[main] = nullptr
      BY <1>12 DEF Pop, Idle
    <2> QED
      BY <2>2, <2>3, <2>4 DEF Waits, Called
  <1>13. ASSUME NEW s \in Stream, PerformEvent(s) PROVE Stays
    <2>1. PICK o \in Op :
          /\ o = header[s] /\ o # nullptr
          /\ op'[o].phase = "performed" /\ op'[o].stream = op[o].stream
          /\ \A p \in Op \ {o} : op'[p] = op[p]
      BY <1>13, PerformEventStep DEF Op, nullptr
    <2>2. op[o].phase = "queued"
      BY <2>1 DEF Lists, Queues
    <2>3. calling' = calling
      BY <1>13 DEF PerformEvent, FinishEvent
    <2> QED
      BY <1>5, <2>1, <2>2, <2>3 DEF Waits
  <1>14. ASSUME NEW s \in Stream, Unregister(s) PROVE Stays
    BY <1>4, <1>14 DEF Unregister, threads
  <1>15. CASE Callback(main)
    <2>1. op[calling[main]].phase = "taken"
      BY <1>15 DEF Callback
    <2> QED
      BY <1>15, <2>1 DEF Called
  <1>16. CASE Delete(main)
    <2>1. /\ op[calling[main]].phase = "called"
          /\ \A p \in Op \ {calling[main]} : op'[p] = op[p]
      BY <1>1, <1>16, DeleteStep
    <2> QED
      BY <1>16, <2>1 DEF Asked, Waiting
  <1>17. CASE ListNext /\ ~Callback(main) /\ ~Delete(main)
    <2>1. Stays
      BY <1>1, <1>8, <1>10, <1>11, <1>12, <1>13, <1>14, <1>17 DEF ListNext
    <2> QED
      BY <1>3, <2>1
  <1> QED
    BY <1>6, <1>7, <1>15, <1>16, <1>17, NextSplit

\* When run_one's time is over with nothing at hand, what was written has been delivered,
\* but for the streams whose edge was lost.
LEMMA NothingLeft ==
  ASSUME TypeInv, Lists, Data, Service, registered = Stream, sleep[main] # "no", ~AtHand,
         NEW s \in Stream \ raced, Asked(s) \/ Called(s)
  PROVE  delivered[s] = sent[s]
  <1>1. reading[main] = nullptr /\ calling[main] = nullptr
    BY DEF Service, SleepersAreIdle, Idle
  <1>2. PICK o \in Op : op[o].stream = s /\ op[o].phase \notin {"free", "called"}
    BY <1>1 DEF Called, Asked, Waiting
  <1>3. o # nullptr /\ op[o].phase \in Phase
    <2>1. op[o] \in Record
      BY DEF TypeInv, TypeOK
    <2> QED
      BY <2>1 DEF Op, nullptr, Record
  <1>4. ~Done(o)
    <2> DEFINE done == {p \in Op : Done(p)}
    <2>1. done # {} => Firsts(done) = {completes.header}
      BY ChainIsSound DEF Lists
    <2>2. completes.header = nullptr
      BY DEF AtHand, Empty
    <2>3. nullptr \notin done
      BY DEF Op, nullptr
    <2> HIDE DEF done
    <2>4. done = {}
      BY <2>1, <2>2, <2>3 DEF Firsts
    <2> QED
      BY <2>4 DEF done
  <1>5. op[o].phase = "queued"
    BY <1>1, <1>2, <1>3, <1>4 DEF Service, InHands, Phase, Done
  <1>6. pipe[s] = <<>>
    BY <1>2, <1>5 DEF Service, Noticed, AtHand
  <1>7. Kept(o)
    BY <1>5 DEF Data, Waits
  <1>8. sent[s] = delivered[s] \o (<<>> \o <<>>)
    BY <1>2, <1>5, <1>6, <1>7, Zenon DEF Kept
  <1>9. delivered[s] \in Seq(Byte) /\ <<>> \in Seq(Byte)
    BY EmptySeq DEF TypeInv, TypeOK
  <1>10. delivered[s] \o (<<>> \o <<>>) = delivered[s]
    BY <1>9, ConcatEmptySeq
  <1> QED
    BY <1>8, <1>10

\* Without pipes nothing is written and the service is not run.
PipesOrNot ==
  /\ options \in {"none", "pipes"}
  /\ options = "none" => at \notin {"make", "pump", "drain", "nap", "doze"} /\ delivered = sent

\* The streams are there until the destructor.
AllRegistered == at \notin {"destroy", "gone"} => registered = Stream

\* The service is drained after the child's end.
EndIsKnown == at \in {"drain", "doze", "join"} => joined

\* From the constructor on every stream is being read, or its callback is about to.
AlwaysAsked ==
  options = "pipes" /\ at # "make" => \A s \in Stream : Asked(s) \/ Called(s)

\* What is left when the service has been drained.
Settled == at \in {"doze", "join"} /\ ~late => \A s \in Stream \ raced : delivered[s] = sent[s]

ExecInv ==
  /\ SingleReads /\ Service /\ Reported
  /\ PipesOrNot /\ AllRegistered /\ EndIsKnown /\ AlwaysAsked /\ Settled

LEMMA ExecInvInit == ExecInit => ExecInv
  <1> SUFFICES ASSUME ExecInit PROVE ExecInv
    OBVIOUS
  <1>1. \A o \in Op : op[o].phase = "free"
    BY DEF ExecInit, Init, NoOp
  <1>2. Service
    BY <1>1, ExecAssumption DEF ExecInit, Init, Service, InHands, Noticed, SleepersAreIdle,
       WaitsForNone
  <1>3. options = "pipes" => at = "make"
    BY DEF ExecInit
  <1>4. PipesOrNot /\ AllRegistered /\ EndIsKnown /\ AlwaysAsked /\ Settled
    BY <1>3 DEF ExecInit, Init, PipesOrNot, AllRegistered, EndIsKnown, AlwaysAsked, Settled
  <1> QED
    BY <1>2, <1>4, SingleReadsInit, ReportedInit DEF ExecInv

\* The steps of the script and of the waiting thread that do not run the service.
Outside ==
  \/ Start \/ ForkFails \/ ReplaceSelf \/ Wait \/ Destroy \/ Look \/ WakeUp
  \/ NapEnds \/ JoinWaiter \/ SpuriousReturn \/ Reap \/ NoChild \/ Report
  \/ \E how \in {"exited", "failed", "killed"} : ChildEnd(how)

LEMMA ExecSplit ==
  ASSUME ExecNext
  PROVE  \/ Outside \/ MakeReads \/ Pump \/ ReadAgain \/ PumpEnds \/ Dispatch \/ DestroyService
         \/ \E s \in Stream : ChildWrite(s)
  BY DEF ExecNext, Script, MainInWait, Child, Outside

LEMMA OutsideKeeps ==
  ASSUME Outside
  PROVE  UNCHANGED vars /\ options' = options /\ late' = late
  BY DEF Outside, Start, ForkFails, NewWaiter, ReplaceSelf, Wait, Destroy, Look, WakeUp,
     NapEnds, JoinWaiter, SpuriousReturn, Goto, Reap, NoChild, Report, ChildEnd, object, outcome

\* Bytes are written by the child and given to the callbacks of the service only.
LEMMA BytesKept ==
  ASSUME [ExecNext]_allVars, ~(\E s \in Stream : ChildWrite(s)), ~Pump
  PROVE  UNCHANGED <<sent, delivered>>
  <1>1. CASE UNCHANGED allVars
    BY <1>1 DEF allVars, vars, kernel
  <1>2. CASE Outside
    BY <1>2, OutsideKeeps DEF vars, kernel
  <1>3. CASE MakeReads \/ ReadAgain
    BY <1>3 DEF MakeReads, ReadAgain, TryRead, FinishRead, PushReadOp, Complete,
       CrashInComplete, Delete, Crash, vars, kernel
  <1>4. CASE PumpEnds \/ DestroyService
    BY <1>4 DEF PumpEnds, TimeOut, Rest, DestroyService, Unregister, CloseEvents,
       JoinDispatcher, kernel
  <1>5. CASE Dispatch
    BY <1>5 DEF Dispatch, Process, EventsWait, EndRound, EndDispatcher, CrashInRound,
       IgnoreEvent, PerformEvent, CrashInEvent, FinishEvent, Crash, kernel
  <1> QED
    BY <1>1, <1>2, <1>3, <1>4, <1>5, ExecSplit

\* An edge that was lost is not forgotten.
LEMMA RacedStays == [Next]_vars => raced \subseteq raced'
  BY DEF Next, Process, FinishRead, RunOne, Write, EndStream, Unregister, TryRead, PushReadOp,
         Complete, CrashInComplete, Sleep, Pop, CrashInPop, ReturnEmpty, Callback, Delete,
         SpuriousWakeup, TimeOut, Rest, Crash, EventsWait, EndRound, EndDispatcher,
         CrashInRound, IgnoreEvent, PerformEvent, CrashInEvent, FinishEvent, CloseEvents,
         JoinDispatcher, vars, history

LEMMA PipesNext ==
  ASSUME PipesOrNot, [ExecNext]_allVars
  PROVE  PipesOrNot'
  <1>1. options' = options
    BY ExecSplit, OutsideKeeps DEF MakeReads, Pump, ReadAgain, PumpEnds, Dispatch,
       DestroyService, ChildWrite, allVars, execVars, object
  <1> SUFFICES ASSUME options = "none"
               PROVE  /\ at' \notin {"make", "pump", "drain", "nap", "doze"}
                      /\ delivered' = sent'
    BY <1>1 DEF PipesOrNot
  <1>2. /\ at \notin {"make", "pump", "drain", "nap", "doze"} /\ delivered = sent
    BY DEF PipesOrNot
  <1>3. delivered' = sent'
    BY <1>2, BytesKept DEF ChildWrite, Pump, InService
  <1>4. at' \notin {"make", "pump", "drain", "nap", "doze"}
    <2>1. CASE Outside
      BY <1>2, <2>1 DEF Outside, Start, ForkFails, NewWaiter, ReplaceSelf, Wait, Destroy, Look,
         WakeUp, NapEnds, JoinWaiter, SpuriousReturn, Goto, Reap, NoChild, Report, ChildEnd
    <2>2. CASE Dispatch \/ DestroyService \/ (\E s \in Stream : ChildWrite(s)) \/ UNCHANGED allVars
      BY <1>2, <2>2 DEF Dispatch, DestroyService, ChildWrite, allVars, execVars
    <2> QED
      BY <1>2, <2>1, <2>2, ExecSplit DEF MakeReads, Pump, ReadAgain, InCallback, InService,
         PumpEnds
  <1> QED
    BY <1>3, <1>4

LEMMA RegisteredNext ==
  ASSUME AllRegistered, [ExecNext]_allVars
  PROVE  AllRegistered'
  <1>1. CASE DestroyService
    BY <1>1 DEF DestroyService, AllRegistered
  <1>2. CASE ~DestroyService
    <2>1. registered' = registered
      <3>1. CASE Outside \/ UNCHANGED allVars
        BY <3>1, OutsideKeeps DEF allVars, vars, service
      <3>2. CASE MakeReads \/ ReadAgain
        BY <3>2 DEF MakeReads, ReadAgain, TryRead, FinishRead, PushReadOp, Complete,
           CrashInComplete, Delete, Crash, vars, service
      <3>3. CASE Pump \/ PumpEnds \/ \E s \in Stream : ChildWrite(s)
        BY <3>3 DEF Pump, Sleep, SpuriousWakeup, ReturnEmpty, Pop, Callback, PumpEnds, TimeOut,
           Rest, ChildWrite, Write, service
      <3>4. CASE Dispatch
        BY <3>4 DEF Dispatch, Process, EventsWait, EndRound, EndDispatcher, CrashInRound,
           IgnoreEvent, PerformEvent, CrashInEvent, FinishEvent, Crash, service
      <3> QED
        BY <1>2, <3>1, <3>2, <3>3, <3>4, ExecSplit
    <2>2. at' \notin {"destroy", "gone"} => at \notin {"destroy", "gone"}
      <3>1. CASE Outside
        BY <3>1 DEF Outside, Start, ForkFails, NewWaiter, CanStart, ReplaceSelf, Wait, Destroy,
           Look, WakeUp, NapEnds, JoinWaiter, SpuriousReturn, Goto, Reap, NoChild, Report,
           Running, ChildEnd
      <3> QED
        BY <1>2, <3>1, ExecSplit DEF MakeReads, Pump, ReadAgain, InCallback, InService, PumpEnds,
           Dispatch, ChildWrite, allVars, execVars
    <2> QED
      BY <2>1, <2>2 DEF AllRegistered
  <1> QED
    BY <1>1, <1>2

LEMMA EndIsKnownNext ==
  ASSUME EndIsKnown, [ExecNext]_allVars
  PROVE  EndIsKnown'
  <1>1. CASE Outside
    BY <1>1 DEF Outside, Start, ForkFails, NewWaiter, CanStart, ReplaceSelf, Wait, Destroy,
       Look, WakeUp, NapEnds, JoinWaiter, SpuriousReturn, Goto, Reap, NoChild, Report,
       ChildEnd, EndIsKnown, object, outcome
  <1> QED
    BY <1>1, ExecSplit DEF MakeReads, Pump, ReadAgain, InCallback, InService, PumpEnds,
       DestroyService, Dispatch, ChildWrite, allVars, execVars, object, EndIsKnown

\* An operation is deleted only when its callback has asked for the next read.
LEMMA DeleteIsLate ==
  ASSUME TypeInv, [ExecNext]_allVars, Delete(main)
  PROVE  Asked(op[calling[main]].stream)
  <1>1. calling[main] # nullptr /\ calling'[main] = nullptr
    BY ExecAssumption DEF Delete, TypeInv, TypeOK
  <1>2. CASE ReadAgain
    <2>1. CASE FinishRead(main) \/ TryRead(main, op[calling[main]].stream)
      BY <1>1, <2>1 DEF FinishRead, PushReadOp, Complete, CrashInComplete, Crash, TryRead, threads
    <2> QED
      BY <1>2, <2>1 DEF ReadAgain
  <1>3. CASE Outside \/ UNCHANGED allVars
    BY <1>1, <1>3, OutsideKeeps DEF allVars, vars, threads
  <1>4. CASE MakeReads
    BY <1>1, <1>4 DEF MakeReads, TryRead, FinishRead, PushReadOp, Complete, CrashInComplete,
       Crash, vars, threads
  <1>5. CASE Pump \/ PumpEnds \/ \E s \in Stream : ChildWrite(s)
    BY <1>1, <1>5 DEF Pump, Sleep, SpuriousWakeup, ReturnEmpty, Pop, Idle, Callback, PumpEnds,
       TimeOut, Rest, ChildWrite, Write, threads
  <1>6. CASE Dispatch
    BY <1>1, <1>6 DEF Dispatch, Process, EventsWait, EndRound, EndDispatcher, CrashInRound,
       IgnoreEvent, PerformEvent, CrashInEvent, FinishEvent, Crash, threads
  <1>7. CASE DestroyService
    BY <1>1, <1>7 DEF DestroyService, Unregister, CloseEvents, JoinDispatcher, threads
  <1> QED
    BY <1>2, <1>3, <1>4, <1>5, <1>6, <1>7, ExecSplit

LEMMA CallbackKeeps ==
  ASSUME TypeInv, NEW s \in Stream, Asked(s), Callback(main)
  PROVE  Asked(s)' \/ Called(s)'
  <1>1. PICK c \in Op : /\ c = calling[main] /\ op[c].phase = "taken"
                        /\ op' = [op EXCEPT ![c].phase = "called"]
    BY CallbackStep, ExecAssumption
  <1>2. calling' = calling /\ \A p \in Op : p # nullptr
    BY DEF Callback, threads, Op, nullptr
  <1>3. \A p \in Op : /\ op'[p].stream = op[p].stream
                      /\ op'[p].phase = IF p = c THEN "called" ELSE op[p].phase
    <2>1. op' = [op EXCEPT ![c].phase = "called"]
      BY <1>1
    <2>2. "called" \in Phase \ {"free"} /\ op[c].phase # "free"
      BY <1>1 DEF Phase
    <2> QED
      BY <2>1, <2>2, PhaseStep
  <1>4. PICK o \in Op : op[o].stream = s /\ op[o].phase \notin {"free", "called"}
    BY DEF Asked, Waiting
  <1>5. CASE o = c
    BY <1>1, <1>2, <1>3, <1>4, <1>5 DEF Called
  <1>6. CASE o # c
    BY <1>3, <1>4, <1>6 DEF Asked, Waiting
  <1> QED
    BY <1>5, <1>6

LEMMA AlwaysAskedNext ==
  ASSUME TypeInv, Lists, AlwaysAsked, PipesOrNot, [ExecNext]_allVars, [Next]_vars
  PROVE  AlwaysAsked'
  <1>1. options' = options
    BY ExecSplit, OutsideKeeps DEF MakeReads, Pump, ReadAgain, PumpEnds, Dispatch,
       DestroyService, ChildWrite, allVars, execVars, object
  <1> SUFFICES ASSUME options = "pipes", at' # "make", NEW s \in Stream
               PROVE  Asked(s)' \/ Called(s)'
    BY <1>1 DEF AlwaysAsked
  <1>2. CASE MakeReads
    BY <1>2 DEF MakeReads, Asked, Waiting, vars
  <1>3. CASE ~MakeReads
    <2>1. at # "make"
      <3>1. CASE Outside
        BY <3>1 DEF Outside, Start, ForkFails, NewWaiter, CanStart, ReplaceSelf, Wait, Destroy,
           Look, WakeUp, NapEnds, JoinWaiter, SpuriousReturn, Goto, Reap, NoChild, Report,
           Running, ChildEnd
      <3> QED
        BY <1>3, <3>1, ExecSplit DEF Pump, ReadAgain, InCallback, InService, PumpEnds,
           DestroyService, Dispatch, ChildWrite, allVars, execVars
    <2>2. Asked(s) \/ Called(s)
      BY <2>1 DEF AlwaysAsked
    <2>3. CASE Callback(main)
      <3>1. ~Called(s)
        BY <2>3 DEF Callback, Called
      <3> QED
        BY <2>2, <2>3, <3>1, CallbackKeeps
    <2>4. CASE Delete(main)
      <3>1. Asked(s) /\ ~Callback(main)
        BY <2>2, <2>4, DeleteIsLate DEF Called, Delete, Callback
      <3> QED
        BY <3>1, ReadsStay
    <2> QED
      BY <2>2, <2>3, <2>4, ReadsStay
  <1> QED
    BY <1>2, <1>3

LEMMA SettledNext ==
  ASSUME ExecInv, [ExecNext]_allVars, [Next]_vars
  PROVE  Settled'
  <1> SUFFICES ASSUME at' \in {"doze", "join"}, ~late', NEW s \in Stream \ raced'
               PROVE  delivered'[s] = sent'[s]
    BY DEF Settled
  <1>1. s \in Stream \ raced
    BY RacedStays
  <1>2. CASE PumpEnds
    <2>1. /\ at = "drain" /\ ~late /\ ~AtHand /\ sleep[main] # "no"
          /\ UNCHANGED <<delivered, sent>>
      BY <1>2 DEF PumpEnds, InService, TimeOut, Rest, kernel
    <2>2. options = "pipes" /\ registered = Stream
      BY <2>1 DEF ExecInv, PipesOrNot, AllRegistered
    <2>3. Asked(s) \/ Called(s)
      BY <2>1, <2>2 DEF ExecInv, AlwaysAsked
    <2>4. TypeInv /\ Lists /\ Data /\ Service
      BY DEF ExecInv, SingleReads, DataInv, ListInv
    <2> QED
      BY <1>1, <2>1, <2>2, <2>3, <2>4, NothingLeft
  <1>3. CASE Look
    <2>1. options = "none" /\ UNCHANGED vars
      BY <1>3 DEF Look, Goto
    <2> QED
      BY <2>1 DEF ExecInv, PipesOrNot, vars, kernel
  <1>4. CASE ~PumpEnds /\ ~Look
    <2>1. at \in {"doze", "join"} /\ ~late
      <3>1. CASE Outside
        <4>1. ~late
          BY <3>1, OutsideKeeps
        <4>2. CASE Start \/ ForkFails \/ ReplaceSelf
          BY <4>1, <4>2 DEF Start, ForkFails, NewWaiter, CanStart, ReplaceSelf
        <4>3. CASE Wait \/ Destroy \/ WakeUp \/ NapEnds \/ JoinWaiter \/ SpuriousReturn
          BY <4>1, <4>3 DEF Wait, Destroy, WakeUp, NapEnds, JoinWaiter, SpuriousReturn, Goto
        <4>4. CASE \/ Reap \/ NoChild \/ Report
                   \/ \E how \in {"exited", "failed", "killed"} : ChildEnd(how)
          BY <4>1, <4>4 DEF Reap, NoChild, Report, ChildEnd
        <4> QED
          BY <1>4, <3>1, <4>2, <4>3, <4>4 DEF Outside
      <3> QED
        BY <1>4, <3>1, ExecSplit DEF MakeReads, Pump, ReadAgain, InCallback, InService,
           DestroyService, Dispatch, ChildWrite, allVars, execVars, outcome
    <2>2. child = "none"
      BY <2>1 DEF ExecInv, EndIsKnown, Reported
    <2>3. UNCHANGED <<sent, delivered>>
      BY <2>1, <2>2, BytesKept DEF ChildWrite, Pump, InService
    <2> QED
      BY <1>1, <2>1, <2>3 DEF ExecInv, Settled
  <1> QED
    BY <1>2, <1>3, <1>4

LEMMA ExecInvNext == ExecInv /\ [ExecNext]_allVars => ExecInv'
  <1> SUFFICES ASSUME ExecInv, [ExecNext]_allVars PROVE ExecInv'
    OBVIOUS
  <1>1. SingleReads' /\ Reported'
    BY SingleReadsNext, ReportedNext DEF ExecInv
  <1>2. /\ TypeInv /\ TypeInv' /\ Lists /\ doubled' = {}
        /\ Service /\ AlwaysAsked /\ PipesOrNot /\ AllRegistered /\ EndIsKnown
    BY <1>1 DEF ExecInv, SingleReads, DataInv, ListInv
  <1>3. [Next]_vars
    BY <1>2, ServiceStep
  <1>4. Service'
    BY <1>2, <1>3, ServiceNext
  <1>5. PipesOrNot' /\ AllRegistered' /\ EndIsKnown' /\ AlwaysAsked' /\ Settled'
    BY <1>2, <1>3, PipesNext, RegisteredNext, EndIsKnownNext, AlwaysAskedNext, SettledNext
  <1> QED
    BY <1>1, <1>4, <1>5 DEF ExecInv

\* When wait() returns, the callbacks have been given all that the child has written, but
\* for the streams whose edge was lost and unless the time of run_one passed with work at
\* hand (exec.hpp:158-161, 215-236; reactor_io_service.hpp:195-218).
THEOREM OutputArrivesInTime == ExecSpec => OutputArrives
  <1> DEFINE Good == at = "join" /\ at' = "idle" /\ ~late =>
                       \A s \in Stream \ raced : delivered[s] = sent[s]
  <1>1. ExecInv => Good
    BY DEF ExecInv, Settled
  <1>2. ExecInv /\ [ExecNext]_allVars => [Good]_allVars
    BY <1>1
  <1> QED
    BY <1>2, ExecInvInit, ExecInvNext, PTL DEF ExecSpec, OutputArrives

=============================================================================
