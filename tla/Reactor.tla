------------------------------ MODULE Reactor ------------------------------
(***************************************************************************)
(* The io service of lemon on epoll and kqueue (lemon/io/reactor_*.hpp).   *)
(*                                                                         *)
(* A read that finds no bytes queues an operation on its stream.  The      *)
(* dispatcher thread waits for edges of the descriptors, performs the      *)
(* first operation of each stream that has one and moves it to the         *)
(* completion queue, from which run_one takes operations and calls their   *)
(* callbacks.  Both queues are linked through the same field "next", so    *)
(* the lists are modelled pointer by pointer; 0 is nullptr.                *)
(*                                                                         *)
(* What is done under the mutex of the service is one step.  read() tries  *)
(* the descriptor before it takes the mutex; that is a step of its own.    *)
(* The kernel's pipes, and the processes that write to them, are external. *)
(***************************************************************************)
EXTENDS Naturals, Sequences, FiniteSets, FiniteSetsExt

CONSTANTS
  Stream,        \* descriptors that are registered
  Client,        \* threads that call read and run_one
  Buffer,        \* memory that reads fill
  BufferOf,      \* BufferOf[s]: the buffer that the reads of s are given
  BufferLength,  \* bytes that one read takes at most
  Outstanding,   \* bound: reads of one stream that wait for their callback
  MaxOps,        \* bound: operations that exist at once
  MaxBytes       \* bound: bytes written to all streams

ASSUME ReactorAssumption ==
  /\ BufferOf \in [Stream -> Buffer]
  /\ {BufferLength, Outstanding, MaxOps, MaxBytes} \subseteq Nat \ {0}

Op == 1..MaxOps
nullptr == 0
Pointer == Op \cup {nullptr}

VARIABLES
  pipe,        \* pipe[s]: bytes in the kernel
  end,         \* end[s]: the writing side is open, or gone ("eof", "error")
  edge,        \* edge[s]: epoll has an event of s to report
  header,      \* header[s]: _read_header of the stream's object
  tail,        \* tail[s]: _read_tail
  completes,   \* _complete_header and _complete_tail, a record
  next,        \* next[o]: the link of operation o
  op,          \* op[o]: what is known of operation o
  reading,     \* reading[t]: the operation of a read that t is in
  calling,     \* calling[t]: the operation that run_one has taken
  sleep,       \* sleep[t]: t in the wait of run_one
  dispatcher,  \* where the dispatcher thread is
  raised,      \* the streams of the events it has
  registered,  \* _handlers: the streams the service knows
  alive,       \* the service: up, its descriptor closed, gone; or crashed
  buffer,      \* buffer[b]: bytes in memory
  sent,        \* history: bytes written
  delivered,   \* history: bytes given to callbacks
  raced,       \* history: streams whose edge came inside a read()
  doubled      \* history: streams with two reads at once

kernel  == <<pipe, end, edge, sent>>
lists   == <<header, tail, next>>
threads == <<reading, calling, sleep>>
loop    == <<dispatcher, raised>>
service == <<registered, alive>>
history == <<raced, doubled>>
vars    == <<kernel, lists, completes, op, threads, loop, service, buffer, delivered, history>>

\* phase: free; made by a read() that found nothing ("empty"), or something ("answered");
\* queued on its stream; in the completion queue, put there by complete() ("completed") or
\* by the dispatcher ("performed"); taken by run_one; called: in its callback.
\* action: an operation that was made with its answer has no _action.
NoOp  == [phase |-> "free", stream |-> CHOOSE s \in Stream : TRUE, got |-> <<>>,
          action |-> "none"]

-----------------------------------------------------------------------------
Init ==
  /\ pipe = [s \in Stream |-> <<>>] /\ sent = [s \in Stream |-> <<>>]
  /\ end = [s \in Stream |-> "open"] /\ edge = [s \in Stream |-> FALSE]
  /\ header = [s \in Stream |-> nullptr] /\ tail = [s \in Stream |-> nullptr]
  /\ completes = [header |-> nullptr, tail |-> nullptr]
  /\ next = [o \in Op |-> nullptr] /\ op = [o \in Op |-> NoOp]
  /\ reading = [t \in Client |-> nullptr] /\ calling = [t \in Client |-> nullptr]
  /\ sleep = [t \in Client |-> "no"]
  /\ dispatcher = "waiting" /\ raised = {} /\ registered = Stream /\ alive = "up"
  /\ buffer = [b \in Buffer |-> <<>>]
  /\ delivered = [s \in Stream |-> <<>>]
  /\ raced = {} /\ doubled = {}

Up == alive = "up"

\* The dispatcher holds the mutex from its first event of a round to the last.
MutexFree == Up /\ dispatcher # "locked"

-----------------------------------------------------------------------------
(* The other ends of the streams. *)

Write(s) ==
  /\ Up /\ end[s] = "open"
  /\ MapThenSumSet(LAMBDA r : Len(sent[r]), Stream) < MaxBytes
  /\ LET b == <<s, Len(sent[s]) + 1>> IN
       /\ pipe' = [pipe EXCEPT ![s] = Append(@, b)]
       /\ sent' = [sent EXCEPT ![s] = Append(@, b)]
  /\ edge' = [edge EXCEPT ![s] = s \in registered]
  /\ UNCHANGED <<end, lists, completes, op, threads, loop, service, buffer, delivered, history>>

\* The last writer closes its end, or the descriptor breaks.
EndStream(s) ==
  /\ Up /\ end[s] = "open"
  /\ end' = [end EXCEPT ![s] = "eof"] \/ end' = [end EXCEPT ![s] = "error"]
  /\ edge' = [edge EXCEPT ![s] = s \in registered]
  /\ UNCHANGED <<pipe, sent, lists, completes, op, threads, loop, service, buffer, delivered,
                 history>>

\* ::read: the bytes it takes; EAGAIN when it would block.
Available(s)  == SubSeq(pipe[s], 1, Min({BufferLength, Len(pipe[s])}))
WouldBlock(s) == pipe[s] = <<>> /\ end[s] = "open"
FaultyDrain(s) == pipe   \* the bytes are read and stay
Drain(s)      == [pipe EXCEPT ![s] = SubSeq(@, Len(Available(s)) + 1, Len(@))]

\* The bytes land in the buffer; those of an earlier, longer read stay behind them.
Fill(s) ==
  LET old == buffer[BufferOf[s]]  new == Available(s) IN
    [buffer EXCEPT ![BufferOf[s]] = new \o SubSeq(old, Len(new) + 1, Len(old))]

-----------------------------------------------------------------------------
(* reactor_io_stream::read. *)

\* Operations of s that have not been called back.
Waiting(s) == {o \in Op : op[o].stream = s /\ op[o].phase \notin {"free", "called"}}

\* The attempt without the mutex, by an idle thread or by one inside a callback.
TryRead(t, s) ==
  /\ Up /\ s \in registered /\ reading[t] = nullptr /\ sleep[t] = "no"
  /\ calling[t] # nullptr => op[calling[t]].phase = "called"
  /\ Cardinality(Waiting(s)) < Outstanding
  /\ \E o \in Op :
       /\ op[o].phase = "free" /\ \A i \in 1..(o - 1) : op[i].phase # "free"
       /\ reading' = [reading EXCEPT ![t] = o]
       /\ next' = [next EXCEPT ![o] = nullptr]
       /\ op' = [op EXCEPT ![o] = [phase |-> IF WouldBlock(s) THEN "empty" ELSE "answered",
                                   stream |-> s, got |-> Available(s),
                                   action |-> IF WouldBlock(s) THEN "read" ELSE "none"]]
  /\ pipe' = Drain(s) /\ buffer' = Fill(s)
  /\ doubled' = IF Waiting(s) = {} THEN doubled ELSE doubled \cup {s}
  /\ UNCHANGED <<end, edge, sent, header, tail, completes, calling, sleep, loop, service,
                 delivered, raced>>

\* push_read_op, under the mutex.
PushReadOp(t) ==
  LET o == reading[t]  s == op[o].stream IN
    /\ MutexFree /\ o # nullptr /\ op[o].phase = "empty"
    /\ IF header[s] = nullptr
         THEN header' = [header EXCEPT ![s] = o] /\ next' = next
         ELSE header' = header /\ next' = [next EXCEPT ![tail[s]] = o]
    /\ tail' = [tail EXCEPT ![s] = o]
    /\ op' = [op EXCEPT ![o].phase = "queued"]
    /\ reading' = [reading EXCEPT ![t] = nullptr]
    /\ UNCHANGED <<kernel, completes, calling, sleep, loop, service, buffer, delivered, history>>

\* An operation at the end of the completion queue.
TailIsLost       == completes.header # nullptr /\ completes.tail = nullptr
FaultyCompleted(o) == IF completes.header = nullptr THEN [header |-> o, tail |-> o] ELSE completes
Completed(o)     == [header |-> IF completes.header = nullptr THEN o ELSE completes.header,
                     tail   |-> o]
LinkCompleted(o) == IF completes.header = nullptr
                      THEN next ELSE [next EXCEPT ![completes.tail] = o]

\* A pointer that is not good is followed: the process dies.
Crash ==
  /\ alive' = "crashed"
  /\ UNCHANGED <<kernel, lists, completes, op, threads, loop, registered, buffer, delivered,
                 history>>

\* complete(op): under the mutex, without a notification.
Complete(t) ==
  LET o == reading[t] IN
    /\ MutexFree /\ o # nullptr /\ op[o].phase = "answered" /\ ~TailIsLost
    /\ next' = LinkCompleted(o) /\ completes' = Completed(o)
    /\ op' = [op EXCEPT ![o].phase = "completed"]
    /\ reading' = [reading EXCEPT ![t] = nullptr]
    /\ UNCHANGED <<kernel, header, tail, calling, sleep, loop, service, buffer, delivered,
                   history>>

CrashInComplete(t) ==
  /\ MutexFree /\ reading[t] # nullptr /\ op[reading[t]].phase = "answered" /\ TailIsLost
  /\ Crash

-----------------------------------------------------------------------------
(* run_one. *)

Idle(t)  == reading[t] = nullptr /\ calling[t] = nullptr
Empty    == completes.header = nullptr

Rest(t, state) ==
  /\ sleep' = [sleep EXCEPT ![t] = state]
  /\ UNCHANGED <<kernel, lists, completes, op, reading, calling, loop, service, buffer,
                 delivered, history>>

\* Nothing is complete: sleep on the condition variable.
Sleep(t) == MutexFree /\ Idle(t) /\ sleep[t] = "no" /\ Empty /\ Rest(t, "waiting")

\* The wait ends without a notification.
SpuriousWakeup(t) == Up /\ sleep[t] = "waiting" /\ Rest(t, "woken")

\* The time is over, be there by now something in the queue or not.
TimeOut(t) == MutexFree /\ sleep[t] # "no" /\ Rest(t, "no")

\* Woken for nothing: run_one returns without an error.
ReturnEmpty(t) == MutexFree /\ sleep[t] = "woken" /\ Empty /\ Rest(t, "no")

FaultyPop(t) ==   \* the header stays
  LET o == completes.header IN
    /\ MutexFree /\ Idle(t) /\ sleep[t] # "waiting" /\ o # nullptr /\ op[o].phase # "free"
    /\ sleep' = [sleep EXCEPT ![t] = "no"]
    /\ calling' = [calling EXCEPT ![t] = o]
    /\ op' = [op EXCEPT ![o].phase = "taken"]
    /\ UNCHANGED <<kernel, lists, completes, reading, loop, service, buffer, delivered, history>>

\* Take the first completed operation; the next one is what its link says.
Pop(t) ==
  LET o == completes.header IN
    /\ MutexFree /\ Idle(t) /\ sleep[t] # "waiting" /\ o # nullptr /\ op[o].phase # "free"
    /\ completes' = [header |-> next[o],
                     tail   |-> IF completes.tail = o THEN nullptr ELSE completes.tail]
    /\ sleep' = [sleep EXCEPT ![t] = "no"]
    /\ calling' = [calling EXCEPT ![t] = o]
    /\ op' = [op EXCEPT ![o].phase = "taken"]
    /\ UNCHANGED <<kernel, lists, reading, loop, service, buffer, delivered, history>>

\* It has been deleted already.
CrashInPop(t) ==
  /\ MutexFree /\ Idle(t) /\ sleep[t] # "waiting" /\ ~Empty
  /\ op[completes.header].phase = "free"
  /\ Crash

\* complete->complete(): the callback sees the memory of the buffer.
Callback(t) ==
  LET o == calling[t]  s == op[o].stream  n == Len(op[o].got) IN
    /\ Up /\ o # nullptr /\ op[o].phase = "taken"
    /\ delivered' = [delivered EXCEPT ![s] = @ \o SubSeq(buffer[BufferOf[s]], 1, n)]
    /\ op' = [op EXCEPT ![o].phase = "called"]
    /\ UNCHANGED <<kernel, lists, completes, threads, loop, service, buffer, history>>

\* delete complete.
Delete(t) ==
  LET o == calling[t] IN
    /\ Up /\ o # nullptr /\ reading[t] = nullptr /\ op[o].phase = "called"
    /\ op' = [op EXCEPT ![o] = NoOp]
    /\ calling' = [calling EXCEPT ![t] = nullptr]
    /\ UNCHANGED <<kernel, lists, completes, reading, sleep, loop, service, buffer, delivered,
                   history>>

-----------------------------------------------------------------------------
(* process, the dispatcher thread. *)

\* io_events_wait: every edge there is (at most 256 streams).
EventsWait ==
  /\ Up /\ dispatcher = "waiting" /\ \E s \in Stream : edge[s]
  /\ raised' = {s \in Stream : edge[s]}
  /\ edge' = [s \in Stream |-> FALSE]
  /\ dispatcher' = "raised"
  /\ UNCHANGED <<pipe, end, sent, lists, completes, op, threads, service, buffer, delivered,
                 history>>

\* An event of s, in the round that holds the mutex from its first event on.
Event(s) == Up /\ dispatcher \in {"raised", "locked"} /\ s \in raised

FinishEvent(s) ==
  /\ raised' = raised \ {s} /\ dispatcher' = "locked"
  /\ UNCHANGED <<end, edge, sent, reading, calling, service, delivered, doubled>>

\* What it calls is not there: the operation has been deleted, or has no _action.
BadAction(o) == op[o].phase = "free" \/ op[o].action = "none"

\* Nothing to do: the object is gone, has no operation, or would block.  The event can
\* be that of bytes that came between the attempt of a read() and its push.
IgnoreEvent(s) ==
  /\ Event(s)
  /\ s \in registered /\ header[s] # nullptr =>
       ~BadAction(header[s]) /\ WouldBlock(op[header[s]].stream)
  /\ raced' = IF \E o \in Waiting(s) : op[o].phase = "empty" THEN raced \cup {s} ELSE raced
  /\ FinishEvent(s)
  /\ UNCHANGED <<pipe, lists, completes, op, sleep, buffer>>

NotifyAll == sleep' = [t \in Client |-> IF sleep[t] = "waiting" THEN "woken" ELSE sleep[t]]

\* process_one_op and invoke_io_op: the first operation reads its own descriptor and goes
\* to the completion queue, its link as it was; the waiting threads are notified.
PerformEvent(s) ==
  LET o == header[s]  r == op[o].stream IN
    /\ Event(s) /\ s \in registered
    /\ o # nullptr /\ ~BadAction(o) /\ ~WouldBlock(r) /\ ~TailIsLost
    /\ op' = [op EXCEPT ![o].phase = "performed", ![o].got = Available(r)]
    /\ pipe' = Drain(r) /\ buffer' = Fill(r)
    /\ header' = [header EXCEPT ![s] = next[o]]
    /\ tail' = [tail EXCEPT ![s] = IF next[o] = nullptr THEN nullptr ELSE @]
    /\ next' = LinkCompleted(o) /\ completes' = Completed(o)
    /\ NotifyAll
    /\ FinishEvent(s)
    /\ UNCHANGED raced

CrashInEvent(s) ==
  /\ Event(s) /\ s \in registered /\ header[s] # nullptr
  /\ BadAction(header[s]) \/ (~WouldBlock(op[header[s]].stream) /\ TailIsLost)
  /\ Crash

\* The mutex is released: wait again.
EndRound ==
  /\ Up /\ dispatcher = "locked" /\ raised = {}
  /\ dispatcher' = "waiting"
  /\ UNCHANGED <<kernel, lists, completes, op, threads, raised, service, buffer, delivered,
                 history>>

-----------------------------------------------------------------------------
(* The destructors: those of the streams forget them, with the operations that *)
(* are queued; that of the epoll service closes its descriptor, then that of   *)
(* its base joins the dispatcher.                                              *)

NobodyReads == \A t \in Client : Idle(t) /\ sleep[t] = "no"

Unregister(s) ==
  /\ MutexFree /\ s \in registered /\ NobodyReads
  /\ registered' = registered \ {s}
  /\ edge' = [edge EXCEPT ![s] = FALSE]
  /\ header' = [header EXCEPT ![s] = nullptr] /\ tail' = [tail EXCEPT ![s] = nullptr]
  /\ UNCHANGED <<pipe, end, sent, next, completes, op, threads, loop, alive, buffer,
                 delivered, history>>

CloseEvents ==
  /\ Up /\ registered = {} /\ NobodyReads
  /\ alive' = "closed"
  /\ UNCHANGED <<kernel, lists, completes, op, threads, loop, registered, buffer, delivered,
                 history>>

\* Inside epoll_wait the closed descriptor is an error, which ends the loop.
EndDispatcher ==
  /\ alive = "closed" /\ dispatcher # "ended"
  /\ dispatcher' = "ended"
  /\ UNCHANGED <<kernel, lists, completes, op, threads, raised, service, buffer, delivered,
                 history>>

\* Outside, io_events_wait may by now be the pure virtual function of the base.
CrashInRound == alive = "closed" /\ dispatcher \in {"raised", "locked"} /\ Crash

JoinDispatcher ==
  /\ alive = "closed" /\ dispatcher = "ended"
  /\ alive' = "gone"
  /\ UNCHANGED <<kernel, lists, completes, op, threads, loop, registered, buffer, delivered,
                 history>>

-----------------------------------------------------------------------------
RunOne(t) == Sleep(t) \/ Pop(t) \/ CrashInPop(t) \/ ReturnEmpty(t) \/ Callback(t) \/ Delete(t)

FinishRead(t) == PushReadOp(t) \/ Complete(t) \/ CrashInComplete(t)

Process ==
  \/ EventsWait \/ EndRound \/ EndDispatcher \/ CrashInRound
  \/ \E s \in Stream : IgnoreEvent(s) \/ PerformEvent(s) \/ CrashInEvent(s)

Next ==
  \/ \E s \in Stream : Write(s) \/ EndStream(s) \/ Unregister(s)
  \/ \E t \in Client, s \in Stream : TryRead(t, s)
  \/ \E t \in Client : FinishRead(t) \/ RunOne(t) \/ SpuriousWakeup(t) \/ TimeOut(t)
  \/ Process
  \/ CloseEvents \/ JoinDispatcher

Spec == Init /\ [][Next]_vars

-----------------------------------------------------------------------------
(* Properties. *)

\* Operations of one phase that no other operation of a set links to, or that have no link.
Linked(os) == \A o \in os : next[o] \in os \cup {nullptr}
Ends(os)   == {o \in os : next[o] = nullptr}
Firsts(os) == {o \in os : \A p \in os : next[p] # o}

\* As long as no stream has two operations at once, the two kinds of lists do not run
\* into each other through their common link: each holds what it should, from its header
\* to its tail (reactor_io_object.hpp:138-163, reactor_io_service.hpp:83-93, 162-180).
ListsAreSound ==
  doubled = {} =>
    LET done == {o \in Op : op[o].phase \in {"completed", "performed"}} IN
      /\ Linked(done)
      /\ done = {} => completes = [header |-> nullptr, tail |-> nullptr]
      /\ done # {} => Firsts(done) = {completes.header} /\ Ends(done) = {completes.tail}
      /\ \A s \in registered :
           {o \in Op : op[o].stream = s /\ op[o].phase = "queued"} =
             {header[s]} \ {nullptr}

\* The process is killed by the service only when a stream has had two operations at
\* once, or when the service is destroyed while its dispatcher is busy with events
\* (reactor_io_service.hpp:48-51, 91-93; reactor_io_service_epoll.hpp:37-40).
CrashNeedsCause ==
  alive = "crashed" => doubled # {} \/ (registered = {} /\ dispatcher # "waiting")

Streams == INSTANCE ByteStreams WITH
  asked  <- [s \in Stream |-> Cardinality(Waiting(s))],
  closed <- {s \in Stream : end[s] # "open"}

\* The service implements the abstract streams (io/reactor_*.hpp).
ImplementsStreams == Streams!Spec

=============================================================================
