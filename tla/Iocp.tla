-------------------------------- MODULE Iocp --------------------------------
(***************************************************************************)
(* The io service on Windows: completion ports (lemon/io/iocp_*.hpp).      *)
(*                                                                         *)
(* A read makes an operation, links it into the list of its stream and     *)
(* hands it to the system, which posts it to the port when it is done.  A  *)
(* thread in run_one takes it from the port, looks up the stream that is   *)
(* registered for the operation's handle, unlinks the operation from that  *)
(* stream's list, calls back and deletes it.  The service's mutex guards   *)
(* the look-up and the unlinking; nothing guards the linking.  The system  *)
(* gives the handle of a closed stream to the next one that is opened.     *)
(***************************************************************************)
EXTENDS Naturals, Sequences, FiniteSets

CONSTANTS
  Thread,     \* threads: each reads, opens, closes and runs the service
  Object,     \* stream objects
  Handle,     \* handles that the system gives
  Operation,  \* operations
  null,       \* no operation, no stream
  MaxWakes    \* bound: calls of notify_all

ASSUME IocpAssumption ==
  /\ null \notin Operation \cup Object \cup Handle \cup Thread
  /\ IsFiniteSet(Operation) /\ IsFiniteSet(Thread) /\ MaxWakes \in Nat

VARIABLES
  life,        \* where each stream is between its constructor and its end
  handle,      \* handle[s]: the handle of s, open or closed
  open,        \* handles that are open
  handlers,    \* iocp_io_service._handlers
  readHeader,  \* readHeader[s]: the _read_header of s
  nextOp,      \* nextOp[o]: the links of each operation
  prevOp,
  state,       \* where each operation is
  reads,       \* reads[o]: the stream that o reads
  fd,          \* fd[o]: the handle that o reads
  port,        \* what is posted and not taken: operation and whether it succeeded
  lock,        \* who holds iocp_io_service._mutex
  thread,      \* a thread: where it is, with which operation and stream
  wakes,       \* calls of notify_all
  dangling,    \* history: memory of a deleted operation was touched
  beside,      \* history: a thread was in a list beside another
  reused,      \* history: a handle was given again with operations on it left
  overtaken    \* history: one was given again before the old stream was unregistered

objects  == <<life, handle, open, handlers>>
links    == <<nextOp, prevOp>>
ops      == <<state, reads, fd, port>>
past     == <<dangling, beside, reused, overtaken>>
iocpVars == <<objects, readHeader, links, ops, lock, thread, wakes, past>>

AtRest      == [at |-> "idle", op |-> null, good |-> TRUE, stream |-> null]
At(t, p)    == thread[t].at = p
Go(t, p)    == thread' = [thread EXCEPT ![t].at = p]
Return(t)   == thread' = [thread EXCEPT ![t] = AtRest]
MyOp(t)     == thread[t].op
MyStream(t) == thread[t].stream

IocpInit ==
  /\ life = [s \in Object |-> "none"] /\ handle = [s \in Object |-> null]
  /\ open = {} /\ handlers = [h \in Handle |-> null]
  /\ readHeader = [s \in Object |-> null]
  /\ nextOp = [o \in Operation |-> null] /\ prevOp = [o \in Operation |-> null]
  /\ state = [o \in Operation |-> "none"] /\ reads = [o \in Operation |-> null]
  /\ fd = [o \in Operation |-> null] /\ port = <<>>
  /\ lock = null /\ thread = [t \in Thread |-> AtRest] /\ wakes = 0
  /\ dangling = FALSE /\ beside = FALSE /\ reused = FALSE /\ overtaken = FALSE

-----------------------------------------------------------------------------
(* Streams. *)

\* The constructor: the handle comes from the system.
Open(t, s) ==
  /\ At(t, "idle") /\ life[s] = "none"
  /\ \E h \in Handle \ open :
       /\ open' = open \cup {h} /\ handle' = [handle EXCEPT ![s] = h]
       /\ reused' = (reused \/ \E o \in Operation : fd[o] = h /\ state[o] # "deleted")
       /\ overtaken' = (overtaken \/ \E r \in Object : handle[r] = h /\ life[r] = "closed")
  /\ life' = [life EXCEPT ![s] = "opened"]
  /\ thread' = [thread EXCEPT ![t] = [AtRest EXCEPT !.at = "register", !.stream = s]]
  /\ UNCHANGED <<handlers, readHeader, links, ops, lock, wakes, dangling, beside>>

\* What is registered for the handle of the thread's stream, under the mutex.
SetHandler(t, s, phase) ==
  /\ lock = null
  /\ handlers' = [handlers EXCEPT ![handle[MyStream(t)]] = s]
  /\ life' = [life EXCEPT ![MyStream(t)] = phase]
  /\ Return(t)
  /\ UNCHANGED <<handle, open, readHeader, links, ops, lock, wakes, past>>

\* iocp_io_service_register, at the end of the constructor.
Register(t) == At(t, "register") /\ SetHandler(t, MyStream(t), "live")

\* iocp_io_service_unregister, at the end of the destructor.
Unregistered(t) == At(t, "unregister") /\ SetHandler(t, null, "dead")

Using(s) ==
  \E t \in Thread : MyStream(t) = s /\ thread[t].at \in {"next", "prev", "header", "read"}

\* CloseHandle: the system cancels what is pending, in any order.
Close(t, s) ==
  /\ At(t, "idle") /\ life[s] = "live" /\ ~Using(s)
  /\ LET pending == {o \in Operation : state[o] = "pending" /\ reads[o] = s} IN
       /\ \E order \in [1..Cardinality(pending) -> pending] :
            /\ {order[i] : i \in DOMAIN order} = pending
            /\ port' = port \o [i \in DOMAIN order |-> [op |-> order[i], good |-> FALSE]]
       /\ state' = [o \in Operation |-> IF o \in pending THEN "posted" ELSE state[o]]
  /\ open' = open \ {handle[s]} /\ life' = [life EXCEPT ![s] = "closed"]
  /\ thread' = [thread EXCEPT ![t] = [AtRest EXCEPT !.at = "unregister", !.stream = s]]
  /\ UNCHANGED <<handle, handlers, readHeader, links, reads, fd, lock, wakes, past>>

-----------------------------------------------------------------------------
(* read(): push in its three assignments, then ReadFile. *)

Read(t, s) ==
  /\ At(t, "idle") /\ life[s] = "live"
  /\ \E o \in Operation :
       /\ state[o] = "none"
       /\ state' = [state EXCEPT ![o] = "new"] /\ reads' = [reads EXCEPT ![o] = s]
       /\ fd' = [fd EXCEPT ![o] = handle[s]]
       /\ thread' = [thread EXCEPT ![t] = [AtRest EXCEPT !.at = "next", !.op = o, !.stream = s]]
  /\ UNCHANGED <<objects, readHeader, links, port, lock, wakes, past>>

\* A step inside the list of the thread's stream, from p to q.  History: whether another
\* thread is in the same list, and whether the step writes into a deleted operation.
InList(t) == thread[t].at \in {"next", "prev", "header", "pop next", "pop prev", "pop header"}

ListStep(t, p, q, written) ==
  /\ At(t, p) /\ Go(t, q)
  /\ beside' = (beside \/ \E u \in Thread \ {t} : MyStream(u) = MyStream(t) /\ InList(u))
  /\ dangling' = (dangling \/ (written # null /\ state[written] = "deleted"))
  /\ UNCHANGED <<objects, ops, wakes, reused, overtaken>>

\* A link to o; there is none to set without an o.
Link(field, o, to) == IF o = null THEN field ELSE [field EXCEPT ![o] = to]

PushNext(t) ==
  /\ ListStep(t, "next", "prev", null)
  /\ nextOp' = [nextOp EXCEPT ![MyOp(t)] = readHeader[MyStream(t)]]
  /\ UNCHANGED <<readHeader, prevOp, lock>>

PushPrev(t) ==
  LET first == readHeader[MyStream(t)] IN
    /\ ListStep(t, "prev", "header", first)
    /\ prevOp' = Link(prevOp, first, MyOp(t))
    /\ UNCHANGED <<readHeader, nextOp, lock>>

PushHeader(t) ==
  /\ ListStep(t, "header", "read", null)
  /\ readHeader' = [readHeader EXCEPT ![MyStream(t)] = MyOp(t)]
  /\ UNCHANGED <<links, lock>>

\* The operation's packet is put at the end of the port's queue.
Posted(o, ok) == Append(port, [op |-> o, good |-> ok])

\* ReadFile leaves the operation with the system; when it fails, read() posts it itself.
ReadFile(t) ==
  /\ At(t, "read") /\ Return(t)
  /\ \/ state' = [state EXCEPT ![MyOp(t)] = "pending"] /\ UNCHANGED port
     \/ state' = [state EXCEPT ![MyOp(t)] = "posted"] /\ port' = Posted(MyOp(t), TRUE)
  /\ UNCHANGED <<objects, readHeader, links, reads, fd, lock, wakes, past>>

\* The system: there are bytes, or the other end is gone.
IoDone(o) ==
  /\ state[o] = "pending"
  /\ state' = [state EXCEPT ![o] = "posted"]
  /\ \E ok \in BOOLEAN : port' = Posted(o, ok)
  /\ UNCHANGED <<objects, readHeader, links, reads, fd, lock, thread, wakes, past>>

-----------------------------------------------------------------------------
(* run_one and notify_all. *)

EnterRunOne(t) ==
  /\ At(t, "idle") /\ Go(t, "wait")
  /\ UNCHANGED <<objects, readHeader, links, ops, lock, wakes, past>>

\* GetQueuedCompletionStatus; a packet without an operation is a wake-up.
Take(t) ==
  /\ At(t, "wait") /\ port # <<>> /\ port' = Tail(port)
  /\ LET packet == Head(port) IN
       thread' = [thread EXCEPT ![t] = IF packet.op = null THEN AtRest
                    ELSE [AtRest EXCEPT !.at = "valid", !.op = packet.op, !.good = packet.good]]
  /\ UNCHANGED <<objects, readHeader, links, state, reads, fd, lock, wakes, past>>

TimedOut(t) ==
  /\ At(t, "wait") /\ port = <<>> /\ Return(t)
  /\ UNCHANGED <<objects, readHeader, links, ops, lock, wakes, past>>

\* Every thread in run_one is sent a packet; any of them may take it.
PostAll(t) ==
  /\ At(t, "idle") /\ wakes < MaxWakes /\ wakes' = wakes + 1
  /\ port' = port \o [i \in 1..Cardinality({u \in Thread : At(u, "wait")}) |->
                        [op |-> null, good |-> TRUE]]
  /\ UNCHANGED <<objects, readHeader, links, state, reads, fd, lock, thread, past>>

\* valid() finds the stream that is registered for the operation's handle by now.
Valid(t) ==
  /\ At(t, "valid") /\ lock = null /\ lock' = t
  /\ handlers[fd[MyOp(t)]] # null
  /\ thread' = [thread EXCEPT ![t].stream = handlers[fd[MyOp(t)]], ![t].at = "pop next"]
  /\ UNCHANGED <<objects, readHeader, links, ops, wakes, past>>

\* There is none: an operation that failed is deleted, one that succeeded is forgotten.
Invalid(t) ==
  /\ At(t, "valid") /\ lock = null
  /\ handlers[fd[MyOp(t)]] = null
  /\ state' = [state EXCEPT ![MyOp(t)] = IF thread[t].good THEN "leaked" ELSE "deleted"]
  /\ Return(t)
  /\ UNCHANGED <<objects, readHeader, links, reads, fd, port, lock, wakes, past>>

PopNext(t) ==
  LET n == nextOp[MyOp(t)] IN
    /\ ListStep(t, "pop next", "pop prev", n)
    /\ prevOp' = Link(prevOp, n, prevOp[MyOp(t)])
    /\ UNCHANGED <<readHeader, nextOp, lock>>

FaultyPopPrev(t) ==   \* the operation before it keeps its link
  ListStep(t, "pop prev", "pop header", null) /\ UNCHANGED <<readHeader, links, lock>>

PopPrev(t) ==
  LET p == prevOp[MyOp(t)] IN
    /\ ListStep(t, "pop prev", "pop header", p)
    /\ nextOp' = Link(nextOp, p, nextOp[MyOp(t)])
    /\ UNCHANGED <<readHeader, prevOp, lock>>

PopHeader(t) ==
  LET s == MyStream(t) IN
    /\ ListStep(t, "pop header", "call", null) /\ lock' = null
    /\ readHeader' = IF readHeader[s] = MyOp(t)
                       THEN [readHeader EXCEPT ![s] = nextOp[MyOp(t)]] ELSE readHeader
    /\ UNCHANGED links

\* op->complete, which calls back, and delete op.
Call(t) ==
  /\ At(t, "call") /\ Return(t)
  /\ state' = [state EXCEPT ![MyOp(t)] = "deleted"]
  /\ UNCHANGED <<objects, readHeader, links, reads, fd, port, lock, wakes, past>>

-----------------------------------------------------------------------------
Script(t) == PostAll(t) \/ \E s \in Object : Open(t, s) \/ Close(t, s) \/ Read(t, s)

Service(t) ==
  \/ Register(t) \/ Unregistered(t)
  \/ PushNext(t) \/ PushPrev(t) \/ PushHeader(t) \/ ReadFile(t)
  \/ EnterRunOne(t) \/ Take(t) \/ TimedOut(t) \/ Valid(t) \/ Invalid(t)
  \/ PopNext(t) \/ PopPrev(t) \/ PopHeader(t) \/ Call(t)

IocpNext ==
  \/ \E t \in Thread : Script(t) \/ Service(t)
  \/ \E o \in Operation : IoDone(o)

IocpSpec == IocpInit /\ [][IocpNext]_iocpVars

-----------------------------------------------------------------------------
(* Properties. *)

\* Memory of a deleted operation is touched only after a read ran beside another thread in
\* the stream's list, or after a handle was given away before the old stream was
\* unregistered or with operations on it left (iocp_io_object.hpp:97-128,
\* iocp_io_service.hpp:160-174).
DanglingHasCause == dangling => beside \/ reused \/ overtaken

=============================================================================
