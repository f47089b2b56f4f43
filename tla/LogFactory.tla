----------------------------- MODULE LogFactory -----------------------------
(***************************************************************************)
(* The asynchronous log of the lemon library (lemon/log/factory.cpp).      *)
(*                                                                         *)
(* Client threads append messages to a queue under a mutex; one writer     *)
(* thread sleeps on a condition variable, takes the whole queue, releases  *)
(* the mutex and hands every message to every sink that applies.  close()  *)
(* raises a flag and joins the writer.                                     *)
(*                                                                         *)
(* What a client does under the mutex is one step.  The writer reads the   *)
(* table of sinks without the mutex, so a change of the table while it     *)
(* iterates is undefined behaviour: the messages of that batch then reach  *)
(* any sinks, or the process dies.                                         *)
(*                                                                         *)
(* Operators named Faulty... are mistakes a change of the code could make; *)
(* the specification does not use them.                                    *)
(***************************************************************************)
EXTENDS Integers, Sequences

CONSTANTS
  Source,       \* names of loggers
  Level,        \* log levels
  Sink,         \* sinks
  Applies,      \* Applies[s]: the sources that sink s takes
  NoLogger,     \* no logger of that name yet
  MaxMessages,  \* bound: messages written
  MaxChanges    \* bound: calls of setlevels, add_sink and remove_sink

ASSUME LogAssumption ==
  /\ Applies \in [Sink -> SUBSET Source]
  /\ \A ls \in SUBSET Level : ls # NoLogger
  /\ MaxMessages \in Nat /\ MaxChanges \in Nat

VARIABLES
  levels,       \* factory._levels
  loggers,      \* factory._loggers: the levels of each logger
  sinks,        \* factory._sinks
  messages,     \* factory._messages
  exitflag,     \* factory._exitflag
  writer,       \* where the writer thread is
  batch,        \* what is left of the messages it has taken
  racing,       \* the table of sinks changed while it iterates
  closer,       \* the main thread: open, joining in close(), closed
  changes,      \* calls that changed loggers or sinks
  accepted,     \* history: the messages written, in order
  delivered,    \* history: the messages the writer has gone through
  closedAt,     \* history: Len(accepted) when close() was called
  written,      \* history: what each sink was given
  steady,       \* history: sinks attached all the time, the table never raced
  asked         \* history: the levels setlevels was last asked to set

registry == <<levels, loggers, sinks, steady, asked>>
queue    == <<messages, accepted>>
working  == <<batch, racing, delivered, written>>
closing  == <<exitflag, closer, closedAt>>
vars     == <<registry, queue, writer, working, closing, changes>>

Message == [source : Source, level : Level]

-----------------------------------------------------------------------------
Init ==
  /\ levels = Level                       \* level::all
  /\ loggers = [n \in Source |-> NoLogger]
  /\ sinks \in SUBSET Sink
  /\ messages = <<>> /\ accepted = <<>>
  /\ writer = "ready" /\ batch = <<>> /\ racing = FALSE
  /\ exitflag = FALSE /\ closer = "open" /\ closedAt = 0
  /\ delivered = <<>> /\ written = [s \in Sink |-> <<>>]
  /\ steady = sinks /\ changes = 0
  /\ asked = [n \in Source |-> NoLogger]

Running == writer # "crashed"

FaultyNotify == UNCHANGED writer
\* notify_one: a wakeup with nobody waiting is lost.
Notify == writer' = IF writer = "waiting" THEN "woken" ELSE writer

-----------------------------------------------------------------------------
(* Calls of the client threads. *)

\* get(name): the logger of that name, made when there is none.
Get(n) ==
  /\ Running /\ loggers[n] = NoLogger
  /\ loggers' = [loggers EXCEPT ![n] = levels]
  /\ UNCHANGED <<levels, sinks, steady, asked, queue, writer, working, closing, changes>>

\* setlevels(levels, {}): for the loggers to come.
SetDefault(ls) ==
  /\ Running /\ changes < MaxChanges
  /\ levels' = ls
  /\ changes' = changes + 1
  /\ UNCHANGED <<loggers, sinks, steady, asked, queue, writer, working, closing>>

\* setlevels(levels, {n}): a logger it has to make gets the default levels.
SetLevels(ls, n) ==
  /\ Running /\ changes < MaxChanges
  /\ loggers' = [loggers EXCEPT ![n] = IF @ = NoLogger THEN levels ELSE ls]
  /\ asked' = [asked EXCEPT ![n] = ls]
  /\ changes' = changes + 1
  /\ UNCHANGED <<levels, sinks, steady, queue, writer, working, closing>>

\* The writer is inside its loops over the messages and the sinks.
Iterating == writer = "deliver" /\ batch # <<>>

ChangeSinks(table) ==
  /\ Running /\ changes < MaxChanges
  /\ sinks' = table
  /\ racing' = (racing \/ Iterating)
  /\ steady' = IF Iterating THEN {} ELSE steady \cap table
  /\ changes' = changes + 1
  /\ UNCHANGED <<levels, loggers, asked, queue, writer, batch, delivered, written, closing>>

AddSink(s)    == s \notin sinks /\ ChangeSinks(sinks \cup {s})
RemoveSink(s) == s \in sinks /\ ChangeSinks(sinks \ {s})
RemoveAllSinks == sinks # {} /\ ChangeSinks({})

\* logger.write: a message of an enabled level goes to the queue, after close()
\* as before it.
Log(m) ==
  /\ Running /\ Len(accepted) < MaxMessages
  /\ loggers[m.source] # NoLogger /\ m.level \in loggers[m.source]
  /\ messages' = Append(messages, m)
  /\ accepted' = Append(accepted, m)
  /\ Notify
  /\ UNCHANGED <<registry, working, closing, changes>>

FaultyClose ==   \* without the notification
  /\ Running /\ closer = "open"
  /\ exitflag' = TRUE /\ closer' = "joining" /\ closedAt' = Len(accepted)
  /\ UNCHANGED <<registry, queue, writer, working, changes>>

\* close(): the flag, the notification, then the join.
Close ==
  /\ Running /\ closer = "open"
  /\ exitflag' = TRUE /\ closer' = "joining" /\ closedAt' = Len(accepted)
  /\ Notify
  /\ UNCHANGED <<registry, queue, working, changes>>

Join ==
  /\ closer = "joining" /\ writer = "done"
  /\ closer' = "closed"
  /\ UNCHANGED <<registry, queue, writer, working, changes, exitflag, closedAt>>

-----------------------------------------------------------------------------
(* write_loop. *)

\* auto messages = std::move(_messages); lock.unlock();
TakeQueue ==
  /\ batch' = messages /\ messages' = <<>>
  /\ writer' = "deliver"
  /\ UNCHANGED <<registry, racing, delivered, written, closing, changes, accepted>>

FaultyTake ==   \* leaves the queue as it is
  /\ writer = "ready" /\ messages # <<>>
  /\ batch' = messages /\ writer' = "deliver"
  /\ UNCHANGED <<registry, queue, racing, delivered, written, closing, changes>>

\* With the mutex: messages wait, or an end that was asked for, or sleep.
Take == writer = "ready" /\ messages # <<>> /\ TakeQueue

FaultyExit ==   \* the flag before the queue
  /\ writer = "ready" /\ exitflag
  /\ writer' = "done"
  /\ UNCHANGED <<registry, queue, working, closing, changes>>

Exit ==
  /\ writer = "ready" /\ messages = <<>> /\ exitflag
  /\ writer' = "done"
  /\ UNCHANGED <<registry, queue, working, closing, changes>>

Wait ==
  /\ writer = "ready" /\ messages = <<>> /\ ~exitflag
  /\ writer' = "waiting"
  /\ UNCHANGED <<registry, queue, working, closing, changes>>

\* wait() may return by itself.
SpuriousWakeup ==
  /\ writer = "waiting"
  /\ writer' = "woken"
  /\ UNCHANGED <<registry, queue, working, closing, changes>>

\* wait() returns with the mutex; what is queued is taken, be it nothing.
Wake == writer = "woken" /\ TakeQueue

FaultyReceivers(m) == {s \in sinks : m.source \notin Applies[s]}
Receivers(m) == {s \in sinks : m.source \in Applies[s]}

FaultyDeliver ==   \* from the end of the batch
  /\ Iterating
  /\ LET m == batch[Len(batch)] IN
       /\ written' = [s \in Sink |->
                        IF s \in Receivers(m) THEN Append(written[s], m) ELSE written[s]]
       /\ delivered' = Append(delivered, m)
  /\ batch' = SubSeq(batch, 1, Len(batch) - 1)
  /\ UNCHANGED <<registry, queue, writer, racing, closing, changes>>

\* One message to the sinks that apply; to any when the table raced.
Deliver ==
  /\ Iterating
  /\ \E to \in IF racing THEN SUBSET Sink ELSE {Receivers(Head(batch))} :
       written' = [s \in Sink |-> IF s \in to THEN Append(written[s], Head(batch)) ELSE written[s]]
  /\ delivered' = Append(delivered, Head(batch))
  /\ batch' = Tail(batch)
  /\ UNCHANGED <<registry, queue, writer, racing, closing, changes>>

\* Iterating over a table that changes may end the process.
CrashInRace ==
  /\ Iterating /\ racing
  /\ writer' = "crashed"
  /\ UNCHANGED <<registry, queue, working, closing, changes>>

FinishBatch ==
  /\ writer = "deliver" /\ batch = <<>>
  /\ writer' = "ready" /\ racing' = FALSE
  /\ UNCHANGED <<registry, queue, batch, delivered, written, closing, changes>>

-----------------------------------------------------------------------------
WriteLoop == Take \/ Exit \/ Wait \/ Wake \/ Deliver \/ FinishBatch

Client ==
  \/ \E n \in Source : Get(n) \/ \E ls \in SUBSET Level : SetLevels(ls, n)
  \/ \E ls \in SUBSET Level : SetDefault(ls)
  \/ \E s \in Sink : AddSink(s) \/ RemoveSink(s)
  \/ RemoveAllSinks
  \/ \E m \in Message : Log(m)
  \/ Close \/ Join

Next == Client \/ WriteLoop \/ SpuriousWakeup \/ CrashInRace

Spec     == Init /\ [][Next]_vars
\* The writer thread is scheduled, and join() returns once it has ended.
FairSpec == Spec /\ WF_vars(WriteLoop) /\ WF_vars(Join)

-----------------------------------------------------------------------------
(* Properties. *)

\* Every variable has its type.
TypeOK ==
  /\ levels \in SUBSET Level
  /\ loggers \in [Source -> {NoLogger} \cup SUBSET Level]
  /\ asked \in [Source -> {NoLogger} \cup SUBSET Level]
  /\ sinks \in SUBSET Sink /\ steady \in SUBSET Sink
  /\ messages \in Seq(Message) /\ accepted \in Seq(Message)
  /\ batch \in Seq(Message) /\ delivered \in Seq(Message)
  /\ written \in [Sink -> Seq(Message)]
  /\ writer \in {"ready", "waiting", "woken", "deliver", "done", "crashed"}
  /\ racing \in BOOLEAN /\ exitflag \in BOOLEAN
  /\ closer \in {"open", "joining", "closed"}
  /\ closedAt \in Nat /\ changes \in 0..MaxChanges

\* No message is lost, doubled or overtaken between logger.write and the sinks,
\* across the two hand-overs of the queue (factory.cpp:27, 46-53).
NothingLost == accepted = delivered \o batch \o messages

\* A sink that is attached all the time gets exactly the messages of its
\* sources in the order they were written, the table of sinks not having been
\* changed under the writer's hands (factory.cpp:31-40).
Theirs(s) == {i \in DOMAIN delivered : delivered[i].source \in Applies[s]}
SinksGetTheirs ==
  \A s \in steady : \E at \in [DOMAIN written[s] -> Theirs(s)] :
    /\ \A i, j \in DOMAIN written[s] : i < j => at[i] < at[j]
    /\ \A k \in Theirs(s) : \E i \in DOMAIN written[s] : at[i] = k
    /\ \A i \in DOMAIN written[s] : written[s][i] = delivered[at[i]]

\* When close() returns, every message written before the call has been given
\* to the sinks (factory.cpp:21-25, 152-168).
CloseFlushes == closer = "closed" => Len(delivered) >= closedAt

Promise == INSTANCE AsyncLog WITH
  unsafe <- racing, given <- Len(delivered), closing <- closer

\* The factory keeps the promise of the abstract log (factory.cpp:14-53, 152-168).
ImplementsLog == Promise!Spec

\* A message written while the factory is open is given to the sinks: no
\* notification is lost between the writer's look at the queue and its sleep
\* (factory.cpp:17-29, 46-53).
MessagesAreWritten ==
  \A n \in 1..MaxMessages :
    Len(accepted) >= n /\ ~exitflag ~> Len(delivered) >= n \/ writer = "crashed"

\* close() returns.
CloseReturns == closer = "joining" ~> closer = "closed" \/ writer = "crashed"

\* "set the logger's log level: @levels the log levels, @loggers the target
\* loggers" (factory.hpp:31-35): a logger named in a call of setlevels has the
\* levels of the last such call.
SetLevelsSets == \A n \in Source : asked[n] # NoLogger => loggers[n] = asked[n]

=============================================================================
