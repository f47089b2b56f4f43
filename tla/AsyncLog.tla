------------------------------ MODULE AsyncLog ------------------------------
(***************************************************************************)
(* What the asynchronous log promises to those who write to it: messages   *)
(* are handed on one by one in the order they were written, each to all    *)
(* sinks that are attached then and take its source, and close() returns   *)
(* after the last message written before it was called.  Only a change of  *)
(* the sinks while messages are under way is left undefined.  LogFactory,  *)
(* with its queue, its writer thread and their mutex, implements it.       *)
(***************************************************************************)
EXTENDS Naturals, Sequences

CONSTANTS Source, Message, Sink, Applies

VARIABLES
  sinks,     \* the sinks attached
  unsafe,    \* they changed while messages were under way
  accepted,  \* the messages written
  given,     \* how many of them have been handed on
  written,   \* written[s]: what sink s was given
  closing,   \* close(): open, joining, closed
  closedAt   \* how many messages were written before it

vars == <<sinks, unsafe, accepted, given, written, closing, closedAt>>

Init ==
  /\ sinks \in SUBSET Sink /\ unsafe = FALSE
  /\ accepted = <<>> /\ given = 0 /\ written = [s \in Sink |-> <<>>]
  /\ closing = "open" /\ closedAt = 0

Write(m) ==
  /\ accepted' = Append(accepted, m)
  /\ UNCHANGED <<sinks, unsafe, given, written, closing, closedAt>>

Change(table) ==
  /\ sinks' = table
  /\ unsafe' \in {unsafe} \cup {u \in {TRUE} : given < Len(accepted)}
  /\ UNCHANGED <<accepted, given, written, closing, closedAt>>

\* What is under way when the sinks change ends at some time.
Settle ==
  /\ unsafe' = FALSE
  /\ UNCHANGED <<sinks, accepted, given, written, closing, closedAt>>

Takers(m) == {s \in sinks : m.source \in Applies[s]}

HandOn ==
  /\ given < Len(accepted) /\ closing # "closed"
  /\ given' = given + 1
  /\ \E to \in IF unsafe THEN SUBSET Sink ELSE {Takers(accepted[given'])} :
       written' = [s \in Sink |->
                     IF s \in to THEN Append(written[s], accepted[given']) ELSE written[s]]
  /\ UNCHANGED <<sinks, unsafe, accepted, closing, closedAt>>

CallClose ==
  /\ closing = "open" /\ closing' = "joining" /\ closedAt' = Len(accepted)
  /\ UNCHANGED <<sinks, unsafe, accepted, given, written>>

CloseReturns ==
  /\ closing = "joining" /\ given >= closedAt /\ closing' = "closed"
  /\ UNCHANGED <<sinks, unsafe, accepted, given, written, closedAt>>

Next ==
  \/ \E m \in Message : Write(m)
  \/ \E table \in SUBSET Sink : Change(table)
  \/ Settle \/ HandOn \/ CallClose \/ CloseReturns

Spec == Init /\ [][Next]_vars

=============================================================================
