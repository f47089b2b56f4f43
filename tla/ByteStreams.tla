---------------------------- MODULE ByteStreams ----------------------------
(***************************************************************************)
(* What lemon::io promises to a program that reads streams: every read it  *)
(* asks for is called back once, the bytes come in the order in which they *)
(* were written, none twice and none left out, and a callback without      *)
(* bytes means the end of the stream.  Reactor implements it.              *)
(***************************************************************************)
EXTENDS Naturals, Sequences

CONSTANT Stream

VARIABLES
  sent,       \* sent[s]: the bytes that the other end has written
  delivered,  \* delivered[s]: the bytes that callbacks have been given
  asked,      \* asked[s]: reads that have not been called back
  closed      \* the streams whose other end is gone

vars == <<sent, delivered, asked, closed>>

Init ==
  /\ sent = [s \in Stream |-> <<>>] /\ delivered = [s \in Stream |-> <<>>]
  /\ asked = [s \in Stream |-> 0]   /\ closed = {}

Send(s) ==
  /\ s \notin closed
  /\ sent' = [sent EXCEPT ![s] = Append(@, <<s, Len(@) + 1>>)]
  /\ UNCHANGED <<delivered, asked, closed>>

Close(s) ==
  /\ s \notin closed /\ closed' = closed \cup {s}
  /\ UNCHANGED <<sent, delivered, asked>>

Ask(s) ==
  /\ asked' = [asked EXCEPT ![s] = @ + 1]
  /\ UNCHANGED <<sent, delivered, closed>>

\* The callback of one read, with the next bytes.
Answer(s) ==
  /\ asked[s] > 0 /\ asked' = [asked EXCEPT ![s] = @ - 1]
  /\ \E n \in (Len(delivered[s]) + 1)..Len(sent[s]) :
       delivered' = [delivered EXCEPT ![s] = SubSeq(sent[s], 1, n)]
  /\ UNCHANGED <<sent, closed>>

\* The callback of one read at the end of the stream.
AnswerEnd(s) ==
  /\ asked[s] > 0 /\ asked' = [asked EXCEPT ![s] = @ - 1]
  /\ s \in closed /\ delivered[s] = sent[s]
  /\ UNCHANGED <<sent, delivered, closed>>

Next == \E s \in Stream : Send(s) \/ Close(s) \/ Ask(s) \/ Answer(s) \/ AnswerEnd(s)

Spec == Init /\ [][Next]_vars

=============================================================================
