---------------------------- MODULE Reactor_proofs ----------------------------
(***************************************************************************)
(* Theorems about the io service on epoll and kqueue, for every set of     *)
(* streams, threads and buffers, any length of reads and any number of     *)
(* operations and bytes.                                                   *)
(***************************************************************************)
EXTENDS Reactor, TLAPS, SequenceTheorems, FiniteSetTheorems

Byte  == Stream \X Nat
Phase == {"free", "empty", "answered", "queued", "completed", "performed", "taken", "called"}

Record == [phase : Phase, stream : Stream \cup {NoOp.stream}, got : Seq(Byte),
           action : {"read", "none"}]

TypeOK ==
  /\ pipe \in [Stream -> Seq(Byte)] /\ sent \in [Stream -> Seq(Byte)]
  /\ delivered \in [Stream -> Seq(Byte)] /\ buffer \in [Buffer -> Seq(Byte)]
  /\ end \in [Stream -> {"open", "eof", "error"}] /\ edge \in [Stream -> BOOLEAN]
  /\ header \in [Stream -> Pointer] /\ tail \in [Stream -> Pointer]
  /\ completes \in [header : Pointer, tail : Pointer] /\ next \in [Op -> Pointer]
  /\ op \in [Op -> Record]
  /\ reading \in [Client -> Pointer] /\ calling \in [Client -> Pointer]
  /\ sleep \in [Client -> {"no", "waiting", "woken"}]
  /\ dispatcher \in {"waiting", "raised", "locked", "ended"} /\ raised \subseteq Stream
  /\ registered \subseteq Stream /\ alive \in {"up", "closed", "gone", "crashed"}
  /\ raced \subseteq Stream /\ doubled \subseteq Stream

\* What an operation has read fits into the memory it was read into.
GotFits ==
  \A o \in Op : op[o].phase # "free" =>
    /\ op[o].stream \in Stream
    /\ Len(op[o].got) <= Len(buffer[BufferOf[op[o].stream]])

TypeInv == TypeOK /\ GotFits

-----------------------------------------------------------------------------
(* What ::read does to the pipe and to the memory. *)

LEMMA MinOfTwo ==
  ASSUME NEW a \in Nat, NEW b \in Nat
  PROVE  Min({a, b}) \in {a, b} /\ Min({a, b}) <= a /\ Min({a, b}) <= b
  <1>1. \E x \in {a, b} : \A y \in {a, b} : x =< y
    <2>1. CASE a =< b
      BY <2>1
    <2>2. CASE b =< a
      BY <2>2
    <2> QED
      BY <2>1, <2>2
  <1>2. Min({a, b}) \in {a, b} /\ \A y \in {a, b} : Min({a, b}) =< y
    BY <1>1 DEF Min
  <1> QED
    BY <1>2

\* The first n elements and the others.
LEMMA SplitAt ==
  ASSUME NEW S, NEW q \in Seq(S), NEW n \in 0..Len(q)
  PROVE  /\ SubSeq(q, 1, n) \in Seq(S) /\ Len(SubSeq(q, 1, n)) = n
         /\ SubSeq(q, n + 1, Len(q)) \in Seq(S)
         /\ Len(SubSeq(q, n + 1, Len(q))) = Len(q) - n
         /\ SubSeq(q, 1, n) \o SubSeq(q, n + 1, Len(q)) = q
  <1>1. Len(q) \in Nat /\ n \in Nat /\ n <= Len(q)
    BY LenProperties
  <1>2. ASSUME NEW i \in 1..Len(q) PROVE q[i] \in S
    BY ElementOfSeq
  <1>3. /\ SubSeq(q, 1, n) \in Seq(S)
        /\ Len(SubSeq(q, 1, n)) = IF 1 <= n THEN n - 1 + 1 ELSE 0
    <2>1. \A i \in 1..n : q[i] \in S
      BY <1>1, <1>2
    <2> QED
      BY <1>1, <2>1, SubSeqProperties
  <1>4. /\ SubSeq(q, n + 1, Len(q)) \in Seq(S)
        /\ Len(SubSeq(q, n + 1, Len(q))) =
             IF n + 1 <= Len(q) THEN Len(q) - (n + 1) + 1 ELSE 0
    <2>1. \A i \in (n + 1)..Len(q) : q[i] \in S
      BY <1>1, <1>2
    <2>2. n + 1 \in Int /\ Len(q) \in Int
      BY <1>1
    <2> QED
      BY <2>1, <2>2, SubSeqProperties
  <1>5. SubSeq(q, 1, n) \o SubSeq(q, n + 1, Len(q)) = SubSeq(q, 1, Len(q))
    <2>1. 1 \in 1..(Len(q) + 1) /\ n \in (1 - 1)..Len(q) /\ Len(q) \in n..Len(q)
      BY <1>1
    <2> QED
      BY <2>1, ConcatAdjacentSubSeq
  <1>6. SubSeq(q, 1, Len(q)) = q
    BY SubSeqFull
  <1>7. SubSeq(q, 1, n) \o SubSeq(q, n + 1, Len(q)) = q
    BY <1>5, <1>6, Zenon
  <1>8. Len(SubSeq(q, 1, n)) = n
    BY <1>1, <1>3
  <1>9. Len(SubSeq(q, n + 1, Len(q))) = Len(q) - n
    BY <1>1, <1>4
  <1> QED
    BY <1>3, <1>4, <1>7, <1>8, <1>9, Zenon

\* The first elements of a concatenation.
LEMMA FirstOfConcat ==
  ASSUME NEW S, NEW q \in Seq(S), NEW r \in Seq(S)
  PROVE  SubSeq(q \o r, 1, Len(q)) = q
  <1>1. Len(q) \in Nat
    BY LenProperties
  <1>2. CASE Len(q) = 0
    <2>1. q = <<>>
      BY <1>2, EmptySeq
    <2>2. SubSeq(q \o r, 1, 0) = <<>>
      BY SubSeqEmpty
    <2> QED
      BY <1>2, <2>1, <2>2
  <1>3. CASE Len(q) # 0
    <2>1. 1 \in 1..Len(q) /\ Len(q) \in 1..Len(q)
      BY <1>1, <1>3
    <2>2. SubSeq(q \o r, 1, Len(q)) = SubSeq(q, 1, Len(q))
      BY <2>1, SubSeqOfConcat1
    <2>3. SubSeq(q, 1, Len(q)) = q
      BY SubSeqFull
    <2> QED
      BY <2>2, <2>3
  <1> QED
    BY <1>2, <1>3

\* A read takes the first bytes of the pipe, or all there are, and the memory begins
\* with them afterwards; it never becomes shorter.
LEMMA ReadStep ==
  ASSUME TypeOK, NEW s \in Stream
  PROVE  /\ Available(s) \in Seq(Byte)
         /\ Available(s) = <<>> => pipe[s] = <<>>
         /\ Drain(s) \in [Stream -> Seq(Byte)]
         /\ Available(s) \o Drain(s)[s] = pipe[s]
         /\ \A r \in Stream \ {s} : Drain(s)[r] = pipe[r]
         /\ Fill(s) \in [Buffer -> Seq(Byte)]
         /\ \A b \in Buffer : Len(buffer[b]) <= Len(Fill(s)[b])
         /\ Len(Available(s)) <= Len(Fill(s)[BufferOf[s]])
         /\ SubSeq(Fill(s)[BufferOf[s]], 1, Len(Available(s))) = Available(s)
         /\ \A b \in Buffer \ {BufferOf[s]} : Fill(s)[b] = buffer[b]
  <1> DEFINE p   == pipe[s]
             new == Available(s)
             n   == Min({BufferLength, Len(p)})
             old == buffer[BufferOf[s]]
             rest == SubSeq(old, Len(new) + 1, Len(old))
  <1>1. p \in Seq(Byte) /\ old \in Seq(Byte) /\ BufferOf[s] \in Buffer
    BY ReactorAssumption DEF TypeOK
  <1>2. Len(p) \in Nat /\ Len(old) \in Nat /\ BufferLength \in Nat \ {0}
    BY <1>1, LenProperties, ReactorAssumption
  <1>3. n \in 0..Len(p) /\ (n = 0 => Len(p) = 0)
    BY <1>2, MinOfTwo
  <1>4. /\ new = SubSeq(p, 1, n) /\ new \in Seq(Byte) /\ Len(new) = n
        /\ SubSeq(p, n + 1, Len(p)) \in Seq(Byte)
        /\ new \o SubSeq(p, n + 1, Len(p)) = p
    BY <1>1, <1>3, SplitAt DEF Available
  <1>5. new = <<>> => p = <<>>
    <2>1. new = <<>> => n = 0
      BY <1>4, EmptySeq
    <2> QED
      BY <1>1, <1>3, <2>1, EmptySeq
  <1>6. /\ Drain(s) \in [Stream -> Seq(Byte)]
        /\ Drain(s)[s] = SubSeq(p, n + 1, Len(p))
        /\ \A r \in Stream \ {s} : Drain(s)[r] = pipe[r]
    <2>1. pipe \in [Stream -> Seq(Byte)]
      BY DEF TypeOK
    <2> HIDE DEF n
    <2>2. Drain(s) = [pipe EXCEPT ![s] = SubSeq(p, n + 1, Len(p))]
      BY <1>4, <2>1 DEF Drain
    <2> QED
      BY <1>4, <2>1, <2>2
  <1>7. /\ rest \in Seq(Byte)
        /\ Len(rest) = IF Len(new) + 1 <= Len(old) THEN Len(old) - Len(new) ELSE 0
    <2> HIDE DEF n, new
    <2>1. \A i \in (Len(new) + 1)..Len(old) : old[i] \in Byte
      <3>1. Len(new) \in Nat
        BY <1>4, LenProperties
      <3> QED
        BY <1>1, <1>2, <3>1, ElementOfSeq
    <2>2. Len(new) + 1 \in Int /\ Len(old) \in Int
      BY <1>2, <1>4, LenProperties
    <2>3. /\ rest \in Seq(Byte)
          /\ Len(rest) = IF Len(new) + 1 <= Len(old) THEN Len(old) - (Len(new) + 1) + 1 ELSE 0
      BY <2>1, <2>2, SubSeqProperties
    <2> QED
      BY <2>2, <2>3
  <1> HIDE DEF rest, new, n, p
  <1>8. /\ Fill(s) \in [Buffer -> Seq(Byte)]
        /\ Fill(s)[BufferOf[s]] = new \o rest
        /\ \A b \in Buffer \ {BufferOf[s]} : Fill(s)[b] = buffer[b]
    <2>1. buffer \in [Buffer -> Seq(Byte)]
      BY DEF TypeOK
    <2>2. new \o rest \in Seq(Byte)
      BY <1>4, <1>7, ConcatProperties
    <2>3. Fill(s) = [buffer EXCEPT ![BufferOf[s]] = new \o rest]
      BY DEF Fill, rest, new
    <2> QED
      BY <1>1, <2>1, <2>2, <2>3
  <1>9. /\ Len(new \o rest) = Len(new) + Len(rest)
        /\ SubSeq(new \o rest, 1, Len(new)) = new
    BY <1>4, <1>7, ConcatProperties, FirstOfConcat
  <1>10. Len(new) \in Nat
    BY <1>4, LenProperties
  <1>11. \A b \in Buffer : Len(buffer[b]) <= Len(Fill(s)[b])
    <2>1. Len(old) <= Len(new \o rest)
      BY <1>2, <1>7, <1>9, <1>10
    <2>2. \A b \in Buffer : Len(buffer[b]) \in Nat
      BY LenProperties DEF TypeOK
    <2> QED
      BY <1>8, <2>1, <2>2
  <1>12. Len(new) <= Len(Fill(s)[BufferOf[s]])
    BY <1>2, <1>7, <1>8, <1>9, <1>10
  <1> QED
    BY <1>4, <1>5, <1>6, <1>8, <1>9, <1>11, <1>12 DEF new, p

-----------------------------------------------------------------------------
(* Type correctness. *)

\* An operation that exists goes to another phase.
LEMMA PhaseStep ==
  ASSUME TypeInv, NEW o \in Op, op[o].phase # "free", NEW ph \in Phase \ {"free"},
         op' = [op EXCEPT ![o].phase = ph]
  PROVE  /\ op' \in [Op -> Record]
         /\ \A p \in Op : /\ op'[p].stream = op[p].stream /\ op'[p].got = op[p].got
                          /\ op'[p].action = op[p].action
                          /\ op'[p].phase = IF p = o THEN ph ELSE op[p].phase
         /\ buffer' = buffer => GotFits'
  <1>1. op \in [Op -> Record]
    BY DEF TypeInv, TypeOK
  <1>2. op' = [op EXCEPT ![o] = [op[o] EXCEPT !.phase = ph]]
    BY <1>1
  <1>3. /\ [op[o] EXCEPT !.phase = ph] \in Record
        /\ [op[o] EXCEPT !.phase = ph].phase = ph
        /\ [op[o] EXCEPT !.phase = ph].stream = op[o].stream
        /\ [op[o] EXCEPT !.phase = ph].got = op[o].got
        /\ [op[o] EXCEPT !.phase = ph].action = op[o].action
    <2>1. op[o] \in Record
      BY <1>1
    <2> QED
      BY <2>1 DEF Record
  <1>4. op' \in [Op -> Record]
    BY <1>1, <1>2, <1>3
  <1>5. ASSUME NEW p \in Op
        PROVE  /\ op'[p].stream = op[p].stream /\ op'[p].got = op[p].got
               /\ op'[p].action = op[p].action
               /\ op'[p].phase = IF p = o THEN ph ELSE op[p].phase
    <2>1. CASE p = o
      BY <1>1, <1>2, <1>3, <2>1
    <2>2. CASE p # o
      BY <1>1, <1>2, <2>2
    <2> QED
      BY <2>1, <2>2
  <1>6. buffer' = buffer => GotFits'
    BY <1>5 DEF TypeInv, GotFits
  <1> QED
    BY <1>4, <1>5, <1>6

LEMMA TypeInit == Init => TypeInv
  <1> SUFFICES ASSUME Init PROVE TypeInv
    OBVIOUS
  <1>1. <<>> \in Seq(Byte)
    BY EmptySeq
  <1>2. NoOp \in Record /\ NoOp.phase = "free"
    BY <1>1 DEF NoOp, Record, Phase
  <1>3. /\ pipe \in [Stream -> Seq(Byte)] /\ sent \in [Stream -> Seq(Byte)]
        /\ delivered \in [Stream -> Seq(Byte)] /\ buffer \in [Buffer -> Seq(Byte)]
    BY <1>1 DEF Init
  <1>4. op \in [Op -> Record] /\ \A o \in Op : op[o].phase = "free"
    BY <1>2 DEF Init
  <1>5. /\ end \in [Stream -> {"open", "eof", "error"}] /\ edge \in [Stream -> BOOLEAN]
        /\ header \in [Stream -> Pointer] /\ tail \in [Stream -> Pointer]
        /\ completes \in [header : Pointer, tail : Pointer] /\ next \in [Op -> Pointer]
        /\ reading \in [Client -> Pointer] /\ calling \in [Client -> Pointer]
        /\ sleep \in [Client -> {"no", "waiting", "woken"}]
        /\ dispatcher \in {"waiting", "raised", "locked", "ended"} /\ raised \subseteq Stream
        /\ registered \subseteq Stream /\ alive \in {"up", "closed", "gone", "crashed"}
        /\ raced \subseteq Stream /\ doubled \subseteq Stream
    BY DEF Init, Pointer
  <1> QED
    BY <1>3, <1>4, <1>5 DEF TypeInv, TypeOK, GotFits

\* The steps that touch neither an operation nor a list.
QuietNext ==
  \/ \E s \in Stream : Write(s) \/ EndStream(s) \/ IgnoreEvent(s) \/ CrashInEvent(s)
  \/ \E t \in Client : \/ Sleep(t) \/ CrashInPop(t) \/ ReturnEmpty(t) \/ CrashInComplete(t)
                       \/ SpuriousWakeup(t) \/ TimeOut(t)
  \/ EventsWait \/ EndRound \/ EndDispatcher \/ CrashInRound \/ CloseEvents \/ JoinDispatcher

LEMMA TypeQuiet ==
  ASSUME TypeInv, QuietNext
  PROVE  TypeInv' /\ UNCHANGED <<lists, completes, op, buffer, delivered, reading, calling,
                                 registered, doubled>>
  <1>1. UNCHANGED <<lists, completes, op, buffer, delivered, reading, calling, registered,
                    doubled>>
    BY DEF QuietNext, Write, EndStream, IgnoreEvent, CrashInEvent, Sleep, CrashInPop,
           ReturnEmpty, CrashInComplete, SpuriousWakeup, TimeOut, EventsWait, EndRound,
           EndDispatcher, CrashInRound, CloseEvents, JoinDispatcher, Rest, Crash, FinishEvent,
           threads, service, history, lists
  <1>2. pipe' \in [Stream -> Seq(Byte)] /\ sent' \in [Stream -> Seq(Byte)]
    <2>1. CASE \E s \in Stream : Write(s)
      <3>1. PICK s \in Stream : Write(s)
        BY <2>1
      <3>2. pipe \in [Stream -> Seq(Byte)] /\ sent \in [Stream -> Seq(Byte)]
        BY DEF TypeInv, TypeOK
      <3>3. <<s, Len(sent[s]) + 1>> \in Byte
        BY <3>2, LenProperties DEF Byte
      <3>4. /\ pipe' = [pipe EXCEPT ![s] = Append(pipe[s], <<s, Len(sent[s]) + 1>>)]
            /\ sent' = [sent EXCEPT ![s] = Append(sent[s], <<s, Len(sent[s]) + 1>>)]
        BY <3>1 DEF Write
      <3>5. /\ Append(pipe[s], <<s, Len(sent[s]) + 1>>) \in Seq(Byte)
            /\ Append(sent[s], <<s, Len(sent[s]) + 1>>) \in Seq(Byte)
        BY <3>2, <3>3, AppendProperties
      <3> QED
        BY <3>2, <3>4, <3>5
    <2>2. CASE ~\E s \in Stream : Write(s)
      <3>1. UNCHANGED <<pipe, sent>>
        BY <2>2 DEF QuietNext, EndStream, IgnoreEvent, CrashInEvent, Sleep, CrashInPop,
             ReturnEmpty, CrashInComplete, SpuriousWakeup, TimeOut, EventsWait, EndRound,
             EndDispatcher, CrashInRound, CloseEvents, JoinDispatcher, Rest, Crash,
             FinishEvent, kernel
      <3> QED
        BY <3>1 DEF TypeInv, TypeOK
    <2> QED
      BY <2>1, <2>2
  <1>3. /\ end' \in [Stream -> {"open", "eof", "error"}]
        /\ sleep' \in [Client -> {"no", "waiting", "woken"}]
    BY DEF TypeInv, TypeOK, QuietNext, Write, EndStream, IgnoreEvent, CrashInEvent, Sleep,
           CrashInPop, ReturnEmpty, CrashInComplete, SpuriousWakeup, TimeOut, EventsWait,
           EndRound, EndDispatcher, CrashInRound, CloseEvents, JoinDispatcher, Rest, Crash,
           FinishEvent, kernel, threads
  <1>4. /\ dispatcher' \in {"waiting", "raised", "locked", "ended"} /\ raised' \subseteq Stream
        /\ alive' \in {"up", "closed", "gone", "crashed"} /\ raced' \subseteq Stream
    BY ZenonT(60) DEF TypeInv, TypeOK, QuietNext, Write, EndStream, IgnoreEvent, CrashInEvent,
           Sleep, CrashInPop, ReturnEmpty, CrashInComplete, SpuriousWakeup, TimeOut, EventsWait,
           EndRound, EndDispatcher, CrashInRound, CloseEvents, JoinDispatcher, Rest, Crash,
           FinishEvent, loop, service, history
  <1>5. edge' \in [Stream -> BOOLEAN]
    <2>1. edge \in [Stream -> BOOLEAN]
      BY DEF TypeInv, TypeOK
    <2>2. CASE \E s \in Stream : Write(s) \/ EndStream(s)
      <3>1. PICK s \in Stream : edge' = [edge EXCEPT ![s] = s \in registered]
        BY <2>2 DEF Write, EndStream
      <3>2. (s \in registered) \in BOOLEAN
        OBVIOUS
      <3> QED
        BY <2>1, <3>1, <3>2
    <2>3. CASE EventsWait
      BY <2>3 DEF EventsWait
    <2>4. CASE ~(EventsWait \/ \E s \in Stream : Write(s) \/ EndStream(s))
      <3>1. edge' = edge
        BY <2>4 DEF QuietNext, IgnoreEvent, CrashInEvent, Sleep, CrashInPop, ReturnEmpty,
           CrashInComplete, SpuriousWakeup, TimeOut, EndRound, EndDispatcher, CrashInRound,
           CloseEvents, JoinDispatcher, Rest, Crash, FinishEvent, kernel
      <3> QED
        BY <2>1, <3>1
    <2> QED
      BY <2>2, <2>3, <2>4
  <1>6. TypeOK'
    BY <1>1, <1>2, <1>3, <1>4, <1>5 DEF TypeInv, TypeOK, lists
  <1>7. GotFits'
    BY <1>1 DEF TypeInv, GotFits
  <1> QED
    BY <1>1, <1>6, <1>7 DEF TypeInv

\* An operation is given what was read to the memory of its stream.
LEMMA GotStillFits ==
  ASSUME TypeInv, NEW o \in Op, NEW s \in Stream,
         op'[o].stream = s, op'[o].got = Available(s),
         \A p \in Op \ {o} : op'[p] = op[p],
         buffer' \in [Buffer -> Seq(Byte)],
         \A b \in Buffer : Len(buffer[b]) <= Len(buffer'[b]),
         Len(Available(s)) <= Len(buffer'[BufferOf[s]])
  PROVE  GotFits'
  <1> SUFFICES ASSUME NEW p \in Op, op'[p].phase # "free"
               PROVE  /\ op'[p].stream \in Stream
                      /\ Len(op'[p].got) <= Len(buffer'[BufferOf[op'[p].stream]])
    BY DEF GotFits
  <1>1. CASE p = o
    BY <1>1
  <1>2. CASE p # o
    <2>1. op'[p] = op[p]
      BY <1>2
    <2>2. op[p].stream \in Stream /\ Len(op[p].got) <= Len(buffer[BufferOf[op[p].stream]])
      BY <2>1 DEF TypeInv, GotFits
    <2>3. BufferOf[op[p].stream] \in Buffer
      BY <2>2, ReactorAssumption
    <2> DEFINE b == BufferOf[op[p].stream]
    <2>4. /\ Len(op[p].got) \in Nat /\ Len(buffer[b]) \in Nat /\ Len(buffer'[b]) \in Nat
          /\ Len(buffer[b]) <= Len(buffer'[b])
      <3>1. op[p].got \in Seq(Byte) /\ buffer[b] \in Seq(Byte) /\ buffer'[b] \in Seq(Byte)
        BY <2>3 DEF TypeInv, TypeOK, Record
      <3> QED
        BY <2>3, <3>1, LenProperties
    <2> HIDE DEF b
    <2>5. Len(op[p].got) <= Len(buffer'[b])
      BY <2>2, <2>4 DEF b
    <2> QED
      BY <2>1, <2>2, <2>5 DEF b
  <1> QED
    BY <1>1, <1>2

\* The attempt of a read makes an operation.
LEMMA TryReadStep ==
  ASSUME TypeInv, NEW t \in Client, NEW s \in Stream, TryRead(t, s)
  PROVE  /\ TypeInv'
         /\ \E o \in Op :
              /\ op[o].phase = "free" /\ reading' = [reading EXCEPT ![t] = o]
              /\ next' = [next EXCEPT ![o] = nullptr]
              /\ op'[o].phase = IF WouldBlock(s) THEN "empty" ELSE "answered"
              /\ op'[o].stream = s /\ op'[o].got = Available(s)
              /\ op'[o].action = IF WouldBlock(s) THEN "read" ELSE "none"
              /\ \A p \in Op \ {o} : op'[p] = op[p]
  <1>1. PICK o \in Op :
          /\ op[o].phase = "free" /\ reading' = [reading EXCEPT ![t] = o]
          /\ next' = [next EXCEPT ![o] = nullptr]
          /\ op' = [op EXCEPT ![o] = [phase |-> IF WouldBlock(s) THEN "empty" ELSE "answered",
                                      stream |-> s, got |-> Available(s),
                                      action |-> IF WouldBlock(s) THEN "read" ELSE "none"]]
    BY DEF TryRead
  <1>2. /\ pipe' = Drain(s) /\ buffer' = Fill(s)
        /\ UNCHANGED <<end, edge, sent, delivered, header, tail, completes, calling, sleep,
                       dispatcher, raised, registered, alive, raced>>
        /\ doubled' = IF Waiting(s) = {} THEN doubled ELSE doubled \cup {s}
    BY DEF TryRead, loop, service
  <1> DEFINE new == [phase |-> IF WouldBlock(s) THEN "empty" ELSE "answered",
                     stream |-> s, got |-> Available(s),
                     action |-> IF WouldBlock(s) THEN "read" ELSE "none"]
  <1>3. new \in Record
    BY ReadStep DEF TypeInv, Record, Phase
  <1>4. op \in [Op -> Record]
    BY DEF TypeInv, TypeOK
  <1>5. op' \in [Op -> Record] /\ op'[o] = new /\ \A p \in Op \ {o} : op'[p] = op[p]
    BY <1>1, <1>3, <1>4
  <1>6. /\ pipe' \in [Stream -> Seq(Byte)] /\ buffer' \in [Buffer -> Seq(Byte)]
        /\ \A b \in Buffer : Len(buffer[b]) <= Len(buffer'[b])
        /\ Len(Available(s)) <= Len(buffer'[BufferOf[s]])
    BY <1>2, ReadStep DEF TypeInv
  <1>7. TypeOK'
    <2>1. next' \in [Op -> Pointer] /\ reading' \in [Client -> Pointer]
      BY <1>1 DEF TypeInv, TypeOK, Pointer
    <2> QED
      BY <1>2, <1>5, <1>6, <2>1 DEF TypeInv, TypeOK
  <1>8. GotFits'
    BY <1>5, <1>6, GotStillFits
  <1> QED
    BY <1>1, <1>5, <1>7, <1>8 DEF TypeInv

\* push_read_op: the operation of a thread's read goes to the list of its stream.
LEMMA PushReadOpStep ==
  ASSUME TypeInv, NEW t \in Client, PushReadOp(t)
  PROVE  /\ TypeInv'
         /\ reading[t] \in Op /\ op[reading[t]].phase = "empty"
         /\ op' = [op EXCEPT ![reading[t]].phase = "queued"]
  <1> DEFINE o == reading[t]  s == op[o].stream
  <1>1. o \in Op /\ op[o].phase = "empty" /\ op' = [op EXCEPT ![o].phase = "queued"]
    BY DEF TypeInv, TypeOK, PushReadOp, Pointer
  <1>2. op' \in [Op -> Record] /\ GotFits'
    <2>1. "queued" \in Phase \ {"free"}
      BY DEF Phase
    <2>2. buffer' = buffer
      BY DEF PushReadOp
    <2> QED
      BY <1>1, <2>1, <2>2, PhaseStep
  <1>3. /\ header' \in [Stream -> Pointer] /\ tail' \in [Stream -> Pointer]
        /\ next' \in [Op -> Pointer] /\ reading' \in [Client -> Pointer]
    BY <1>1 DEF TypeInv, TypeOK, PushReadOp, Pointer
  <1>4. TypeOK'
    BY <1>2, <1>3 DEF TypeInv, TypeOK, PushReadOp, kernel, loop, service, history
  <1> QED
    BY <1>1, <1>2, <1>4 DEF TypeInv

\* complete(): the operation of a thread's read goes to the completion queue.
LEMMA CompleteStep ==
  ASSUME TypeInv, NEW t \in Client, Complete(t)
  PROVE  /\ TypeInv'
         /\ reading[t] \in Op /\ op[reading[t]].phase = "answered"
         /\ op' = [op EXCEPT ![reading[t]].phase = "completed"]
  <1> DEFINE o == reading[t]
  <1>1. o \in Op /\ op[o].phase = "answered" /\ op' = [op EXCEPT ![o].phase = "completed"]
    BY DEF TypeInv, TypeOK, Complete, Pointer
  <1>2. op' \in [Op -> Record] /\ GotFits'
    <2>1. "completed" \in Phase \ {"free"}
      BY DEF Phase
    <2>2. buffer' = buffer
      BY DEF Complete
    <2> QED
      BY <1>1, <2>1, <2>2, PhaseStep
  <1>3. /\ completes' \in [header : Pointer, tail : Pointer]
        /\ next' \in [Op -> Pointer] /\ reading' \in [Client -> Pointer]
    BY <1>1 DEF TypeInv, TypeOK, Complete, Pointer, LinkCompleted, Completed
  <1>4. TypeOK'
    BY <1>2, <1>3 DEF TypeInv, TypeOK, Complete, kernel, loop, service, history
  <1> QED
    BY <1>1, <1>2, <1>4 DEF TypeInv

\* run_one takes the first operation of the completion queue.
LEMMA PopStep ==
  ASSUME TypeInv, NEW t \in Client, Pop(t)
  PROVE  /\ TypeInv'
         /\ completes.header \in Op /\ op[completes.header].phase # "free"
         /\ op' = [op EXCEPT ![completes.header].phase = "taken"]
  <1> DEFINE o == completes.header
  <1>1. o \in Op /\ op[o].phase # "free" /\ op' = [op EXCEPT ![o].phase = "taken"]
    BY DEF TypeInv, TypeOK, Pop, Pointer
  <1>2. op' \in [Op -> Record] /\ GotFits'
    <2>1. "taken" \in Phase \ {"free"}
      BY DEF Phase
    <2>2. buffer' = buffer
      BY DEF Pop
    <2> QED
      BY <1>1, <2>1, <2>2, PhaseStep
  <1>3. /\ completes' \in [header : Pointer, tail : Pointer]
        /\ calling' \in [Client -> Pointer]
        /\ sleep' \in [Client -> {"no", "waiting", "woken"}]
    BY <1>1 DEF TypeInv, TypeOK, Pop, Pointer
  <1>4. TypeOK'
    BY <1>2, <1>3 DEF TypeInv, TypeOK, Pop, kernel, lists, loop, service, history
  <1> QED
    BY <1>1, <1>2, <1>4 DEF TypeInv

\* The callback sees the bytes that are in the memory now.
LEMMA CallbackStep ==
  ASSUME TypeInv, NEW t \in Client, Callback(t)
  PROVE  /\ TypeInv'
         /\ calling[t] \in Op /\ op[calling[t]].phase = "taken"
         /\ op' = [op EXCEPT ![calling[t]].phase = "called"]
  <1> DEFINE o == calling[t]  s == op[o].stream  n == Len(op[o].got)
             m == buffer[BufferOf[s]]
  <1>1. o \in Op /\ op[o].phase = "taken" /\ op' = [op EXCEPT ![o].phase = "called"]
    BY DEF TypeInv, TypeOK, Callback, Pointer
  <1>2. op' \in [Op -> Record] /\ GotFits'
    <2>1. "called" \in Phase \ {"free"}
      BY DEF Phase
    <2>2. buffer' = buffer
      BY DEF Callback
    <2> QED
      BY <1>1, <2>1, <2>2, PhaseStep
  <1>3. delivered' \in [Stream -> Seq(Byte)]
    <2>1. s \in Stream /\ n <= Len(m)
      BY <1>1 DEF TypeInv, GotFits
    <2>2. op[o].got \in Seq(Byte) /\ m \in Seq(Byte) /\ delivered[s] \in Seq(Byte)
      BY <1>1, <2>1, ReactorAssumption DEF TypeInv, TypeOK, Record
    <2>3. n \in 0..Len(m)
      BY <2>1, <2>2, LenProperties
    <2>4. delivered[s] \o SubSeq(m, 1, n) \in Seq(Byte)
      BY <2>2, <2>3, SplitAt, ConcatProperties
    <2>5. delivered' = [delivered EXCEPT ![s] = delivered[s] \o SubSeq(m, 1, n)]
      BY <2>1 DEF Callback, TypeInv, TypeOK
    <2> HIDE DEF s, m, n
    <2> QED
      BY <2>1, <2>4, <2>5 DEF TypeInv, TypeOK
  <1>4. TypeOK'
    BY <1>2, <1>3 DEF TypeInv, TypeOK, Callback, kernel, lists, threads, loop, service, history
  <1> QED
    BY <1>1, <1>2, <1>4 DEF TypeInv

\* The operation is deleted.
LEMMA DeleteStep ==
  ASSUME TypeInv, NEW t \in Client, Delete(t)
  PROVE  /\ TypeInv'
         /\ calling[t] \in Op /\ op[calling[t]].phase = "called"
         /\ op'[calling[t]].phase = "free"
         /\ \A p \in Op \ {calling[t]} : op'[p] = op[p]
  <1> DEFINE o == calling[t]
  <1>1. o \in Op /\ op[o].phase = "called" /\ op' = [op EXCEPT ![o] = NoOp]
    BY DEF TypeInv, TypeOK, Delete, Pointer
  <1>2. NoOp \in Record /\ NoOp.phase = "free"
    BY EmptySeq DEF NoOp, Record, Phase
  <1>3. op \in [Op -> Record]
    BY DEF TypeInv, TypeOK
  <1>4. op' \in [Op -> Record] /\ op'[o] = NoOp /\ \A p \in Op \ {o} : op'[p] = op[p]
    BY <1>1, <1>2, <1>3
  <1>5. GotFits'
    <2>1. buffer' = buffer
      BY DEF Delete
    <2> QED
      BY <1>2, <1>4, <2>1 DEF TypeInv, GotFits
  <1>6. calling' \in [Client -> Pointer]
    BY DEF TypeInv, TypeOK, Delete, Pointer
  <1>7. TypeOK'
    BY <1>4, <1>6 DEF TypeInv, TypeOK, Delete, kernel, lists, loop, service, history
  <1> QED
    BY <1>1, <1>2, <1>4, <1>5, <1>7 DEF TypeInv

\* The dispatcher performs the first operation of a stream.
LEMMA PerformEventStep ==
  ASSUME TypeInv, NEW s \in Stream, PerformEvent(s)
  PROVE  /\ TypeInv'
         /\ header[s] \in Op /\ op[header[s]].phase # "free"
         /\ op[header[s]].stream \in Stream
         /\ op'[header[s]].phase = "performed"
         /\ op'[header[s]].stream = op[header[s]].stream
         /\ op'[header[s]].action = op[header[s]].action
         /\ op'[header[s]].got = Available(op[header[s]].stream)
         /\ \A p \in Op \ {header[s]} : op'[p] = op[p]
  <1> DEFINE o == header[s]  r == op[o].stream
             new == [op[o] EXCEPT !.phase = "performed", !.got = Available(r)]
  <1>1. /\ o \in Op /\ op[o].phase # "free"
        /\ op' = [op EXCEPT ![o].phase = "performed", ![o].got = Available(r)]
        /\ pipe' = Drain(r) /\ buffer' = Fill(r)
    BY DEF TypeInv, TypeOK, PerformEvent, Pointer, BadAction
  <1>2. op \in [Op -> Record] /\ op[o] \in Record /\ r \in Stream
    BY <1>1 DEF TypeInv, TypeOK, GotFits
  <1>3. Available(r) \in Seq(Byte)
    BY <1>2, ReadStep DEF TypeInv
  <1>4. /\ new \in Record /\ new.phase = "performed" /\ new.stream = op[o].stream
        /\ new.action = op[o].action /\ new.got = Available(r)
    <2> HIDE DEF r
    <2> QED
      BY <1>2, <1>3 DEF Record, Phase
  <1>5. op' \in [Op -> Record] /\ op'[o] = new /\ \A p \in Op \ {o} : op'[p] = op[p]
    <2> HIDE DEF o, r
    <2> DEFINE f == [op EXCEPT ![o].phase = "performed"]
    <2>1. f = [op EXCEPT ![o] = [op[o] EXCEPT !.phase = "performed"]]
      BY <1>1, <1>2
    <2>2. op' = [f EXCEPT ![o] = [f[o] EXCEPT !.got = Available(r)]]
      BY <1>1, <1>2, <2>1
    <2>3. f[o] = [op[o] EXCEPT !.phase = "performed"]
      BY <1>1, <1>2, <2>1
    <2>4. op' = [op EXCEPT ![o] = new]
      BY <1>1, <1>2, <2>1, <2>2, <2>3
    <2>5. o \in Op /\ op \in [Op -> Record] /\ new \in Record
      BY <1>1, <1>2, <1>4
    <2> HIDE DEF new
    <2> QED
      BY <2>4, <2>5
  <1>6. /\ pipe' \in [Stream -> Seq(Byte)] /\ buffer' \in [Buffer -> Seq(Byte)]
        /\ \A b \in Buffer : Len(buffer[b]) <= Len(buffer'[b])
        /\ Len(Available(r)) <= Len(buffer'[BufferOf[r]])
    BY <1>1, <1>2, ReadStep DEF TypeInv
  <1>7. TypeOK'
    <2>1. /\ header' \in [Stream -> Pointer] /\ tail' \in [Stream -> Pointer]
          /\ next' \in [Op -> Pointer] /\ completes' \in [header : Pointer, tail : Pointer]
      BY <1>1 DEF TypeInv, TypeOK, PerformEvent, Pointer, LinkCompleted, Completed
    <2>2. /\ sleep' \in [Client -> {"no", "waiting", "woken"}] /\ raised' \subseteq Stream
          /\ dispatcher' \in {"waiting", "raised", "locked", "ended"}
      BY DEF TypeInv, TypeOK, PerformEvent, NotifyAll, FinishEvent
    <2>3. UNCHANGED <<end, edge, sent, delivered, reading, calling, registered, alive, raced,
                      doubled>>
      BY DEF PerformEvent, FinishEvent, service
    <2> QED
      BY <1>5, <1>6, <2>1, <2>2, <2>3 DEF TypeInv, TypeOK
  <1>8. GotFits'
    BY <1>1, <1>2, <1>4, <1>5, <1>6, GotStillFits
  <1>9. /\ op'[o].phase = "performed" /\ op'[o].stream = op[o].stream
        /\ op'[o].action = op[o].action /\ op'[o].got = Available(r)
    BY <1>4, <1>5
  <1> HIDE DEF new
  <1> QED
    BY <1>1, <1>2, <1>5, <1>7, <1>8, <1>9 DEF TypeInv

\* The destructor of a stream.
LEMMA UnregisterStep ==
  ASSUME TypeInv, NEW s \in Stream, Unregister(s)
  PROVE  TypeInv'
  <1>1. TypeOK'
    <2>1. header' \in [Stream -> Pointer] /\ tail' \in [Stream -> Pointer]
      BY DEF TypeInv, TypeOK, Unregister, Pointer
    <2>2. registered' \subseteq Stream /\ edge' \in [Stream -> BOOLEAN]
      BY DEF TypeInv, TypeOK, Unregister
    <2> QED
      BY <2>1, <2>2 DEF TypeInv, TypeOK, Unregister, threads, loop, history
  <1>2. GotFits'
    BY DEF TypeInv, GotFits, Unregister
  <1> QED
    BY <1>1, <1>2 DEF TypeInv

\* The steps that touch an operation or a list.
ListNext ==
  \/ \E t \in Client, s \in Stream : TryRead(t, s)
  \/ \E t \in Client : PushReadOp(t) \/ Complete(t) \/ Pop(t) \/ Callback(t) \/ Delete(t)
  \/ \E s \in Stream : PerformEvent(s) \/ Unregister(s)

LEMMA NextSplit == Next => QuietNext \/ ListNext
  BY DEF Next, QuietNext, ListNext, FinishRead, RunOne, Process

LEMMA TypeNext == TypeInv /\ [Next]_vars => TypeInv'
  <1> SUFFICES ASSUME TypeInv, [Next]_vars PROVE TypeInv'
    OBVIOUS
  <1>1. CASE UNCHANGED vars
    BY <1>1 DEF vars, kernel, lists, threads, loop, service, history, TypeInv, TypeOK, GotFits
  <1>2. CASE QuietNext
    BY <1>2, TypeQuiet
  <1>3. CASE ListNext
    BY <1>3, TryReadStep, PushReadOpStep, CompleteStep, PopStep, CallbackStep, DeleteStep,
       PerformEventStep, UnregisterStep DEF ListNext
  <1> QED
    BY <1>1, <1>2, <1>3, NextSplit

\* The variables of the io service always have their types, and what an operation says
\* it has read fits into the memory it was given (reactor_io_stream.hpp:39-58, 111-147).
THEOREM TypeCorrect == Spec => []TypeInv
  BY TypeInit, TypeNext, PTL DEF Spec

-----------------------------------------------------------------------------
(* The lists. *)

Waits(o) == op[o].phase \notin {"free", "called"}
Done(o)  == op[o].phase \in {"completed", "performed"}

\* An operation is in the hands of at most one thread.
Owned ==
  /\ \A t \in Client : reading[t] # nullptr =>
       /\ op[reading[t]].phase \in {"empty", "answered"}
       /\ op[reading[t]].stream \in registered
  /\ \A t \in Client : calling[t] # nullptr => op[calling[t]].phase \in {"taken", "called"}
  /\ \A t, u \in Client : reading[t] = reading[u] /\ reading[t] # nullptr => t = u
  /\ \A t, u \in Client : calling[t] = calling[u] /\ calling[t] # nullptr => t = u

\* A stream has one read at a time.
Alone ==
  \A o, p \in Op : Waits(o) /\ Waits(p) /\ op[o].stream = op[p].stream => o = p

\* The list of a stream is that one operation, without a link.
Queues ==
  /\ \A o \in Op : op[o].phase \in {"empty", "answered", "queued"} => next[o] = nullptr
  /\ \A o \in Op : op[o].phase \in {"empty", "queued"} => op[o].action = "read"
  /\ tail = header
  /\ \A s \in Stream : header[s] # nullptr =>
       s \in registered /\ op[header[s]].phase = "queued" /\ op[header[s]].stream = s
  /\ \A o \in Op : op[o].phase = "queued" /\ op[o].stream \in registered =>
       header[op[o].stream] = o

\* The completion queue, as the sequence of the operations that its links go through.
IsChain(q) ==
  /\ \A i, j \in 1..Len(q) : q[i] = q[j] => i = j
  /\ \A o \in Op : Done(o) <=> \E i \in 1..Len(q) : q[i] = o
  /\ q = <<>> => completes.header = nullptr /\ completes.tail = nullptr
  /\ q # <<>> => completes.header = q[1] /\ completes.tail = q[Len(q)]
  /\ \A i \in 1..Len(q) : next[q[i]] = IF i < Len(q) THEN q[i + 1] ELSE nullptr

Chain == \E q \in Seq(Op) : IsChain(q)

Lists == Owned /\ Alone /\ Queues /\ Chain

ListInv == TypeInv /\ (doubled = {} => Lists)

LEMMA ListInit == Init => ListInv
  <1> SUFFICES ASSUME Init PROVE Lists
    BY TypeInit DEF ListInv
  <1>1. \A o \in Op : op[o].phase = "free"
    BY DEF Init, NoOp
  <1>2. IsChain(<<>>) /\ <<>> \in Seq(Op)
    BY <1>1, EmptySeq DEF IsChain, Done, Init
  <1>3. Owned /\ Alone /\ Queues
    BY <1>1 DEF Owned, Alone, Queues, Waits, Init
  <1> QED
    BY <1>2, <1>3 DEF Lists, Chain

\* The chain goes on as long as the operations in it and their links stay.
LEMMA ChainKept ==
  ASSUME TypeInv, Chain, completes' = completes,
         \A o \in Op : Done(o)' <=> Done(o),
         \A o \in Op : Done(o) => next'[o] = next[o]
  PROVE  Chain'
  <1>1. PICK q \in Seq(Op) : IsChain(q)
    BY DEF Chain
  <1>2. \A i \in 1..Len(q) : q[i] \in Op /\ Done(q[i])
    BY <1>1, ElementOfSeq DEF IsChain
  <1>3. IsChain(q)'
    BY <1>1, <1>2 DEF IsChain
  <1> QED
    BY <1>3 DEF Chain

\* An operation without a link is put at the end of the completion queue.
LEMMA ChainGrows ==
  ASSUME TypeInv, Chain, NEW o \in Op, ~Done(o), next[o] = nullptr,
         next' = LinkCompleted(o), completes' = Completed(o),
         \A p \in Op : Done(p)' <=> Done(p) \/ p = o
  PROVE  /\ Chain'
         /\ \A p \in Op : ~Done(p) => next'[p] = next[p]
  <1>1. PICK q \in Seq(Op) : IsChain(q)
    BY DEF Chain
  <1> DEFINE n == Len(q)  r == Append(q, o)
  <1>2. n \in Nat /\ \A i \in 1..n : q[i] \in Op /\ Done(q[i]) /\ q[i] # o
    BY <1>1, ElementOfSeq, LenProperties DEF IsChain
  <1>3. r \in Seq(Op) /\ Len(r) = n + 1 /\ r # <<>> /\ r[n + 1] = o
        /\ \A i \in 1..n : r[i] = q[i]
    BY AppendProperties
  <1>4. /\ q = <<>> => n = 0 /\ completes.header = nullptr
        /\ q # <<>> => n > 0 /\ completes.header = q[1] /\ completes.tail = q[n]
    BY <1>1, <1>2, EmptySeq DEF IsChain
  <1>5. q # <<>> => completes.header # nullptr
    BY <1>2, <1>4 DEF Op, nullptr
  <1>6. /\ q = <<>> => next' = next
        /\ q # <<>> => next' = [next EXCEPT ![q[n]] = o]
    BY <1>4, <1>5 DEF LinkCompleted
  <1>7. next \in [Op -> Pointer]
    BY DEF TypeInv, TypeOK
  <1>8. \A p \in Op : ~Done(p) => next'[p] = next[p]
    BY <1>2, <1>4, <1>6, <1>7
  <1> HIDE DEF n, r
  <1>9. ASSUME NEW i \in 1..(n + 1)
        PROVE  next'[r[i]] = IF i < n + 1 THEN r[i + 1] ELSE nullptr
    <2>1. CASE i = n + 1
      BY <1>2, <1>3, <1>8, <2>1
    <2>2. CASE i = n /\ n > 0
      <3>1. q # <<>>
        BY <1>4, <2>2
      <3>2. r[i] = q[n] /\ r[i + 1] = o /\ q[n] \in Op
        BY <1>2, <1>3, <2>2
      <3> QED
        BY <1>2, <1>6, <1>7, <2>2, <3>1, <3>2
    <2>3. CASE i < n
      <3>1. i \in 1..n /\ i + 1 \in 1..n /\ n \in 1..n
        BY <1>2, <2>3
      <3>2. q[i] # q[n] /\ next[q[i]] = q[i + 1]
        BY <1>1, <1>2, <2>3, <3>1 DEF IsChain, n
      <3>3. q[i] \in Op /\ next'[q[i]] = next[q[i]]
        BY <1>2, <1>6, <1>7, <3>1, <3>2
      <3> QED
        BY <1>2, <1>3, <2>3, <3>1, <3>2, <3>3
    <2> QED
      BY <1>2, <2>1, <2>2, <2>3
  <1>10. \A i, j \in 1..(n + 1) : r[i] = r[j] => i = j
    <2> SUFFICES ASSUME NEW i \in 1..(n + 1), NEW j \in 1..(n + 1), r[i] = r[j]
                 PROVE  i = j
      OBVIOUS
    <2>1. CASE i \in 1..n /\ j \in 1..n
      BY SMTT(30), <1>1, <1>3, <2>1 DEF IsChain, n
    <2>2. CASE i = n + 1 \/ j = n + 1
      BY <1>2, <1>3, <2>2
    <2> QED
      BY <1>2, <2>1, <2>2
  <1>11. \A p \in Op : Done(p)' <=> \E i \in 1..(n + 1) : r[i] = p
    <2> SUFFICES ASSUME NEW p \in Op
                 PROVE  Done(p)' <=> \E i \in 1..(n + 1) : r[i] = p
      OBVIOUS
    <2>1. Done(p) <=> \E i \in 1..n : q[i] = p
      BY <1>1 DEF IsChain, n
    <2>2. ASSUME Done(p)' PROVE \E i \in 1..(n + 1) : r[i] = p
      <3>1. CASE p = o
        BY <1>2, <1>3, <3>1
      <3>2. CASE Done(p)
        <4>1. PICK i \in 1..n : q[i] = p
          BY <2>1, <3>2
        <4>2. i \in 1..(n + 1) /\ r[i] = p
          BY <1>2, <1>3, <4>1
        <4> QED
          BY <4>2
      <3> QED
        BY <2>2, <3>1, <3>2
    <2>3. ASSUME NEW i \in 1..(n + 1), r[i] = p PROVE Done(p)'
      <3>1. CASE i = n + 1
        BY <1>3, <2>3, <3>1
      <3>2. CASE i \in 1..n
        BY <1>2, <1>3, <2>3, <3>2
      <3> QED
        BY <1>2, <3>1, <3>2
    <2> QED
      BY <2>2, <2>3
  <1>12. completes' = [header |-> r[1], tail |-> r[n + 1]]
    BY <1>2, <1>3, <1>4, <1>5 DEF Completed
  <1>13. IsChain(r)'
    <2>1. completes'.header = r[1] /\ completes'.tail = r[n + 1]
      BY <1>12
    <2> QED
      BY <1>3, <1>9, <1>10, <1>11, <2>1 DEF IsChain
  <1> QED
    BY <1>3, <1>8, <1>13 DEF Chain

\* The first operation is taken from the completion queue.
LEMMA ChainShrinks ==
  ASSUME TypeInv, Chain, completes.header # nullptr, next' = next,
         completes' = [header |-> next[completes.header],
                       tail   |-> IF completes.tail = completes.header
                                    THEN nullptr ELSE completes.tail],
         \A p \in Op : Done(p)' <=> Done(p) /\ p # completes.header
  PROVE  Chain'
  <1>1. PICK q \in Seq(Op) : IsChain(q)
    BY DEF Chain
  <1> DEFINE n == Len(q)  r == Tail(q)
  <1>2. n \in Nat /\ \A i \in 1..n : q[i] \in Op /\ Done(q[i])
    BY <1>1, ElementOfSeq, LenProperties DEF IsChain
  <1>3. q # <<>> /\ completes.header = q[1] /\ completes.tail = q[n] /\ n > 0
    BY <1>1, <1>2, EmptySeq DEF IsChain
  <1>4. r \in Seq(Op) /\ Len(r) = n - 1 /\ \A i \in 1..(n - 1) : r[i] = q[i + 1]
    BY <1>3, HeadTailProperties
  <1>5. r = <<>> <=> n = 1
    <2> HIDE DEF n, r
    <2>1. r = <<>> => Len(r) = 0
      BY EmptySeq
    <2>2. Len(r) = 0 => r = <<>>
      BY <1>4, EmptySeq
    <2> QED
      BY <1>2, <1>4, <2>1, <2>2
  <1>6. /\ \A i, j \in 1..n : q[i] = q[j] => i = j
        /\ \A i \in 1..n : next[q[i]] = IF i < n THEN q[i + 1] ELSE nullptr
        /\ \A o \in Op : Done(o) <=> \E i \in 1..n : q[i] = o
    BY <1>1 DEF IsChain
  <1> HIDE DEF n, r
  <1>7. completes'.header = IF n = 1 THEN nullptr ELSE r[1]
    BY <1>2, <1>3, <1>4, <1>6
  <1>8. completes'.tail = IF n = 1 THEN nullptr ELSE r[n - 1]
    BY <1>2, <1>3, <1>4, <1>6
  <1>9. ASSUME NEW i \in 1..(n - 1)
        PROVE  next'[r[i]] = IF i < n - 1 THEN r[i + 1] ELSE nullptr
    BY <1>2, <1>4, <1>6
  <1>10. ASSUME NEW i \in 1..(n - 1), NEW j \in 1..(n - 1), r[i] = r[j] PROVE i = j
    <2>1. i + 1 \in 1..n /\ j + 1 \in 1..n /\ q[i + 1] = q[j + 1]
      BY <1>2, <1>4, <1>10
    <2>2. i + 1 = j + 1
      BY <1>6, <2>1
    <2> QED
      BY <2>2
  <1>11. ASSUME NEW p \in Op
         PROVE  Done(p)' <=> \E i \in 1..(n - 1) : r[i] = p
    <2>1. ASSUME Done(p)' PROVE \E i \in 1..(n - 1) : r[i] = p
      <3>1. Done(p) /\ p # q[1]
        BY <1>3, <2>1
      <3>2. PICK i \in 1..n : q[i] = p
        BY <1>6, <3>1
      <3>3. i # 1 /\ i - 1 \in 1..(n - 1) /\ (i - 1) + 1 = i
        BY <1>2, <3>1, <3>2
      <3> QED
        BY <1>4, <3>2, <3>3
    <2>2. ASSUME NEW i \in 1..(n - 1), r[i] = p PROVE Done(p)'
      <3>1. i + 1 \in 1..n /\ 1 \in 1..n /\ q[i + 1] = p /\ i + 1 # 1
        BY <1>2, <1>4, <2>2
      <3>2. p # q[1] /\ Done(p)
        BY <1>2, <1>6, <3>1
      <3> QED
        BY <1>3, <3>2
    <2> QED
      BY <2>1, <2>2
  <1>12. IsChain(r)'
    BY <1>2, <1>4, <1>5, <1>7, <1>8, <1>9, <1>10, <1>11 DEF IsChain
  <1> QED
    BY <1>4, <1>12 DEF Chain

\* Neither kind of step undoes that a stream had two reads.
LEMMA DoubledStays == [Next]_vars => doubled \subseteq doubled'
  BY DEF Next, Process, FinishRead, RunOne, Write, EndStream, Unregister, TryRead, PushReadOp,
         Complete, CrashInComplete, Sleep, Pop, CrashInPop, ReturnEmpty, Callback, Delete,
         SpuriousWakeup, TimeOut, Rest, Crash, EventsWait, EndRound, EndDispatcher,
         CrashInRound, IgnoreEvent, PerformEvent, CrashInEvent, FinishEvent, CloseEvents,
         JoinDispatcher, vars, history

LEMMA TryReadLists ==
  ASSUME TypeInv, Lists, NEW t \in Client, NEW s \in Stream, TryRead(t, s), doubled' = {}
  PROVE  Lists'
  <1>1. PICK o \in Op :
          /\ op[o].phase = "free" /\ reading' = [reading EXCEPT ![t] = o]
          /\ next' = [next EXCEPT ![o] = nullptr]
          /\ op'[o].phase = IF WouldBlock(s) THEN "empty" ELSE "answered"
          /\ op'[o].stream = s
          /\ op'[o].action = IF WouldBlock(s) THEN "read" ELSE "none"
          /\ \A p \in Op \ {o} : op'[p] = op[p]
    BY TryReadStep
  <1>2. /\ UNCHANGED <<header, tail, completes, calling, registered>>
        /\ s \in registered /\ Waiting(s) = {}
    BY DEF TryRead, service
  <1>3. reading \in [Client -> Pointer] /\ calling \in [Client -> Pointer]
        /\ next \in [Op -> Pointer] /\ header \in [Stream -> Pointer]
    BY DEF TypeInv, TypeOK
  <1>4. op'[o].phase \in {"empty", "answered"}
    BY <1>1
  <1>5. Owned'
    <2>1. /\ \A u \in Client : reading[u] # o /\ calling[u] # o
          /\ \A u \in Client : reading[u] \in Op \cup {nullptr} /\ calling[u] \in Op \cup {nullptr}
      <3>1. o # nullptr
        BY DEF Op, nullptr
      <3>2. \A u \in Client : reading[u] \in Op \cup {nullptr} /\ calling[u] \in Op \cup {nullptr}
        BY <1>3 DEF Pointer
      <3> QED
        BY <1>1, <3>1, <3>2 DEF Lists, Owned
    <2>2. \A u \in Client \ {t} : reading'[u] = reading[u]
      BY <1>1, <1>3
    <2>3. reading'[t] = o
      BY <1>1, <1>3
    <2> QED
      BY <1>1, <1>2, <1>4, <2>1, <2>2, <2>3 DEF Lists, Owned
  <1>6. Alone'
    <2>1. \A p \in Op : Waits(p) => op[p].stream # s
      BY <1>2 DEF Waiting, Waits
    <2> QED
      BY <1>1, <2>1 DEF Lists, Alone, Waits
  <1>7. Queues'
    <2>1. \A p \in Op \ {o} : next'[p] = next[p]
      BY <1>1, <1>3
    <2>2. next'[o] = nullptr
      BY <1>1, <1>3
    <2>3. \A r \in Stream : header[r] # nullptr => header[r] \in Op \ {o}
      BY <1>1, <1>3 DEF Lists, Queues, Pointer
    <2> QED
      BY <1>1, <1>2, <1>4, <2>1, <2>2, <2>3 DEF Lists, Queues
  <1>8. Chain'
    <2>1. \A p \in Op : Done(p)' <=> Done(p)
      BY <1>1, <1>4 DEF Done
    <2>2. \A p \in Op : Done(p) => next'[p] = next[p]
      BY <1>1, <1>3 DEF Done
    <2> QED
      BY <1>2, <2>1, <2>2, ChainKept DEF Lists
  <1> QED
    BY <1>5, <1>6, <1>7, <1>8 DEF Lists

LEMMA PushReadOpLists ==
  ASSUME TypeInv, Lists, NEW t \in Client, PushReadOp(t)
  PROVE  Lists'
  <1> DEFINE o == reading[t]  s == op[o].stream
  <1>1. o \in Op /\ op[o].phase = "empty" /\ op' = [op EXCEPT ![o].phase = "queued"]
    BY PushReadOpStep
  <1>2. \A p \in Op : /\ op'[p].stream = op[p].stream /\ op'[p].action = op[p].action
                      /\ op'[p].phase = IF p = o THEN "queued" ELSE op[p].phase
    <2>1. "queued" \in Phase \ {"free"} /\ op[o].phase # "free"
      BY <1>1 DEF Phase
    <2> HIDE DEF o
    <2> QED
      BY <1>1, <2>1, PhaseStep
  <1>3. s \in registered /\ s \in Stream /\ o # nullptr
    BY <1>1 DEF Lists, Owned, TypeInv, TypeOK, Op, nullptr
  <1>4. header[s] = nullptr
    <2>1. header[s] \in Op \cup {nullptr}
      BY <1>3 DEF TypeInv, TypeOK, Pointer
    <2>2. header[s] # nullptr => op[header[s]].phase = "queued" /\ op[header[s]].stream = s
      BY <1>3 DEF Lists, Queues
    <2>3. header[s] # nullptr => header[s] = o
      BY <1>1, <2>1, <2>2 DEF Lists, Alone, Waits
    <2> QED
      BY <1>1, <2>2, <2>3
  <1>5. /\ header' = [header EXCEPT ![s] = o] /\ tail' = [tail EXCEPT ![s] = o]
        /\ next' = next /\ UNCHANGED <<completes, calling, registered>>
        /\ reading' = [reading EXCEPT ![t] = nullptr]
    BY <1>4 DEF PushReadOp, service
  <1>6. /\ header \in [Stream -> Pointer] /\ tail \in [Stream -> Pointer]
        /\ reading \in [Client -> Pointer] /\ calling \in [Client -> Pointer]
    BY DEF TypeInv, TypeOK
  <1> HIDE DEF o, s
  <1>7. Owned'
    <2>1. \A u \in Client : reading'[u] = IF u = t THEN nullptr ELSE reading[u]
      BY <1>5, <1>6
    <2>2. \A u \in Client : reading[u] \in Op \cup {nullptr} /\ calling[u] \in Op \cup {nullptr}
      BY <1>6 DEF Pointer
    <2>3. \A u \in Client : u # t /\ reading[u] # nullptr => reading[u] # o
      BY <1>1, <1>3 DEF Lists, Owned, o
    <2>4. \A u \in Client : calling[u] # nullptr => calling[u] # o
      BY <1>1, <2>2 DEF Lists, Owned
    <2> QED
      BY <1>2, <1>5, <2>1, <2>2, <2>3, <2>4 DEF Lists, Owned
  <1>8. Alone'
    BY <1>1, <1>2 DEF Lists, Alone, Waits
  <1>9. Queues'
    <2>1. tail' = header'
      BY <1>5 DEF Lists, Queues
    <2>2. \A r \in Stream : header'[r] = IF r = s THEN o ELSE header[r]
      BY <1>5, <1>6
    <2>3. \A r \in Stream : header[r] # nullptr => header[r] \in Op \ {o}
      BY <1>1, <1>6 DEF Lists, Queues, Pointer
    <2>4. ASSUME NEW r \in Stream, header'[r] # nullptr
          PROVE  r \in registered' /\ op'[header'[r]].phase = "queued"
                 /\ op'[header'[r]].stream = r
      <3>1. CASE r = s
        BY <1>1, <1>2, <1>3, <1>5, <2>2, <3>1 DEF s
      <3>2. CASE r # s
        BY <1>2, <1>5, <2>2, <2>3, <2>4, <3>2 DEF Lists, Queues
      <3> QED
        BY <3>1, <3>2
    <2>5. ASSUME NEW p \in Op, op'[p].phase = "queued", op'[p].stream \in registered'
          PROVE  header'[op'[p].stream] = p
      <3>1. op[p].stream \in Stream
        BY <1>2, <1>5, <2>5 DEF TypeInv, TypeOK
      <3>2. CASE p = o
        BY <1>2, <2>2, <3>1, <3>2 DEF s
      <3>3. CASE p # o
        <4>1. op[p].phase = "queued" /\ header[op[p].stream] = p
          BY <1>2, <1>5, <2>5, <3>3 DEF Lists, Queues
        <4>2. op[p].stream # s
          BY <1>3, <1>4, <4>1 DEF Op, nullptr
        <4> QED
          BY <1>2, <2>2, <3>1, <4>1, <4>2
      <3> QED
        BY <3>2, <3>3
    <2>6. \A p \in Op : op'[p].phase \in {"empty", "answered", "queued"} => next'[p] = nullptr
      BY <1>1, <1>2, <1>5 DEF Lists, Queues
    <2>7. \A p \in Op : op'[p].phase \in {"empty", "queued"} => op'[p].action = "read"
      BY <1>1, <1>2 DEF Lists, Queues
    <2> QED
      BY <2>1, <2>4, <2>5, <2>6, <2>7 DEF Queues
  <1>10. Chain'
    BY <1>1, <1>2, <1>5, ChainKept DEF Lists, Done
  <1> QED
    BY <1>7, <1>8, <1>9, <1>10 DEF Lists

LEMMA CompleteLists ==
  ASSUME TypeInv, Lists, NEW t \in Client, Complete(t)
  PROVE  Lists'
  <1> DEFINE o == reading[t]
  <1>1. o \in Op /\ op[o].phase = "answered" /\ op' = [op EXCEPT ![o].phase = "completed"]
    BY CompleteStep
  <1>2. /\ next' = LinkCompleted(o) /\ completes' = Completed(o)
        /\ UNCHANGED <<header, tail, calling, registered>>
        /\ reading' = [reading EXCEPT ![t] = nullptr]
    BY DEF Complete, service
  <1>3. /\ header \in [Stream -> Pointer]
        /\ reading \in [Client -> Pointer] /\ calling \in [Client -> Pointer]
    BY DEF TypeInv, TypeOK
  <1>4. \A u \in Client : u # t /\ reading[u] # nullptr => reading[u] # o
    BY <1>1 DEF Lists, Owned, Op, nullptr
  <1> HIDE DEF o
  <1>5. \A p \in Op : /\ op'[p].stream = op[p].stream /\ op'[p].action = op[p].action
                      /\ op'[p].phase = IF p = o THEN "completed" ELSE op[p].phase
    <2>1. "completed" \in Phase \ {"free"} /\ op[o].phase # "free"
      BY <1>1 DEF Phase
    <2> QED
      BY <1>1, <2>1, PhaseStep
  <1>6. Owned'
    <2>1. \A u \in Client : reading'[u] = IF u = t THEN nullptr ELSE reading[u]
      BY <1>2, <1>3
    <2>2. \A u \in Client : reading[u] \in Op \cup {nullptr} /\ calling[u] \in Op \cup {nullptr}
      BY <1>3 DEF Pointer
    <2>3. \A u \in Client : calling[u] # nullptr => calling[u] # o
      BY <1>1, <2>2 DEF Lists, Owned
    <2> QED
      BY <1>2, <1>4, <1>5, <2>1, <2>2, <2>3 DEF Lists, Owned
  <1>7. Alone'
    BY <1>1, <1>5 DEF Lists, Alone, Waits
  <1>8. Chain' /\ \A p \in Op : ~Done(p) => next'[p] = next[p]
    <2>1. ~Done(o) /\ next[o] = nullptr
      BY <1>1 DEF Done, Lists, Queues
    <2>2. \A p \in Op : Done(p)' <=> Done(p) \/ p = o
      BY <1>5 DEF Done
    <2> QED
      BY <1>1, <1>2, <2>1, <2>2, ChainGrows DEF Lists
  <1>9. Queues'
    <2>1. \A r \in Stream : header[r] # nullptr => header[r] \in Op \ {o}
      BY <1>1, <1>3 DEF Lists, Queues, Pointer
    <2>2. \A p \in Op : op'[p].phase \in {"empty", "answered", "queued"} =>
            p # o /\ next'[p] = next[p]
      BY <1>5, <1>8 DEF Done
    <2> QED
      BY <1>2, <1>5, <2>1, <2>2 DEF Lists, Queues
  <1> QED
    BY <1>6, <1>7, <1>8, <1>9 DEF Lists

\* The header of the completion queue is an operation that is complete.
LEMMA FirstIsDone ==
  ASSUME TypeInv, Chain, completes.header # nullptr
  PROVE  /\ completes.header \in Op /\ Done(completes.header)
         /\ completes.tail \in Op
  <1>1. PICK q \in Seq(Op) : IsChain(q)
    BY DEF Chain
  <1>2. q # <<>> /\ Len(q) \in Nat /\ Len(q) # 0
    BY <1>1, EmptySeq, LenProperties DEF IsChain
  <1>3. 1 \in 1..Len(q) /\ Len(q) \in 1..Len(q)
    BY <1>2
  <1>4. q[1] \in Op /\ q[Len(q)] \in Op
    BY <1>3, ElementOfSeq
  <1> QED
    BY <1>1, <1>2, <1>3, <1>4 DEF IsChain

LEMMA PopLists ==
  ASSUME TypeInv, Lists, NEW t \in Client, Pop(t)
  PROVE  Lists'
  <1> DEFINE o == completes.header
  <1>1. o \in Op /\ o # nullptr /\ Done(o) /\ op' = [op EXCEPT ![o].phase = "taken"]
    <2>1. completes.header # nullptr
      BY DEF Pop
    <2> QED
      BY <2>1, PopStep, FirstIsDone DEF Lists
  <1>2. /\ calling[t] = nullptr /\ calling' = [calling EXCEPT ![t] = o]
        /\ UNCHANGED <<header, tail, next, reading, registered>>
        /\ completes' = [header |-> next[o],
                         tail   |-> IF completes.tail = o THEN nullptr ELSE completes.tail]
    BY DEF Pop, Idle, lists, service
  <1>3. /\ header \in [Stream -> Pointer]
        /\ reading \in [Client -> Pointer] /\ calling \in [Client -> Pointer]
    BY DEF TypeInv, TypeOK
  <1>4. \A p \in Op : /\ op'[p].stream = op[p].stream /\ op'[p].action = op[p].action
                      /\ op'[p].phase = IF p = o THEN "taken" ELSE op[p].phase
    <2>1. "taken" \in Phase \ {"free"} /\ op[o].phase # "free"
      BY <1>1 DEF Phase, Done
    <2> HIDE DEF o
    <2> QED
      BY <1>1, <2>1, PhaseStep
  <1>5. Chain'
    <2>1. \A p \in Op : Done(p)' <=> Done(p) /\ p # o
      BY <1>4 DEF Done
    <2> QED
      BY <1>1, <1>2, <2>1, ChainShrinks DEF Lists
  <1> HIDE DEF o
  <1>6. Owned'
    <2>1. \A u \in Client : calling'[u] = IF u = t THEN o ELSE calling[u]
      BY <1>2, <1>3
    <2>2. \A u \in Client : reading[u] \in Op \cup {nullptr} /\ calling[u] \in Op \cup {nullptr}
      BY <1>3 DEF Pointer
    <2>3. \A u \in Client : calling[u] # o /\ reading[u] # o
      BY <1>1, <2>2 DEF Lists, Owned, Done
    <2> QED
      BY <1>1, <1>2, <1>4, <2>1, <2>2, <2>3 DEF Lists, Owned
  <1>7. Alone'
    BY <1>1, <1>4 DEF Lists, Alone, Waits, Done
  <1>8. Queues'
    <2>1. \A r \in Stream : header[r] # nullptr => header[r] \in Op \ {o}
      BY <1>1, <1>3 DEF Lists, Queues, Pointer, Done
    <2> QED
      BY <1>2, <1>4, <2>1 DEF Lists, Queues
  <1> QED
    BY <1>5, <1>6, <1>7, <1>8 DEF Lists

LEMMA CallbackLists ==
  ASSUME TypeInv, Lists, NEW t \in Client, Callback(t)
  PROVE  Lists'
  <1> DEFINE o == calling[t]
  <1>1. o \in Op /\ op[o].phase = "taken" /\ op' = [op EXCEPT ![o].phase = "called"]
    BY CallbackStep
  <1>2. UNCHANGED <<header, tail, next, completes, reading, calling, registered>>
    BY DEF Callback, lists, threads, service
  <1>3. /\ header \in [Stream -> Pointer]
        /\ reading \in [Client -> Pointer] /\ calling \in [Client -> Pointer]
    BY DEF TypeInv, TypeOK
  <1> HIDE DEF o
  <1>4. \A p \in Op : /\ op'[p].stream = op[p].stream /\ op'[p].action = op[p].action
                      /\ op'[p].phase = IF p = o THEN "called" ELSE op[p].phase
    <2>1. "called" \in Phase \ {"free"} /\ op[o].phase # "free"
      BY <1>1 DEF Phase
    <2> QED
      BY <1>1, <2>1, PhaseStep
  <1>5. Owned'
    <2>1. \A u \in Client : reading[u] \in Op \cup {nullptr} /\ calling[u] \in Op \cup {nullptr}
      BY <1>3 DEF Pointer
    <2>2. \A u \in Client : reading[u] # nullptr => reading[u] # o
      BY <1>1 DEF Lists, Owned
    <2> QED
      BY <1>1, <1>2, <1>4, <2>1, <2>2 DEF Lists, Owned
  <1>6. Alone'
    BY <1>4 DEF Lists, Alone, Waits
  <1>7. Queues'
    <2>1. \A r \in Stream : header[r] # nullptr => header[r] \in Op \ {o}
      BY <1>1, <1>3 DEF Lists, Queues, Pointer
    <2> QED
      BY <1>2, <1>4, <2>1 DEF Lists, Queues
  <1>8. Chain'
    BY <1>1, <1>2, <1>4, ChainKept DEF Lists, Done
  <1> QED
    BY <1>5, <1>6, <1>7, <1>8 DEF Lists

LEMMA DeleteLists ==
  ASSUME TypeInv, Lists, NEW t \in Client, Delete(t)
  PROVE  Lists'
  <1> DEFINE o == calling[t]
  <1>1. /\ o \in Op /\ op[o].phase = "called" /\ op'[o].phase = "free"
        /\ \A p \in Op \ {o} : op'[p] = op[p]
    BY DeleteStep
  <1>2. /\ UNCHANGED <<header, tail, next, completes, reading, registered>>
        /\ calling' = [calling EXCEPT ![t] = nullptr]
    BY DEF Delete, lists, service
  <1>3. /\ header \in [Stream -> Pointer]
        /\ reading \in [Client -> Pointer] /\ calling \in [Client -> Pointer]
    BY DEF TypeInv, TypeOK
  <1>4. \A u \in Client : u # t /\ calling[u] # nullptr => calling[u] # o
    BY <1>1 DEF Lists, Owned, Op, nullptr
  <1> HIDE DEF o
  <1>5. Owned'
    <2>1. \A u \in Client : calling'[u] = IF u = t THEN nullptr ELSE calling[u]
      BY <1>2, <1>3
    <2>2. \A u \in Client : reading[u] \in Op \cup {nullptr} /\ calling[u] \in Op \cup {nullptr}
      BY <1>3 DEF Pointer
    <2>3. \A u \in Client : reading[u] # nullptr => reading[u] # o
      BY <1>1 DEF Lists, Owned
    <2> QED
      BY <1>1, <1>2, <1>4, <2>1, <2>2, <2>3 DEF Lists, Owned
  <1>6. Alone'
    BY <1>1 DEF Lists, Alone, Waits
  <1>7. Queues'
    <2>1. \A r \in Stream : header[r] # nullptr => header[r] \in Op \ {o}
      BY <1>1, <1>3 DEF Lists, Queues, Pointer
    <2> QED
      BY <1>1, <1>2, <2>1 DEF Lists, Queues
  <1>8. Chain'
    BY <1>1, <1>2, ChainKept DEF Lists, Done
  <1> QED
    BY <1>5, <1>6, <1>7, <1>8 DEF Lists

LEMMA PerformEventLists ==
  ASSUME TypeInv, Lists, NEW s \in Stream, PerformEvent(s)
  PROVE  Lists'
  <1> DEFINE o == header[s]
  <1>1. /\ o \in Op /\ o # nullptr /\ op'[o].phase = "performed"
        /\ op'[o].stream = op[o].stream /\ op'[o].action = op[o].action
        /\ \A p \in Op \ {o} : op'[p] = op[p]
    BY PerformEventStep DEF Op, nullptr
  <1>2. op[o].phase = "queued" /\ op[o].stream = s /\ next[o] = nullptr
    BY <1>1 DEF Lists, Queues
  <1>3. /\ header' = [header EXCEPT ![s] = nullptr] /\ tail' = [tail EXCEPT ![s] = nullptr]
        /\ next' = LinkCompleted(o) /\ completes' = Completed(o)
        /\ UNCHANGED <<reading, calling, registered>>
    BY <1>2 DEF PerformEvent, FinishEvent, service, nullptr
  <1>4. /\ header \in [Stream -> Pointer]
        /\ reading \in [Client -> Pointer] /\ calling \in [Client -> Pointer]
    BY DEF TypeInv, TypeOK
  <1> HIDE DEF o
  <1>5. Owned'
    <2>1. \A u \in Client : reading[u] \in Op \cup {nullptr} /\ calling[u] \in Op \cup {nullptr}
      BY <1>4 DEF Pointer
    <2>2. \A u \in Client : /\ reading[u] # nullptr => reading[u] # o
                            /\ calling[u] # nullptr => calling[u] # o
      BY <1>2 DEF Lists, Owned
    <2> QED
      BY <1>1, <1>3, <2>1, <2>2 DEF Lists, Owned
  <1>6. Alone'
    BY <1>1, <1>2 DEF Lists, Alone, Waits
  <1>7. Chain' /\ \A p \in Op : ~Done(p) => next'[p] = next[p]
    <2>1. ~Done(o)
      BY <1>2 DEF Done
    <2>2. \A p \in Op : Done(p)' <=> Done(p) \/ p = o
      BY <1>1 DEF Done
    <2> QED
      BY <1>1, <1>2, <1>3, <2>1, <2>2, ChainGrows DEF Lists
  <1>8. Queues'
    <2>1. tail' = header'
      BY <1>3 DEF Lists, Queues
    <2>2. \A r \in Stream : header'[r] = IF r = s THEN nullptr ELSE header[r]
      BY <1>3, <1>4
    <2>3. \A r \in Stream : header[r] # nullptr => header[r] \in Op
      BY <1>4 DEF Pointer
    <2>4. \A r \in Stream \ {s} : header[r] # nullptr => header[r] # o
      BY <1>2 DEF Lists, Queues
    <2>5. ASSUME NEW p \in Op, op'[p].phase = "queued", op'[p].stream \in registered'
          PROVE  header'[op'[p].stream] = p
      <3>1. p # o
        BY <1>1, <2>5
      <3>2. op[p].phase = "queued" /\ op[p].stream \in Stream /\ header[op[p].stream] = p
        BY <1>1, <1>3, <2>5, <3>1 DEF Lists, Queues, TypeInv, TypeOK
      <3>3. op[p].stream # s
        BY <3>1, <3>2 DEF o
      <3> QED
        BY <1>1, <2>2, <3>1, <3>2, <3>3
    <2>6. ASSUME NEW r \in Stream, header'[r] # nullptr
          PROVE  r \in registered' /\ op'[header'[r]].phase = "queued"
                 /\ op'[header'[r]].stream = r
      BY <1>1, <1>3, <2>2, <2>3, <2>4, <2>6 DEF Lists, Queues
    <2>7. \A p \in Op : op'[p].phase \in {"empty", "answered", "queued"} =>
            p # o /\ next'[p] = next[p]
      BY <1>1, <1>7 DEF Done
    <2>8. /\ \A p \in Op : op'[p].phase \in {"empty", "answered", "queued"} => next'[p] = nullptr
          /\ \A p \in Op : op'[p].phase \in {"empty", "queued"} => op'[p].action = "read"
      BY <1>1, <2>7 DEF Lists, Queues
    <2> QED
      BY <2>1, <2>5, <2>6, <2>8 DEF Queues
  <1> QED
    BY <1>5, <1>6, <1>7, <1>8 DEF Lists

LEMMA UnregisterLists ==
  ASSUME TypeInv, Lists, NEW s \in Stream, Unregister(s)
  PROVE  Lists'
  <1>1. /\ header' = [header EXCEPT ![s] = nullptr] /\ tail' = [tail EXCEPT ![s] = nullptr]
        /\ registered' = registered \ {s}
        /\ UNCHANGED <<op, next, completes, reading, calling>>
        /\ \A t \in Client : reading[t] = nullptr
    BY DEF Unregister, threads, NobodyReads, Idle
  <1>2. /\ header \in [Stream -> Pointer]
        /\ \A o \in Op : op[o].stream \in Stream \/ op[o].phase = "free"
    BY DEF TypeInv, TypeOK, GotFits
  <1>3. Owned' /\ Alone'
    BY <1>1 DEF Lists, Owned, Alone, Waits
  <1>4. Queues'
    <2>1. tail' = header'
      BY <1>1 DEF Lists, Queues
    <2>2. \A r \in Stream : header'[r] = IF r = s THEN nullptr ELSE header[r]
      BY <1>1, <1>2
    <2> QED
      BY <1>1, <1>2, <2>1, <2>2 DEF Lists, Queues
  <1>5. Chain'
    BY <1>1, ChainKept DEF Lists, Done
  <1> QED
    BY <1>3, <1>4, <1>5 DEF Lists

LEMMA ListNextInv == ListInv /\ [Next]_vars => ListInv'
  <1> SUFFICES ASSUME ListInv, [Next]_vars PROVE ListInv'
    OBVIOUS
  <1>1. TypeInv /\ TypeInv'
    BY TypeNext DEF ListInv
  <1> SUFFICES ASSUME doubled' = {} PROVE Lists'
    BY <1>1 DEF ListInv
  <1>2. Lists
    BY DoubledStays DEF ListInv
  <1>3. CASE UNCHANGED vars
    <2>1. UNCHANGED <<header, tail, next, completes, op, reading, calling, registered>>
      BY <1>3 DEF vars, lists, threads, service
    <2> QED
      BY <1>2, <2>1 DEF Lists, Owned, Alone, Queues, Chain, IsChain, Waits, Done
  <1>4. CASE QuietNext
    <2>1. UNCHANGED <<header, tail, next, completes, op, reading, calling, registered>>
      BY <1>1, <1>4, TypeQuiet DEF lists
    <2> QED
      BY <1>2, <2>1 DEF Lists, Owned, Alone, Queues, Chain, IsChain, Waits, Done
  <1>5. CASE ListNext
    BY <1>1, <1>2, <1>5, TryReadLists, PushReadOpLists, CompleteLists, PopLists, CallbackLists,
       DeleteLists, PerformEventLists, UnregisterLists DEF ListNext
  <1> QED
    BY <1>3, <1>4, <1>5, NextSplit

THEOREM ListsInvariant == Spec => []ListInv
  BY ListInit, ListNextInv, PTL DEF Spec

LEMMA ChainIsSound ==
  ASSUME TypeInv, Chain, NEW done, done = {o \in Op : Done(o)}
  PROVE  /\ Linked(done)
         /\ done = {} => completes = [header |-> nullptr, tail |-> nullptr]
         /\ done # {} => Firsts(done) = {completes.header} /\ Ends(done) = {completes.tail}
  <1>1. PICK q \in Seq(Op) : IsChain(q)
    BY DEF Chain
  <1> DEFINE n == Len(q)
  <1>2. n \in Nat /\ (q = <<>> <=> n = 0)
    BY LenProperties, EmptySeq
  <1>3. /\ \A i \in 1..n : q[i] \in done /\ q[i] \in Op /\ q[i] # nullptr
        /\ \A o \in done : \E i \in 1..n : q[i] = o
    <2>1. \A i \in 1..n : q[i] \in Op
      BY ElementOfSeq
    <2>2. \A o \in Op : o # nullptr
      BY DEF Op, nullptr
    <2> QED
      BY <1>1, <2>1, <2>2 DEF IsChain
  <1>4. /\ \A i, j \in 1..n : q[i] = q[j] => i = j
        /\ \A i \in 1..n : next[q[i]] = IF i < n THEN q[i + 1] ELSE nullptr
        /\ n = 0 => completes.header = nullptr /\ completes.tail = nullptr
        /\ n # 0 => completes.header = q[1] /\ completes.tail = q[n]
    BY <1>1, <1>2 DEF IsChain
  <1> HIDE DEF n
  <1>5. Linked(done)
    <2> SUFFICES ASSUME NEW o \in done PROVE next[o] \in done \cup {nullptr}
      BY DEF Linked
    <2>1. PICK i \in 1..n : q[i] = o
      BY <1>3
    <2>2. i < n => i + 1 \in 1..n
      BY <1>2
    <2> QED
      BY <1>3, <1>4, <2>1, <2>2
  <1>6. done = {} <=> n = 0
    <2>1. n # 0 => 1 \in 1..n
      BY <1>2
    <2> QED
      BY <1>2, <1>3, <2>1
  <1>7. done = {} => completes = [header |-> nullptr, tail |-> nullptr]
    <2>1. completes \in [header : Pointer, tail : Pointer]
      BY DEF TypeInv, TypeOK
    <2> QED
      BY <1>4, <1>6, <2>1
  <1>8. ASSUME done # {} PROVE Firsts(done) = {completes.header}
    <2>1. 1 \in 1..n /\ completes.header = q[1]
      BY <1>2, <1>4, <1>6, <1>8
    <2>2. ASSUME NEW p \in done PROVE next[p] # q[1]
      <3>1. PICK i \in 1..n : q[i] = p
        BY <1>3
      <3>2. i < n => i + 1 \in 1..n /\ i + 1 # 1
        BY <1>2
      <3> QED
        BY <1>3, <1>4, <2>1, <3>1, <3>2
    <2>3. ASSUME NEW o \in done, o # q[1] PROVE \E p \in done : next[p] = o
      <3>1. PICK i \in 1..n : q[i] = o
        BY <1>3
      <3>2. i # 1 /\ i - 1 \in 1..n /\ i - 1 < n /\ (i - 1) + 1 = i
        BY <1>2, <2>3, <3>1
      <3>3. next[q[i - 1]] = o /\ q[i - 1] \in done
        BY <1>3, <1>4, <3>1, <3>2
      <3> QED
        BY <3>3
    <2>4. q[1] \in done
      BY <1>3, <2>1
    <2> QED
      BY <2>1, <2>2, <2>3, <2>4 DEF Firsts
  <1>9. ASSUME done # {} PROVE Ends(done) = {completes.tail}
    <2>1. n \in 1..n /\ completes.tail = q[n] /\ next[q[n]] = nullptr /\ q[n] \in done
      BY <1>2, <1>3, <1>4, <1>6, <1>9
    <2>2. ASSUME NEW o \in done, next[o] = nullptr PROVE o = q[n]
      <3>1. PICK i \in 1..n : q[i] = o
        BY <1>3
      <3>2. i < n => i + 1 \in 1..n
        BY <1>2
      <3>3. ~(i < n)
        BY <1>3, <1>4, <2>2, <3>1, <3>2
      <3> QED
        BY <1>2, <3>1, <3>3
    <2> QED
      BY <2>1, <2>2 DEF Ends
  <1> QED
    BY <1>5, <1>7, <1>8, <1>9

LEMMA ListInvIsSound == ListInv => ListsAreSound
  <1> SUFFICES ASSUME ListInv, doubled = {} PROVE ListsAreSound
    BY DEF ListsAreSound
  <1> DEFINE done == {o \in Op : op[o].phase \in {"completed", "performed"}}
  <1>1. TypeInv /\ Lists
    BY DEF ListInv
  <1>2. done = {o \in Op : Done(o)}
    BY DEF Done
  <1> HIDE DEF done
  <1>3. /\ Linked(done)
        /\ done = {} => completes = [header |-> nullptr, tail |-> nullptr]
        /\ done # {} => Firsts(done) = {completes.header} /\ Ends(done) = {completes.tail}
    BY <1>1, <1>2, ChainIsSound DEF Lists
  <1>4. ASSUME NEW s \in registered
        PROVE  {o \in Op : op[o].stream = s /\ op[o].phase = "queued"} = {header[s]} \ {nullptr}
    <2>1. s \in Stream /\ header[s] \in Op \cup {nullptr}
      BY <1>1 DEF TypeInv, TypeOK, Pointer
    <2>2. \A o \in Op : o # nullptr
      BY DEF Op, nullptr
    <2>3. /\ header[s] # nullptr => op[header[s]].phase = "queued" /\ op[header[s]].stream = s
          /\ \A o \in Op : op[o].phase = "queued" /\ op[o].stream = s => header[s] = o
      BY <1>1, <2>1 DEF Lists, Queues
    <2> QED
      BY <2>1, <2>2, <2>3
  <1> QED
    BY <1>3, <1>4 DEF ListsAreSound, done

\* As long as no stream has two reads at once, the list of each stream is the one read
\* that waits in it, and the completion queue goes from its header through all that is
\* complete to its tail (reactor_io_object.hpp:138-163, reactor_io_service.hpp:83-93,
\* 162-180).
THEOREM ListsHoldWhatTheyShould == Spec => []ListsAreSound
  BY ListInvIsSound, ListsInvariant, PTL

-----------------------------------------------------------------------------
(* What kills the process. *)

\* The service is closed only after the destructors of the streams.
ClosedIsEmpty == alive \in {"closed", "gone"} => registered = {}

CrashInv == ListInv /\ ClosedIsEmpty /\ CrashNeedsCause

\* Nothing happens in a program that is dead.
LEMMA DeadStays == alive = "crashed" /\ [Next]_vars => UNCHANGED vars
  <1> SUFFICES ASSUME alive = "crashed", Next PROVE FALSE
    OBVIOUS
  <1>1. ~QuietNext
    BY DEF QuietNext, Write, EndStream, IgnoreEvent, CrashInEvent, Event, Sleep, CrashInPop,
           ReturnEmpty, CrashInComplete, SpuriousWakeup, TimeOut, EventsWait, EndRound,
           EndDispatcher, CrashInRound, CloseEvents, JoinDispatcher, MutexFree, Up
  <1>2. ~ListNext
    BY DEF ListNext, TryRead, PushReadOp, Complete, Pop, Callback, Delete, PerformEvent, Event,
           Unregister, MutexFree, Up
  <1> QED
    BY <1>1, <1>2, NextSplit

\* Under the invariant of the lists no pointer that is followed is bad.
LEMMA SoundListsAreSafe ==
  ASSUME TypeInv, Lists
  PROVE  /\ ~TailIsLost
         /\ \A t \in Client : ~CrashInComplete(t) /\ ~CrashInPop(t)
         /\ \A s \in Stream : ~CrashInEvent(s)
  <1>1. \A o \in Op : o # nullptr
    BY DEF Op, nullptr
  <1>2. ~TailIsLost
    BY <1>1, FirstIsDone DEF TailIsLost, Lists
  <1>3. \A t \in Client : ~CrashInPop(t)
    BY FirstIsDone DEF Lists, CrashInPop, Empty, Done
  <1>4. \A s \in Stream : ~CrashInEvent(s)
    <2> SUFFICES ASSUME NEW s \in Stream, CrashInEvent(s) PROVE FALSE
      OBVIOUS
    <2>1. header[s] # nullptr /\ BadAction(header[s])
      BY <1>2 DEF CrashInEvent
    <2>2. header[s] \in Op /\ op[header[s]].phase = "queued"
      BY <2>1 DEF Lists, Queues, TypeInv, TypeOK, Pointer
    <2>3. op[header[s]].action = "read"
      BY <2>2 DEF Lists, Queues
    <2> QED
      BY <2>1, <2>2, <2>3 DEF BadAction
  <1> QED
    BY <1>2, <1>3, <1>4 DEF CrashInComplete

LEMMA CrashInit == Init => CrashInv
  BY ListInit DEF CrashInv, ClosedIsEmpty, CrashNeedsCause, Init

LEMMA CrashNext == CrashInv /\ [Next]_vars => CrashInv'
  <1> SUFFICES ASSUME CrashInv, [Next]_vars PROVE CrashInv'
    OBVIOUS
  <1>1. ListInv' /\ doubled \subseteq doubled'
    BY ListNextInv, DoubledStays DEF CrashInv
  <1>2. CASE UNCHANGED vars
    BY <1>1, <1>2 DEF CrashInv, ClosedIsEmpty, CrashNeedsCause, vars, service, loop, history
  <1>3. CASE alive = "crashed"
    BY <1>2, <1>3, DeadStays
  <1>4. CASE Next /\ alive # "crashed"
    <2>1. registered' \subseteq registered
      BY <1>4 DEF Next, Process, FinishRead, RunOne, Write, EndStream, Unregister, TryRead,
         PushReadOp, Complete, CrashInComplete, Sleep, Pop, CrashInPop, ReturnEmpty, Callback,
         Delete, SpuriousWakeup, TimeOut, Rest, Crash, EventsWait, EndRound, EndDispatcher,
         CrashInRound, IgnoreEvent, PerformEvent, CrashInEvent, FinishEvent, CloseEvents,
         JoinDispatcher, service
    <2>2. ClosedIsEmpty'
      <3>1. \/ alive' = alive \/ alive' = "crashed"
            \/ alive' = "closed" /\ registered = {}
            \/ alive' = "gone" /\ alive = "closed"
        BY <1>4 DEF Next, Process, FinishRead, RunOne, Write, EndStream, Unregister, TryRead,
           PushReadOp, Complete, CrashInComplete, Sleep, Pop, CrashInPop, ReturnEmpty, Callback,
           Delete, SpuriousWakeup, TimeOut, Rest, Crash, EventsWait, EndRound, EndDispatcher,
           CrashInRound, IgnoreEvent, PerformEvent, CrashInEvent, FinishEvent, CloseEvents,
           JoinDispatcher, service
      <3> QED
        BY <2>1, <3>1 DEF CrashInv, ClosedIsEmpty
    <2>3. ASSUME alive' = "crashed" PROVE doubled # {} \/ CrashInRound
      <3>1. \/ \E t \in Client : CrashInComplete(t) \/ CrashInPop(t)
            \/ \E s \in Stream : CrashInEvent(s)
            \/ CrashInRound
        BY <1>4, <2>3 DEF Next, Process, FinishRead, RunOne, Write, EndStream, Unregister,
           TryRead, PushReadOp, Complete, Sleep, Pop, ReturnEmpty, Callback, Delete,
           SpuriousWakeup, TimeOut, Rest, EventsWait, EndRound, EndDispatcher, IgnoreEvent,
           PerformEvent, FinishEvent, CloseEvents, JoinDispatcher, service
      <3> QED
        BY <3>1, SoundListsAreSafe DEF CrashInv, ListInv
    <2>4. CrashInRound => registered' = {} /\ dispatcher' # "waiting"
      BY DEF CrashInRound, Crash, CrashInv, ClosedIsEmpty, loop
    <2>5. CrashNeedsCause'
      BY <1>1, <2>3, <2>4 DEF CrashNeedsCause
    <2> QED
      BY <1>1, <2>2, <2>5 DEF CrashInv
  <1> QED
    BY <1>2, <1>3, <1>4

\* The service kills the process only when a stream has had two reads at once, or when it
\* is destroyed while the dispatcher is busy with events (reactor_io_service.hpp:48-51,
\* 91-93; reactor_io_service_epoll.hpp:37-40).
THEOREM CrashHasACause == Spec => []CrashNeedsCause
  <1>1. CrashInv => CrashNeedsCause
    BY DEF CrashInv
  <1> QED
    BY <1>1, CrashInit, CrashNext, PTL DEF Spec

-----------------------------------------------------------------------------
(* The bytes. *)

\* The reads of two streams do not fill the same memory.
OwnBuffers == \A s, r \in Stream : BufferOf[s] = BufferOf[r] => s = r

NoneWaits(s) == \A o \in Op : Waits(o) => op[o].stream # s

\* Between what was delivered and what is in the pipe is what the waiting read has taken,
\* and that is still in its memory.  A read that took nothing found the end.
Kept(o) ==
  LET s == op[o].stream IN
    /\ sent[s] = delivered[s] \o (op[o].got \o pipe[s])
    /\ op[o].got = SubSeq(buffer[BufferOf[s]], 1, Len(op[o].got))
    /\ op[o].phase \in {"empty", "queued"} => op[o].got = <<>>
    /\ op[o].phase \notin {"empty", "queued"} /\ op[o].got = <<>> =>
         pipe[s] = <<>> /\ end[s] # "open"

Data ==
  /\ \A s \in Stream : NoneWaits(s) => sent[s] = delivered[s] \o pipe[s]
  /\ \A o \in Op : Waits(o) => Kept(o)

DataInv == ListInv /\ (doubled = {} => Data)

LEMMA DataInit == Init => DataInv
  <1> SUFFICES ASSUME Init PROVE Data
    BY ListInit DEF DataInv
  <1>1. \A o \in Op : op[o].phase = "free"
    BY DEF Init, NoOp
  <1>2. <<>> \o <<>> = <<>>
    BY EmptySeq, ConcatEmptySeq
  <1> QED
    BY <1>1, <1>2 DEF Data, Waits, Init

\* A step that concerns one stream.
LEMMA OneStream ==
  ASSUME TypeInv, TypeInv', Data, NEW s \in Stream,
         \A r \in Stream \ {s} :
           /\ sent'[r] = sent[r] /\ delivered'[r] = delivered[r] /\ pipe'[r] = pipe[r]
           /\ end'[r] = end[r] /\ buffer'[BufferOf[r]] = buffer[BufferOf[r]],
         \A p \in Op : op[p].stream # s \/ op'[p].stream # s => op'[p] = op[p],
         \A o \in Op : Waits(o)' /\ op'[o].stream = s => Kept(o)',
         NoneWaits(s)' => sent'[s] = delivered'[s] \o pipe'[s]
  PROVE  Data'
  <1>1. ASSUME NEW o \in Op, Waits(o)' PROVE Kept(o)'
    <2>1. op'[o].stream \in Stream
      BY <1>1 DEF TypeInv, GotFits, Waits
    <2>2. CASE op'[o].stream = s
      BY <1>1, <2>2
    <2>3. CASE op'[o].stream # s
      <3>1. op'[o] = op[o] /\ Waits(o)
        BY <1>1, <2>3 DEF Waits
      <3>2. Kept(o)
        BY <3>1 DEF Data
      <3>3. /\ sent'[op[o].stream] = sent[op[o].stream]
            /\ delivered'[op[o].stream] = delivered[op[o].stream]
            /\ pipe'[op[o].stream] = pipe[op[o].stream] /\ end'[op[o].stream] = end[op[o].stream]
            /\ buffer'[BufferOf[op[o].stream]] = buffer[BufferOf[op[o].stream]]
        BY <2>1, <2>3, <3>1
      <3> QED
        BY <3>1, <3>2, <3>3, Zenon DEF Kept
    <2> QED
      BY <2>2, <2>3
  <1>2. ASSUME NEW r \in Stream, NoneWaits(r)' PROVE sent'[r] = delivered'[r] \o pipe'[r]
    <2>1. CASE r = s
      BY <1>2, <2>1
    <2>2. CASE r # s
      <3>1. NoneWaits(r)
        BY <1>2, <2>2 DEF NoneWaits, Waits
      <3> QED
        BY <2>2, <3>1 DEF Data
    <2> QED
      BY <2>1, <2>2
  <1> QED
    BY <1>1, <1>2 DEF Data

\* A step that touches no waiting operation and no byte.
LEMMA NoBytes ==
  ASSUME Data, UNCHANGED <<sent, delivered, pipe, end, buffer>>,
         \A p \in Op : Waits(p)' <=> Waits(p), \A p \in Op : Waits(p) => op'[p] = op[p]
  PROVE  Data'
  <1>1. \A o \in Op : Waits(o)' => Kept(o)'
    BY DEF Data, Kept
  <1>2. \A s \in Stream : NoneWaits(s)' => NoneWaits(s)
    BY DEF NoneWaits
  <1> QED
    BY <1>1, <1>2 DEF Data

\* A waiting operation goes on to another phase, before or after its bytes are read.
LEMMA OtherPhase ==
  ASSUME TypeInv, Data, NEW o \in Op, Waits(o), NEW ph \in Phase \ {"free", "called"},
         op[o].phase \in {"empty", "queued"} <=> ph \in {"empty", "queued"},
         UNCHANGED <<sent, delivered, pipe, end, buffer>>,
         \A p \in Op : /\ op'[p].stream = op[p].stream /\ op'[p].got = op[p].got
                       /\ op'[p].phase = IF p = o THEN ph ELSE op[p].phase
  PROVE  Data'
  <1>1. \A p \in Op : /\ op'[p].stream = op[p].stream /\ op'[p].got = op[p].got
                      /\ op'[p].phase = IF p = o THEN ph ELSE op[p].phase
    OBVIOUS
  <1>2. \A p \in Op : Waits(p)' <=> Waits(p)
    BY <1>1 DEF Waits
  <1>3. ASSUME NEW p \in Op, Waits(p)' PROVE Kept(p)'
    <2>1. Kept(p) /\ op'[p].stream = op[p].stream /\ op'[p].got = op[p].got
      BY <1>1, <1>2, <1>3 DEF Data
    <2>2. op'[p].phase \in {"empty", "queued"} <=> op[p].phase \in {"empty", "queued"}
      BY <1>1
    <2> QED
      BY <2>1, <2>2, Zenon DEF Kept
  <1>4. \A s \in Stream : NoneWaits(s)' => NoneWaits(s)
    BY <1>1, <1>2 DEF NoneWaits
  <1> QED
    BY <1>3, <1>4 DEF Data

LEMMA WriteData ==
  ASSUME TypeInv, TypeInv', Data, NEW s \in Stream, Write(s)
  PROVE  Data'
  <1> DEFINE b == <<s, Len(sent[s]) + 1>>  last == <<b>>
  <1>1. /\ pipe' = [pipe EXCEPT ![s] = Append(pipe[s], b)]
        /\ sent' = [sent EXCEPT ![s] = Append(sent[s], b)]
        /\ UNCHANGED <<end, op, buffer, delivered>> /\ end[s] = "open"
    BY DEF Write
  <1>2. /\ pipe \in [Stream -> Seq(Byte)] /\ sent \in [Stream -> Seq(Byte)]
        /\ pipe[s] \in Seq(Byte) /\ sent[s] \in Seq(Byte)
        /\ delivered[s] \in Seq(Byte) /\ \A o \in Op : op[o].got \in Seq(Byte)
    BY DEF TypeInv, TypeOK, Record
  <1>3. b \in Byte
    BY <1>2, LenProperties DEF Byte
  <1> HIDE DEF b
  <1>4. /\ last \in Seq(Byte)
        /\ Append(pipe[s], b) = pipe[s] \o last /\ Append(sent[s], b) = sent[s] \o last
    BY <1>2, <1>3, AppendIsConcat
  <1> HIDE DEF last
  <1>5. /\ \A r \in Stream \ {s} : sent'[r] = sent[r] /\ pipe'[r] = pipe[r]
        /\ pipe'[s] = pipe[s] \o last /\ sent'[s] = sent[s] \o last
    BY <1>1, <1>2, <1>4
  <1>6. ASSUME NEW o \in Op, Waits(o)', op'[o].stream = s PROVE Kept(o)'
    <2>1. Waits(o) /\ op[o].stream = s /\ Kept(o)
      BY <1>1, <1>6 DEF Data, Waits
    <2>2. op[o].got \in Seq(Byte) /\ op[o].got \o pipe[s] \in Seq(Byte)
      BY <1>2, ConcatProperties
    <2>3. sent[s] = delivered[s] \o (op[o].got \o pipe[s])
      BY <2>1, Zenon DEF Kept
    <2> DEFINE d == delivered[s]  g == op[o].got  p == pipe[s]
    <2>4. (d \o (g \o p)) \o last = d \o (g \o (p \o last))
      <3>1. /\ d \in Seq(Byte) /\ g \in Seq(Byte) /\ p \in Seq(Byte)
            /\ last \in Seq(Byte) /\ g \o p \in Seq(Byte)
        BY <1>2, <1>4, <2>2
      <3> HIDE DEF d, g, p
      <3>2. (d \o (g \o p)) \o last = d \o ((g \o p) \o last)
        BY SMTT(30), <3>1, ConcatAssociative
      <3>3. (g \o p) \o last = g \o (p \o last)
        BY <3>1, ConcatAssociative
      <3> QED
        BY <3>2, <3>3
    <2>5. op[o].phase \notin {"empty", "queued"} => op[o].got # <<>>
      BY <1>1, <2>1, Zenon DEF Kept
    <2>6. /\ op[o].got = SubSeq(buffer[BufferOf[s]], 1, Len(op[o].got))
          /\ op[o].phase \in {"empty", "queued"} => op[o].got = <<>>
      BY <2>1, Zenon DEF Kept
    <2>7. /\ op'[o] = op[o] /\ delivered'[s] = delivered[s] /\ buffer' = buffer
      BY <1>1
    <2>8. sent'[s] = delivered'[s] \o (op'[o].got \o pipe'[s])
      BY <1>5, <2>3, <2>4, <2>7, Zenon
    <2> QED
      BY <2>1, <2>5, <2>6, <2>7, <2>8, Zenon DEF Kept
  <1>7. ASSUME NoneWaits(s)' PROVE sent'[s] = delivered'[s] \o pipe'[s]
    <2>1. NoneWaits(s)
      BY <1>1, <1>7 DEF NoneWaits, Waits
    <2>2. sent[s] = delivered[s] \o pipe[s]
      BY <2>1 DEF Data
    <2> DEFINE d == delivered[s]  p == pipe[s]
    <2>3. (d \o p) \o last = d \o (p \o last)
      <3>1. d \in Seq(Byte) /\ p \in Seq(Byte) /\ last \in Seq(Byte)
        BY <1>2, <1>4
      <3> HIDE DEF d, p
      <3> QED
        BY <3>1, ConcatAssociative
    <2> QED
      BY <1>1, <1>5, <2>2, <2>3, Zenon
  <1>8. /\ \A r \in Stream \ {s} :
             /\ sent'[r] = sent[r] /\ delivered'[r] = delivered[r] /\ pipe'[r] = pipe[r]
             /\ end'[r] = end[r] /\ buffer'[BufferOf[r]] = buffer[BufferOf[r]]
        /\ \A p \in Op : op'[p] = op[p]
    BY <1>1, <1>5
  <1> QED
    BY <1>6, <1>7, <1>8, OneStream

LEMMA EndStreamData ==
  ASSUME TypeInv, TypeInv', Data, NEW s \in Stream, EndStream(s)
  PROVE  Data'
  <1>1. /\ UNCHANGED <<pipe, sent, op, buffer, delivered>>
        /\ end' = [end EXCEPT ![s] = "eof"] \/ end' = [end EXCEPT ![s] = "error"]
    BY DEF EndStream
  <1>2. /\ \A r \in Stream \ {s} : end'[r] = end[r]
        /\ end'[s] # "open"
    BY <1>1 DEF TypeInv, TypeOK
  <1>3. ASSUME NEW o \in Op, Waits(o)', op'[o].stream = s PROVE Kept(o)'
    <2>1. op'[o] = op[o] /\ Waits(o) /\ Kept(o)
      BY <1>1, <1>3 DEF Data, Waits
    <2> QED
      BY <1>1, <1>2, <1>3, <2>1, Zenon DEF Kept
  <1>4. ASSUME NoneWaits(s)' PROVE sent'[s] = delivered'[s] \o pipe'[s]
    BY <1>1, <1>4 DEF NoneWaits, Waits, Data
  <1> QED
    BY <1>1, <1>2, <1>3, <1>4, OneStream

\* The read of s takes its bytes and nobody waits for others.
LEMMA TakeData ==
  ASSUME TypeInv, TypeInv', Data, OwnBuffers, NEW s \in Stream, NEW o \in Op,
         pipe' = Drain(s), buffer' = Fill(s), UNCHANGED <<sent, delivered, end>>,
         sent[s] = delivered[s] \o pipe[s],
         op'[o].stream = s, op'[o].got = Available(s), op'[o].phase # "queued",
         op'[o].phase = "empty" => WouldBlock(s),
         op'[o].phase # "empty" => ~WouldBlock(s),
         \A p \in Op \ {o} : op'[p] = op[p] /\ (Waits(p) => op[p].stream # s),
         op[o].stream # s => ~Waits(o), Waits(o)'
  PROVE  Data'
  <1>1. /\ Available(s) \in Seq(Byte) /\ (Available(s) = <<>> => pipe[s] = <<>>)
        /\ Available(s) \o Drain(s)[s] = pipe[s] /\ Drain(s)[s] \in Seq(Byte)
        /\ SubSeq(Fill(s)[BufferOf[s]], 1, Len(Available(s))) = Available(s)
        /\ \A r \in Stream \ {s} : Drain(s)[r] = pipe[r]
        /\ \A b \in Buffer \ {BufferOf[s]} : Fill(s)[b] = buffer[b]
    BY ReadStep DEF TypeInv
  <1>2. \A r \in Stream \ {s} : buffer'[BufferOf[r]] = buffer[BufferOf[r]]
    BY <1>1, ReactorAssumption DEF OwnBuffers
  <1>3. Kept(o)'
    <2>1. sent'[s] = delivered'[s] \o (Available(s) \o pipe'[s])
      BY <1>1
    <2>2. Available(s) = SubSeq(buffer'[BufferOf[s]], 1, Len(Available(s)))
      BY <1>1
    <2>3. pipe[s] = <<>> => Available(s) = <<>> /\ pipe'[s] = <<>>
      BY <1>1, ConcatEqualIffEmpty
    <2>4. op'[o].phase = "empty" => Available(s) = <<>>
      BY <2>3 DEF WouldBlock
    <2>5. op'[o].phase # "empty" /\ Available(s) = <<>> => pipe'[s] = <<>> /\ end'[s] # "open"
      BY <1>1, <2>3 DEF WouldBlock
    <2> QED
      BY <2>1, <2>2, <2>4, <2>5, Zenon DEF Kept
  <1>4. \A p \in Op : Waits(p)' => op'[p].stream # s \/ p = o
    BY DEF Waits
  <1>5. ~NoneWaits(s)'
    BY DEF NoneWaits
  <1>6. ASSUME NEW p \in Op, Waits(p)' PROVE Kept(p)'
    <2>1. CASE p = o
      BY <1>3, <2>1
    <2>2. CASE p # o
      <3>1. op'[p] = op[p] /\ Waits(p) /\ Kept(p) /\ op[p].stream \in Stream \ {s}
        BY <1>6, <2>2 DEF Waits, Data, TypeInv, GotFits
      <3>2. /\ pipe'[op[p].stream] = pipe[op[p].stream]
            /\ buffer'[BufferOf[op[p].stream]] = buffer[BufferOf[op[p].stream]]
        BY <1>1, <1>2, <3>1
      <3> QED
        BY <3>1, <3>2, Zenon DEF Kept
    <2> QED
      BY <2>1, <2>2
  <1>7. ASSUME NEW r \in Stream, NoneWaits(r)' PROVE sent'[r] = delivered'[r] \o pipe'[r]
    <2>1. r # s /\ NoneWaits(r)
      <3>1. r # s
        BY <1>5, <1>7
      <3>2. \A p \in Op : Waits(p) /\ op[p].stream = r => Waits(p)' /\ op'[p].stream = r
        BY <3>1 DEF Waits
      <3> QED
        BY <1>7, <3>1, <3>2 DEF NoneWaits
    <2> QED
      BY <1>1, <2>1 DEF Data
  <1> QED
    BY <1>6, <1>7 DEF Data

LEMMA TryReadData ==
  ASSUME TypeInv, TypeInv', Lists, Data, OwnBuffers, NEW t \in Client, NEW s \in Stream,
         TryRead(t, s), doubled' = {}
  PROVE  Data'
  <1>1. PICK o \in Op :
          /\ op[o].phase = "free"
          /\ op'[o].phase = IF WouldBlock(s) THEN "empty" ELSE "answered"
          /\ op'[o].stream = s /\ op'[o].got = Available(s)
          /\ \A p \in Op \ {o} : op'[p] = op[p]
    BY TryReadStep
  <1>2. /\ pipe' = Drain(s) /\ buffer' = Fill(s) /\ UNCHANGED <<sent, delivered, end>>
        /\ Waiting(s) = {}
    BY DEF TryRead
  <1>3. \A p \in Op : Waits(p) => op[p].stream # s
    BY <1>2 DEF Waiting, Waits
  <1>4. sent[s] = delivered[s] \o pipe[s]
    BY <1>3 DEF Data, NoneWaits
  <1>5. /\ ~Waits(o) /\ Waits(o)' /\ op'[o].phase # "queued"
        /\ op'[o].phase = "empty" => WouldBlock(s)
        /\ op'[o].phase # "empty" => ~WouldBlock(s)
    BY <1>1 DEF Waits
  <1> QED
    BY <1>1, <1>2, <1>3, <1>4, <1>5, TakeData

LEMMA PerformEventData ==
  ASSUME TypeInv, TypeInv', Lists, Data, OwnBuffers, NEW s \in Stream, PerformEvent(s)
  PROVE  Data'
  <1>1. PICK o \in Op :
        /\ o = header[s] /\ o # nullptr
        /\ op'[o].phase = "performed" /\ op'[o].stream = op[o].stream
        /\ op'[o].got = Available(op[o].stream) /\ \A p \in Op \ {o} : op'[p] = op[p]
    BY PerformEventStep DEF Op, nullptr
  <1>2. op[o].phase = "queued" /\ op[o].stream = s
    BY <1>1 DEF Lists, Queues
  <1>3. /\ pipe' = Drain(s) /\ buffer' = Fill(s) /\ UNCHANGED <<sent, delivered, end>>
        /\ ~WouldBlock(s)
    BY <1>1, <1>2 DEF PerformEvent, FinishEvent
  <1>4. Kept(o) /\ Waits(o)
    BY <1>1, <1>2 DEF Data, Waits
  <1>5. sent[s] = delivered[s] \o pipe[s]
    <2>1. sent[s] = delivered[s] \o (op[o].got \o pipe[s]) /\ op[o].got = <<>>
      BY <1>2, <1>4, Zenon DEF Kept
    <2>2. pipe[s] \in Seq(Byte)
      BY DEF TypeInv, TypeOK
    <2>3. <<>> \o pipe[s] = pipe[s]
      BY <2>2, ConcatEmptySeq
    <2> QED
      BY <2>1, <2>3, Zenon
  <1>6. \A p \in Op \ {o} : Waits(p) => op[p].stream # s
    BY <1>1, <1>2, <1>4 DEF Lists, Alone
  <1>7. Waits(o)'
    BY <1>1 DEF Waits
  <1> QED
    BY <1>1, <1>2, <1>3, <1>5, <1>6, <1>7, TakeData

\* What the callback is given is what the operation has read.
LEMMA CallbackDelivers ==
  ASSUME TypeInv, Data, NEW t \in Client, Callback(t)
  PROVE  LET o == calling[t]  s == op[o].stream IN
           /\ o \in Op /\ Waits(o) /\ s \in Stream
           /\ delivered' = [delivered EXCEPT ![s] = delivered[s] \o op[o].got]
           /\ sent[s] = (delivered[s] \o op[o].got) \o pipe[s]
           /\ op[o].got = <<>> => pipe[s] = <<>> /\ end[s] # "open"
  <1> DEFINE o == calling[t]  s == op[o].stream  d == delivered[s]  g == op[o].got
             p == pipe[s]
  <1>1. o \in Op /\ op[o].phase = "taken"
    BY CallbackStep
  <1>2. s \in Stream /\ Waits(o) /\ Kept(o)
    BY <1>1 DEF TypeInv, GotFits, Data, Waits
  <1>3. /\ delivered \in [Stream -> Seq(Byte)]
        /\ d \in Seq(Byte) /\ g \in Seq(Byte) /\ p \in Seq(Byte)
    BY <1>1, <1>2 DEF TypeInv, TypeOK, Record
  <1>4. delivered' = [delivered EXCEPT ![s] = @ \o SubSeq(buffer[BufferOf[s]], 1, Len(g))]
    BY Zenon DEF Callback
  <1>5. /\ sent[s] = d \o (g \o p) /\ g = SubSeq(buffer[BufferOf[s]], 1, Len(g))
        /\ g = <<>> => p = <<>> /\ end[s] # "open"
    <2>1. op[o].phase \notin {"empty", "queued"}
      BY <1>1
    <2> QED
      BY <1>2, <2>1, Zenon DEF Kept
  <1> HIDE DEF o, s, d, g, p
  <1>6. d \o (g \o p) = (d \o g) \o p
    BY SMTT(30), <1>3, ConcatAssociative
  <1>7. /\ delivered' = [delivered EXCEPT ![s] = d \o g]
        /\ sent[s] = (d \o g) \o p
    BY <1>4, <1>5, <1>6 DEF d
  <1> USE DEF o, s, d, g, p
  <1> QED
    BY <1>1, <1>2, <1>5, <1>7, Zenon

LEMMA CallbackData ==
  ASSUME TypeInv, TypeInv', Lists, Data, NEW t \in Client, Callback(t)
  PROVE  Data'
  <1> DEFINE o == calling[t]  s == op[o].stream
  <1>1. /\ o \in Op /\ Waits(o) /\ s \in Stream
        /\ delivered' = [delivered EXCEPT ![s] = delivered[s] \o op[o].got]
        /\ sent[s] = (delivered[s] \o op[o].got) \o pipe[s]
    BY CallbackDelivers
  <1>2. /\ op' = [op EXCEPT ![o].phase = "called"] /\ UNCHANGED <<sent, pipe, end, buffer>>
    BY DEF Callback, kernel
  <1>3. /\ op \in [Op -> Record] /\ delivered \in [Stream -> Seq(Byte)]
    BY DEF TypeInv, TypeOK
  <1>4. \A p \in Op : /\ op'[p].stream = op[p].stream
                      /\ op'[p].phase = IF p = o THEN "called" ELSE op[p].phase
    <2>1. "called" \in Phase \ {"free"} /\ op[o].phase # "free"
      BY <1>1 DEF Phase, Waits
    <2> HIDE DEF o
    <2> QED
      BY <1>1, <1>2, <2>1, PhaseStep
  <1>5. \A p \in Op \ {o} : op'[p] = op[p]
    BY <1>2, <1>3
  <1>6. \A p \in Op : Waits(p)' => p # o /\ op'[p].stream # s
    BY <1>1, <1>4 DEF Waits, Lists, Alone
  <1>7. /\ delivered'[s] = delivered[s] \o op[o].got
        /\ \A r \in Stream \ {s} : delivered'[r] = delivered[r]
    <2> HIDE DEF o, s
    <2> QED
      BY <1>1, <1>3
  <1>8. sent'[s] = delivered'[s] \o pipe'[s]
    BY <1>1, <1>2, <1>7, Zenon
  <1>9. \A p \in Op : op[p].stream # s \/ op'[p].stream # s => op'[p] = op[p]
    BY <1>4, <1>5
  <1> HIDE DEF o, s
  <1> QED
    BY <1>1, <1>2, <1>6, <1>7, <1>8, <1>9, OneStream

LEMMA QuietData ==
  ASSUME TypeInv, TypeInv', Data, QuietNext
  PROVE  Data'
  <1>1. CASE \E s \in Stream : Write(s) \/ EndStream(s)
    BY <1>1, WriteData, EndStreamData
  <1>2. CASE ~\E s \in Stream : Write(s) \/ EndStream(s)
    <2>1. UNCHANGED <<pipe, sent, end>>
      BY <1>2 DEF QuietNext, IgnoreEvent, CrashInEvent, Sleep, CrashInPop, ReturnEmpty,
         CrashInComplete, SpuriousWakeup, TimeOut, EventsWait, EndRound, EndDispatcher,
         CrashInRound, CloseEvents, JoinDispatcher, Rest, Crash, FinishEvent, kernel
    <2>2. UNCHANGED <<op, buffer, delivered>>
      BY TypeQuiet
    <2> QED
      BY <2>1, <2>2, NoBytes DEF Waits
  <1> QED
    BY <1>1, <1>2

LEMMA ListData ==
  ASSUME TypeInv, TypeInv', Lists, Data, OwnBuffers, ListNext, doubled' = {}
  PROVE  Data'
  <1>1. ASSUME NEW t \in Client, PushReadOp(t) PROVE Data'
    <2> DEFINE o == reading[t]
    <2>1. o \in Op /\ op[o].phase = "empty" /\ op' = [op EXCEPT ![o].phase = "queued"]
      BY <1>1, PushReadOpStep
    <2>2. UNCHANGED <<sent, delivered, pipe, end, buffer>>
      BY <1>1 DEF PushReadOp, kernel
    <2>3. "queued" \in Phase \ {"free", "called"} /\ op[o].phase # "free" /\ Waits(o)
      BY <2>1 DEF Phase, Waits
    <2> HIDE DEF o
    <2>4. \A p \in Op : /\ op'[p].stream = op[p].stream /\ op'[p].got = op[p].got
                        /\ op'[p].phase = IF p = o THEN "queued" ELSE op[p].phase
      BY ZenonT(60), <2>1, <2>3, PhaseStep
    <2> QED
      BY <2>1, <2>2, <2>3, <2>4, OtherPhase
  <1>2. ASSUME NEW t \in Client, Complete(t) PROVE Data'
    <2> DEFINE o == reading[t]
    <2>1. o \in Op /\ op[o].phase = "answered" /\ op' = [op EXCEPT ![o].phase = "completed"]
      BY <1>2, CompleteStep
    <2>2. UNCHANGED <<sent, delivered, pipe, end, buffer>>
      BY <1>2 DEF Complete, kernel
    <2>3. "completed" \in Phase \ {"free", "called"} /\ op[o].phase # "free" /\ Waits(o)
      BY <2>1 DEF Phase, Waits
    <2> HIDE DEF o
    <2>4. \A p \in Op : /\ op'[p].stream = op[p].stream /\ op'[p].got = op[p].got
                        /\ op'[p].phase = IF p = o THEN "completed" ELSE op[p].phase
      BY ZenonT(60), <2>1, <2>3, PhaseStep
    <2> QED
      BY <2>1, <2>2, <2>3, <2>4, OtherPhase
  <1>3. ASSUME NEW t \in Client, Pop(t) PROVE Data'
    <2> DEFINE o == completes.header
    <2>1. o \in Op /\ op' = [op EXCEPT ![o].phase = "taken"] /\ Done(o)
      <3>1. completes.header # nullptr
        BY <1>3 DEF Pop
      <3> QED
        BY <1>3, <3>1, PopStep, FirstIsDone DEF Lists
    <2>2. UNCHANGED <<sent, delivered, pipe, end, buffer>>
      BY <1>3 DEF Pop, kernel
    <2>3. "taken" \in Phase \ {"free", "called"} /\ op[o].phase # "free" /\ Waits(o)
      BY <2>1 DEF Phase, Waits, Done
    <2> HIDE DEF o
    <2>4. \A p \in Op : /\ op'[p].stream = op[p].stream /\ op'[p].got = op[p].got
                        /\ op'[p].phase = IF p = o THEN "taken" ELSE op[p].phase
      BY ZenonT(60), <2>1, <2>3, PhaseStep
    <2>5. op[o].phase \notin {"empty", "queued"}
      BY <2>1 DEF Done
    <2> QED
      BY <2>1, <2>2, <2>3, <2>4, <2>5, OtherPhase
  <1>4. ASSUME NEW t \in Client, Delete(t) PROVE Data'
    <2>1. /\ op[calling[t]].phase = "called" /\ op'[calling[t]].phase = "free"
          /\ \A p \in Op \ {calling[t]} : op'[p] = op[p]
      BY <1>4, DeleteStep
    <2>2. UNCHANGED <<sent, delivered, pipe, end, buffer>>
      BY <1>4 DEF Delete, kernel
    <2> QED
      BY <2>1, <2>2, NoBytes DEF Waits
  <1>5. ASSUME NEW s \in Stream, Unregister(s) PROVE Data'
    <2>1. UNCHANGED <<sent, delivered, pipe, end, buffer, op>>
      BY <1>5 DEF Unregister
    <2> QED
      BY <2>1, NoBytes DEF Waits
  <1>6. ASSUME NEW t \in Client, Callback(t) PROVE Data'
    BY <1>6, CallbackData
  <1>7. ASSUME NEW t \in Client, NEW s \in Stream, TryRead(t, s) PROVE Data'
    BY <1>7, TryReadData
  <1>8. ASSUME NEW s \in Stream, PerformEvent(s) PROVE Data'
    BY <1>8, PerformEventData
  <1> QED
    BY <1>1, <1>2, <1>3, <1>4, <1>5, <1>6, <1>7, <1>8 DEF ListNext

LEMMA DataNext ==
  ASSUME OwnBuffers, DataInv, [Next]_vars
  PROVE  DataInv'
  <1>1. ListInv /\ ListInv' /\ TypeInv /\ TypeInv'
    BY ListNextInv DEF DataInv, ListInv
  <1> SUFFICES ASSUME doubled' = {} PROVE Data'
    BY <1>1 DEF DataInv
  <1>2. Lists /\ Data
    BY DoubledStays DEF DataInv, ListInv
  <1>3. CASE UNCHANGED vars
    BY <1>2, <1>3, NoBytes DEF vars, kernel, Waits
  <1> QED
    BY <1>1, <1>2, <1>3, NextSplit, QuietData, ListData

-----------------------------------------------------------------------------
(* The abstract streams. *)

AskedReads    == [s \in Stream |-> Cardinality(Waiting(s))]
ClosedStreams == {s \in Stream : end[s] # "open"}

LEMMA AskedChanges ==
  ASSUME NEW s \in Stream, \A r \in Stream \ {s} : Waiting(r)' = Waiting(r)
  PROVE  /\ AskedReads' = [AskedReads EXCEPT ![s] = Cardinality(Waiting(s)')]
         /\ AskedReads[s] = Cardinality(Waiting(s))
  <1>1. \A r \in Stream \ {s} : Cardinality(Waiting(r)') = Cardinality(Waiting(r))
    BY Zenon
  <1>2. AskedReads' = [r \in Stream |-> Cardinality(Waiting(r)')]
    BY Zenon DEF AskedReads
  <1>3. AskedReads = [r \in Stream |-> Cardinality(Waiting(r))]
    BY Zenon DEF AskedReads
  <1> QED
    BY <1>1, <1>2, <1>3

LEMMA WaitingIsOne ==
  ASSUME Alone, NEW s \in Stream
  PROVE  /\ Waiting(s) = {} => Cardinality(Waiting(s)) = 0
         /\ \A o \in Op : Waits(o) /\ op[o].stream = s => Cardinality(Waiting(s)) = 1
  <1>1. Cardinality({}) = 0 /\ \A o : Cardinality({o}) = 1
    BY FS_EmptySet, FS_Singleton
  <1>2. \A o \in Op : Waits(o) /\ op[o].stream = s => Waiting(s) = {o}
    BY DEF Alone, Waiting, Waits
  <1> QED
    BY <1>1, <1>2

\* A step that starts or ends no read and tells the outside nothing.
LEMMA Unseen ==
  ASSUME UNCHANGED <<sent, delivered, end>>,
         \A o \in Op : Waits(o)' <=> Waits(o),
         \A o \in Op : Waits(o) => op'[o].stream = op[o].stream
  PROVE  UNCHANGED Streams!vars
  <1>1. \A s \in Stream : Waiting(s)' = Waiting(s)
    BY DEF Waiting, Waits
  <1>2. AskedReads' = AskedReads
    BY <1>1 DEF AskedReads
  <1> QED
    BY <1>2 DEF Streams!vars, AskedReads

LEMMA WriteRefines ==
  ASSUME TypeInv, NEW s \in Stream, Write(s)
  PROVE  Streams!Send(s)
  <1>1. /\ end[s] = "open" /\ UNCHANGED <<op, end, delivered>>
        /\ sent' = [sent EXCEPT ![s] = Append(sent[s], <<s, Len(sent[s]) + 1>>)]
    BY DEF Write
  <1>2. AskedReads' = AskedReads
    BY <1>1 DEF AskedReads, Waiting
  <1> QED
    BY <1>1, <1>2 DEF Streams!Send, AskedReads

LEMMA EndRefines ==
  ASSUME TypeInv, NEW s \in Stream, EndStream(s)
  PROVE  Streams!Close(s)
  <1>1. /\ end[s] = "open" /\ UNCHANGED <<op, sent, delivered>>
        /\ end' = [end EXCEPT ![s] = "eof"] \/ end' = [end EXCEPT ![s] = "error"]
    BY DEF EndStream
  <1>2. AskedReads' = AskedReads
    BY <1>1 DEF AskedReads, Waiting
  <1>3. ClosedStreams' = ClosedStreams \cup {s}
    BY <1>1 DEF ClosedStreams, TypeInv, TypeOK
  <1> QED
    BY <1>1, <1>2, <1>3 DEF Streams!Close, AskedReads, ClosedStreams

LEMMA TryReadRefines ==
  ASSUME TypeInv, Lists, Lists', NEW t \in Client, NEW s \in Stream, TryRead(t, s), doubled' = {}
  PROVE  Streams!Ask(s)
  <1>1. PICK o \in Op :
          /\ op[o].phase = "free" /\ op'[o].stream = s
          /\ op'[o].phase = IF WouldBlock(s) THEN "empty" ELSE "answered"
          /\ \A p \in Op \ {o} : op'[p] = op[p]
    BY TryReadStep
  <1>2. UNCHANGED <<sent, delivered, end>> /\ Waiting(s) = {}
    BY DEF TryRead
  <1>3. Cardinality(Waiting(s)) = 0
    BY <1>2, WaitingIsOne DEF Lists
  <1>4. Cardinality(Waiting(s)') = 1
    <2>1. Waits(o)' /\ op'[o].stream = s
      BY <1>1 DEF Waits
    <2>2. Alone'
      BY DEF Lists
    <2>3. Waiting(s)' = {o}
      BY <2>1, <2>2 DEF Alone, Waiting, Waits
    <2> QED
      BY <2>3, FS_Singleton
  <1>5. \A r \in Stream \ {s} : Waiting(r)' = Waiting(r)
    BY <1>1 DEF Waiting
  <1>6. AskedReads' = [AskedReads EXCEPT ![s] = AskedReads[s] + 1]
    BY <1>3, <1>4, <1>5, AskedChanges
  <1> QED
    BY <1>2, <1>6 DEF Streams!Ask, AskedReads

LEMMA CallbackRefines ==
  ASSUME TypeInv, Lists, Data, NEW t \in Client, Callback(t)
  PROVE  \E s \in Stream : Streams!Answer(s) \/ Streams!AnswerEnd(s)
  <1> DEFINE o == calling[t]  s == op[o].stream  g == op[o].got  d == delivered[s]  p == pipe[s]
  <1>1. /\ o \in Op /\ Waits(o) /\ s \in Stream
        /\ delivered' = [delivered EXCEPT ![s] = d \o g] /\ sent[s] = (d \o g) \o p
        /\ g = <<>> => p = <<>> /\ end[s] # "open"
    BY CallbackDelivers
  <1>2. /\ op' = [op EXCEPT ![o].phase = "called"] /\ UNCHANGED <<sent, end>>
    BY DEF Callback, kernel
  <1>3. /\ delivered \in [Stream -> Seq(Byte)]
        /\ d \in Seq(Byte) /\ g \in Seq(Byte) /\ p \in Seq(Byte)
    BY <1>1 DEF TypeInv, TypeOK, Record
  <1>4. \A q \in Op : /\ op'[q].stream = op[q].stream
                      /\ op'[q].phase = IF q = o THEN "called" ELSE op[q].phase
    <2>1. "called" \in Phase \ {"free"} /\ op[o].phase # "free"
      BY <1>1 DEF Phase, Waits
    <2> HIDE DEF o
    <2> QED
      BY <1>1, <1>2, <2>1, PhaseStep
  <1>5. PICK r \in Stream : r = s
    BY <1>1
  <1>6. PICK c \in Op : c = o
    BY <1>1
  <1>7. Cardinality(Waiting(r)) = 1
    BY <1>1, <1>5, WaitingIsOne DEF Lists
  <1>8. Cardinality(Waiting(r)') = 0
    <2>1. Waiting(r)' = {}
      BY ZenonT(60), <1>1, <1>4, <1>5, <1>6 DEF Waiting, Waits, Lists, Alone
    <2> QED
      BY <2>1, FS_EmptySet
  <1>9. \A x \in Stream \ {r} : Waiting(x)' = Waiting(x)
    BY ZenonT(60), <1>1, <1>4, <1>5, <1>6 DEF Waiting, Waits
  <1>10. AskedReads' = [AskedReads EXCEPT ![r] = AskedReads[r] - 1] /\ AskedReads[r] > 0
    BY <1>7, <1>8, <1>9, AskedChanges
  <1> HIDE DEF o, s, g, d, p
  <1>11. CASE g = <<>>
    <2>1. d \o g = d /\ (d \o g) \o p = d
      BY <1>1, <1>3, <1>11, ConcatEmptySeq
    <2>2. delivered' = delivered
      BY <1>1, <1>3, <2>1 DEF d
    <2>3. delivered[r] = sent[r]
      BY <1>1, <1>5, <2>1 DEF d
    <2>4. r \in ClosedStreams
      BY <1>1, <1>5, <1>11 DEF ClosedStreams
    <2>5. Streams!AnswerEnd(r)
      BY <1>2, <1>10, <2>2, <2>3, <2>4 DEF Streams!AnswerEnd, AskedReads, ClosedStreams
    <2> QED
      BY <2>5
  <1>12. CASE g # <<>>
    <2> DEFINE n == Len(d \o g)
    <2>1. d \o g \in Seq(Byte) /\ (d \o g) \o p \in Seq(Byte)
          /\ n = Len(d) + Len(g) /\ Len((d \o g) \o p) = n + Len(p)
      BY <1>3, ConcatProperties
    <2>2. Len(d) \in Nat /\ Len(g) \in Nat \ {0} /\ Len(p) \in Nat
      BY <1>3, <1>12, LenProperties, EmptySeq
    <2>3. n \in (Len(delivered[r]) + 1)..Len(sent[r])
      <3>1. delivered[r] = d /\ sent[r] = (d \o g) \o p
        BY <1>1, <1>5 DEF d
      <3> QED
        BY <2>1, <2>2, <3>1
    <2>4. SubSeq((d \o g) \o p, 1, n) = d \o g
      BY <1>3, <2>1, FirstOfConcat
    <2>5. delivered' = [delivered EXCEPT ![r] = SubSeq(sent[r], 1, n)]
      BY <1>1, <1>5, <2>4
    <2> HIDE DEF n
    <2>6. Streams!Answer(r)
      BY <1>2, <1>10, <2>3, <2>5 DEF Streams!Answer, AskedReads, ClosedStreams
    <2> QED
      BY <2>6
  <1> QED
    BY <1>11, <1>12

\* Every other step changes no phase from or to one of a waiting read.
LEMMA OthersKeepReads ==
  ASSUME TypeInv, Lists,
         \/ QuietNext /\ ~\E s \in Stream : Write(s) \/ EndStream(s)
         \/ \E t \in Client : PushReadOp(t) \/ Complete(t) \/ Pop(t) \/ Delete(t)
         \/ \E s \in Stream : PerformEvent(s) \/ Unregister(s)
  PROVE  /\ UNCHANGED <<sent, delivered, end>>
         /\ \A p \in Op : Waits(p)' <=> Waits(p)
         /\ \A p \in Op : Waits(p) => op'[p].stream = op[p].stream
  <1> DEFINE Keeps == /\ UNCHANGED <<sent, delivered, end>>
                      /\ \A p \in Op : Waits(p)' <=> Waits(p)
                      /\ \A p \in Op : Waits(p) => op'[p].stream = op[p].stream
  <1>1. CASE QuietNext /\ ~\E s \in Stream : Write(s) \/ EndStream(s)
    <2>1. UNCHANGED <<op, delivered>>
      BY <1>1, TypeQuiet
    <2>2. UNCHANGED <<sent, end>>
      BY <1>1 DEF QuietNext, IgnoreEvent, CrashInEvent, Sleep, CrashInPop, ReturnEmpty,
         CrashInComplete, SpuriousWakeup, TimeOut, EventsWait, EndRound, EndDispatcher,
         CrashInRound, CloseEvents, JoinDispatcher, Rest, Crash, FinishEvent, kernel
    <2> QED
      BY <2>1, <2>2 DEF Waits
  <1>2. ASSUME NEW o \in Op, NEW to \in Phase \ {"free", "called"},
               op' = [op EXCEPT ![o].phase = to], Waits(o), UNCHANGED <<sent, delivered, end>>
        PROVE  Keeps
    <2>1. \A p \in Op : /\ op'[p].stream = op[p].stream
                        /\ op'[p].phase = IF p = o THEN to ELSE op[p].phase
      BY ZenonT(60), <1>2, PhaseStep DEF Waits
    <2>2. \A p \in Op : Waits(p)' <=> Waits(p)
      BY <1>2, <2>1 DEF Waits
    <2> QED
      BY <1>2, <2>1, <2>2
  <1>3. ASSUME NEW t \in Client, PushReadOp(t) PROVE Keeps
    <2>1. PICK o \in Op : op[o].phase = "empty" /\ op' = [op EXCEPT ![o].phase = "queued"]
      BY <1>3, PushReadOpStep
    <2>2. UNCHANGED <<sent, delivered, end>> /\ Waits(o)
      BY <1>3, <2>1 DEF PushReadOp, kernel, Waits
    <2>3. "queued" \in Phase \ {"free", "called"}
      BY DEF Phase
    <2> QED
      BY <1>2, <2>1, <2>2, <2>3
  <1>4. ASSUME NEW t \in Client, Complete(t) PROVE Keeps
    <2>1. PICK o \in Op : op[o].phase = "answered" /\ op' = [op EXCEPT ![o].phase = "completed"]
      BY <1>4, CompleteStep
    <2>2. UNCHANGED <<sent, delivered, end>> /\ Waits(o)
      BY <1>4, <2>1 DEF Complete, kernel, Waits
    <2>3. "completed" \in Phase \ {"free", "called"}
      BY DEF Phase
    <2> QED
      BY <1>2, <2>1, <2>2, <2>3
  <1>5. ASSUME NEW t \in Client, Pop(t) PROVE Keeps
    <2>1. PICK o \in Op : Done(o) /\ op' = [op EXCEPT ![o].phase = "taken"]
      <3>1. completes.header # nullptr
        BY <1>5 DEF Pop
      <3> QED
        BY <1>5, <3>1, PopStep, FirstIsDone DEF Lists
    <2>2. UNCHANGED <<sent, delivered, end>> /\ Waits(o)
      BY <1>5, <2>1 DEF Pop, kernel, Waits, Done
    <2>3. "taken" \in Phase \ {"free", "called"}
      BY DEF Phase
    <2> QED
      BY <1>2, <2>1, <2>2, <2>3
  <1>6. ASSUME NEW t \in Client, Delete(t) PROVE Keeps
    <2>1. PICK o \in Op : /\ op[o].phase = "called" /\ op'[o].phase = "free"
                          /\ \A p \in Op \ {o} : op'[p] = op[p]
      BY <1>6, DeleteStep
    <2>2. UNCHANGED <<sent, delivered, end>>
      BY <1>6 DEF Delete, kernel
    <2> QED
      BY <2>1, <2>2 DEF Waits
  <1>7. ASSUME NEW s \in Stream, PerformEvent(s) PROVE Keeps
    <2>1. PICK o \in Op :
          /\ o = header[s] /\ o # nullptr
          /\ op'[o].phase = "performed" /\ op'[o].stream = op[o].stream
          /\ \A p \in Op \ {o} : op'[p] = op[p]
      BY <1>7, PerformEventStep DEF Op, nullptr
    <2>2. op[o].phase = "queued"
      BY <2>1 DEF Lists, Queues
    <2>3. UNCHANGED <<sent, delivered, end>>
      BY <1>7 DEF PerformEvent, FinishEvent
    <2> QED
      BY <2>1, <2>2, <2>3 DEF Waits
  <1>8. ASSUME NEW s \in Stream, Unregister(s) PROVE Keeps
    <2>1. UNCHANGED <<sent, delivered, end, op>>
      BY <1>8 DEF Unregister
    <2> QED
      BY <2>1 DEF Waits
  <1> QED
    BY <1>1, <1>3, <1>4, <1>5, <1>6, <1>7, <1>8

LEMMA RefineInit == Init => Streams!Init
  <1> SUFFICES ASSUME Init PROVE Streams!Init
    OBVIOUS
  <1>1. \A s \in Stream : Waiting(s) = {}
    BY DEF Init, NoOp, Waiting
  <1>2. AskedReads = [s \in Stream |-> 0]
    <2>1. \A s \in Stream : Cardinality(Waiting(s)) = 0
      BY <1>1, FS_EmptySet
    <2> QED
      BY <2>1 DEF AskedReads
  <1>3. ClosedStreams = {}
    BY DEF Init, ClosedStreams
  <1> QED
    BY <1>2, <1>3 DEF Init, Streams!Init, AskedReads, ClosedStreams

LEMMA OthersAreUnseen ==
  ASSUME TypeInv, Lists,
         \/ QuietNext /\ ~\E s \in Stream : Write(s) \/ EndStream(s)
         \/ \E t \in Client : PushReadOp(t) \/ Complete(t) \/ Pop(t) \/ Delete(t)
         \/ \E s \in Stream : PerformEvent(s) \/ Unregister(s)
  PROVE  UNCHANGED Streams!vars
  BY OthersKeepReads, Unseen, Zenon

LEMMA RefineNext ==
  ASSUME OwnBuffers, DataInv, [Next]_vars, doubled' = {}
  PROVE  [Streams!Next]_(Streams!vars)
  <1>1. TypeInv /\ Lists /\ Data
    BY DoubledStays DEF DataInv, ListInv
  <1>2. Lists'
    BY ListNextInv DEF DataInv, ListInv
  <1>3. CASE UNCHANGED vars
    BY <1>3, Unseen DEF vars, kernel, Waits
  <1>4. ASSUME NEW s \in Stream, Write(s) PROVE Streams!Next
    BY <1>1, <1>4, WriteRefines DEF Streams!Next
  <1>5. ASSUME NEW s \in Stream, EndStream(s) PROVE Streams!Next
    BY <1>1, <1>5, EndRefines DEF Streams!Next
  <1>6. ASSUME NEW t \in Client, NEW s \in Stream, TryRead(t, s) PROVE Streams!Next
    BY <1>1, <1>2, <1>6, TryReadRefines DEF Streams!Next
  <1>7. ASSUME NEW t \in Client, Callback(t) PROVE Streams!Next
    BY <1>1, <1>7, CallbackRefines DEF Streams!Next
  <1>8. CASE QuietNext
    BY <1>1, <1>4, <1>5, <1>8, OthersAreUnseen
  <1>9. CASE ListNext
    BY <1>1, <1>6, <1>7, <1>9, OthersAreUnseen DEF ListNext
  <1> QED
    BY <1>3, <1>8, <1>9, NextSplit

\* As long as no stream has two reads at once, and the reads of two streams do not fill the
\* same memory, the service is one of the abstract streams: each read is called back once,
\* with the next bytes of its stream or, at the end of a closed one, without any; no byte is
\* lost, doubled or out of order (reactor_io_stream.hpp:111-147, reactor_io_object.hpp:
\* 138-163, reactor_io_service.hpp:55-129).
THEOREM SingleReadsAreAnswered ==
  ASSUME OwnBuffers
  PROVE  Spec /\ [](doubled = {}) => ImplementsStreams
  <1>1. DataInv /\ [Next]_vars => DataInv'
    BY DataNext
  <1>2. DataInv /\ [Next]_vars /\ (doubled = {})' => [Streams!Next]_(Streams!vars)
    BY RefineNext
  <1> QED
    BY <1>1, <1>2, DataInit, RefineInit, PTL DEF Spec, ImplementsStreams, Streams!Spec

LEMMA OneOutstanding ==
  ASSUME Outstanding = 1, doubled = {}, [Next]_vars
  PROVE  doubled' = {}
  <1>1. ASSUME NEW t \in Client, NEW s \in Stream, TryRead(t, s) PROVE doubled' = {}
    <2>1. IsFiniteSet(Op)
      BY FS_Interval, ReactorAssumption DEF Op
    <2>2. IsFiniteSet(Waiting(s))
      BY <2>1, FS_Subset DEF Waiting
    <2>3. Cardinality(Waiting(s)) \in Nat /\ Cardinality(Waiting(s)) < 1
      BY <1>1, <2>2, FS_CardinalityType DEF TryRead
    <2>4. Waiting(s) = {}
      BY <2>2, <2>3, FS_EmptySet
    <2> QED
      BY <1>1, <2>4 DEF TryRead
  <1>2. CASE ~\E t \in Client, s \in Stream : TryRead(t, s)
    BY <1>2 DEF Next, Process, FinishRead, RunOne, Write, EndStream, Unregister, PushReadOp,
       Complete, CrashInComplete, Sleep, Pop, CrashInPop, ReturnEmpty, Callback, Delete,
       SpuriousWakeup, TimeOut, Rest, Crash, EventsWait, EndRound, EndDispatcher,
       CrashInRound, IgnoreEvent, PerformEvent, CrashInEvent, FinishEvent, CloseEvents,
       JoinDispatcher, vars, history
  <1> QED
    BY <1>1, <1>2

\* A program that starts a read of a stream only after the callback of the one before it,
\* with a buffer for each stream, gets what the abstract streams promise.
THEOREM ServiceImplementsStreams ==
  ASSUME OwnBuffers, Outstanding = 1
  PROVE  Spec => ImplementsStreams
  <1>1. Init => doubled = {}
    BY DEF Init
  <1>2. doubled = {} /\ [Next]_vars => (doubled = {})'
    BY OneOutstanding
  <1> QED
    BY <1>1, <1>2, SingleReadsAreAnswered, PTL DEF Spec

=============================================================================
