-------------------------- MODULE LogFactory_proofs --------------------------
(***************************************************************************)
(* Theorems about the log factory, for every set of sources, levels and    *)
(* sinks and any number of messages.                                       *)
(***************************************************************************)
EXTENDS LogFactory, TLAPS, SequenceTheorems

-----------------------------------------------------------------------------
(* Sequences. *)

LEMMA HeadAndTail ==
  ASSUME NEW S, NEW s \in Seq(S), s # <<>>
  PROVE  <<Head(s)>> \o Tail(s) = s
  <1>1. /\ Head(s) \in S /\ Tail(s) \in Seq(S) /\ Len(Tail(s)) = Len(s) - 1
        /\ \A i \in 1..Len(Tail(s)) : Tail(s)[i] = s[i + 1]
    BY HeadTailProperties
  <1>2. <<Head(s)>> \in Seq(S) /\ Len(<<Head(s)>>) = 1 /\ <<Head(s)>>[1] = s[1]
    BY <1>1
  <1>3. PICK t : t = <<Head(s)>> \o Tail(s)
    OBVIOUS
  <1>4. /\ t \in Seq(S) /\ Len(t) = 1 + Len(Tail(s)) /\ t[1] = s[1]
        /\ \A i \in 1..Len(Tail(s)) : t[1 + i] = Tail(s)[i]
    BY <1>1, <1>2, <1>3, ConcatProperties
  <1>5. Len(t) = Len(s) /\ Len(s) \in Nat
    BY <1>1, <1>4
  <1>6. ASSUME NEW i \in 1..Len(s) PROVE t[i] = s[i]
    <2>1. CASE i = 1
      BY <1>4, <2>1
    <2>2. CASE i - 1 \in 1..Len(Tail(s))
      <3>1. t[1 + (i - 1)] = Tail(s)[i - 1]
        BY <1>4, <2>2
      <3>2. Tail(s)[i - 1] = s[(i - 1) + 1]
        BY <1>1, <2>2
      <3>3. 1 + (i - 1) = i /\ (i - 1) + 1 = i
        OBVIOUS
      <3> QED
        BY <3>1, <3>2, <3>3
    <2> QED
      BY <1>1, <1>5, <2>1, <2>2
  <1> QED
    BY <1>3, <1>4, <1>5, <1>6, SeqEqual

\* Handing the head of b over to d leaves d followed by b as it was.
LEMMA HandOver ==
  ASSUME NEW S, NEW d \in Seq(S), NEW b \in Seq(S), b # <<>>
  PROVE  Append(d, Head(b)) \o Tail(b) = d \o b
  <1>1. Head(b) \in S /\ Tail(b) \in Seq(S) /\ <<Head(b)>> \in Seq(S)
    BY HeadTailProperties
  <1>2. Append(d, Head(b)) = d \o <<Head(b)>>
    BY <1>1, AppendIsConcat
  <1>3. (d \o <<Head(b)>>) \o Tail(b) = d \o (<<Head(b)>> \o Tail(b))
    BY <1>1, ConcatAssociative
  <1> QED
    BY <1>2, <1>3, HeadAndTail

-----------------------------------------------------------------------------
(* The inductive invariant. *)

\* The writer holds a batch only while it delivers; its end needs the flag, and
\* by then it has gone through what was written before close().
WriterShape ==
  /\ writer \in {"ready", "waiting", "woken", "done"} => batch = <<>>
  /\ exitflag <=> closer # "open"
  /\ closedAt <= Len(accepted)
  /\ writer = "done" => exitflag /\ Len(delivered) >= closedAt
  /\ closer = "closed" => writer = "done"

LInv == TypeOK /\ NothingLost /\ WriterShape

\* The steps that leave the queue, the writer and close() alone.
LEMMA QuietStep ==
  ASSUME LInv,
         UNCHANGED <<queue, closing, batch, delivered, written>>,
         writer' = writer,
         levels' \in SUBSET Level,
         loggers' \in [Source -> {NoLogger} \cup SUBSET Level],
         asked' \in [Source -> {NoLogger} \cup SUBSET Level],
         sinks' \in SUBSET Sink, steady' \in SUBSET Sink,
         racing' \in BOOLEAN, changes' \in 0..MaxChanges
  PROVE  LInv'
  <1>1. TypeOK'
    BY DEF LInv, TypeOK, queue, closing
  <1>2. NothingLost' /\ WriterShape'
    BY DEF LInv, NothingLost, WriterShape, queue, closing
  <1> QED
    BY <1>1, <1>2 DEF LInv

LEMMA InitInv == Init => LInv
  <1> SUFFICES ASSUME Init PROVE LInv
    OBVIOUS
  <1>1. TypeOK
    <2>1. /\ levels \in SUBSET Level /\ sinks \in SUBSET Sink /\ steady \in SUBSET Sink
          /\ loggers \in [Source -> {NoLogger} \cup SUBSET Level]
          /\ asked \in [Source -> {NoLogger} \cup SUBSET Level]
      BY DEF Init
    <2>2. changes \in 0..MaxChanges /\ closedAt \in Nat
      BY LogAssumption DEF Init
    <2>3. written \in [Sink -> Seq(Message)]
      <3>1. <<>> \in Seq(Message)
        BY EmptySeq
      <3> QED
        BY <3>1 DEF Init
    <2>4. /\ messages \in Seq(Message) /\ accepted \in Seq(Message)
          /\ batch \in Seq(Message) /\ delivered \in Seq(Message)
      BY EmptySeq DEF Init
    <2>5. /\ writer \in {"ready", "waiting", "woken", "deliver", "done", "crashed"}
          /\ racing \in BOOLEAN /\ exitflag \in BOOLEAN
          /\ closer \in {"open", "joining", "closed"}
      BY DEF Init
    <2> QED
      BY <2>1, <2>2, <2>3, <2>4, <2>5 DEF TypeOK
  <1>2. NothingLost /\ WriterShape
    BY DEF Init, NothingLost, WriterShape
  <1> QED
    BY <1>1, <1>2 DEF LInv

LEMMA RegistryStep ==
  ASSUME LInv,
         \/ \E n \in Source : Get(n) \/ \E ls \in SUBSET Level : SetLevels(ls, n)
         \/ \E ls \in SUBSET Level : SetDefault(ls)
         \/ \E s \in Sink : AddSink(s) \/ RemoveSink(s)
         \/ RemoveAllSinks
  PROVE  LInv'
  <1>t. /\ levels \in SUBSET Level /\ sinks \in SUBSET Sink /\ steady \in SUBSET Sink
        /\ loggers \in [Source -> {NoLogger} \cup SUBSET Level]
        /\ asked \in [Source -> {NoLogger} \cup SUBSET Level]
        /\ racing \in BOOLEAN /\ changes \in 0..MaxChanges
    BY DEF LInv, TypeOK
  <1>1. ASSUME NEW n \in Source, Get(n) PROVE LInv'
    BY <1>1, <1>t, QuietStep DEF Get, working
  <1>2. ASSUME NEW n \in Source, NEW ls \in SUBSET Level, SetLevels(ls, n) PROVE LInv'
    <2>1. changes' \in 0..MaxChanges
      BY <1>2, <1>t, LogAssumption DEF SetLevels
    <2> QED
      BY <1>2, <1>t, <2>1, QuietStep DEF SetLevels, working
  <1>3. ASSUME NEW ls \in SUBSET Level, SetDefault(ls) PROVE LInv'
    <2>1. changes' \in 0..MaxChanges
      BY <1>3, <1>t, LogAssumption DEF SetDefault
    <2> QED
      BY <1>3, <1>t, <2>1, QuietStep DEF SetDefault, working
  <1>4. ASSUME NEW table \in SUBSET Sink, ChangeSinks(table) PROVE LInv'
    <2>1. changes' \in 0..MaxChanges
      BY <1>4, <1>t, LogAssumption DEF ChangeSinks
    <2>2. racing' \in BOOLEAN
      BY <1>4, <1>t DEF ChangeSinks, Iterating
    <2> QED
      BY <1>4, <1>t, <2>1, <2>2, QuietStep DEF ChangeSinks
  <1> QED
    BY <1>1, <1>2, <1>3, <1>4, <1>t DEF AddSink, RemoveSink, RemoveAllSinks

\* A message goes to the end of the queue.
LEMMA LogStep ==
  ASSUME LInv, NEW m \in Message, Log(m)
  PROVE  LInv'
  <1>1. /\ accepted \in Seq(Message) /\ messages \in Seq(Message)
        /\ delivered \in Seq(Message) /\ batch \in Seq(Message)
        /\ writer \in {"ready", "waiting", "woken", "deliver", "done", "crashed"}
        /\ closedAt \in Nat
    BY DEF LInv, TypeOK
  <1>2. /\ messages' = Append(messages, m) /\ accepted' = Append(accepted, m)
        /\ writer' = (IF writer = "waiting" THEN "woken" ELSE writer)
        /\ UNCHANGED <<registry, working, closing, changes>>
    BY DEF Log, Notify
  <1>3. /\ messages' \in Seq(Message) /\ accepted' \in Seq(Message)
        /\ Len(accepted') = Len(accepted) + 1 /\ Len(accepted) \in Nat
    BY <1>1, <1>2
  <1>4. TypeOK'
    BY <1>1, <1>2, <1>3 DEF LInv, TypeOK, registry, working, closing
  <1>5. NothingLost'
    <2>1. accepted = (delivered \o batch) \o messages /\ delivered \o batch \in Seq(Message)
      BY <1>1 DEF LInv, NothingLost
    <2>2. /\ accepted' = accepted \o <<m>> /\ messages' = messages \o <<m>>
          /\ <<m>> \in Seq(Message)
      BY <1>1, <1>2, AppendIsConcat
    <2>3. ((delivered \o batch) \o messages) \o <<m>> = (delivered \o batch) \o (messages \o <<m>>)
      BY <1>1, <2>1, <2>2, ConcatAssociative
    <2> QED
      BY <1>2, <2>1, <2>2, <2>3 DEF NothingLost, working
  <1>6. WriterShape'
    BY <1>1, <1>2, <1>3 DEF LInv, WriterShape, working, closing
  <1> QED
    BY <1>4, <1>5, <1>6 DEF LInv

\* Closing: the flag goes up with all that is written before it counted.
LEMMA CloseStep ==
  ASSUME LInv, Close \/ Join
  PROVE  LInv'
  <1>1. /\ accepted \in Seq(Message) /\ Len(accepted) \in Nat
        /\ writer \in {"ready", "waiting", "woken", "deliver", "done", "crashed"}
    BY DEF LInv, TypeOK
  <1>2. CASE Close
    <2>1. /\ exitflag' = TRUE /\ closer' = "joining" /\ closedAt' = Len(accepted)
          /\ writer' = (IF writer = "waiting" THEN "woken" ELSE writer)
          /\ closer = "open"
          /\ UNCHANGED <<registry, queue, working, changes>>
      BY <1>2 DEF Close, Notify
    <2>2. TypeOK'
      BY <1>1, <2>1 DEF LInv, TypeOK, registry, queue, working
    <2>3. NothingLost'
      BY <2>1 DEF LInv, NothingLost, queue, working
    <2>4. WriterShape'
      BY <1>1, <2>1 DEF LInv, WriterShape, queue, working
    <2> QED
      BY <2>2, <2>3, <2>4 DEF LInv
  <1>3. CASE Join
    <2>1. /\ closer = "joining" /\ writer = "done" /\ closer' = "closed"
          /\ UNCHANGED <<registry, queue, writer, working, changes, exitflag, closedAt>>
      BY <1>3 DEF Join
    <2>2. TypeOK'
      BY <2>1 DEF LInv, TypeOK, registry, queue, working
    <2>3. NothingLost' /\ WriterShape'
      BY <2>1 DEF LInv, NothingLost, WriterShape, queue, working
    <2> QED
      BY <2>2, <2>3 DEF LInv
  <1> QED
    BY <1>2, <1>3

\* The writer takes the queue when its batch is empty.
LEMMA TakeStep ==
  ASSUME LInv, Take \/ Wake
  PROVE  LInv'
  <1>1. /\ batch = <<>> /\ batch' = messages /\ messages' = <<>> /\ writer' = "deliver"
        /\ writer # "done"
        /\ UNCHANGED <<registry, racing, delivered, written, closing, changes, accepted>>
    BY DEF LInv, WriterShape, Take, Wake, TakeQueue
  <1>2. delivered \in Seq(Message) /\ messages \in Seq(Message)
    BY DEF LInv, TypeOK
  <1>3. TypeOK'
    BY <1>1 DEF LInv, TypeOK, registry, closing
  <1>4. NothingLost'
    <2>1. /\ delivered \o <<>> = delivered
          /\ (delivered \o messages) \o <<>> = delivered \o messages
      BY <1>2, ConcatProperties, ConcatEmptySeq
    <2> QED
      BY <1>1, <2>1 DEF LInv, NothingLost
  <1>5. WriterShape'
    BY <1>1 DEF LInv, WriterShape, closing
  <1> QED
    BY <1>3, <1>4, <1>5 DEF LInv

\* One message from the batch to the sinks.
LEMMA DeliverStep ==
  ASSUME LInv, Deliver
  PROVE  LInv'
  <1>1. /\ batch \in Seq(Message) /\ delivered \in Seq(Message) /\ messages \in Seq(Message)
        /\ written \in [Sink -> Seq(Message)]
    BY DEF LInv, TypeOK
  <1>2. /\ writer = "deliver" /\ batch # <<>>
        /\ delivered' = Append(delivered, Head(batch)) /\ batch' = Tail(batch)
        /\ UNCHANGED <<registry, queue, writer, racing, closing, changes>>
    BY DEF Deliver, Iterating
  <1>3. Head(batch) \in Message /\ Tail(batch) \in Seq(Message)
    BY <1>1, <1>2, HeadTailProperties
  <1>4. written' \in [Sink -> Seq(Message)]
    BY <1>1, <1>3 DEF Deliver
  <1>5. delivered' \in Seq(Message) /\ batch' \in Seq(Message)
    BY <1>1, <1>2, <1>3
  <1>6. TypeOK'
    BY <1>2, <1>4, <1>5 DEF LInv, TypeOK, registry, queue, closing
  <1>7. NothingLost'
    BY <1>1, <1>2, HandOver DEF LInv, NothingLost, queue
  <1>8. WriterShape'
    BY <1>2 DEF LInv, WriterShape, queue, closing
  <1> QED
    BY <1>6, <1>7, <1>8 DEF LInv

\* The writer moves without touching a message.
LEMMA WriterStep ==
  ASSUME LInv, Exit \/ Wait \/ SpuriousWakeup \/ CrashInRace \/ FinishBatch
  PROVE  LInv'
  <1>1. /\ delivered \in Seq(Message) /\ Len(accepted) \in Nat /\ closedAt \in Nat
    BY DEF LInv, TypeOK
  <1>2. CASE Exit
    <2>1. /\ writer = "ready" /\ messages = <<>> /\ exitflag /\ writer' = "done"
          /\ UNCHANGED <<registry, queue, working, closing, changes>>
      BY <1>2 DEF Exit
    <2>2. accepted = delivered
      <3>1. batch = <<>>
        BY <2>1 DEF LInv, WriterShape
      <3>2. delivered \o <<>> = delivered
        BY <1>1, ConcatEmptySeq
      <3> QED
        BY <2>1, <3>1, <3>2 DEF LInv, NothingLost
    <2>3. TypeOK'
      BY <2>1 DEF LInv, TypeOK, registry, queue, working, closing
    <2>4. NothingLost'
      BY <2>1 DEF LInv, NothingLost, queue, working
    <2>5. WriterShape'
      BY <1>1, <2>1, <2>2 DEF LInv, WriterShape, queue, working, closing
    <2> QED
      BY <2>3, <2>4, <2>5 DEF LInv
  <1>3. CASE Wait \/ SpuriousWakeup \/ CrashInRace \/ FinishBatch
    <2>1. /\ writer \in {"ready", "waiting", "deliver"}
          /\ writer' \in {"waiting", "woken", "crashed", "ready"}
          /\ writer' = "crashed" \/ batch' = <<>>
          /\ racing' \in BOOLEAN
          /\ UNCHANGED <<registry, queue, batch, delivered, written, closing, changes>>
      BY <1>3 DEF LInv, TypeOK, WriterShape, Wait, SpuriousWakeup, CrashInRace, FinishBatch,
                  Iterating, working
    <2>2. TypeOK'
      BY <2>1 DEF LInv, TypeOK, registry, queue, closing
    <2>3. NothingLost'
      BY <2>1 DEF LInv, NothingLost, queue
    <2>4. WriterShape'
      BY <2>1 DEF LInv, WriterShape, queue, closing
    <2> QED
      BY <2>2, <2>3, <2>4 DEF LInv
  <1> QED
    BY <1>2, <1>3

LEMMA Inductive == LInv /\ [Next]_vars => LInv'
  <1> SUFFICES ASSUME LInv, [Next]_vars PROVE LInv'
    OBVIOUS
  <1>1. CASE Client
    BY <1>1, RegistryStep, LogStep, CloseStep DEF Client
  <1>2. CASE WriteLoop \/ SpuriousWakeup \/ CrashInRace
    BY <1>2, TakeStep, DeliverStep, WriterStep DEF WriteLoop
  <1>3. CASE UNCHANGED vars
    <2>1. TypeOK'
      BY <1>3 DEF LInv, TypeOK, vars, registry, queue, working, closing
    <2>2. NothingLost' /\ WriterShape'
      BY <1>3 DEF LInv, NothingLost, WriterShape, vars, queue, working, closing
    <2> QED
      BY <2>1, <2>2 DEF LInv
  <1> QED
    BY <1>1, <1>2, <1>3 DEF Next

LEMMA LogInvariant == Spec => []LInv
  BY InitInv, Inductive, PTL DEF Spec

-----------------------------------------------------------------------------
(* What the sinks are given. *)

\* part is what whole has at the places in P, in order.
IsPart(part, whole, P) ==
  \E at \in [DOMAIN part -> P] :
    /\ \A i, j \in DOMAIN part : i < j => at[i] < at[j]
    /\ \A k \in P : \E i \in DOMAIN part : at[i] = k
    /\ \A i \in DOMAIN part : part[i] = whole[at[i]]

\* One more message, which is passed over or taken.
LEMMA PartGrows ==
  ASSUME NEW S, NEW part \in Seq(S), NEW whole \in Seq(S), NEW m \in S,
         NEW P \in SUBSET (DOMAIN whole), IsPart(part, whole, P)
  PROVE  /\ IsPart(part, Append(whole, m), P)
         /\ IsPart(Append(part, m), Append(whole, m), P \cup {Len(whole) + 1})
  <1> DEFINE w == Append(whole, m)  q == Append(part, m)
             n == Len(whole)  l == Len(part)
  <1>1. /\ n \in Nat /\ l \in Nat /\ DOMAIN whole = 1..n /\ DOMAIN part = 1..l
        /\ DOMAIN w = 1..(n + 1) /\ DOMAIN q = 1..(l + 1)
        /\ w[n + 1] = m /\ q[l + 1] = m
        /\ \A i \in 1..n : w[i] = whole[i]
        /\ \A i \in 1..l : q[i] = part[i]
    BY AppendProperties
  <1> HIDE DEF w, q, n, l
  <1>2. PICK at \in [DOMAIN part -> P] :
          /\ \A i, j \in DOMAIN part : i < j => at[i] < at[j]
          /\ \A k \in P : \E i \in DOMAIN part : at[i] = k
          /\ \A i \in DOMAIN part : part[i] = whole[at[i]]
    BY DEF IsPart
  <1>3. /\ at \in [1..l -> P]
        /\ \A i, j \in 1..l : i < j => at[i] < at[j]
        /\ \A k \in P : \E i \in 1..l : at[i] = k
        /\ \A i \in 1..l : part[i] = whole[at[i]]
    BY <1>1, <1>2, Zenon
  <1>4. \A i \in 1..l : at[i] \in P /\ at[i] \in 1..n
    BY <1>1, <1>3
  <1>5. IsPart(part, w, P)
    <2>1. \A i \in DOMAIN part : part[i] = w[at[i]]
      BY <1>1, <1>3, <1>4
    <2> QED
      BY <1>2, <2>1 DEF IsPart
  <1>6. IsPart(q, w, P \cup {n + 1})
    <2> DEFINE more == [i \in 1..(l + 1) |-> IF i = l + 1 THEN n + 1 ELSE at[i]]
    <2>1. /\ more[l + 1] = n + 1 /\ \A i \in 1..l : more[i] = at[i]
          /\ DOMAIN more = 1..(l + 1)
      BY <1>1
    <2>2. \A i \in 1..(l + 1) : i \in 1..l \/ i = l + 1
      BY <1>1
    <2>3. more \in [1..(l + 1) -> P \cup {n + 1}]
      BY <1>4, <2>2
    <2> HIDE DEF more
    <2>4. ASSUME NEW i \in 1..(l + 1), NEW j \in 1..(l + 1), i < j PROVE more[i] < more[j]
      <3>1. i \in 1..l /\ more[i] = at[i] /\ at[i] \in 1..n
        BY <1>1, <1>4, <2>1, <2>4
      <3>2. CASE j = l + 1
        BY <1>1, <2>1, <3>1, <3>2
      <3>3. CASE j \in 1..l
        BY <1>3, <2>1, <2>4, <3>1, <3>3
      <3> QED
        BY <2>2, <3>2, <3>3
    <2>5. ASSUME NEW k \in P \cup {n + 1} PROVE \E i \in 1..(l + 1) : more[i] = k
      <3>1. CASE k = n + 1
        BY <1>1, <2>1, <3>1
      <3>2. CASE k \in P
        <4>1. PICK i \in 1..l : at[i] = k
          BY <1>3, <3>2
        <4>2. i \in 1..(l + 1)
          BY <1>1
        <4> QED
          BY <2>1, <4>1, <4>2
      <3> QED
        BY <3>1, <3>2
    <2>6. ASSUME NEW i \in 1..(l + 1) PROVE q[i] = w[more[i]]
      <3>1. CASE i = l + 1
        BY <1>1, <2>1, <3>1
      <3>2. CASE i \in 1..l
        BY <1>1, <1>3, <1>4, <2>1, <3>2
      <3> QED
        BY <2>2, <3>1, <3>2
    <2>7. /\ more \in [DOMAIN q -> P \cup {n + 1}]
          /\ \A i, j \in DOMAIN q : i < j => more[i] < more[j]
          /\ \A k \in P \cup {n + 1} : \E i \in DOMAIN q : more[i] = k
          /\ \A i \in DOMAIN q : q[i] = w[more[i]]
      BY <1>1, <2>3, <2>4, <2>5, <2>6, Zenon
    <2> QED
      BY <2>7, Zenon DEF IsPart
  <1> QED
    BY <1>5, <1>6 DEF w, q, n

\* A sink that was there all the time is there now, and the writer does not race.
SinksInv ==
  /\ steady \subseteq sinks /\ (racing => steady = {})
  /\ \A s \in steady : IsPart(written[s], delivered, Theirs(s))

\* What is delivered changes in Deliver only.
LEMMA SinksKept ==
  ASSUME SinksInv, UNCHANGED <<delivered, written>>, steady' \subseteq steady,
         steady' \subseteq sinks', racing' => steady' = {}
  PROVE  SinksInv'
  <1>1. ASSUME NEW s \in steady' PROVE IsPart(written'[s], delivered', Theirs(s)')
    BY DEF SinksInv, Theirs
  <1> QED
    BY <1>1 DEF SinksInv

LEMMA DeliverSinks ==
  ASSUME LInv, SinksInv, Deliver
  PROVE  SinksInv'
  <1>1. /\ batch \in Seq(Message) /\ delivered \in Seq(Message) /\ batch # <<>>
        /\ written \in [Sink -> Seq(Message)] /\ steady \subseteq Sink
        /\ delivered' = Append(delivered, Head(batch)) /\ UNCHANGED <<steady, sinks, racing>>
    BY DEF LInv, TypeOK, Deliver, Iterating, registry
  <1>2. PICK m \in Message : m = Head(batch)
    BY <1>1, HeadTailProperties
  <1>3. ASSUME NEW s \in steady PROVE IsPart(written'[s], delivered', Theirs(s)')
    <2>1. ~racing /\ s \in sinks /\ s \in Sink /\ IsPart(written[s], delivered, Theirs(s))
      BY <1>1, <1>3 DEF SinksInv
    <2>2. written'[s] = IF m.source \in Applies[s] THEN Append(written[s], m) ELSE written[s]
      BY <1>2, <2>1 DEF Deliver, Receivers
    <2>3. delivered' = Append(delivered, m) /\ written[s] \in Seq(Message)
      BY <1>1, <1>2, <2>1
    <2>4. Theirs(s) \in SUBSET (DOMAIN delivered)
      BY DEF Theirs
    <2>5. Theirs(s)' = IF m.source \in Applies[s] THEN Theirs(s) \cup {Len(delivered) + 1}
                                                  ELSE Theirs(s)
      <3>1. /\ Len(delivered) \in Nat /\ DOMAIN delivered = 1..Len(delivered)
            /\ DOMAIN delivered' = 1..(Len(delivered) + 1)
            /\ delivered'[Len(delivered) + 1] = m
            /\ \A i \in 1..Len(delivered) : delivered'[i] = delivered[i]
        BY <1>1, <2>3, AppendProperties
      <3> QED
        BY <3>1 DEF Theirs
    <2>6. /\ IsPart(written[s], Append(delivered, m), Theirs(s))
          /\ IsPart(Append(written[s], m), Append(delivered, m),
                     Theirs(s) \cup {Len(delivered) + 1})
      BY <1>1, <2>1, <2>3, <2>4, PartGrows
    <2> QED
      BY <2>2, <2>3, <2>5, <2>6
  <1> QED
    BY <1>1, <1>3 DEF SinksInv

LEMMA SinksInvStep == LInv /\ SinksInv /\ [Next]_vars => SinksInv'
  <1> SUFFICES ASSUME LInv, SinksInv, [Next]_vars PROVE SinksInv'
    OBVIOUS
  <1>1. ASSUME NEW table \in SUBSET Sink, ChangeSinks(table) PROVE SinksInv'
    BY <1>1, SinksKept DEF ChangeSinks, SinksInv
  <1>2. CASE \/ \E n \in Source : Get(n) \/ \E ls \in SUBSET Level : SetLevels(ls, n)
             \/ \E ls \in SUBSET Level : SetDefault(ls)
             \/ \E m \in Message : Log(m)
             \/ Close \/ Join
    <2>1. UNCHANGED <<steady, sinks, racing, delivered, written>>
      BY <1>2 DEF Get, SetLevels, SetDefault, Log, Close, Join, registry, working
    <2> QED
      BY <2>1, SinksKept DEF SinksInv
  <1>3. CASE Take \/ Exit \/ Wait \/ Wake \/ FinishBatch \/ SpuriousWakeup \/ CrashInRace
    <2>1. UNCHANGED <<steady, sinks, delivered, written>> /\ racing' \in {racing, FALSE}
      BY <1>3 DEF Take, TakeQueue, Exit, Wait, Wake, FinishBatch, SpuriousWakeup, CrashInRace,
                  registry, working
    <2>2. steady' \subseteq steady /\ steady' \subseteq sinks'
      BY <2>1 DEF SinksInv
    <2>3. racing' => steady' = {}
      BY <2>1, Zenon DEF SinksInv
    <2> QED
      BY <2>1, <2>2, <2>3, SinksKept
  <1>4. CASE UNCHANGED vars
    BY <1>4, SinksKept DEF SinksInv, vars, registry, working
  <1>5. sinks \in SUBSET Sink
    BY DEF LInv, TypeOK
  <1> QED
    BY <1>1, <1>2, <1>3, <1>4, <1>5, DeliverSinks
    DEF Next, Client, WriteLoop, AddSink, RemoveSink, RemoveAllSinks

LEMMA SinksInvInit == Init => SinksInv
  <1> SUFFICES ASSUME Init PROVE SinksInv
    OBVIOUS
  <1>1. ASSUME NEW s \in steady PROVE IsPart(written[s], delivered, Theirs(s))
    <2>1. written[s] = <<>> /\ delivered = <<>> /\ Theirs(s) = {} /\ DOMAIN <<>> = {}
      BY DEF Init, Theirs
    <2> DEFINE none == [i \in {} |-> i]
    <2>2. none \in [{} -> {}] /\ DOMAIN none = {}
      OBVIOUS
    <2> QED
      BY <2>1, <2>2 DEF IsPart
  <1> QED
    BY <1>1 DEF SinksInv, Init

-----------------------------------------------------------------------------
(* The theorems. *)

\* Every variable of the factory keeps its type, whatever clients do.
THEOREM TypeCorrect == Spec => []TypeOK
  <1>1. LInv => TypeOK
    BY DEF LInv
  <1> QED
    BY <1>1, LogInvariant, PTL

\* What was written is what the writer has delivered, then what it holds, then
\* what waits: no message is lost, doubled or overtaken (factory.cpp:27, 46-53).
THEOREM QueueKeepsMessages == Spec => []NothingLost
  <1>1. LInv => NothingLost
    BY DEF LInv
  <1> QED
    BY <1>1, LogInvariant, PTL

\* When close() has returned, all that was written before it was called has
\* been given to the sinks (factory.cpp:21-25, 152-168).
THEOREM CloseIsAFlush == Spec => []CloseFlushes
  <1>1. LInv => CloseFlushes
    BY DEF LInv, WriterShape, CloseFlushes
  <1> QED
    BY <1>1, LogInvariant, PTL

\* A sink that is attached all the time has been given exactly the messages of its sources
\* that the writer has gone through, each once and in the order they were written, as long
\* as the table of sinks was not changed under the writer's hands (factory.cpp:31-40).
THEOREM SinksAreServed == Spec => []SinksGetTheirs
  <1>1. SinksInv => SinksGetTheirs
    BY DEF SinksInv, IsPart, SinksGetTheirs
  <1> QED
    BY <1>1, LogInvariant, SinksInvInit, SinksInvStep, PTL DEF Spec

-----------------------------------------------------------------------------
(* The factory keeps the promise of the abstract log. *)

\* The next message that is handed on is the next one that was written.
LEMMA NextInOrder ==
  ASSUME LInv, Iterating
  PROVE  /\ Len(delivered) \in Nat /\ Len(accepted) \in Nat /\ Len(delivered) < Len(accepted)
         /\ accepted[Len(delivered) + 1] = Head(batch)
         /\ Head(batch) \in Message /\ Len(Append(delivered, Head(batch))) = Len(delivered) + 1
  <1>1. /\ delivered \in Seq(Message) /\ batch \in Seq(Message) /\ messages \in Seq(Message)
        /\ batch # <<>> /\ accepted = (delivered \o batch) \o messages
    BY DEF LInv, TypeOK, NothingLost, Iterating
  <1>2. PICK gone, now, later \in Nat :
          gone = Len(delivered) /\ now = Len(batch) /\ later = Len(messages)
    BY <1>1
  <1>3. now > 0 /\ Head(batch) = batch[1] /\ Head(batch) \in Message
    BY <1>1, <1>2, EmptySeq, HeadTailProperties
  <1>4. /\ delivered \o batch \in Seq(Message) /\ Len(delivered \o batch) = gone + now
        /\ (delivered \o batch)[gone + 1] = batch[1]
    BY <1>1, <1>2, <1>3, ConcatProperties
  <1>5. Len(accepted) = gone + now + later /\ accepted[gone + 1] = batch[1]
    BY <1>1, <1>2, <1>3, <1>4, ConcatProperties
  <1>6. Len(Append(delivered, Head(batch))) = gone + 1
    BY <1>1, <1>2, <1>3, AppendProperties
  <1> QED
    BY <1>2, <1>3, <1>5, <1>6

LEMMA DeliverKeeps ==
  ASSUME LInv, Deliver
  PROVE  Promise!HandOn
  <1>1. Iterating /\ UNCHANGED <<sinks, racing, accepted, closer, closedAt>>
    BY DEF Deliver, registry, queue, closing
  <1>2. closer # "closed"
    BY <1>1 DEF LInv, WriterShape, Iterating
  <1>3. Len(delivered') = Len(delivered) + 1 /\ accepted[Len(delivered')] = Head(batch)
    BY <1>1, NextInOrder DEF Deliver
  <1>4. Promise!Takers(accepted[Len(delivered')]) = Receivers(Head(batch))
    BY <1>3 DEF Promise!Takers, Receivers
  <1>5. \E to \in IF racing THEN SUBSET Sink ELSE {Receivers(Head(batch))} :
          written' = [s \in Sink |->
                        IF s \in to THEN Append(written[s], Head(batch)) ELSE written[s]]
    BY DEF Deliver
  <1>6. Len(delivered) < Len(accepted)
    BY <1>1, NextInOrder
  <1> QED
    BY <1>1, <1>2, <1>3, <1>4, <1>5, <1>6 DEF Promise!HandOn

LEMMA ChangeKeeps ==
  ASSUME LInv, NEW table \in SUBSET Sink, ChangeSinks(table)
  PROVE  Promise!Change(table)
  <1>1. /\ sinks' = table /\ racing' = (racing \/ Iterating) /\ racing \in BOOLEAN
        /\ UNCHANGED <<accepted, delivered, written, closer, closedAt>>
    BY DEF ChangeSinks, queue, closing, LInv, TypeOK
  <1>2. CASE Iterating
    <2>1. racing' = TRUE /\ Len(delivered) < Len(accepted)
      BY <1>1, <1>2, NextInOrder
    <2> QED
      BY <1>1, <2>1 DEF Promise!Change
  <1>3. CASE ~Iterating
    <2>1. racing' = racing
      BY <1>1, <1>3
    <2> QED
      BY <1>1, <2>1 DEF Promise!Change
  <1> QED
    BY <1>2, <1>3

LEMMA PromiseStep ==
  ASSUME LInv, [Next]_vars
  PROVE  [Promise!Next]_(Promise!vars)
  <1>1. ASSUME UNCHANGED <<sinks, racing, accepted, delivered, written, closer, closedAt>>
        PROVE  UNCHANGED Promise!vars
    BY <1>1 DEF Promise!vars
  <1>2. ASSUME NEW table \in SUBSET Sink, ChangeSinks(table) PROVE Promise!Next
    BY <1>2, ChangeKeeps DEF Promise!Next
  <1>3. CASE RemoveAllSinks \/ \E s \in Sink : AddSink(s) \/ RemoveSink(s)
    <2>1. sinks \in SUBSET Sink
      BY DEF LInv, TypeOK
    <2> QED
      BY <1>2, <1>3, <2>1 DEF AddSink, RemoveSink, RemoveAllSinks
  <1>4. CASE \/ \E n \in Source : Get(n) \/ \E ls \in SUBSET Level : SetLevels(ls, n)
             \/ \E ls \in SUBSET Level : SetDefault(ls)
    BY <1>1, <1>4 DEF Get, SetLevels, SetDefault, queue, working, closing
  <1>5. ASSUME NEW m \in Message, Log(m) PROVE Promise!Next
    <2>1. Promise!Write(m)
      BY <1>5 DEF Log, registry, working, closing, Promise!Write
    <2> QED
      BY <2>1 DEF Promise!Next
  <1>6. CASE Close
    <2>1. Promise!CallClose
      BY <1>6 DEF Close, registry, queue, working, Promise!CallClose
    <2> QED
      BY <2>1 DEF Promise!Next
  <1>7. CASE Join
    <2>1. Len(delivered) >= closedAt
      BY <1>7 DEF Join, LInv, WriterShape
    <2>2. Promise!CloseReturns
      BY <1>7, <2>1 DEF Join, registry, queue, working, Promise!CloseReturns
    <2> QED
      BY <2>2 DEF Promise!Next
  <1>8. CASE Take \/ Wake \/ Exit \/ Wait \/ SpuriousWakeup \/ CrashInRace
    BY <1>1, <1>8 DEF Take, Wake, TakeQueue, Exit, Wait, SpuriousWakeup, CrashInRace, registry,
                      queue, working, closing
  <1>9. CASE Deliver
    BY <1>9, DeliverKeeps DEF Promise!Next
  <1>10. CASE FinishBatch
    <2>1. Promise!Settle
      BY <1>10 DEF FinishBatch, registry, queue, closing, Promise!Settle
    <2> QED
      BY <2>1 DEF Promise!Next
  <1>11. CASE UNCHANGED vars
    BY <1>1, <1>11 DEF vars, registry, queue, working, closing
  <1> QED
    BY <1>3, <1>4, <1>5, <1>6, <1>7, <1>8, <1>9, <1>10, <1>11 DEF Next, Client, WriteLoop

\* Every run of the factory is a run of the abstract log: messages are handed on one by one in
\* the order they were written, each to all sinks that are attached then and take its source,
\* and close() returns after the last one written before it, for any number of threads.
THEOREM FactoryKeepsPromise == Spec => ImplementsLog
  <1>1. Init => Promise!Init
    BY EmptySeq DEF Init, Promise!Init
  <1>2. LInv /\ [Next]_vars => [Promise!Next]_(Promise!vars)
    BY PromiseStep
  <1> QED
    BY <1>1, <1>2, LogInvariant, PTL DEF Spec, ImplementsLog, Promise!Spec

=============================================================================
