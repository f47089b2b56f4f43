---------------------------- MODULE Iocp_proofs ----------------------------
(***************************************************************************)
(* Theorems about the io service on Windows, for every number of threads,  *)
(* streams, handles and operations.                                        *)
(*                                                                         *)
(* The invariant has three parts.  An operation is in one place, which     *)
(* holds always.  As long as no history variable tells that something went *)
(* wrong, a handle leads to the stream whose operations are on it, and the *)
(* operations that are linked make a list, or the one thread inside of it  *)
(* is known to have taken apart no more than it puts together.             *)
(***************************************************************************)
EXTENDS Iocp, TLAPS, SequenceTheorems, FiniteSetTheorems, FunctionTheorems

Life   == {"none", "opened", "live", "closed", "dead"}
Status == {"none", "new", "pending", "posted", "leaked", "deleted"}
Rest   == {"idle", "wait", "register", "unregister"}
Push   == {"next", "prev", "header"}
Pop    == {"pop next", "pop prev", "pop header"}
Mid    == {"prev", "header", "pop prev", "pop header"}
Place  == Rest \cup Push \cup Pop \cup {"read", "valid", "call"}

Packet == [op : Operation \cup {null}, good : BOOLEAN]
Local  == [at : Place, op : Operation \cup {null}, good : BOOLEAN, stream : Object \cup {null}]

IocpTypeOK ==
  /\ life \in [Object -> Life] /\ handle \in [Object -> Handle \cup {null}]
  /\ open \subseteq Handle /\ handlers \in [Handle -> Object \cup {null}]
  /\ readHeader \in [Object -> Operation \cup {null}]
  /\ nextOp \in [Operation -> Operation \cup {null}]
  /\ prevOp \in [Operation -> Operation \cup {null}]
  /\ state \in [Operation -> Status] /\ reads \in [Operation -> Object \cup {null}]
  /\ fd \in [Operation -> Handle \cup {null}] /\ port \in Seq(Packet)
  /\ lock \in Thread \cup {null} /\ thread \in [Thread -> Local]
  /\ \A s \in Object : life[s] # "none" => handle[s] \in Handle
  /\ \A o \in Operation : state[o] # "none" => fd[o] \in Handle

-----------------------------------------------------------------------------
(* Operations are in one place. *)

\* What a thread has in its hands.
Holds(t) ==
  /\ MyOp(t) = null <=> thread[t].at \in Rest
  /\ thread[t].at \in Push \cup {"read"} => state[MyOp(t)] = "new"
  /\ thread[t].at \in Pop \cup {"valid", "call"} => state[MyOp(t)] = "posted"
  /\ thread[t].at \in Push \cup Pop \cup {"read", "register", "unregister"} =>
       MyStream(t) \in Object
  /\ thread[t].at \in {"register", "unregister"} => handle[MyStream(t)] \in Handle
  /\ thread[t].at \in Pop => lock = t

OneHolder == \A t, u \in Thread : t # u /\ MyOp(t) = MyOp(u) => MyOp(t) = null

\* What is in the port is there once, and no thread has it.
PortHolds ==
  /\ \A i \in DOMAIN port : port[i].op # null =>
       state[port[i].op] = "posted" /\ \A t \in Thread : MyOp(t) # port[i].op
  /\ \A i, j \in DOMAIN port : i # j /\ port[i].op = port[j].op => port[i].op = null

Held == OneHolder /\ PortHolds /\ \A t \in Thread : Holds(t)

-----------------------------------------------------------------------------
(* Handles lead to streams. *)

Registered(s) ==
  /\ life[s] \in {"opened", "live"} => handle[s] \in open
  /\ life[s] \in {"live", "closed"} => handlers[handle[s]] = s
  /\ life[s] = "opened" => \A o \in Operation : fd[o] = handle[s] => state[o] = "deleted"
Apart ==
  \A r, s \in Object : r # s /\ {life[r], life[s]} \subseteq {"opened", "live", "closed"} =>
    handle[r] # handle[s]

\* An operation that is left has the handle of its stream, and no other has it now.
Belongs(o) ==
  /\ state[o] = "none" => fd[o] = null /\ reads[o] = null
  /\ state[o] \notin {"none", "deleted"} =>
       /\ reads[o] \in Object /\ fd[o] = handle[reads[o]]
       /\ life[reads[o]] \in {"live", "closed", "dead"}
       /\ life[reads[o]] = "dead" => handlers[fd[o]] = null

\* The stream that a thread works on.
WorksOn(t) ==
  /\ At(t, "register") => life[MyStream(t)] = "opened"
  /\ At(t, "unregister") => life[MyStream(t)] = "closed"
  /\ thread[t].at \in Push \cup {"read"} => life[MyStream(t)] = "live"
  /\ thread[t].at \in Pop => life[MyStream(t)] \in {"live", "closed"}
  /\ thread[t].at \in Push \cup Pop \cup {"read"} => reads[MyOp(t)] = MyStream(t)
Sets(t) == thread[t].at \in {"register", "unregister"}
OneSets ==
  \A t, u \in Thread : t # u /\ Sets(t) /\ Sets(u) => MyStream(t) # MyStream(u)

Streams ==
  /\ Apart /\ OneSets /\ \A s \in Object : Registered(s)
  /\ \A o \in Operation : Belongs(o)
  /\ \A t \in Thread : WorksOn(t)

-----------------------------------------------------------------------------
(* The lists. *)

\* The operations that are in the list of s: not those on their way into it, or out of it.
Out(o) == \E t \in Thread : MyOp(t) = o /\ thread[t].at \in Push \cup {"call"}
In(s)  ==
  {o \in Operation : reads[o] = s /\ state[o] \in {"new", "pending", "posted"} /\ ~Out(o)}

\* The two links go together, and what is first has none before it.
IsList(S, first, nxt, prv) ==
  /\ first \in S \cup {null}
  /\ \A o \in S : nxt[o] \in S \cup {null} /\ prv[o] \in S \cup {null}
  /\ \A o, q \in S : nxt[o] = q <=> prv[q] = o
  /\ \A o \in S : prv[o] = null <=> first = o

InMid(t) == thread[t].at \in Mid
Calm(s)  == \A t \in Thread : ~(MyStream(t) = s /\ InMid(t))
OneInside ==
  \A t, u \in Thread : t # u /\ InMid(t) /\ InMid(u) => MyStream(t) # MyStream(u)

\* What a thread inside of a list has done: it is a list once the thread's links are
\* put back.
PrevPhase(S, o, first, nxt, prv) == IsList(S, first, nxt, prv) /\ nxt[o] = first
HeaderPhase(S, o, first, nxt, prv) ==
  IsList(S, first, nxt, Link(prv, first, null)) /\ nxt[o] = first
  /\ (first # null => prv[first] = o)
PopPrevPhase(S, o, first, nxt, prv) ==
  /\ IsList(S, first, nxt, Link(prv, nxt[o], o))
  /\ nxt[o] # null => nxt[o] \in S /\ prv[nxt[o]] = prv[o]
  /\ prv[o] # null => prv[o] \in S /\ nxt[prv[o]] = o
PopHeaderPhase(S, o, first, nxt, prv) ==
  /\ IsList(S, first, Link(nxt, prv[o], o), Link(prv, nxt[o], o))
  /\ nxt[o] # null => nxt[o] \in S /\ prv[nxt[o]] = prv[o]
  /\ prv[o] # null => prv[o] \in S /\ nxt[prv[o]] = nxt[o]

Phase(t) ==
  LET S == In(MyStream(t))  o == MyOp(t)  first == readHeader[MyStream(t)] IN
    /\ thread[t].at \in Push => prevOp[o] = null
    /\ At(t, "prev")       => PrevPhase(S, o, first, nextOp, prevOp)
    /\ At(t, "header")     => HeaderPhase(S, o, first, nextOp, prevOp)
    /\ At(t, "pop prev")   => PopPrevPhase(S, o, first, nextOp, prevOp)
    /\ At(t, "pop header") => PopHeaderPhase(S, o, first, nextOp, prevOp)

ListOf(s) ==
  /\ life[s] \in {"live", "closed"} /\ Calm(s) => IsList(In(s), readHeader[s], nextOp, prevOp)
  /\ life[s] \in {"none", "opened"} => readHeader[s] = null
Fresh(o) == state[o] = "none" => prevOp[o] = null

Lists ==
  /\ OneInside
  /\ \A s \in Object : ListOf(s)
  /\ \A o \in Operation : Fresh(o)
  /\ \A t \in Thread : Phase(t)

Quiet == ~beside /\ ~reused /\ ~overtaken

IocpInv == IocpTypeOK /\ Held /\ (Quiet => ~dangling /\ Streams /\ Lists)

-----------------------------------------------------------------------------
(* Lists, as functions. *)

LEMMA ListSame ==
  ASSUME NEW S, NEW first, NEW nxt, NEW prv, NEW nxt2, NEW prv2, IsList(S, first, nxt, prv),
         \A o \in S : nxt2[o] = nxt[o] /\ prv2[o] = prv[o]
  PROVE  IsList(S, first, nxt2, prv2)
  BY DEF IsList

LEMMA ListPushed ==
  ASSUME NEW S \in SUBSET Operation, NEW o \in Operation, o \notin S, NEW first,
         NEW nxt \in [Operation -> Operation \cup {null}],
         NEW prv \in [Operation -> Operation \cup {null}],
         HeaderPhase(S, o, first, nxt, prv), prv[o] = null
  PROVE  IsList(S \cup {o}, o, nxt, prv)
  <1> DEFINE old == Link(prv, first, null)
  <1>1. /\ IsList(S, first, nxt, old) /\ nxt[o] = first /\ first \in S \cup {null}
        /\ first # null => prv[first] = o /\ old[first] = null
        /\ \A q \in S : q # first => old[q] = prv[q]
        /\ null \notin Operation
    BY IocpAssumption DEF HeaderPhase, IsList, Link
  <1> HIDE DEF old
  <1>2. \A q \in S : nxt[q] \in S \cup {null} /\ nxt[q] # o
    BY <1>1 DEF IsList
  <1>3. \A q \in S : prv[q] \in S \cup {o, null}
    BY <1>1 DEF IsList
  <1>4. \A q \in S : prv[q] # null
    BY <1>1 DEF IsList
  <1>5. ASSUME NEW q \in S, NEW r \in S PROVE nxt[q] = r <=> prv[r] = q
    BY <1>1 DEF IsList
  <1>6. ASSUME NEW q \in S PROVE nxt[o] = q <=> prv[q] = o
    BY <1>1, <1>4 DEF IsList
  <1> QED
    BY <1>1, <1>2, <1>3, <1>4, <1>5, <1>6 DEF IsList

LEMMA ListPopNext ==
  ASSUME NEW S \in SUBSET Operation, NEW o \in S, NEW first,
         NEW nxt \in [Operation -> Operation \cup {null}],
         NEW prv \in [Operation -> Operation \cup {null}],
         NEW prv2, prv2 = Link(prv, nxt[o], prv[o]),
         IsList(S, first, nxt, prv)
  PROVE  PopPrevPhase(S, o, first, nxt, prv2)
  <1>1. /\ nxt[o] \in S \cup {null} /\ prv[o] \in S \cup {null} /\ null \notin Operation
        /\ nxt[o] # null => prv[nxt[o]] = o
        /\ prv[o] # null => nxt[prv[o]] = o
    BY IocpAssumption DEF IsList
  <1>2. /\ nxt[o] # null => prv2[nxt[o]] = prv[o]
        /\ \A q \in S : q # nxt[o] => prv2[q] = prv[q]
        /\ prv2[o] = prv[o]
    BY <1>1 DEF Link
  <1>3. \A q \in S : Link(prv2, nxt[o], o)[q] = prv[q]
    BY <1>1, <1>2 DEF Link
  <1>4. IsList(S, first, nxt, Link(prv2, nxt[o], o))
    BY <1>3, ListSame
  <1> QED
    BY <1>1, <1>2, <1>4 DEF PopPrevPhase

LEMMA ListPopPrev ==
  ASSUME NEW S \in SUBSET Operation, NEW o \in S, NEW first,
         NEW nxt \in [Operation -> Operation \cup {null}],
         NEW prv \in [Operation -> Operation \cup {null}],
         NEW nxt2, nxt2 = Link(nxt, prv[o], nxt[o]),
         PopPrevPhase(S, o, first, nxt, prv)
  PROVE  PopHeaderPhase(S, o, first, nxt2, prv)
  <1>1. /\ prv[o] # null => prv[o] \in S /\ nxt[prv[o]] = o
        /\ nxt[o] # null => prv[nxt[o]] = prv[o]
        /\ IsList(S, first, nxt, Link(prv, nxt[o], o))
        /\ nxt[o] \in S \cup {null} /\ null \notin Operation
    BY IocpAssumption DEF PopPrevPhase, IsList
  <1>2. /\ prv[o] # null => nxt2[prv[o]] = nxt[o]
        /\ \A q \in S : q # prv[o] => nxt2[q] = nxt[q]
        /\ nxt2[o] = nxt[o]
    BY <1>1 DEF Link
  <1>3. \A q \in S : Link(nxt2, prv[o], o)[q] = nxt[q]
    BY <1>1, <1>2 DEF Link
  <1>4. IsList(S, first, Link(nxt2, prv[o], o), Link(prv, nxt2[o], o))
    BY <1>1, <1>2, <1>3, ListSame
  <1> QED
    BY <1>1, <1>2, <1>4 DEF PopHeaderPhase

LEMMA ListPopped ==
  ASSUME NEW S \in SUBSET Operation, NEW o \in S, NEW first,
         NEW nxt \in [Operation -> Operation \cup {null}],
         NEW prv \in [Operation -> Operation \cup {null}],
         PopHeaderPhase(S, o, first, nxt, prv)
  PROVE  IsList(S \ {o}, IF first = o THEN nxt[o] ELSE first, nxt, prv)
  <1> DEFINE n == nxt[o]  p == prv[o]
             nxt0 == Link(nxt, p, o)  prv0 == Link(prv, n, o)
  <1>1. /\ IsList(S, first, nxt0, prv0) /\ null \notin Operation
        /\ n # null => n \in S /\ prv[n] = p /\ prv0[n] = o
        /\ p # null => p \in S /\ nxt[p] = n /\ nxt0[p] = o
        /\ \A q \in S : (q # p => nxt0[q] = nxt[q]) /\ (q # n => prv0[q] = prv[q])
    BY IocpAssumption DEF PopHeaderPhase, Link
  <1> HIDE DEF nxt0, prv0
  <1>2. (n # null => nxt0[o] = n) /\ (p # null => prv0[o] = p)
    BY <1>1 DEF IsList
  <1>3. (n = null => nxt0[o] \in {null, o}) /\ (p = null => prv0[o] \in {null, o})
    BY <1>1
  <1>4. ASSUME NEW q \in S \ {o}
        PROVE  nxt[q] \in (S \ {o}) \cup {null} /\ prv[q] \in (S \ {o}) \cup {null}
    BY <1>1, <1>2, <1>3 DEF IsList
  <1>5. ASSUME NEW q \in S \ {o}, NEW r \in S \ {o} PROVE nxt[q] = r <=> prv[r] = q
    BY <1>1, <1>2, <1>3 DEF IsList
  <1>6. ASSUME NEW q \in S \ {o}
        PROVE  prv[q] = null <=> (IF first = o THEN nxt[o] ELSE first) = q
    BY <1>1, <1>2, <1>3 DEF IsList
  <1>7. (IF first = o THEN nxt[o] ELSE first) \in (S \ {o}) \cup {null}
    BY <1>1, <1>2, <1>3 DEF IsList
  <1> QED
    BY <1>4, <1>5, <1>6, <1>7 DEF IsList

-----------------------------------------------------------------------------
(* Steps of a thread. *)

LEMMA ThreadIs ==
  ASSUME IocpTypeOK, NEW t \in Thread, NEW c \in Local, thread' = [thread EXCEPT ![t] = c]
  PROVE  /\ thread' \in [Thread -> Local] /\ thread'[t] = c
         /\ \A u \in Thread : u # t => thread'[u] = thread[u]
  BY DEF IocpTypeOK

LEMMA Goes ==
  ASSUME IocpTypeOK, NEW t \in Thread, NEW p \in Place, Go(t, p)
  PROVE  \E c \in Local : /\ thread' = [thread EXCEPT ![t] = c]
                          /\ c.at = p /\ c.op = MyOp(t) /\ c.stream = MyStream(t)
  <1> DEFINE c == [thread[t] EXCEPT !.at = p]
  <1>1. thread \in [Thread -> Local] /\ thread[t] \in Local
    BY DEF IocpTypeOK
  <1>2. c \in Local
    BY <1>1 DEF Local
  <1>3. thread' = [thread EXCEPT ![t] = c]
    BY <1>1 DEF Go, Local
  <1>4. c.at = p /\ c.op = MyOp(t) /\ c.stream = MyStream(t)
    BY <1>1 DEF MyOp, MyStream, Local
  <1> HIDE DEF c
  <1> QED
    BY <1>2, <1>3, <1>4

LEMMA RestIsLocal ==
  /\ AtRest \in Local
  /\ \A p \in Place : \A o \in Operation \cup {null} :
     \A s \in Object \cup {null} : \A g \in BOOLEAN :
       [AtRest EXCEPT !.at = p, !.op = o, !.good = g, !.stream = s] \in Local
  BY DEF AtRest, Local, Place, Rest

LEMMA Returns ==
  ASSUME IocpTypeOK, NEW t \in Thread, Return(t)
  PROVE  \E c \in Local : /\ thread' = [thread EXCEPT ![t] = c]
                          /\ c.at = "idle" /\ c.op = null /\ c.stream = null
  BY RestIsLocal DEF Return, AtRest

\* What other threads have is not touched.
LEMMA HoldsKept ==
  ASSUME IocpTypeOK, Held, NEW t \in Thread, NEW c \in Local, thread' = [thread EXCEPT ![t] = c],
         \A o \in Operation : \/ state'[o] = state[o] \/ o = MyOp(t)
                              \/ state[o] \in {"none", "pending"},
         lock' = lock \/ lock = null \/ lock = t,
         \A s \in Object : handle[s] \in Handle => handle'[s] \in Handle,
         c.op \in {MyOp(t), null} \/ \A u \in Thread : MyOp(u) # c.op,
         Holds(t)'
  PROVE  OneHolder' /\ \A u \in Thread : Holds(u)'
  <1>1. /\ OneHolder /\ \A u \in Thread : Holds(u)
        /\ null \notin Thread /\ thread \in [Thread -> Local]
    BY IocpAssumption DEF Held, IocpTypeOK
  <1>2. /\ thread'[t] = c
        /\ \A u \in Thread : u # t => thread'[u] = thread[u]
    BY ThreadIs
  <1>3. OneHolder'
    BY <1>1, <1>2 DEF OneHolder, MyOp
  <1>4. ASSUME NEW u \in Thread, u # t PROVE Holds(u)'
    <2>1. Holds(u) /\ thread'[u] = thread[u] /\ thread[u] \in Local
      BY <1>1, <1>2, <1>4
    <2>2. /\ thread[u].at \in Pop => lock' = u
          /\ thread[u].at \in {"register", "unregister"} => handle'[MyStream(u)] \in Handle
      BY <1>1, <1>4, <2>1 DEF Holds
    <2>3. CASE MyOp(u) = null
      BY <2>1, <2>2, <2>3 DEF Holds, MyOp, MyStream, Rest, Push, Pop
    <2>4. CASE MyOp(u) # null
      <3>1. MyOp(u) \in Operation /\ MyOp(u) # MyOp(t)
        BY <1>1, <1>4, <2>1, <2>4 DEF OneHolder, MyOp, Local
      <3>2. thread[u].at \notin Rest /\ state[MyOp(u)] \in {"new", "posted"}
        BY <2>1, <2>4 DEF Holds, Place, Local
      <3>3. state'[MyOp(u)] = state[MyOp(u)]
        BY <3>1, <3>2
      <3> QED
        BY <2>1, <2>2, <3>3 DEF Holds, MyOp, MyStream
    <2> QED
      BY <2>3, <2>4
  <1> QED
    BY <1>3, <1>4

\* Nor is the port.
LEMMA PortKept ==
  ASSUME IocpTypeOK, Held, NEW t \in Thread, NEW c \in Local, thread' = [thread EXCEPT ![t] = c],
         \A o \in Operation : \/ state'[o] = state[o] \/ o = MyOp(t)
                              \/ state[o] \in {"none", "pending"},
         c.op \in {MyOp(t), null} \/ state[c.op] = "none",
         UNCHANGED port
  PROVE  PortHolds'
  <1>1. PortHolds /\ port \in Seq(Packet) /\ DOMAIN port = 1..Len(port)
    BY DEF Held, IocpTypeOK
  <1>2. /\ thread'[t] = c
        /\ \A u \in Thread : u # t => thread'[u] = thread[u]
    BY ThreadIs
  <1>3. ASSUME NEW i \in DOMAIN port, port[i].op # null
        PROVE  state'[port[i].op] = "posted" /\ \A u \in Thread : MyOp(u)' # port[i].op
    <2>1. port[i].op \in Operation
      <3>1. port[i] \in Packet
        BY <1>1, ElementOfSeq
      <3> QED
        BY <1>3, <3>1 DEF Packet
    <2>2. state[port[i].op] = "posted" /\ \A u \in Thread : MyOp(u) # port[i].op
      BY <1>1, <1>3 DEF PortHolds
    <2>3. state'[port[i].op] = state[port[i].op]
      BY <2>1, <2>2
    <2>4. c.op # port[i].op
      BY <1>3, <2>2
    <2> QED
      BY <1>2, <2>2, <2>3, <2>4 DEF MyOp
  <1> QED
    BY <1>1, <1>3 DEF PortHolds

LEMMA HeldKept ==
  ASSUME IocpTypeOK, Held, NEW t \in Thread, NEW c \in Local, thread' = [thread EXCEPT ![t] = c],
         \A o \in Operation : \/ state'[o] = state[o] \/ o = MyOp(t)
                              \/ state[o] \in {"none", "pending"},
         lock' = lock \/ lock = null \/ lock = t,
         \A s \in Object : handle[s] \in Handle => handle'[s] \in Handle,
         c.op \in {MyOp(t), null} \/ state[c.op] = "none",
         Holds(t)', UNCHANGED port
  PROVE  Held'
  <1>1. \A u \in Thread : c.op # null /\ state[c.op] = "none" => MyOp(u) # c.op
    <2> SUFFICES ASSUME NEW u \in Thread, c.op # null, state[c.op] = "none", MyOp(u) = c.op
                 PROVE  FALSE
      OBVIOUS
    <2>1. Holds(u) /\ thread[u] \in Local
      BY DEF Held, IocpTypeOK
    <2> QED
      BY <2>1 DEF Holds, Local, Place
  <1>2. OneHolder' /\ \A u \in Thread : Holds(u)'
    BY <1>1, HoldsKept
  <1>3. PortHolds'
    BY PortKept
  <1> QED
    BY <1>2, <1>3 DEF Held

ListMove(t) ==
  PushNext(t) \/ PushPrev(t) \/ PushHeader(t) \/ PopNext(t) \/ PopPrev(t) \/ PopHeader(t)

\* A link is set to an operation or to none.
LEMMA LinkIs ==
  ASSUME NEW field \in [Operation -> Operation \cup {null}],
         NEW o \in Operation \cup {null}, NEW to \in Operation \cup {null}
  PROVE  Link(field, o, to) \in [Operation -> Operation \cup {null}]
  BY DEF Link

LEMMA ListMoveHeld ==
  ASSUME IocpTypeOK, Held, NEW t \in Thread, ListMove(t)
  PROVE  IocpTypeOK' /\ Held'
  <1>1. PICK p, q : /\ At(t, p) /\ Go(t, q) /\ UNCHANGED <<objects, ops>>
                    /\ \/ <<p, q>> \in {<<"next", "prev">>, <<"prev", "header">>,
                                       <<"header", "read">>} /\ UNCHANGED lock
                       \/ <<p, q>> \in {<<"pop next", "pop prev">>, <<"pop prev", "pop header">>}
                            /\ UNCHANGED lock
                       \/ <<p, q>> = <<"pop header", "call">> /\ lock' = null
    BY DEF ListMove, PushNext, PushPrev, PushHeader, PopNext, PopPrev, PopHeader, ListStep
  <1>2. /\ thread[t].at \in Push \cup Pop /\ Holds(t) /\ q \in Place
        /\ thread[t].at = p
    BY <1>1 DEF Held, At, Push, Pop, Place
  <1>3. MyOp(t) \in Operation /\ MyStream(t) \in Object /\ thread[t] \in Local
    <2>1. thread[t] \in Local
      BY DEF IocpTypeOK
    <2> QED
      BY <1>2, <2>1 DEF Holds, Local, MyOp, Push, Pop, Rest
  <1>4. PICK c \in Local : /\ thread' = [thread EXCEPT ![t] = c]
                           /\ c.at = q /\ c.op = MyOp(t) /\ c.stream = MyStream(t)
    BY <1>1, <1>2, Goes
  <1>5. thread' \in [Thread -> Local] /\ thread'[t] = c
    BY <1>4, ThreadIs
  <1>6. /\ readHeader' \in [Object -> Operation \cup {null}]
        /\ nextOp' \in [Operation -> Operation \cup {null}]
        /\ prevOp' \in [Operation -> Operation \cup {null}]
    <2>1. /\ readHeader \in [Object -> Operation \cup {null}]
          /\ nextOp \in [Operation -> Operation \cup {null}]
          /\ prevOp \in [Operation -> Operation \cup {null}]
      BY DEF IocpTypeOK
    <2>2. CASE PushNext(t)
      BY <1>3, <2>1, <2>2 DEF PushNext
    <2>3. CASE PushPrev(t)
      BY <1>3, <2>1, <2>3, LinkIs DEF PushPrev
    <2>4. CASE PushHeader(t)
      BY <1>3, <2>1, <2>4 DEF PushHeader, links
    <2>5. CASE PopNext(t)
      BY <1>3, <2>1, <2>5, LinkIs DEF PopNext
    <2>6. CASE PopPrev(t)
      BY <1>3, <2>1, <2>6, LinkIs DEF PopPrev
    <2>7. CASE PopHeader(t)
      BY <1>3, <2>1, <2>7 DEF PopHeader, links
    <2> QED
      BY <2>2, <2>3, <2>4, <2>5, <2>6, <2>7 DEF ListMove
  <1>7. IocpTypeOK'
    <2>1. lock' \in Thread \cup {null}
      BY <1>1 DEF IocpTypeOK
    <2> QED
      BY <1>1, <1>5, <1>6, <2>1 DEF IocpTypeOK, objects, ops
  <1>8. Holds(t)'
    <2>1. /\ MyOp(t)' = MyOp(t) /\ MyStream(t)' = MyStream(t) /\ thread'[t].at = q
          /\ state' = state
      BY <1>1, <1>4, <1>5 DEF MyOp, MyStream, ops
    <2>2. MyOp(t) # null /\ q \notin Rest
      BY <1>1, <1>3, IocpAssumption DEF Rest
    <2>3. CASE p \in Push
      <3>1. q \in {"prev", "header", "read"} /\ state[MyOp(t)] = "new"
        BY <1>1, <1>2, <2>3 DEF Holds, Push
      <3> QED
        BY <1>3, <2>1, <2>2, <3>1 DEF Holds, Push, Pop
    <2>4. CASE p \in Pop
      <3>1. /\ q \in {"pop prev", "pop header", "call"} /\ state[MyOp(t)] = "posted"
            /\ lock = t /\ (q # "call" => lock' = lock)
        BY <1>1, <1>2, <2>4 DEF Holds, Pop
      <3> QED
        BY <1>3, <2>1, <2>2, <3>1 DEF Holds, Push, Pop
    <2> QED
      BY <1>2, <2>3, <2>4
  <1>9. lock' = lock \/ lock = t
    BY <1>1, <1>2 DEF Holds, Pop
  <1> QED
    BY <1>1, <1>4, <1>7, <1>8, <1>9, HeldKept DEF ops, objects

\* A thread that begins something, or ends it, while the port stays as it is.
Quietly(t) ==
  \/ Register(t) \/ Unregistered(t) \/ EnterRunOne(t) \/ TimedOut(t) \/ Valid(t) \/ Invalid(t)
  \/ Call(t) \/ \E s \in Object : Open(t, s) \/ Read(t, s)

LEMMA OpenHeld ==
  ASSUME IocpTypeOK, Held, NEW t \in Thread, NEW s \in Object, Open(t, s)
  PROVE  IocpTypeOK' /\ Held'
  <1> DEFINE c == [AtRest EXCEPT !.at = "register", !.stream = s]
  <1>1. /\ c \in Local /\ c.at = "register" /\ c.op = null /\ c.stream = s
    BY DEF AtRest, Local, Place, Rest
  <1>2. thread' = [thread EXCEPT ![t] = c]
    BY DEF Open
  <1> HIDE DEF c
  <1>3. thread' \in [Thread -> Local] /\ thread'[t] = c
    BY <1>1, <1>2, ThreadIs
  <1>4. /\ \E h \in Handle : open' = open \cup {h} /\ handle' = [handle EXCEPT ![s] = h]
        /\ life' = [life EXCEPT ![s] = "opened"]
        /\ UNCHANGED <<handlers, readHeader, links, ops, lock>>
    BY DEF Open
  <1>5. IocpTypeOK'
    BY <1>3, <1>4 DEF IocpTypeOK, Life, links, ops
  <1>6. handle'[s] \in Handle /\ \A r \in Object : handle[r] \in Handle => handle'[r] \in Handle
    BY <1>4 DEF IocpTypeOK
  <1>7. Holds(t)'
    BY <1>1, <1>3, <1>6 DEF Holds, MyOp, MyStream, Rest, Push, Pop
  <1> QED
    BY <1>1, <1>2, <1>4, <1>5, <1>6, <1>7, HeldKept DEF ops

LEMMA ReadHeld ==
  ASSUME IocpTypeOK, Held, NEW t \in Thread, NEW s \in Object, Read(t, s)
  PROVE  IocpTypeOK' /\ Held'
  <1>1. PICK o \in Operation :
          /\ state[o] = "none"
          /\ state' = [state EXCEPT ![o] = "new"] /\ reads' = [reads EXCEPT ![o] = s]
          /\ fd' = [fd EXCEPT ![o] = handle[s]]
          /\ thread' = [thread EXCEPT ![t] =
                          [AtRest EXCEPT !.at = "next", !.op = o, !.stream = s]]
          /\ UNCHANGED <<objects, readHeader, links, port, lock>>
    BY DEF Read
  <1> DEFINE c == [AtRest EXCEPT !.at = "next", !.op = o, !.stream = s]
  <1>2. /\ c \in Local /\ c.at = "next" /\ c.op = o /\ c.stream = s
    BY DEF AtRest, Local, Place, Push
  <1>3. thread' = [thread EXCEPT ![t] = c]
    BY <1>1
  <1> HIDE DEF c
  <1>4. thread' \in [Thread -> Local] /\ thread'[t] = c
    BY <1>2, <1>3, ThreadIs
  <1>5. IocpTypeOK'
    <2>1. handle[s] \in Handle
      BY DEF Read, IocpTypeOK
    <2>2. /\ state' \in [Operation -> Status] /\ reads' \in [Operation -> Object \cup {null}]
          /\ fd' \in [Operation -> Handle \cup {null}] /\ fd'[o] = handle[s]
          /\ \A q \in Operation : q # o => fd'[q] = fd[q] /\ state'[q] = state[q]
      BY <1>1, <2>1 DEF IocpTypeOK, Status
    <2> QED
      BY <1>1, <1>4, <2>1, <2>2 DEF IocpTypeOK, links, objects
  <1>6. Holds(t)'
    <2>1. state'[o] = "new" /\ o # null
      BY <1>1, IocpAssumption DEF IocpTypeOK
    <2> QED
      BY <1>2, <1>4, <2>1 DEF Holds, MyOp, MyStream, Rest, Push, Pop
  <1>7. \A q \in Operation : state'[q] = state[q] \/ state[q] = "none"
    BY <1>1 DEF IocpTypeOK
  <1> QED
    BY <1>1, <1>2, <1>3, <1>5, <1>6, <1>7, HeldKept DEF objects

LEMMA RegisterHeld ==
  ASSUME IocpTypeOK, Held, NEW t \in Thread, Register(t) \/ Unregistered(t)
  PROVE  IocpTypeOK' /\ Held'
  <1>1. PICK s, phase : /\ SetHandler(t, s, phase) /\ s \in {MyStream(t), null}
                        /\ phase \in {"live", "dead"} /\ Sets(t)
    BY DEF Register, Unregistered, At, Sets
  <1>2. /\ Return(t) /\ Holds(t) /\ MyStream(t) \in Object
        /\ handle[MyStream(t)] \in Handle
    BY <1>1 DEF SetHandler, Held, Holds, Sets
  <1>3. PICK c \in Local : /\ thread' = [thread EXCEPT ![t] = c]
                           /\ c.at = "idle" /\ c.op = null /\ c.stream = null
    BY <1>2, Returns
  <1>4. thread' \in [Thread -> Local] /\ thread'[t] = c
    BY <1>3, ThreadIs
  <1>5. /\ handlers' \in [Handle -> Object \cup {null}] /\ life' \in [Object -> Life]
        /\ UNCHANGED <<handle, open, readHeader, links, ops, lock>>
    BY <1>1, <1>2 DEF SetHandler, IocpTypeOK, Life
  <1>6. IocpTypeOK'
    <2>1. \A r \in Object : life'[r] # "none" => handle[r] \in Handle
      BY <1>1, <1>2 DEF SetHandler, IocpTypeOK
    <2> QED
      BY <1>4, <1>5, <2>1 DEF IocpTypeOK, links, ops
  <1>7. Holds(t)'
    BY <1>3, <1>4 DEF Holds, MyOp, MyStream, Rest, Push, Pop
  <1> QED
    BY <1>3, <1>5, <1>6, <1>7, HeldKept DEF ops

LEMMA EnterHeld ==
  ASSUME IocpTypeOK, Held, NEW t \in Thread, EnterRunOne(t) \/ TimedOut(t)
  PROVE  IocpTypeOK' /\ Held'
  <1>1. Holds(t) /\ MyOp(t) = null /\ UNCHANGED <<objects, readHeader, links, ops, lock>>
    BY DEF Held, Holds, EnterRunOne, TimedOut, At, Rest
  <1>2. PICK c \in Local : /\ thread' = [thread EXCEPT ![t] = c]
                           /\ c.at \in {"wait", "idle"} /\ c.op = null
    <2>1. CASE EnterRunOne(t)
      BY <1>1, <2>1, Goes DEF EnterRunOne, Place, Rest
    <2>2. CASE TimedOut(t)
      BY <2>2, Returns DEF TimedOut
    <2> QED
      BY <2>1, <2>2
  <1>3. thread' \in [Thread -> Local] /\ thread'[t] = c
    BY <1>2, ThreadIs
  <1>4. IocpTypeOK'
    BY <1>1, <1>3 DEF IocpTypeOK, links, ops, objects
  <1>5. Holds(t)'
    BY <1>2, <1>3 DEF Holds, MyOp, MyStream, Rest, Push, Pop
  <1> QED
    BY <1>1, <1>2, <1>4, <1>5, HeldKept DEF ops, objects

LEMMA ValidHeld ==
  ASSUME IocpTypeOK, Held, NEW t \in Thread, Valid(t)
  PROVE  IocpTypeOK' /\ Held'
  <1> DEFINE s == handlers[fd[MyOp(t)]]
             c == [thread[t] EXCEPT !.stream = s, !.at = "pop next"]
  <1>1. /\ Holds(t) /\ thread[t].at = "valid" /\ lock = null /\ lock' = t /\ s # null
        /\ thread' = [thread EXCEPT ![t].stream = s, ![t].at = "pop next"]
        /\ UNCHANGED <<objects, readHeader, links, ops>>
    BY DEF Held, Valid, At
  <1>2. thread[t] \in Local /\ thread \in [Thread -> Local] /\ MyOp(t) # null
    BY <1>1 DEF IocpTypeOK, Holds, Rest
  <1>3. s \in Object
    <2>1. MyOp(t) \in Operation /\ state[MyOp(t)] = "posted"
      BY <1>1, <1>2 DEF Holds, MyOp, Local
    <2>2. fd[MyOp(t)] \in Handle
      BY <2>1 DEF IocpTypeOK
    <2> QED
      BY <1>1, <2>2 DEF IocpTypeOK
  <1> HIDE DEF s
  <1>4. /\ c \in Local /\ c.at = "pop next" /\ c.op = MyOp(t) /\ c.stream = s
        /\ thread' = [thread EXCEPT ![t] = c]
    <2>1. c \in Local
      BY <1>2, <1>3 DEF Local, Place, Pop
    <2> QED
      BY <1>1, <1>2, <2>1 DEF Local, MyOp
  <1> HIDE DEF c
  <1>5. thread' \in [Thread -> Local] /\ thread'[t] = c
    BY <1>4, ThreadIs
  <1>6. IocpTypeOK'
    BY <1>1, <1>5 DEF IocpTypeOK, links, ops, objects
  <1>7. Holds(t)'
    BY <1>1, <1>2, <1>3, <1>4, <1>5 DEF Holds, MyOp, MyStream, Rest, Push, Pop, ops
  <1> QED
    BY <1>1, <1>4, <1>6, <1>7, HeldKept DEF ops, objects

LEMMA InvalidHeld ==
  ASSUME IocpTypeOK, Held, NEW t \in Thread, Invalid(t) \/ Call(t)
  PROVE  IocpTypeOK' /\ Held'
  <1>1. PICK q \in {"leaked", "deleted"} : /\ state' = [state EXCEPT ![MyOp(t)] = q]
                                           /\ Return(t) /\ thread[t].at \in {"valid", "call"}
        /\ UNCHANGED <<objects, readHeader, links, reads, fd, port, lock>>
    BY DEF Invalid, Call, At
  <1>2. MyOp(t) \in Operation /\ state[MyOp(t)] = "posted"
    BY <1>1 DEF Held, Holds, Rest, IocpTypeOK, Local, MyOp
  <1>3. PICK c \in Local : /\ thread' = [thread EXCEPT ![t] = c]
                           /\ c.at = "idle" /\ c.op = null /\ c.stream = null
    BY <1>1, Returns
  <1>4. thread' \in [Thread -> Local] /\ thread'[t] = c
    BY <1>3, ThreadIs
  <1>5. /\ state' \in [Operation -> Status]
        /\ \A o \in Operation : state'[o] = state[o] \/ o = MyOp(t)
    BY <1>1, <1>2 DEF IocpTypeOK, Status
  <1>6. IocpTypeOK'
    BY <1>1, <1>2, <1>4, <1>5 DEF IocpTypeOK, links, objects
  <1>7. Holds(t)'
    BY <1>3, <1>4 DEF Holds, MyOp, MyStream, Rest, Push, Pop
  <1> QED
    BY <1>1, <1>3, <1>5, <1>6, <1>7, HeldKept DEF objects

LEMMA QuietlyHeld ==
  ASSUME IocpTypeOK, Held, NEW t \in Thread, Quietly(t)
  PROVE  IocpTypeOK' /\ Held'
  BY OpenHeld, ReadHeld, RegisterHeld, EnterHeld, ValidHeld, InvalidHeld DEF Quietly

\* More packets come behind those that are there.
LEMMA PortGrows ==
  ASSUME IocpTypeOK, Held, NEW more \in Seq(Packet), port' = port \o more,
         \A o \in Operation : state[o] = "posted" => state'[o] = "posted",
         \A u \in Thread : MyOp(u)' \in {MyOp(u), null},
         \A i \in DOMAIN more : more[i].op # null =>
           /\ state'[more[i].op] = "posted" /\ state[more[i].op] # "posted"
           /\ \A u \in Thread : MyOp(u)' # more[i].op,
         \A i, j \in DOMAIN more : i # j /\ more[i].op = more[j].op => more[i].op = null
  PROVE  PortHolds' /\ port' \in Seq(Packet)
  <1>1. PortHolds /\ port \in Seq(Packet) /\ Len(port) \in Nat /\ DOMAIN port = 1..Len(port)
    BY DEF Held, IocpTypeOK
  <1>2. Len(more) \in Nat /\ DOMAIN more = 1..Len(more)
    OBVIOUS
  <1>3. /\ port' \in Seq(Packet) /\ DOMAIN port' = 1..(Len(port) + Len(more))
        /\ \A i \in 1..(Len(port) + Len(more)) :
             port'[i] = IF i <= Len(port) THEN port[i] ELSE more[i - Len(port)]
    BY <1>1, ConcatProperties
  <1>4. ASSUME NEW i \in DOMAIN port'
        PROVE  \/ i \in DOMAIN port /\ port'[i] = port[i]
               \/ i - Len(port) \in DOMAIN more /\ port'[i] = more[i - Len(port)]
    BY <1>1, <1>2, <1>3
  <1>5. ASSUME NEW i \in DOMAIN port, port[i].op # null
        PROVE  /\ state[port[i].op] = "posted" /\ state'[port[i].op] = "posted"
               /\ \A u \in Thread : MyOp(u)' # port[i].op
    <2>1. port[i] \in Packet
      BY <1>1, ElementOfSeq
    <2>2. port[i].op \in Operation
      BY <1>5, <2>1 DEF Packet
    <2> QED
      BY <1>1, <1>5, <2>2 DEF PortHolds
  <1>6. ASSUME NEW i \in DOMAIN port', port'[i].op # null
        PROVE  state'[port'[i].op] = "posted" /\ \A u \in Thread : MyOp(u)' # port'[i].op
    BY <1>4, <1>5, <1>6
  <1>7. ASSUME NEW i \in DOMAIN port', NEW j \in DOMAIN port', i # j, port'[i].op = port'[j].op
        PROVE  port'[i].op = null
    <2>1. CASE i \in DOMAIN port /\ port'[i] = port[i] /\ j \in DOMAIN port /\ port'[j] = port[j]
      BY <1>1, <1>7, <2>1 DEF PortHolds
    <2>2. CASE /\ i \in DOMAIN port /\ port'[i] = port[i]
               /\ j - Len(port) \in DOMAIN more /\ port'[j] = more[j - Len(port)]
      BY <1>5, <1>7, <2>2
    <2>3. CASE /\ j \in DOMAIN port /\ port'[j] = port[j]
               /\ i - Len(port) \in DOMAIN more /\ port'[i] = more[i - Len(port)]
      BY <1>5, <1>7, <2>3
    <2>4. CASE /\ i - Len(port) \in DOMAIN more /\ port'[i] = more[i - Len(port)]
               /\ j - Len(port) \in DOMAIN more /\ port'[j] = more[j - Len(port)]
      <3>1. i - Len(port) # j - Len(port)
        BY <1>1, <1>3, <1>7
      <3> QED
        BY <1>7, <2>4, <3>1
    <2> QED
      BY <1>4, <2>1, <2>2, <2>3, <2>4
  <1> QED
    BY <1>3, <1>6, <1>7 DEF PortHolds, MyOp

LEMMA OnePacket ==
  ASSUME IocpTypeOK, NEW o \in Operation, NEW good \in BOOLEAN, port' = Posted(o, good)
  PROVE  \E more \in Seq(Packet) :
           port' = port \o more /\ DOMAIN more = {1} /\ more[1].op = o
  <1> DEFINE e == [op |-> o, good |-> good]
  <1>1. e \in Packet /\ e.op = o /\ port \in Seq(Packet)
    BY DEF Packet, IocpTypeOK
  <1>2. port' = Append(port, e)
    BY DEF Posted
  <1> HIDE DEF e
  <1>3. port' = port \o <<e>>
    BY <1>1, <1>2, AppendIsConcat
  <1>4. <<e>> \in Seq(Packet) /\ DOMAIN <<e>> = {1} /\ <<e>>[1].op = o
    BY <1>1
  <1> QED
    BY <1>3, <1>4

LEMMA ReadFileHeld ==
  ASSUME IocpTypeOK, Held, NEW t \in Thread, ReadFile(t)
  PROVE  IocpTypeOK' /\ Held'
  <1>1. /\ Return(t) /\ thread[t].at = "read" /\ Holds(t)
        /\ UNCHANGED <<objects, readHeader, links, reads, fd, lock>>
        /\ \/ state' = [state EXCEPT ![MyOp(t)] = "pending"] /\ UNCHANGED port
           \/ state' = [state EXCEPT ![MyOp(t)] = "posted"] /\ port' = Posted(MyOp(t), TRUE)
    BY DEF ReadFile, At, Held
  <1>2. PICK o : o = MyOp(t)
    OBVIOUS
  <1>3. o \in Operation /\ state[o] = "new" /\ o # null
    BY <1>1, <1>2, IocpAssumption DEF Holds, Rest, IocpTypeOK, Local, MyOp
  <1>4. PICK c \in Local : /\ thread' = [thread EXCEPT ![t] = c]
                           /\ c.at = "idle" /\ c.op = null /\ c.stream = null
    BY <1>1, Returns
  <1>5. /\ thread' \in [Thread -> Local] /\ thread'[t] = c
        /\ \A u \in Thread : u # t => thread'[u] = thread[u]
    BY <1>4, ThreadIs
  <1>6. /\ state' \in [Operation -> Status] /\ \A q \in Operation : state'[q] = state[q] \/ q = o
        /\ state'[o] \in {"pending", "posted"}
    BY <1>1, <1>2, <1>3 DEF IocpTypeOK, Status
  <1>7. Holds(t)'
    BY <1>4, <1>5 DEF Holds, MyOp, MyStream, Rest, Push, Pop
  <1>8. OneHolder' /\ \A u \in Thread : Holds(u)'
    BY <1>1, <1>2, <1>4, <1>6, <1>7, HoldsKept DEF objects
  <1>9. PortHolds' /\ port' \in Seq(Packet)
    <2>1. CASE UNCHANGED port
      <3>1. PortHolds'
        BY <1>2, <1>4, <1>6, <2>1, PortKept
      <3> QED
        BY <2>1, <3>1 DEF IocpTypeOK
    <2>2. CASE state' = [state EXCEPT ![o] = "posted"] /\ port' = Posted(o, TRUE)
      <3>1. PICK more \in Seq(Packet) :
              port' = port \o more /\ DOMAIN more = {1} /\ more[1].op = o
        BY <1>3, <2>2, OnePacket
      <3>2. state'[o] = "posted" /\ \A q \in Operation : q # o => state'[q] = state[q]
        BY <1>3, <2>2 DEF IocpTypeOK
      <3>3. \A u \in Thread : MyOp(u)' \in {MyOp(u), null} /\ MyOp(u)' # o
        BY <1>2, <1>3, <1>4, <1>5 DEF MyOp, Held, OneHolder
      <3> QED
        BY <1>3, <3>1, <3>2, <3>3, PortGrows
    <2> QED
      BY <1>1, <1>2, <2>1, <2>2
  <1>10. IocpTypeOK'
    BY <1>1, <1>3, <1>5, <1>6, <1>9 DEF IocpTypeOK, links, objects
  <1> QED
    BY <1>8, <1>9, <1>10 DEF Held

LEMMA IoDoneHeld ==
  ASSUME IocpTypeOK, Held, NEW o \in Operation, IoDone(o)
  PROVE  IocpTypeOK' /\ Held'
  <1>1. /\ state[o] = "pending" /\ state' = [state EXCEPT ![o] = "posted"]
        /\ UNCHANGED <<objects, readHeader, links, reads, fd, lock, thread>>
    BY DEF IoDone
  <1>2. PICK good \in BOOLEAN : port' = Posted(o, good)
    BY DEF IoDone
  <1>3. /\ state' \in [Operation -> Status] /\ state'[o] = "posted"
        /\ \A q \in Operation : q # o => state'[q] = state[q]
    BY <1>1 DEF IocpTypeOK, Status
  <1>4. ASSUME NEW u \in Thread PROVE MyOp(u) # o /\ Holds(u)'
    <2>1. Holds(u) /\ thread[u] \in Local
      BY DEF Held, IocpTypeOK
    <2>2. MyOp(u) # o
      BY <1>1, <2>1, IocpAssumption DEF Holds, Local, Place
    <2>3. thread[u].at \notin Rest => state'[MyOp(u)] = state[MyOp(u)]
      BY <1>3, <2>1, <2>2 DEF Holds, Local, MyOp
    <2>4. thread[u].at \in Rest =>
            thread[u].at \notin Push \cup Pop \cup {"read", "valid", "call"}
      BY DEF Rest, Push, Pop
    <2> QED
      BY <1>1, <2>1, <2>2, <2>3, <2>4 DEF Holds, MyOp, MyStream, objects
  <1>5. PortHolds' /\ port' \in Seq(Packet)
    <2>1. PICK more \in Seq(Packet) :
            port' = port \o more /\ DOMAIN more = {1} /\ more[1].op = o
      BY <1>2, OnePacket
    <2>2. \A u \in Thread : MyOp(u)' = MyOp(u) /\ MyOp(u)' # o
      BY <1>1, <1>4 DEF MyOp
    <2> QED
      BY SMTT(30), <1>1, <1>3, <2>1, <2>2, PortGrows
  <1>6. IocpTypeOK'
    BY <1>1, <1>3, <1>5 DEF IocpTypeOK, links, objects
  <1> QED
    BY <1>1, <1>4, <1>5, <1>6 DEF Held, OneHolder, MyOp

LEMMA TakeHeld ==
  ASSUME IocpTypeOK, Held, NEW t \in Thread, Take(t)
  PROVE  IocpTypeOK' /\ Held'
  <1>1. PICK e : e = Head(port)
    OBVIOUS
  <1>2. /\ thread[t].at = "wait" /\ port # <<>> /\ port' = Tail(port)
        /\ thread' = [thread EXCEPT ![t] = IF e.op = null THEN AtRest
              ELSE [AtRest EXCEPT !.at = "valid", !.op = e.op, !.good = e.good]]
        /\ UNCHANGED <<objects, readHeader, links, state, reads, fd, lock>>
    BY <1>1 DEF Take, At
  <1>3. /\ e \in Packet /\ port' \in Seq(Packet) /\ Len(port') = Len(port) - 1
        /\ \A i \in 1..Len(port') : port'[i] = port[i + 1]
        /\ e = port[1] /\ Len(port) \in Nat \ {0} /\ DOMAIN port = 1..Len(port)
        /\ DOMAIN port' = 1..(Len(port) - 1)
    <2>1. port \in Seq(Packet)
      BY DEF IocpTypeOK
    <2>2. Len(port) \in Nat \ {0} /\ DOMAIN port = 1..Len(port) /\ Head(port) = port[1]
      BY <1>2, <2>1, EmptySeq
    <2> QED
      BY <1>1, <1>2, <2>1, <2>2, HeadTailProperties
  <1> DEFINE c == IF e.op = null THEN AtRest
                  ELSE [AtRest EXCEPT !.at = "valid", !.op = e.op, !.good = e.good]
  <1>4. /\ c \in Local /\ c.op = e.op /\ c.at = IF e.op = null THEN "idle" ELSE "valid"
        /\ thread' = [thread EXCEPT ![t] = c]
    BY <1>2, <1>3 DEF Packet, AtRest, Local, Place, Rest
  <1> HIDE DEF c
  <1>5. /\ thread' \in [Thread -> Local] /\ thread'[t] = c
        /\ \A u \in Thread : u # t => thread'[u] = thread[u]
    BY <1>4, ThreadIs
  <1>6. PortHolds /\ (e.op # null => state[e.op] = "posted" /\ \A u \in Thread : MyOp(u) # e.op)
    BY <1>3 DEF Held, PortHolds
  <1>7. Holds(t)'
    BY <1>2, <1>4, <1>5, <1>6 DEF Holds, MyOp, MyStream, Rest, Push, Pop
  <1>8. OneHolder' /\ \A u \in Thread : Holds(u)'
    BY ZenonT(60), <1>2, <1>4, <1>6, <1>7, HoldsKept DEF objects
  <1>9. PortHolds'
    <2>1. ASSUME NEW i \in DOMAIN port'
          PROVE  i + 1 \in DOMAIN port /\ i + 1 # 1 /\ port'[i] = port[i + 1]
      BY <1>3
    <2>2. ASSUME NEW i \in DOMAIN port', port'[i].op # null
          PROVE  state'[port'[i].op] = "posted" /\ \A u \in Thread : MyOp(u)' # port'[i].op
      <3>1. /\ state[port[i + 1].op] = "posted" /\ port'[i].op = port[i + 1].op
            /\ \A u \in Thread : MyOp(u) # port[i + 1].op
        BY <1>6, <2>1, <2>2 DEF PortHolds
      <3>2. c.op # port[i + 1].op
        BY <1>3, <1>4, <1>6, <2>1, <2>2, <3>1 DEF PortHolds
      <3> QED
        BY <1>2, <1>5, <3>1, <3>2 DEF MyOp
    <2>3. ASSUME NEW i \in DOMAIN port', NEW j \in DOMAIN port', i # j,
                 port'[i].op = port'[j].op
          PROVE  port'[i].op = null
      <3>1. i + 1 # j + 1
        BY <1>3, <2>3
      <3> QED
        BY <1>6, <2>1, <2>3, <3>1 DEF PortHolds
    <2> QED
      BY <2>2, <2>3 DEF PortHolds, MyOp
  <1>10. IocpTypeOK'
    BY <1>2, <1>3, <1>5 DEF IocpTypeOK, links, objects
  <1> QED
    BY <1>8, <1>9, <1>10 DEF Held

LEMMA PostAllHeld ==
  ASSUME IocpTypeOK, Held, NEW t \in Thread, PostAll(t)
  PROVE  IocpTypeOK' /\ Held'
  <1> DEFINE n == Cardinality({u \in Thread : At(u, "wait")})
             more == [i \in 1..n |-> [op |-> null, good |-> TRUE]]
  <1>1. /\ port' = port \o more
        /\ UNCHANGED <<objects, readHeader, links, state, reads, fd, lock, thread>>
    BY DEF PostAll
  <1>2. n \in Nat
    BY IocpAssumption, FS_Subset, FS_CardinalityType
  <1> HIDE DEF n
  <1>3. more \in Seq(Packet) /\ DOMAIN more = 1..n /\ \A i \in 1..n : more[i].op = null
    <2>1. [op |-> null, good |-> TRUE] \in Packet
      BY DEF Packet
    <2> QED
      BY <1>2, <2>1
  <1> HIDE DEF more
  <1>4. PortHolds' /\ port' \in Seq(Packet)
    <2>1. \A u \in Thread : MyOp(u)' = MyOp(u)
      BY <1>1 DEF MyOp
    <2> QED
      BY <1>1, <1>3, <2>1, PortGrows
  <1>5. IocpTypeOK'
    BY <1>1, <1>4 DEF IocpTypeOK, links, objects
  <1>6. \A u \in Thread : Holds(u)'
    BY <1>1 DEF Held, Holds, MyOp, MyStream, objects
  <1> QED
    BY <1>1, <1>4, <1>5, <1>6 DEF Held, OneHolder, MyOp

LEMMA CloseHeld ==
  ASSUME IocpTypeOK, Held, NEW t \in Thread, NEW s \in Object, Close(t, s)
  PROVE  IocpTypeOK' /\ Held'
  <1> DEFINE pending == {o \in Operation : state[o] = "pending" /\ reads[o] = s}
             n == Cardinality(pending)
             c == [AtRest EXCEPT !.at = "unregister", !.stream = s]
  <1>1. PICK order \in [1..n -> pending] :
          /\ {order[i] : i \in DOMAIN order} = pending
          /\ port' = port \o [i \in DOMAIN order |-> [op |-> order[i], good |-> FALSE]]
    BY DEF Close
  <1>2. /\ state' = [o \in Operation |-> IF o \in pending THEN "posted" ELSE state[o]]
        /\ open' = open \ {handle[s]} /\ life' = [life EXCEPT ![s] = "closed"]
        /\ thread' = [thread EXCEPT ![t] = c]
        /\ UNCHANGED <<handle, handlers, readHeader, links, reads, fd, lock>>
        /\ life[s] = "live" /\ thread[t].at = "idle"
    BY DEF Close, At
  <1>3. IsFiniteSet(pending) /\ n \in Nat /\ pending \subseteq Operation
    BY IocpAssumption, FS_Subset, FS_CardinalityType
  <1> HIDE DEF n
  <1>4. \A i, j \in 1..n : i # j => order[i] # order[j]
    <2>1. order \in Surjection(1..n, pending)
      BY <1>1 DEF Surjection
    <2>2. IsFiniteSet(1..n) /\ Cardinality(1..n) = n
      BY <1>3, FS_Interval
    <2>3. order \in Injection(1..n, pending)
      BY <1>3, <2>1, <2>2, FS_SurjSameCardinalityImpliesInj DEF n
    <2> QED
      BY <2>3 DEF Injection, IsInjective
  <1> DEFINE more == [i \in 1..n |-> [op |-> order[i], good |-> FALSE]]
  <1>5. /\ more \in Seq(Packet) /\ DOMAIN more = 1..n /\ port' = port \o more
        /\ \A i \in 1..n : more[i].op = order[i] /\ order[i] \in pending
    <2>1. \A i \in 1..n : order[i] \in pending /\ [op |-> order[i], good |-> FALSE] \in Packet
      BY <1>1, <1>3 DEF Packet
    <2>2. DOMAIN order = 1..n
      BY <1>1
    <2> HIDE DEF pending
    <2>3. more \in Seq(Packet) /\ DOMAIN more = 1..n
      BY <1>3, <2>1
    <2>4. \A i \in 1..n : more[i].op = order[i]
      OBVIOUS
    <2>5. port' = port \o more
      BY <1>1, <2>2
    <2> QED
      BY <2>1, <2>3, <2>4, <2>5
  <1>6. c \in Local /\ c.op = null /\ c.at = "unregister" /\ c.stream = s
    BY DEF AtRest, Local, Place, Rest
  <1> HIDE DEF more, c
  <1>7. /\ thread' \in [Thread -> Local] /\ thread'[t] = c
        /\ \A u \in Thread : u # t => thread'[u] = thread[u]
    BY <1>2, <1>6, ThreadIs
  <1>8. /\ \A o \in Operation : state'[o] = IF o \in pending THEN "posted" ELSE state[o]
        /\ state' \in [Operation -> Status]
    BY <1>2 DEF IocpTypeOK, Status
  <1>9. handle[s] \in Handle
    BY <1>2 DEF IocpTypeOK
  <1>10. Holds(t)'
    BY <1>2, <1>6, <1>7, <1>9 DEF Holds, MyOp, MyStream, Rest, Push, Pop
  <1>11. OneHolder' /\ \A u \in Thread : Holds(u)'
    BY <1>2, <1>6, <1>8, <1>10, HoldsKept
  <1>12. PortHolds' /\ port' \in Seq(Packet)
    <2>1. \A u \in Thread : MyOp(u)' \in {MyOp(u), null}
      BY <1>6, <1>7 DEF MyOp
    <2>2. ASSUME NEW o \in pending PROVE \A u \in Thread : MyOp(u)' # o
      <3>1. ASSUME NEW u \in Thread PROVE MyOp(u) # o
        <4>1. Holds(u) /\ thread[u] \in Local /\ state[o] = "pending" /\ o \in Operation
          BY DEF Held, IocpTypeOK
        <4> QED
          BY <4>1, IocpAssumption DEF Holds, Local, Place
      <3>2. o # null
        BY <1>3, IocpAssumption
      <3> QED
        BY <2>1, <3>1, <3>2
    <2>3. \A i \in 1..n : /\ more[i].op \in Operation /\ more[i].op \in pending
                          /\ state[more[i].op] = "pending" /\ state'[more[i].op] = "posted"
      BY <1>3, <1>5, <1>8
    <2>4. \A i \in DOMAIN more : more[i].op # null =>
            /\ state'[more[i].op] = "posted" /\ state[more[i].op] # "posted"
            /\ \A u \in Thread : MyOp(u)' # more[i].op
      BY <1>5, <2>2, <2>3
    <2>5. \A i, j \in DOMAIN more : i # j /\ more[i].op = more[j].op => more[i].op = null
      BY <1>4, <1>5
    <2>6. \A o \in Operation : state[o] = "posted" => state'[o] = "posted"
      BY <1>8
    <2> HIDE DEF pending
    <2> QED
      BY <1>5, <2>1, <2>4, <2>5, <2>6, PortGrows
  <1>13. IocpTypeOK'
    BY <1>2, <1>7, <1>8, <1>12 DEF IocpTypeOK, links, Life
  <1> QED
    BY <1>11, <1>12, <1>13 DEF Held

LEMMA HeldInit == IocpInit => IocpTypeOK /\ Held
  <1> SUFFICES ASSUME IocpInit PROVE IocpTypeOK /\ Held
    OBVIOUS
  <1>1. AtRest \in Local /\ AtRest.op = null /\ AtRest.at = "idle" /\ port \in Seq(Packet)
        /\ DOMAIN port = {}
    <2>1. port = <<>> /\ <<>> \in Seq(Packet) /\ DOMAIN <<>> = {}
      BY EmptySeq DEF IocpInit
    <2> QED
      BY <2>1, RestIsLocal DEF AtRest
  <1>2. IocpTypeOK
    BY <1>1 DEF IocpInit, IocpTypeOK, Life, Status
  <1>3. Held
    BY <1>1 DEF IocpInit, Held, OneHolder, PortHolds, Holds, MyOp, Rest, Push, Pop
  <1> QED
    BY <1>2, <1>3

LEMMA HeldNext == IocpTypeOK /\ Held /\ [IocpNext]_iocpVars => IocpTypeOK' /\ Held'
  <1> SUFFICES ASSUME IocpTypeOK, Held, [IocpNext]_iocpVars PROVE IocpTypeOK' /\ Held'
    OBVIOUS
  <1>1. CASE UNCHANGED iocpVars
    <2>1. IocpTypeOK'
      BY <1>1 DEF iocpVars, objects, links, ops, IocpTypeOK
    <2>2. Held'
      BY <1>1 DEF iocpVars, objects, ops, Held, OneHolder, PortHolds, Holds, MyOp, MyStream
    <2> QED
      BY <2>1, <2>2
  <1>2. ASSUME NEW t \in Thread, Script(t) \/ Service(t) PROVE IocpTypeOK' /\ Held'
    <2>1. CASE ListMove(t)
      BY <2>1, ListMoveHeld
    <2>2. CASE Quietly(t)
      BY <2>2, QuietlyHeld
    <2>3. CASE PostAll(t) \/ Take(t) \/ ReadFile(t) \/ \E s \in Object : Close(t, s)
      BY <2>3, PostAllHeld, TakeHeld, ReadFileHeld, CloseHeld
    <2> QED
      BY <1>2, <2>1, <2>2, <2>3 DEF Script, Service, ListMove, Quietly
  <1> QED
    BY <1>1, <1>2, IoDoneHeld DEF IocpNext

-----------------------------------------------------------------------------
(* Streams. *)

\* A step that opens, registers and closes nothing.
LEMMA StreamsKept ==
  ASSUME Streams, UNCHANGED <<objects, reads, fd>>,
         \A o \in Operation : \/ state'[o] = state[o]
                              \/ state[o] \notin {"none", "deleted"} /\ state'[o] # "none",
         \A u \in Thread : thread'[u] = thread[u] \/ (WorksOn(u)' /\ ~Sets(u)')
  PROVE  Streams'
  <1>1. UNCHANGED <<life, handle, open, handlers>>
    BY DEF objects
  <1>2. \A s \in Object : Registered(s)'
    BY <1>1 DEF Streams, Registered
  <1>3. Apart'
    BY <1>1 DEF Streams, Apart
  <1>4. ASSUME NEW o \in Operation PROVE Belongs(o)'
    BY <1>1 DEF Streams, Belongs
  <1>5. \A u \in Thread : WorksOn(u)'
    BY <1>1 DEF Streams, WorksOn, At, MyOp, MyStream
  <1>6. OneSets'
    BY DEF Streams, OneSets, Sets, MyStream
  <1> QED
    BY <1>2, <1>3, <1>4, <1>5, <1>6 DEF Streams

LEMMA ListMoveStreams ==
  ASSUME IocpTypeOK, Held, Streams, NEW t \in Thread, ListMove(t)
  PROVE  Streams'
  <1>1. PICK p, q : /\ At(t, p) /\ Go(t, q) /\ UNCHANGED <<objects, ops>>
                    /\ \/ p \in Push /\ q \in {"prev", "header", "read"}
                       \/ p \in Pop /\ q \in {"pop prev", "pop header", "call"}
    BY DEF ListMove, PushNext, PushPrev, PushHeader, PopNext, PopPrev, PopHeader, ListStep,
           Push, Pop
  <1>2. PICK c \in Local : /\ thread' = [thread EXCEPT ![t] = c]
                           /\ c.at = q /\ c.op = MyOp(t) /\ c.stream = MyStream(t)
    BY <1>1, Goes DEF Place, Push, Pop
  <1>3. /\ thread'[t] = c /\ \A u \in Thread : u # t => thread'[u] = thread[u]
    BY <1>2, ThreadIs
  <1>4. WorksOn(t) /\ thread[t].at = p
    BY <1>1 DEF Streams, At
  <1>5. WorksOn(t)' /\ ~Sets(t)'
    <2>1. CASE p \in Push
      BY <1>1, <1>2, <1>3, <1>4, <2>1
      DEF WorksOn, Sets, At, MyOp, MyStream, objects, ops, Push, Pop
    <2>2. CASE p \in Pop
      BY <1>1, <1>2, <1>3, <1>4, <2>2
      DEF WorksOn, Sets, At, MyOp, MyStream, objects, ops, Push, Pop
    <2> QED
      BY <1>1, <2>1, <2>2
  <1> QED
    BY <1>1, <1>3, <1>5, StreamsKept DEF ops

\* The stream that is registered for the handle of an operation is the stream it reads.
LEMMA ValidFinds ==
  ASSUME IocpTypeOK, Held, Streams, NEW t \in Thread, thread[t].at = "valid"
  PROVE  /\ MyOp(t) \in Operation /\ state[MyOp(t)] = "posted" /\ reads[MyOp(t)] \in Object
         /\ life[reads[MyOp(t)]] \in {"live", "closed"} =>
              handlers[fd[MyOp(t)]] = reads[MyOp(t)]
         /\ life[reads[MyOp(t)]] \notin {"live", "closed"} => handlers[fd[MyOp(t)]] = null
  <1>1. Holds(t) /\ thread[t] \in Local
    BY DEF Held, IocpTypeOK
  <1>2. MyOp(t) \in Operation /\ state[MyOp(t)] = "posted"
    BY <1>1 DEF Holds, Local, MyOp, Rest
  <1>3. Belongs(MyOp(t)) /\ \A s \in Object : Registered(s)
    BY <1>2 DEF Streams
  <1> QED
    BY <1>2, <1>3 DEF Belongs, Registered

\* Any other step between the constructor and the destructor.
LEMMA OtherStreams ==
  ASSUME IocpTypeOK, Held, Streams, NEW t \in Thread,
         \/ ReadFile(t) \/ EnterRunOne(t) \/ Take(t) \/ TimedOut(t) \/ PostAll(t)
         \/ Valid(t) \/ Invalid(t) \/ Call(t)
  PROVE  Streams'
  <1>1. UNCHANGED <<objects, reads, fd>>
    BY DEF ReadFile, EnterRunOne, Take, TimedOut, PostAll, Valid, Invalid, Call, ops
  <1>2. Holds(t) /\ thread[t] \in Local /\ thread \in [Thread -> Local]
    BY DEF Held, IocpTypeOK
  <1>3. \A u \in Thread : u # t => thread'[u] = thread[u]
    BY <1>2 DEF ReadFile, EnterRunOne, Take, TimedOut, PostAll, Valid, Invalid, Call, Return, Go
  <1>4. ASSUME NEW o \in Operation
        PROVE  \/ state'[o] = state[o]
               \/ state[o] \notin {"none", "deleted"} /\ state'[o] # "none"
    <2>1. CASE ReadFile(t) \/ Invalid(t) \/ Call(t)
      <3>1. state[MyOp(t)] \in {"new", "posted"} /\ state \in [Operation -> Status]
        BY <1>2, <2>1 DEF Holds, ReadFile, Invalid, Call, At, IocpTypeOK
      <3>2. \E q \in Status \ {"none"} : state' = [state EXCEPT ![MyOp(t)] = q]
        BY <2>1 DEF ReadFile, Invalid, Call, Status
      <3> QED
        BY <3>1, <3>2
    <2>2. CASE EnterRunOne(t) \/ Take(t) \/ TimedOut(t) \/ PostAll(t) \/ Valid(t)
      BY <2>2 DEF EnterRunOne, Take, TimedOut, PostAll, Valid, ops
    <2> QED
      BY <2>1, <2>2
  <1>5. thread'[t] = thread[t] \/ (WorksOn(t)' /\ ~Sets(t)')
    <2>1. CASE ReadFile(t) \/ TimedOut(t) \/ Invalid(t) \/ Call(t)
      <3>1. thread'[t].at = "idle"
        <4>1. Return(t)
          BY <2>1 DEF ReadFile, TimedOut, Invalid, Call
        <4>2. AtRest.at = "idle"
          BY DEF AtRest
        <4> QED
          BY <1>2, <4>1, <4>2 DEF Return
      <3> QED
        BY <3>1 DEF WorksOn, Sets, At, Push, Pop
    <2>2. CASE EnterRunOne(t)
      <3>1. thread'[t].at = "wait"
        BY <1>2, <2>2 DEF EnterRunOne, Go, Local
      <3> QED
        BY <3>1 DEF WorksOn, Sets, At, Push, Pop
    <2>3. CASE Take(t)
      <3>1. thread'[t].at \in {"idle", "valid"}
        BY <1>2, <2>3 DEF Take, AtRest
      <3> QED
        BY <3>1 DEF WorksOn, Sets, At, Push, Pop
    <2>4. CASE PostAll(t)
      BY <2>4 DEF PostAll
    <2>5. CASE Valid(t)
      <3> DEFINE s == handlers[fd[MyOp(t)]]
      <3>1. /\ thread[t].at = "valid" /\ s # null
            /\ thread' = [thread EXCEPT ![t].stream = s, ![t].at = "pop next"]
        BY <2>5 DEF Valid, At
      <3>2. s = reads[MyOp(t)] /\ s \in Object /\ life[s] \in {"live", "closed"}
        BY <3>1, ValidFinds
      <3> HIDE DEF s
      <3>3. thread'[t].at = "pop next" /\ thread'[t].stream = s /\ thread'[t].op = thread[t].op
        BY <1>2, <3>1 DEF Local
      <3>4. reads' = reads /\ life' = life
        BY <1>1 DEF objects
      <3> QED
        BY <3>2, <3>3, <3>4 DEF WorksOn, Sets, At, MyOp, MyStream, Push, Pop
    <2> QED
      BY <2>1, <2>2, <2>3, <2>4, <2>5
  <1> QED
    BY <1>1, <1>3, <1>4, <1>5, StreamsKept

LEMMA IoDoneStreams ==
  ASSUME IocpTypeOK, Streams, NEW o \in Operation, IoDone(o)
  PROVE  Streams'
  <1>1. \A q \in Operation : \/ state'[q] = state[q]
                             \/ state[q] \notin {"none", "deleted"} /\ state'[q] # "none"
    BY DEF IoDone, IocpTypeOK
  <1> QED
    BY <1>1, StreamsKept DEF IoDone

\* The handle is new: nothing is left on it, and no stream has it any more.
LEMMA OpenStreams ==
  ASSUME IocpTypeOK, Held, Streams, NEW t \in Thread, NEW s \in Object, Open(t, s), Quiet'
  PROVE  Streams'
  <1>1. PICK h \in Handle \ open :
          /\ open' = open \cup {h} /\ handle' = [handle EXCEPT ![s] = h]
          /\ \A o \in Operation : fd[o] = h => state[o] = "deleted"
          /\ \A r \in Object : handle[r] = h => life[r] # "closed"
    BY DEF Open, Quiet
  <1>2. /\ life[s] = "none" /\ life' = [life EXCEPT ![s] = "opened"]
        /\ thread' = [thread EXCEPT ![t] = [AtRest EXCEPT !.at = "register", !.stream = s]]
        /\ UNCHANGED <<handlers, state, reads, fd>>
    BY DEF Open, ops
  <1>3. /\ life'[s] = "opened" /\ handle'[s] = h
        /\ \A r \in Object : r # s => life'[r] = life[r] /\ handle'[r] = handle[r]
        /\ \A u \in Thread : u # t => thread'[u] = thread[u]
        /\ thread'[t].at = "register" /\ thread'[t].stream = s
    BY <1>1, <1>2 DEF IocpTypeOK, AtRest
  <1>4. /\ Apart /\ OneSets /\ \A r \in Object : Registered(r)
        /\ \A o \in Operation : Belongs(o)
        /\ \A u \in Thread : WorksOn(u) /\ Holds(u)
    BY DEF Streams, Held
  <1>5. \A r \in Object : Registered(r)'
    BY <1>1, <1>2, <1>3, <1>4 DEF Registered
  <1>6. Apart'
    <2>1. ASSUME NEW r \in Object, r # s, life[r] \in {"opened", "live", "closed"}
          PROVE  handle[r] # h
      BY <1>1, <1>4, <2>1 DEF Registered
    <2> QED
      BY <1>3, <1>4, <2>1 DEF Apart
  <1>7. ASSUME NEW o \in Operation PROVE Belongs(o)'
    BY <1>2, <1>3, <1>4 DEF Belongs
  <1>8. WorksOn(t)'
    BY <1>3 DEF WorksOn, At, MyStream, Push, Pop
  <1>9. ASSUME NEW u \in Thread, u # t PROVE WorksOn(u)' /\ (Sets(u)' => MyStream(u)' # s)
    <2>1. WorksOn(u) /\ thread'[u] = thread[u]
      BY <1>3, <1>4, <1>9
    <2>2. Holds(u)
      BY <1>4
    <2>3. thread[u].at \in Push \cup Pop \cup {"read", "register", "unregister"} =>
            MyStream(u) \in Object /\ life[MyStream(u)] # "none"
      BY <2>1, <2>2 DEF WorksOn, Holds, At
    <2>4. thread[u].at \in Push \cup Pop \cup {"read", "register", "unregister"} =>
            life'[MyStream(u)] = life[MyStream(u)] /\ MyStream(u) # s
      BY <1>2, <1>3, <2>3
    <2> QED
      BY <1>2, <2>1, <2>4 DEF WorksOn, At, MyOp, MyStream, Sets
  <1>10. OneSets'
    <2>1. \A u \in Thread : u # t => (Sets(u)' <=> Sets(u)) /\ MyStream(u)' = MyStream(u)
      BY <1>3 DEF Sets, MyStream
    <2>2. MyStream(t)' = s
      BY <1>3 DEF MyStream
    <2> QED
      BY <1>4, <1>9, <2>1, <2>2 DEF OneSets
  <1> QED
    BY <1>5, <1>6, <1>7, <1>8, <1>9, <1>10 DEF Streams

LEMMA RegisterStreams ==
  ASSUME IocpTypeOK, Held, Streams, NEW t \in Thread, Register(t) \/ Unregistered(t)
  PROVE  Streams'
  <1>1. PICK s \in Object : s = MyStream(t)
    BY DEF Held, Holds, Register, Unregistered, At
  <1>2. /\ lock = null /\ Return(t) /\ UNCHANGED <<handle, open, state, reads, fd>> /\ Sets(t)
        /\ \/ /\ life[s] = "opened" /\ life' = [life EXCEPT ![s] = "live"]
              /\ handlers' = [handlers EXCEPT ![handle[s]] = s]
           \/ /\ life[s] = "closed" /\ life' = [life EXCEPT ![s] = "dead"]
              /\ handlers' = [handlers EXCEPT ![handle[s]] = null]
    BY <1>1 DEF Register, Unregistered, SetHandler, Streams, WorksOn, Sets, At, ops
  <1>3. /\ Apart /\ OneSets /\ \A r \in Object : Registered(r)
        /\ \A o \in Operation : Belongs(o)
        /\ \A u \in Thread : WorksOn(u) /\ Holds(u)
    BY DEF Streams, Held
  <1>4. /\ \A r \in Object : r # s => life'[r] = life[r]
        /\ handle[s] \in Handle
        /\ \A h \in Handle : h # handle[s] => handlers'[h] = handlers[h]
        /\ \/ life[s] = "opened" /\ life'[s] = "live" /\ handlers'[handle[s]] = s
           \/ life[s] = "closed" /\ life'[s] = "dead" /\ handlers'[handle[s]] = null
    <2>1. handle[s] \in Handle
      BY <1>2 DEF IocpTypeOK
    <2> QED
      BY <1>2, <2>1 DEF IocpTypeOK
  <1>5. /\ thread'[t].at = "idle"
        /\ \A u \in Thread : u # t => thread'[u] = thread[u]
    BY <1>2 DEF Return, AtRest, IocpTypeOK
  <1>6. ASSUME NEW r \in Object PROVE Registered(r)'
    <2>1. CASE r = s
      BY <1>2, <1>3, <1>4, <2>1 DEF Registered
    <2>2. CASE r # s
      <3>1. life[r] \in {"live", "closed"} => handle[r] # handle[s] /\ handle[r] \in Handle
        BY <1>3, <1>4, <2>2 DEF Apart, IocpTypeOK
      <3> QED
        BY <1>2, <1>3, <1>4, <2>2, <3>1 DEF Registered
    <2> QED
      BY <2>1, <2>2
  <1>7. Apart'
    BY <1>2, <1>3, <1>4 DEF Apart
  <1>8. ASSUME NEW o \in Operation PROVE Belongs(o)'
    <2>1. Belongs(o) /\ Registered(s) /\ (state[o] # "none" => fd[o] \in Handle)
      BY <1>3 DEF IocpTypeOK
    <2>2. CASE life[s] = "opened"
      BY <1>2, <1>4, <2>1, <2>2 DEF Belongs, Registered
    <2>3. CASE life[s] = "closed"
      BY <1>2, <1>4, <2>1, <2>3 DEF Belongs
    <2> QED
      BY <1>4, <2>2, <2>3
  <1>9. ASSUME NEW u \in Thread, u # t PROVE WorksOn(u)'
    <2>1. WorksOn(u) /\ Holds(u) /\ thread'[u] = thread[u] /\ thread[u].at \notin Pop
      BY <1>2, <1>3, <1>5, <1>9, IocpAssumption DEF Holds
    <2>2. Sets(u) => MyStream(u) # s
      BY <1>1, <1>2, <1>3, <1>9 DEF OneSets
    <2>3. thread[u].at \in Push \cup {"read"} => MyStream(u) # s
      BY <1>4, <2>1 DEF WorksOn
    <2>4. thread[u].at \in Push \cup {"read", "register", "unregister"} =>
            MyStream(u) \in Object /\ life'[MyStream(u)] = life[MyStream(u)]
      BY <1>4, <2>1, <2>2, <2>3 DEF Holds, Sets
    <2> QED
      BY <1>2, <2>1, <2>4 DEF WorksOn, At, MyOp, MyStream
  <1>10. WorksOn(t)' /\ ~Sets(t)'
    BY <1>5 DEF WorksOn, Sets, At, Push, Pop
  <1>11. OneSets'
    BY <1>3, <1>5, <1>10 DEF OneSets, Sets, MyStream
  <1> QED
    BY <1>3, <1>6, <1>7, <1>8, <1>9, <1>10, <1>11 DEF Streams

LEMMA CloseStreams ==
  ASSUME IocpTypeOK, Held, Streams, NEW t \in Thread, NEW s \in Object, Close(t, s)
  PROVE  Streams'
  <1> DEFINE pending == {o \in Operation : state[o] = "pending" /\ reads[o] = s}
  <1>10. state' = [o \in Operation |-> IF o \in pending THEN "posted" ELSE state[o]]
    BY DEF Close
  <1>11. ASSUME NEW o \in Operation
        PROVE  state'[o] = state[o] \/ (state[o] = "pending" /\ state'[o] = "posted")
    BY <1>10
  <1> HIDE DEF pending
  <1>1. /\ life[s] = "live" /\ life' = [life EXCEPT ![s] = "closed"] /\ ~Using(s)
        /\ open' = open \ {handle[s]} /\ UNCHANGED <<handle, handlers, reads, fd>>
        /\ thread' = [thread EXCEPT ![t] = [AtRest EXCEPT !.at = "unregister", !.stream = s]]
    BY DEF Close
  <1>2. /\ life'[s] = "closed" /\ \A r \in Object : r # s => life'[r] = life[r]
        /\ \A u \in Thread : u # t => thread'[u] = thread[u]
        /\ thread'[t].at = "unregister" /\ thread'[t].stream = s
    BY <1>1 DEF IocpTypeOK, AtRest
  <1>3. /\ Apart /\ OneSets /\ \A r \in Object : Registered(r)
        /\ \A o \in Operation : Belongs(o)
        /\ \A u \in Thread : WorksOn(u) /\ Holds(u)
    BY DEF Streams, Held
  <1>4. ASSUME NEW r \in Object PROVE Registered(r)'
    <2>1. r # s /\ life[r] \in {"opened", "live"} => handle[r] # handle[s]
      BY <1>1, <1>3 DEF Apart
    <2>2. Registered(r) /\ Registered(s)
      BY <1>3
    <2>3. life'[r] = "opened" =>
            \A o \in Operation : fd[o] = handle[r] => state'[o] = "deleted"
      BY <1>11, <1>1, <1>2, <2>2 DEF Registered
    <2> QED
      BY <1>1, <1>2, <2>1, <2>2, <2>3 DEF Registered
  <1>5. Apart'
    BY <1>1, <1>2, <1>3 DEF Apart
  <1>6. ASSUME NEW o \in Operation PROVE Belongs(o)'
    BY <1>1, <1>11, <1>2, <1>3 DEF Belongs
  <1>7. ASSUME NEW u \in Thread, u # t PROVE WorksOn(u)' /\ (Sets(u) => MyStream(u) # s)
    <2>1. WorksOn(u) /\ Holds(u) /\ thread'[u] = thread[u]
      BY <1>2, <1>3, <1>7
    <2>2. /\ Sets(u) => MyStream(u) # s
          /\ thread[u].at \in Push \cup {"read"} => MyStream(u) # s
      <3>1. Sets(u) => life[MyStream(u)] \in {"opened", "closed"}
        BY <2>1 DEF Sets, WorksOn, At
      <3> QED
        BY <1>1, <3>1 DEF Using, Push
    <2>3. thread[u].at \in Pop \cup {"read", "register", "unregister"} \cup Push =>
            MyStream(u) \in Object
      BY <2>1 DEF Holds
    <2>4. thread[u].at \in {"read", "register", "unregister"} \cup Push =>
            life'[MyStream(u)] = life[MyStream(u)]
      BY <1>2, <2>2, <2>3 DEF Sets
    <2>5. thread[u].at \in Pop => life'[MyStream(u)] \in {"live", "closed"}
      BY <1>1, <1>2, <2>1, <2>3 DEF WorksOn
    <2> QED
      BY <1>1, <2>1, <2>2, <2>4, <2>5 DEF WorksOn, At, MyOp, MyStream
  <1>8. WorksOn(t)'
    BY <1>2 DEF WorksOn, At, MyStream, Push, Pop
  <1>9. OneSets'
    <2>1. \A u \in Thread : u # t => (Sets(u)' <=> Sets(u)) /\ MyStream(u)' = MyStream(u)
      BY <1>2 DEF Sets, MyStream
    <2>2. MyStream(t)' = s
      BY <1>2 DEF MyStream
    <2> QED
      BY <1>3, <1>7, <2>1, <2>2 DEF OneSets
  <1> QED
    BY <1>3, <1>4, <1>5, <1>6, <1>7, <1>8, <1>9 DEF Streams

LEMMA ReadStreams ==
  ASSUME IocpTypeOK, Held, Streams, NEW t \in Thread, NEW s \in Object, Read(t, s)
  PROVE  Streams'
  <1>1. PICK o \in Operation :
          /\ state[o] = "none" /\ state' = [state EXCEPT ![o] = "new"]
          /\ reads' = [reads EXCEPT ![o] = s] /\ fd' = [fd EXCEPT ![o] = handle[s]]
          /\ thread' = [thread EXCEPT ![t] =
                          [AtRest EXCEPT !.at = "next", !.op = o, !.stream = s]]
          /\ UNCHANGED <<life, handle, open, handlers>> /\ life[s] = "live"
    BY DEF Read, objects
  <1>2. /\ state'[o] = "new" /\ reads'[o] = s /\ fd'[o] = handle[s]
        /\ \A q \in Operation : q # o =>
             state'[q] = state[q] /\ reads'[q] = reads[q] /\ fd'[q] = fd[q]
        /\ \A u \in Thread : u # t => thread'[u] = thread[u]
        /\ thread'[t].at = "next" /\ thread'[t].op = o /\ thread'[t].stream = s
    BY <1>1 DEF IocpTypeOK, AtRest
  <1>3. /\ Apart /\ OneSets /\ \A r \in Object : Registered(r)
        /\ \A q \in Operation : Belongs(q)
        /\ \A u \in Thread : WorksOn(u) /\ Holds(u)
    BY DEF Streams, Held
  <1>4. ASSUME NEW r \in Object PROVE Registered(r)'
    <2>1. life[r] = "opened" => handle[r] # handle[s]
      BY <1>1, <1>3 DEF Apart
    <2> QED
      BY <1>1, <1>2, <1>3, <2>1 DEF Registered
  <1>5. Apart'
    BY <1>1, <1>3 DEF Apart
  <1>6. ASSUME NEW q \in Operation PROVE Belongs(q)'
    BY <1>1, <1>2, <1>3 DEF Belongs
  <1>7. ASSUME NEW u \in Thread, u # t PROVE WorksOn(u)'
    <2>1. WorksOn(u) /\ Holds(u) /\ thread'[u] = thread[u] /\ thread[u] \in Local
      BY <1>2, <1>3, <1>7 DEF IocpTypeOK
    <2>2. thread[u].at \in Push \cup Pop \cup {"read"} =>
            MyOp(u) # o /\ MyOp(u) \in Operation
      BY <1>1, <2>1 DEF Holds, MyOp, Local, Push, Pop, Rest
    <2> QED
      BY <1>1, <1>2, <2>1, <2>2 DEF WorksOn, At, MyOp, MyStream
  <1>8. WorksOn(t)' /\ ~Sets(t)'
    BY <1>1, <1>2 DEF WorksOn, At, MyStream, MyOp, Push, Pop, Sets
  <1>9. OneSets'
    BY <1>2, <1>3, <1>8 DEF OneSets, Sets, MyStream
  <1> QED
    BY <1>3, <1>4, <1>5, <1>6, <1>7, <1>8, <1>9 DEF Streams

-----------------------------------------------------------------------------
(* The lists. *)

\* A step outside of the lists.
LEMMA ListsKept ==
  ASSUME Lists, UNCHANGED <<readHeader, nextOp, prevOp>>,
         \A s \in Object : life[s] \in {"live", "closed"} => In(s)' = In(s),
         \A s \in Object : life'[s] \in {"live", "closed"} =>
           \/ life[s] \in {"live", "closed"}
           \/ life[s] = "opened" /\ In(s)' = {},
         \A s \in Object : life'[s] \in {"none", "opened"} => life[s] \in {"none", "opened"},
         \A o \in Operation : state'[o] = "none" => state[o] = "none",
         \A u \in Thread :
           InMid(u) => MyStream(u) \in Object /\ life[MyStream(u)] \in {"live", "closed"},
         \A u \in Thread :
           \/ thread'[u] = thread[u]
           \/ /\ ~InMid(u) /\ ~InMid(u)'
              /\ thread'[u].at \in Push => prevOp[MyOp(u)'] = null
  PROVE  Lists'
  <1>1. /\ OneInside /\ \A s \in Object : ListOf(s)
        /\ \A o \in Operation : Fresh(o)
        /\ \A u \in Thread : Phase(u)
    BY DEF Lists
  <1>2. ASSUME NEW u \in Thread
        PROVE  /\ InMid(u)' <=> InMid(u)
               /\ InMid(u) => thread'[u] = thread[u] /\ MyStream(u)' = MyStream(u)
    BY DEF InMid, MyStream
  <1>3. OneInside'
    BY <1>1, <1>2 DEF OneInside
  <1>4. ASSUME NEW s \in Object PROVE ListOf(s)'
    <2>1. Calm(s)' <=> Calm(s)
      BY <1>2 DEF Calm
    <2>2. CASE life[s] \in {"live", "closed"}
      BY <1>1, <2>1, <2>2 DEF ListOf
    <2>3. CASE life[s] = "opened" /\ In(s)' = {}
      BY <1>1, <2>3 DEF ListOf, IsList
    <2>4. CASE life'[s] \notin {"live", "closed"}
      BY <1>1, <2>4 DEF ListOf
    <2> QED
      BY <2>2, <2>3, <2>4
  <1>5. ASSUME NEW o \in Operation PROVE Fresh(o)'
    BY <1>1 DEF Fresh
  <1>6. ASSUME NEW u \in Thread PROVE Phase(u)'
    <2>1. CASE thread'[u] = thread[u]
      <3>1. MyOp(u)' = MyOp(u) /\ MyStream(u)' = MyStream(u) /\ Phase(u)
        BY <1>1, <2>1 DEF MyOp, MyStream
      <3>2. CASE InMid(u)
        <4>1. In(MyStream(u))' = In(MyStream(u))
          BY <3>1, <3>2
        <4> QED
          BY <2>1, <3>1, <4>1 DEF Phase, At
      <3>3. CASE ~InMid(u)
        BY <2>1, <3>1, <3>3 DEF Phase, InMid, Mid, At
      <3> QED
        BY <3>2, <3>3
    <2>2. CASE ~InMid(u)' /\ (thread'[u].at \in Push => prevOp[MyOp(u)'] = null)
      BY <2>2 DEF Phase, InMid, Mid, At
    <2> QED
      BY <2>1, <2>2
  <1> QED
    BY <1>3, <1>4, <1>5, <1>6 DEF Lists

LEMMA MidWorks ==
  ASSUME Held, Streams, NEW u \in Thread, InMid(u)
  PROVE  MyStream(u) \in Object /\ life[MyStream(u)] \in {"live", "closed"}
  <1>1. Holds(u) /\ WorksOn(u) /\ thread[u].at \in Push \cup Pop
    BY DEF Held, Streams, InMid, Mid, Push, Pop
  <1> QED
    BY <1>1 DEF Holds, WorksOn

\* Who is on the way into a list or out of it.
Passing == Push \cup {"call"}

LEMMA OutKept ==
  ASSUME NEW o, \A u \in Thread : \/ thread'[u] = thread[u]
                                 \/ /\ thread[u].at \notin Passing \/ MyOp(u) # o
                                    /\ thread'[u].at \notin Passing \/ MyOp(u)' # o
  PROVE  Out(o)' <=> Out(o)
  BY DEF Out, Passing, MyOp

\* A step outside of the lists that keeps what is registered.
LEMMA OtherLists ==
  ASSUME IocpTypeOK, Held, Streams, Lists, NEW t \in Thread,
         \/ ReadFile(t) \/ EnterRunOne(t) \/ Take(t) \/ TimedOut(t) \/ PostAll(t)
         \/ Valid(t) \/ Invalid(t) \/ Call(t)
  PROVE  Lists'
  <1>1. UNCHANGED <<life, readHeader, nextOp, prevOp, reads>>
    BY DEF ReadFile, EnterRunOne, Take, TimedOut, PostAll, Valid, Invalid, Call, ops, objects, links
  <1>2. Holds(t) /\ thread[t] \in Local /\ thread \in [Thread -> Local] /\ WorksOn(t)
    BY DEF Held, IocpTypeOK, Streams
  <1>3. \A u \in Thread : u # t => thread'[u] = thread[u]
    BY <1>2 DEF ReadFile, EnterRunOne, Take, TimedOut, PostAll, Valid, Invalid, Call, Return, Go
  <1>4. /\ thread[t].at \in {"read", "idle", "wait", "valid", "call"}
        /\ thread'[t].at \in {"idle", "wait", "valid", "pop next"}
    <2>1. thread[t].at \in {"read", "idle", "wait", "valid", "call"}
      BY DEF ReadFile, EnterRunOne, Take, TimedOut, PostAll, Valid, Invalid, Call, At
    <2>2. AtRest.at = "idle"
      BY DEF AtRest
    <2>3. CASE ReadFile(t) \/ TimedOut(t) \/ Invalid(t) \/ Call(t)
      <3>1. thread'[t].at = "idle"
        BY <1>2, <2>2, <2>3 DEF ReadFile, TimedOut, Invalid, Call, Return
      <3> QED
        BY <2>1, <3>1
    <2>4. CASE EnterRunOne(t)
      BY <1>2, <2>1, <2>4 DEF EnterRunOne, Go, Local
    <2>5. CASE Take(t)
      BY <1>2, <2>1, <2>2, <2>5 DEF Take, AtRest
    <2>6. CASE PostAll(t)
      BY <1>2, <2>1, <2>6 DEF PostAll, At
    <2>7. CASE Valid(t)
      BY <1>2, <2>1, <2>7 DEF Valid, Local
    <2> QED
      BY <2>3, <2>4, <2>5, <2>6, <2>7
  <1>5. ASSUME NEW s \in Object, life[s] \in {"live", "closed"} PROVE In(s)' = In(s)
    <2> SUFFICES ASSUME NEW o \in Operation, reads[o] = s
                 PROVE  (state'[o] \in {"new", "pending", "posted"} /\ ~Out(o)') <=>
                          (state[o] \in {"new", "pending", "posted"} /\ ~Out(o))
      BY <1>1 DEF In
    <2>1. CASE o # MyOp(t) \/ ~(Call(t) \/ Invalid(t) \/ ReadFile(t))
      <3>1. state'[o] = state[o]
        BY <2>1 DEF ReadFile, EnterRunOne, Take, TimedOut, PostAll, Valid, Invalid, Call, ops,
                    IocpTypeOK
      <3>2. thread[t].at \notin Passing \/ MyOp(t) # o
        BY <1>4, <2>1 DEF Passing, Push, ReadFile, EnterRunOne, Take, TimedOut, PostAll, Valid,
                          Invalid, At
      <3>3. thread'[t].at \notin Passing
        BY <1>4 DEF Passing, Push
      <3>4. Out(o)' <=> Out(o)
        BY <1>3, <3>2, <3>3, OutKept
      <3> QED
        BY <3>1, <3>4
    <2>2. CASE o = MyOp(t) /\ Call(t)
      <3>1. state'[o] = "deleted" /\ Out(o)
        BY <2>2 DEF Call, IocpTypeOK, Out, At
      <3> QED
        BY <3>1
    <2>3. CASE o = MyOp(t) /\ ReadFile(t)
      <3>1. thread[t].at = "read" /\ state[o] = "new" /\ state'[o] \in {"pending", "posted"}
        BY <1>2, <2>3 DEF ReadFile, At, Holds, IocpTypeOK
      <3>2. Out(o)' <=> Out(o)
        BY <1>3, <1>4, <3>1, OutKept DEF Passing, Push
      <3> QED
        BY <3>1, <3>2
    <2>4. CASE o = MyOp(t) /\ Invalid(t)
      <3>1. thread[t].at = "valid" /\ handlers[fd[o]] = null
        BY <2>4 DEF Invalid, At
      <3> QED
        BY <1>5, <2>4, <3>1, ValidFinds, IocpAssumption
    <2> QED
      BY <2>1, <2>2, <2>3, <2>4
  <1>6. \A o \in Operation : state'[o] = "none" => state[o] = "none"
    BY DEF ReadFile, EnterRunOne, Take, TimedOut, PostAll, Valid, Invalid, Call, ops, IocpTypeOK
  <1>7. ~InMid(t) /\ ~InMid(t)' /\ thread'[t].at \notin Push
    BY <1>4 DEF InMid, Mid, Push
  <1> QED
    BY <1>1, <1>3, <1>5, <1>6, <1>7, MidWorks, ListsKept

\* The system posts what is pending: the operation stays in its list.
LEMMA IoDoneLists ==
  ASSUME IocpTypeOK, Held, Streams, Lists, NEW o \in Operation, IoDone(o)
  PROVE  Lists'
  <1>1. /\ UNCHANGED <<life, readHeader, nextOp, prevOp, reads, thread>>
        /\ \A q \in Operation : \/ state'[q] = state[q]
                                \/ state[q] = "pending" /\ state'[q] = "posted"
    BY DEF IoDone, objects, links, IocpTypeOK
  <1>2. \A q : Out(q)' <=> Out(q)
    BY <1>1, OutKept
  <1>3. \A s \in Object : In(s)' = In(s)
    BY <1>1, <1>2 DEF In
  <1> QED
    BY <1>1, <1>3, MidWorks, ListsKept

LEMMA OpenLists ==
  ASSUME IocpTypeOK, Held, Streams, Lists, NEW t \in Thread, NEW s \in Object, Open(t, s)
  PROVE  Lists'
  <1>1. /\ UNCHANGED <<readHeader, nextOp, prevOp, state, reads>>
        /\ life[s] = "none" /\ life' = [life EXCEPT ![s] = "opened"]
        /\ thread[t].at = "idle"
        /\ thread' = [thread EXCEPT ![t] = [AtRest EXCEPT !.at = "register", !.stream = s]]
    BY DEF Open, links, ops, At
  <1>2. /\ life'[s] = "opened" /\ \A r \in Object : r # s => life'[r] = life[r]
        /\ thread'[t].at = "register"
        /\ \A u \in Thread : u # t => thread'[u] = thread[u]
    BY <1>1 DEF IocpTypeOK, AtRest
  <1>3. \A q : Out(q)' <=> Out(q)
    BY <1>1, <1>2, OutKept DEF Passing, Push
  <1>4. \A r \in Object : In(r)' = In(r)
    BY <1>1, <1>3 DEF In
  <1>5. ~InMid(t) /\ ~InMid(t)' /\ thread'[t].at \notin Push
    BY <1>1, <1>2 DEF InMid, Mid, Push
  <1> QED
    BY <1>1, <1>2, <1>4, <1>5, MidWorks, ListsKept

\* Nothing is in the list of a stream that becomes live; a dead one's is not looked at.
LEMMA RegisterLists ==
  ASSUME IocpTypeOK, Held, Streams, Lists, NEW t \in Thread, Register(t) \/ Unregistered(t)
  PROVE  Lists'
  <1>1. PICK s \in Object : s = MyStream(t)
    BY DEF Held, Holds, Register, Unregistered, At
  <1>2. /\ UNCHANGED <<readHeader, nextOp, prevOp, state, reads>> /\ Return(t) /\ Sets(t)
        /\ \/ life[s] = "opened" /\ life' = [life EXCEPT ![s] = "live"]
           \/ life[s] = "closed" /\ life' = [life EXCEPT ![s] = "dead"]
    BY <1>1 DEF Register, Unregistered, SetHandler, Streams, WorksOn, Sets, At, ops, links
  <1>3. /\ \A r \in Object : r # s => life'[r] = life[r]
        /\ \/ life[s] = "opened" /\ life'[s] = "live"
           \/ life[s] = "closed" /\ life'[s] = "dead"
        /\ thread'[t].at = "idle"
        /\ \A u \in Thread : u # t => thread'[u] = thread[u]
    BY <1>2 DEF Return, AtRest, IocpTypeOK
  <1>4. \A q : Out(q)' <=> Out(q)
    BY <1>2, <1>3, OutKept DEF Passing, Push, Sets
  <1>5. \A r \in Object : In(r)' = In(r)
    BY <1>2, <1>4 DEF In
  <1>6. life[s] = "opened" => In(s) = {}
    <2>1. \A o \in Operation : state[o] \in {"new", "pending", "posted"} /\ reads[o] = s =>
            life[s] # "opened"
      BY DEF Streams, Belongs
    <2> QED
      BY <2>1 DEF In
  <1>7. ~InMid(t) /\ ~InMid(t)' /\ thread'[t].at \notin Push
    BY <1>2, <1>3 DEF InMid, Mid, Push, Sets
  <1> QED
    BY <1>2, <1>3, <1>5, <1>6, <1>7, MidWorks, ListsKept

LEMMA CloseLists ==
  ASSUME IocpTypeOK, Held, Streams, Lists, NEW t \in Thread, NEW s \in Object, Close(t, s)
  PROVE  Lists'
  <1> DEFINE pending == {o \in Operation : state[o] = "pending" /\ reads[o] = s}
  <1>1. state' = [o \in Operation |-> IF o \in pending THEN "posted" ELSE state[o]]
    BY DEF Close
  <1>2. ASSUME NEW o \in Operation
        PROVE  state'[o] = state[o] \/ (state[o] = "pending" /\ state'[o] = "posted")
    BY <1>1
  <1> HIDE DEF pending
  <1>3. /\ UNCHANGED <<readHeader, nextOp, prevOp, reads>> /\ thread[t].at = "idle"
        /\ life[s] = "live" /\ life' = [life EXCEPT ![s] = "closed"]
        /\ thread' = [thread EXCEPT ![t] = [AtRest EXCEPT !.at = "unregister", !.stream = s]]
    BY DEF Close, links, At
  <1>4. /\ life'[s] = "closed" /\ \A r \in Object : r # s => life'[r] = life[r]
        /\ thread'[t].at = "unregister"
        /\ \A u \in Thread : u # t => thread'[u] = thread[u]
    BY <1>3 DEF IocpTypeOK, AtRest
  <1>5. \A q : Out(q)' <=> Out(q)
    BY <1>3, <1>4, OutKept DEF Passing, Push
  <1>6. \A r \in Object : In(r)' = In(r)
    BY <1>2, <1>3, <1>5 DEF In
  <1>7. ~InMid(t) /\ ~InMid(t)' /\ thread'[t].at \notin Push
    BY <1>3, <1>4 DEF InMid, Mid, Push
  <1> QED
    BY <1>2, <1>3, <1>4, <1>6, <1>7, MidWorks, ListsKept

\* The new operation is on its way into the list, and is not in it.
LEMMA ReadLists ==
  ASSUME IocpTypeOK, Held, Streams, Lists, NEW t \in Thread, NEW s \in Object, Read(t, s)
  PROVE  Lists'
  <1>1. PICK o \in Operation :
          /\ state[o] = "none" /\ state' = [state EXCEPT ![o] = "new"]
          /\ reads' = [reads EXCEPT ![o] = s] /\ thread[t].at = "idle"
          /\ thread' = [thread EXCEPT ![t] =
                          [AtRest EXCEPT !.at = "next", !.op = o, !.stream = s]]
          /\ UNCHANGED <<life, readHeader, nextOp, prevOp>>
    BY DEF Read, objects, links, At
  <1>2. /\ state'[o] = "new"
        /\ \A q \in Operation : q # o => state'[q] = state[q] /\ reads'[q] = reads[q]
        /\ \A u \in Thread : u # t => thread'[u] = thread[u]
        /\ thread'[t].at = "next" /\ thread'[t].op = o
    BY <1>1 DEF IocpTypeOK, AtRest
  <1>3. \A q : q # o => (Out(q)' <=> Out(q))
    BY <1>1, <1>2, OutKept DEF Passing, Push, MyOp
  <1>4. Out(o)'
    BY <1>2 DEF Out, Push, MyOp
  <1>5. \A r \in Object : In(r)' = In(r)
    BY <1>1, <1>2, <1>3, <1>4 DEF In
  <1>6. ~InMid(t) /\ ~InMid(t)' /\ prevOp[MyOp(t)'] = null
    BY <1>1, <1>2 DEF InMid, Mid, MyOp, Lists, Fresh
  <1> QED
    BY <1>1, <1>2, <1>5, <1>6, MidWorks, ListsKept

-----------------------------------------------------------------------------
(* Steps inside of a list. *)

LEMMA PhaseSame ==
  ASSUME NEW S \in SUBSET Operation, NEW o \in Operation, NEW first,
         NEW nxt \in [Operation -> Operation \cup {null}],
         NEW prv \in [Operation -> Operation \cup {null}],
         NEW nxt2 \in [Operation -> Operation \cup {null}],
         NEW prv2 \in [Operation -> Operation \cup {null}],
         \A q \in S \cup {o} : nxt2[q] = nxt[q] /\ prv2[q] = prv[q]
  PROVE  /\ PrevPhase(S, o, first, nxt, prv) => PrevPhase(S, o, first, nxt2, prv2)
         /\ HeaderPhase(S, o, first, nxt, prv) => HeaderPhase(S, o, first, nxt2, prv2)
         /\ PopPrevPhase(S, o, first, nxt, prv) => PopPrevPhase(S, o, first, nxt2, prv2)
         /\ PopHeaderPhase(S, o, first, nxt, prv) => PopHeaderPhase(S, o, first, nxt2, prv2)
  <1>1. nxt2[o] = nxt[o] /\ prv2[o] = prv[o] /\ null \notin Operation
    BY IocpAssumption
  <1>2. ASSUME NEW x, NEW to, NEW q \in S
        PROVE  /\ Link(nxt2, x, to)[q] = Link(nxt, x, to)[q]
               /\ Link(prv2, x, to)[q] = Link(prv, x, to)[q]
    BY DEF Link
  <1>3. PrevPhase(S, o, first, nxt, prv) => PrevPhase(S, o, first, nxt2, prv2)
    BY <1>1, ListSame DEF PrevPhase
  <1>4. ASSUME HeaderPhase(S, o, first, nxt, prv) PROVE HeaderPhase(S, o, first, nxt2, prv2)
    <2>1. IsList(S, first, nxt, Link(prv, first, null)) /\ nxt[o] = first
          /\ (first # null => prv[first] = o)
      BY <1>4 DEF HeaderPhase
    <2>2. first \in S \cup {null}
      BY <2>1 DEF IsList
    <2>3. IsList(S, first, nxt2, Link(prv2, first, null))
      BY <1>2, <2>1, ListSame
    <2> QED
      BY <1>1, <2>1, <2>2, <2>3 DEF HeaderPhase
  <1>5. ASSUME PopPrevPhase(S, o, first, nxt, prv) PROVE PopPrevPhase(S, o, first, nxt2, prv2)
    <2>1. /\ IsList(S, first, nxt, Link(prv, nxt[o], o))
          /\ nxt[o] # null => nxt[o] \in S /\ prv[nxt[o]] = prv[o]
          /\ prv[o] # null => prv[o] \in S /\ nxt[prv[o]] = o
      BY <1>5 DEF PopPrevPhase
    <2>2. IsList(S, first, nxt2, Link(prv2, nxt[o], o))
      BY <1>2, <2>1, ListSame
    <2> QED
      BY <1>1, <2>1, <2>2 DEF PopPrevPhase
  <1>6. ASSUME PopHeaderPhase(S, o, first, nxt, prv) PROVE PopHeaderPhase(S, o, first, nxt2, prv2)
    <2>1. /\ IsList(S, first, Link(nxt, prv[o], o), Link(prv, nxt[o], o))
          /\ nxt[o] # null => nxt[o] \in S /\ prv[nxt[o]] = prv[o]
          /\ prv[o] # null => prv[o] \in S /\ nxt[prv[o]] = nxt[o]
      BY <1>6 DEF PopHeaderPhase
    <2>2. IsList(S, first, Link(nxt2, prv[o], o), Link(prv2, nxt[o], o))
      BY <1>2, <2>1, ListSame
    <2> QED
      BY <1>1, <2>1, <2>2 DEF PopHeaderPhase
  <1> QED
    BY <1>3, <1>4, <1>5, <1>6

\* A thread that is alone in its stream's list.
Alone(t) ==
  /\ MyStream(t) \in Object /\ MyOp(t) \in Operation /\ reads[MyOp(t)] = MyStream(t)
  /\ thread[t].at \in Push \cup Pop /\ state[MyOp(t)] \in {"new", "posted"}
  /\ \A u \in Thread \ {t} : ~(MyStream(u) = MyStream(t) /\ InList(u)) /\ MyOp(u) # MyOp(t)
  /\ thread[t].at \in {"next", "pop next"} =>
       IsList(In(MyStream(t)), readHeader[MyStream(t)], nextOp, prevOp)
  /\ thread[t].at \in Pop => MyOp(t) \in In(MyStream(t))
  /\ thread[t].at \in Push => MyOp(t) \notin In(MyStream(t)) /\ prevOp[MyOp(t)] = null
  /\ In(MyStream(t)) \in SUBSET Operation /\ Phase(t)

\* What the threads in other lists see does not change.
LEMMA ListsMoved ==
  ASSUME IocpTypeOK, IocpTypeOK', Held, Streams, Lists, UNCHANGED <<objects, ops>>,
         NEW t \in Thread, NEW c \in Local, thread' = [thread EXCEPT ![t] = c],
         NEW s \in Object, NEW o \in Operation, Alone(t),
         s = MyStream(t), o = MyOp(t), c.stream = s, c.op = o,
         \A r \in Object : r # s => readHeader'[r] = readHeader[r],
         \A q \in Operation : reads[q] # s => nextOp'[q] = nextOp[q] /\ prevOp'[q] = prevOp[q],
         Phase(t)',
         ~InMid(t)' => IsList(In(s), readHeader[s], nextOp, prevOp)'
  PROVE  Lists'
  <1>1. /\ thread'[t] = c /\ \A u \in Thread : u # t => thread'[u] = thread[u]
        /\ UNCHANGED <<life, state, reads>>
    BY ThreadIs DEF objects, ops
  <1>2. /\ OneInside /\ \A r \in Object : ListOf(r)
        /\ \A q \in Operation : Fresh(q)
        /\ \A u \in Thread : Phase(u) /\ Holds(u) /\ WorksOn(u) /\ thread[u] \in Local
    BY DEF Lists, Held, Streams, IocpTypeOK
  <1>3. reads[o] = s /\ life[s] \in {"live", "closed"} /\ state[o] \in {"new", "posted"}
    BY <1>2 DEF WorksOn, Alone
  <1>4. ASSUME NEW u \in Thread, u # t
        PROVE  /\ MyOp(u)' = MyOp(u) /\ MyStream(u)' = MyStream(u) /\ (InMid(u)' <=> InMid(u))
               /\ thread[u].at \in Push \cup Pop => MyStream(u) # s
               /\ InMid(u) => thread[u].at \in Push \cup Pop
    BY ZenonT(60), <1>1, <1>4 DEF MyOp, MyStream, InMid, InList, Mid, Push, Pop, Alone
  <1>5. MyStream(t)' = s /\ MyOp(t)' = o
    BY <1>1 DEF MyStream, MyOp
  <1>6. OneInside'
    BY <1>2, <1>4, <1>5 DEF OneInside
  <1>7. ASSUME NEW r \in Object, r # s
        PROVE  /\ In(r)' = In(r) /\ In(r) \subseteq Operation
               /\ \A q \in In(r) : nextOp'[q] = nextOp[q] /\ prevOp'[q] = prevOp[q]
    <2>1. \A q : q # o => (Out(q)' <=> Out(q))
      BY <1>1, <1>5, OutKept
    <2> QED
      BY <1>1, <1>3, <1>7, <2>1 DEF In
  <1>8. ASSUME NEW r \in Object PROVE ListOf(r)'
    <2>1. CASE r = s
      <3>1. Calm(s)' => ~InMid(t)'
        BY <1>5 DEF Calm
      <3> QED
        BY <1>1, <1>3, <2>1, <3>1 DEF ListOf
    <2>2. CASE r # s
      <3>1. Calm(r)' => Calm(r)
        BY <1>4, <2>2 DEF Calm
      <3>2. ASSUME life[r] \in {"live", "closed"}, Calm(r)'
            PROVE  IsList(In(r), readHeader[r], nextOp', prevOp')
        <4>1. IsList(In(r), readHeader[r], nextOp, prevOp)
          BY <1>2, <3>1, <3>2 DEF ListOf
        <4>2. \A q \in In(r) : nextOp'[q] = nextOp[q] /\ prevOp'[q] = prevOp[q]
          BY <1>7, <2>2
        <4> QED
          BY <4>1, <4>2, ListSame
      <3> QED
        BY <1>1, <1>2, <1>7, <2>2, <3>2 DEF ListOf
    <2> QED
      BY <2>1, <2>2
  <1>9. ASSUME NEW q \in Operation PROVE Fresh(q)'
    BY <1>1, <1>2, IocpAssumption DEF Fresh, Streams, Belongs
  <1>10. ASSUME NEW u \in Thread, u # t PROVE Phase(u)'
    <2>1. CASE thread[u].at \notin Push \cup Pop
      BY <1>1, <1>10, <2>1 DEF Phase, At, Push, Pop
    <2>2. CASE thread[u].at \in Push \cup Pop
      <3>1. PICK r \in Object : r = MyStream(u)
        BY <1>2, <2>2 DEF Holds
      <3>2. PICK q \in Operation : q = MyOp(u)
        BY <1>2, <2>2 DEF Holds, MyOp, Local, Rest, Push, Pop
      <3>3. r # s /\ reads[q] = r /\ MyStream(u)' = r /\ MyOp(u)' = q
        BY <1>2, <1>4, <1>10, <2>2, <3>1, <3>2 DEF WorksOn
      <3>4. /\ In(r)' = In(r) /\ In(r) \in SUBSET Operation /\ readHeader'[r] = readHeader[r]
            /\ \A x \in In(r) \cup {q} : nextOp'[x] = nextOp[x] /\ prevOp'[x] = prevOp[x]
        BY <1>7, <3>3
      <3>5. /\ nextOp \in [Operation -> Operation \cup {null}]
            /\ prevOp \in [Operation -> Operation \cup {null}]
            /\ nextOp' \in [Operation -> Operation \cup {null}]
            /\ prevOp' \in [Operation -> Operation \cup {null}]
        BY DEF IocpTypeOK
      <3> DEFINE S == In(r)  first == readHeader[r]
      <3>6. /\ thread[u].at \in Push => prevOp[q] = null
            /\ At(u, "prev")       => PrevPhase(S, q, first, nextOp, prevOp)
            /\ At(u, "header")     => HeaderPhase(S, q, first, nextOp, prevOp)
            /\ At(u, "pop prev")   => PopPrevPhase(S, q, first, nextOp, prevOp)
            /\ At(u, "pop header") => PopHeaderPhase(S, q, first, nextOp, prevOp)
        BY <1>2, <3>1, <3>2 DEF Phase
      <3> HIDE DEF S, first
      <3>7. /\ thread[u].at \in Push => prevOp'[q] = null
            /\ At(u, "prev")       => PrevPhase(S, q, first, nextOp', prevOp')
            /\ At(u, "header")     => HeaderPhase(S, q, first, nextOp', prevOp')
            /\ At(u, "pop prev")   => PopPrevPhase(S, q, first, nextOp', prevOp')
            /\ At(u, "pop header") => PopHeaderPhase(S, q, first, nextOp', prevOp')
        BY <3>4, <3>5, <3>6, PhaseSame DEF S
      <3>8. In(r)' = S /\ readHeader'[r] = first /\ thread'[u] = thread[u]
        BY <1>1, <1>10, <3>4 DEF S, first
      <3> QED
        BY <3>3, <3>7, <3>8 DEF Phase, At
    <2> QED
      BY <2>1, <2>2
  <1> QED
    BY <1>6, <1>8, <1>9, <1>10 DEF Lists

LEMMA MovesAlone ==
  ASSUME IocpTypeOK, Held, Streams, Lists, NEW t \in Thread, ListMove(t), ~beside'
  PROVE  Alone(t)
  <1>1. /\ thread[t].at \in Push \cup Pop
        /\ \A u \in Thread \ {t} : ~(MyStream(u) = MyStream(t) /\ InList(u))
    BY DEF ListMove, PushNext, PushPrev, PushHeader, PopNext, PopPrev, PopHeader, ListStep, At,
           Push, Pop
  <1>2. Holds(t) /\ WorksOn(t) /\ Phase(t) /\ thread[t] \in Local /\ OneHolder
    BY DEF Held, Streams, Lists, IocpTypeOK
  <1>3. /\ MyStream(t) \in Object /\ MyOp(t) \in Operation /\ reads[MyOp(t)] = MyStream(t)
        /\ state[MyOp(t)] \in {"new", "posted"} /\ life[MyStream(t)] \in {"live", "closed"}
        /\ MyOp(t) # null /\ thread[t].at \in Pop => state[MyOp(t)] = "posted"
    BY <1>1, <1>2 DEF Holds, WorksOn, MyOp, Local, Rest, Push, Pop
  <1>4. \A u \in Thread \ {t} : MyOp(u) # MyOp(t)
    BY <1>2, <1>3, IocpAssumption DEF OneHolder
  <1>5. thread[t].at \in {"next", "pop next"} =>
          IsList(In(MyStream(t)), readHeader[MyStream(t)], nextOp, prevOp)
    <2> SUFFICES ASSUME thread[t].at \in {"next", "pop next"}
                 PROVE  IsList(In(MyStream(t)), readHeader[MyStream(t)], nextOp, prevOp)
      OBVIOUS
    <2>1. Calm(MyStream(t))
      BY <1>1 DEF Calm, InMid, InList, Mid
    <2> QED
      BY <1>3, <2>1 DEF Lists, ListOf
  <1>6. thread[t].at \in Pop => MyOp(t) \in In(MyStream(t))
    BY <1>1, <1>3, <1>4 DEF In, Out, Push, Pop
  <1>7. thread[t].at \in Push => MyOp(t) \notin In(MyStream(t)) /\ prevOp[MyOp(t)] = null
    BY <1>2, <1>3 DEF In, Out, Phase
  <1>8. In(MyStream(t)) \in SUBSET Operation
    BY DEF In
  <1> QED
    BY <1>1, <1>2, <1>3, <1>4, <1>5, <1>6, <1>7, <1>8 DEF Alone

\* What is in the list after a move.
LEMMA InMoved ==
  ASSUME NEW t \in Thread, NEW s \in Object, NEW o \in Operation, Alone(t), UNCHANGED ops,
         s = MyStream(t), o = MyOp(t), thread'[t].op = o,
         \A u \in Thread : u # t => thread'[u] = thread[u]
  PROVE  /\ thread'[t].at \in Passing => In(s)' = In(s) \ {o}
         /\ thread'[t].at \notin Passing => In(s)' = In(s) \cup {o}
  <1>1. /\ UNCHANGED <<state, reads>> /\ reads[o] = s
        /\ state[o] \in {"new", "posted"} /\ MyOp(t)' = o
        /\ \A u \in Thread \ {t} : MyOp(u) # o
    BY DEF ops, Alone, MyOp
  <1>2. \A q : q # o => (Out(q)' <=> Out(q))
    BY <1>1, OutKept
  <1>3. Out(o)' <=> thread'[t].at \in Passing
    BY <1>1 DEF Out, Passing, MyOp
  <1> QED
    BY <1>1, <1>2, <1>3 DEF In

LEMMA PushNextLists ==
  ASSUME IocpTypeOK, IocpTypeOK', Held, Streams, Lists, NEW t \in Thread, PushNext(t),
         ~beside', ~dangling
  PROVE  Lists' /\ ~dangling'
  <1>1. Alone(t) /\ thread[t].at = "next" /\ Go(t, "prev") /\ UNCHANGED <<objects, ops>>
    BY MovesAlone DEF ListMove, PushNext, ListStep, At
  <1>2. PICK s \in Object, o \in Operation : s = MyStream(t) /\ o = MyOp(t)
    BY <1>1 DEF Alone
  <1>3. PICK c \in Local : /\ thread' = [thread EXCEPT ![t] = c]
                           /\ c.at = "prev" /\ c.op = o /\ c.stream = s
    BY <1>1, <1>2, Goes DEF Place, Push
  <1>4. /\ nextOp' = [nextOp EXCEPT ![o] = readHeader[s]] /\ UNCHANGED <<readHeader, prevOp>>
        /\ ~dangling' /\ nextOp \in [Operation -> Operation \cup {null}]
    BY <1>2 DEF PushNext, ListStep, IocpTypeOK
  <1>5. /\ nextOp'[o] = readHeader[s] /\ \A q \in Operation : q # o => nextOp'[q] = nextOp[q]
        /\ reads[o] = s /\ o \notin In(s) /\ prevOp[o] = null /\ In(s) \in SUBSET Operation
        /\ IsList(In(s), readHeader[s], nextOp, prevOp)
    BY <1>1, <1>2, <1>4 DEF Alone, Push
  <1>6. In(s)' = In(s)
    <2>1. /\ thread'[t].op = o /\ thread'[t].at \in Passing /\ o \notin In(s)
          /\ UNCHANGED ops /\ \A u \in Thread : u # t => thread'[u] = thread[u]
      BY <1>1, <1>2, <1>3, ThreadIs DEF Passing, Push, Alone
    <2>2. In(s)' = In(s) \ {o}
      BY <1>1, <1>2, <2>1, InMoved
    <2> QED
      BY <2>1, <2>2
  <1>7. PrevPhase(In(s), o, readHeader[s], nextOp', prevOp)
    BY <1>5, ListSame DEF PrevPhase
  <1>8. thread'[t] = c
    BY <1>3, ThreadIs
  <1>9. Phase(t)'
    <2>1. /\ MyOp(t)' = o /\ MyStream(t)' = s /\ thread'[t].at = "prev"
          /\ readHeader'[s] = readHeader[s] /\ prevOp' = prevOp
      BY <1>3, <1>4, <1>8 DEF MyOp, MyStream
    <2> QED
      BY <1>5, <1>6, <1>7, <2>1 DEF Phase, At
  <1>10. InMid(t)'
    BY <1>3, <1>8 DEF InMid, Mid
  <1>11. \A q \in Operation : reads[q] # s => nextOp'[q] = nextOp[q] /\ prevOp'[q] = prevOp[q]
    BY <1>4, <1>5
  <1>12. \A r \in Object : r # s => readHeader'[r] = readHeader[r]
    BY <1>4
  <1>13. UNCHANGED <<objects, ops>> /\ Alone(t) /\ c.stream = s /\ c.op = o
    BY <1>1, <1>3
  <1>14. Lists'
    BY ZenonT(60), <1>2, <1>3, <1>9, <1>10, <1>11, <1>12, <1>13, ListsMoved
  <1> QED
    BY <1>4, <1>14

LEMMA PushPrevLists ==
  ASSUME IocpTypeOK, IocpTypeOK', Held, Streams, Lists, NEW t \in Thread, PushPrev(t),
         ~beside', ~dangling
  PROVE  Lists' /\ ~dangling'
  <1>1. Alone(t) /\ thread[t].at = "prev" /\ Go(t, "header") /\ UNCHANGED <<objects, ops>>
    BY MovesAlone DEF ListMove, PushPrev, ListStep, At
  <1>2. PICK s \in Object, o \in Operation : s = MyStream(t) /\ o = MyOp(t)
    BY <1>1 DEF Alone
  <1>3. PICK c \in Local : /\ thread' = [thread EXCEPT ![t] = c]
                           /\ c.at = "header" /\ c.op = o /\ c.stream = s
    BY <1>1, <1>2, Goes DEF Place, Push
  <1>4. PICK first : first = readHeader[s]
    OBVIOUS
  <1>5. /\ prevOp' = Link(prevOp, first, o) /\ UNCHANGED <<readHeader, nextOp>>
        /\ dangling' = (dangling \/ (first # null /\ state[first] = "deleted"))
        /\ prevOp \in [Operation -> Operation \cup {null}]
    BY <1>2, <1>4 DEF PushPrev, ListStep, IocpTypeOK
  <1>6. /\ reads[o] = s /\ o \notin In(s) /\ prevOp[o] = null /\ In(s) \in SUBSET Operation
        /\ PrevPhase(In(s), o, first, nextOp, prevOp)
    BY <1>1, <1>2, <1>4 DEF Alone, Push, Phase, At
  <1>7. /\ first \in In(s) \cup {null} /\ null \notin Operation
        /\ IsList(In(s), first, nextOp, prevOp) /\ nextOp[o] = first
        /\ first # null => prevOp[first] = null
    BY <1>6, IocpAssumption DEF PrevPhase, IsList
  <1>8. ~dangling'
    BY <1>5, <1>7 DEF In
  <1>9. /\ first # null => prevOp'[first] = o
        /\ \A q \in Operation : q # first => prevOp'[q] = prevOp[q]
    BY <1>5, <1>6, <1>7 DEF Link
  <1>10. \A q \in In(s) : Link(prevOp', first, null)[q] = prevOp[q]
    <2>1. prevOp' \in [Operation -> Operation \cup {null}]
      BY DEF IocpTypeOK
    <2> QED
      BY <1>6, <1>7, <1>9, <2>1 DEF Link
  <1>11. HeaderPhase(In(s), o, first, nextOp, prevOp')
    <2>1. IsList(In(s), first, nextOp, Link(prevOp', first, null))
      BY <1>7, <1>10, ListSame
    <2> QED
      BY <1>7, <1>9, <2>1 DEF HeaderPhase
  <1>12. In(s)' = In(s)
    <2>1. /\ thread'[t].op = o /\ thread'[t].at \in Passing /\ o \notin In(s)
          /\ UNCHANGED ops /\ \A u \in Thread : u # t => thread'[u] = thread[u]
      BY <1>1, <1>2, <1>3, ThreadIs DEF Passing, Push, Alone
    <2>2. In(s)' = In(s) \ {o}
      BY <1>1, <1>2, <2>1, InMoved
    <2> QED
      BY <2>1, <2>2
  <1>13. thread'[t] = c
    BY <1>3, ThreadIs
  <1>14. prevOp'[o] = null
    BY <1>6, <1>7, <1>9
  <1>15. Phase(t)'
    BY <1>3, <1>4, <1>5, <1>11, <1>12, <1>13, <1>14 DEF Phase, At, MyOp, MyStream
  <1>16. InMid(t)'
    BY <1>3, <1>13 DEF InMid, Mid
  <1>17. \A q \in Operation : reads[q] # s => nextOp'[q] = nextOp[q] /\ prevOp'[q] = prevOp[q]
    BY <1>5, <1>7, <1>9, IocpAssumption DEF In
  <1> QED
    BY <1>1, <1>2, <1>3, <1>5, <1>8, <1>15, <1>16, <1>17, ListsMoved

LEMMA PushHeaderLists ==
  ASSUME IocpTypeOK, IocpTypeOK', Held, Streams, Lists, NEW t \in Thread, PushHeader(t),
         ~beside', ~dangling
  PROVE  Lists' /\ ~dangling'
  <1>1. Alone(t) /\ thread[t].at = "header" /\ Go(t, "read") /\ UNCHANGED <<objects, ops>>
    BY MovesAlone DEF ListMove, PushHeader, ListStep, At
  <1>2. PICK s \in Object, o \in Operation : s = MyStream(t) /\ o = MyOp(t)
    BY <1>1 DEF Alone
  <1>3. PICK c \in Local : /\ thread' = [thread EXCEPT ![t] = c]
                           /\ c.at = "read" /\ c.op = o /\ c.stream = s
    BY <1>1, <1>2, Goes DEF Place
  <1>4. /\ readHeader' = [readHeader EXCEPT ![s] = o] /\ UNCHANGED <<nextOp, prevOp>>
        /\ ~dangling' /\ readHeader \in [Object -> Operation \cup {null}]
        /\ nextOp \in [Operation -> Operation \cup {null}]
        /\ prevOp \in [Operation -> Operation \cup {null}]
    BY <1>2 DEF PushHeader, ListStep, IocpTypeOK, links
  <1>5. /\ o \notin In(s) /\ prevOp[o] = null /\ In(s) \in SUBSET Operation
        /\ HeaderPhase(In(s), o, readHeader[s], nextOp, prevOp)
    BY <1>1, <1>2 DEF Alone, Push, Phase, At
  <1>6. IsList(In(s) \cup {o}, o, nextOp, prevOp)
    BY <1>4, <1>5, ListPushed
  <1>7. In(s)' = In(s) \cup {o}
    <2>1. /\ thread'[t].op = o /\ thread'[t].at \notin Passing /\ UNCHANGED ops
          /\ \A u \in Thread : u # t => thread'[u] = thread[u]
      BY <1>1, <1>3, ThreadIs DEF Passing, Push
    <2> QED
      BY <1>1, <1>2, <2>1, InMoved
  <1>8. thread'[t] = c
    BY <1>3, ThreadIs
  <1>9. Phase(t)'
    BY <1>3, <1>8 DEF Phase, At, Push
  <1>10. IsList(In(s), readHeader[s], nextOp, prevOp)'
    BY <1>4, <1>6, <1>7
  <1>11. \A r \in Object : r # s => readHeader'[r] = readHeader[r]
    BY <1>4
  <1> QED
    BY <1>1, <1>2, <1>3, <1>4, <1>9, <1>10, <1>11, ListsMoved

LEMMA PopNextLists ==
  ASSUME IocpTypeOK, IocpTypeOK', Held, Streams, Lists, NEW t \in Thread, PopNext(t),
         ~beside', ~dangling
  PROVE  Lists' /\ ~dangling'
  <1>1. Alone(t) /\ thread[t].at = "pop next" /\ Go(t, "pop prev") /\ UNCHANGED <<objects, ops>>
    BY MovesAlone DEF ListMove, PopNext, ListStep, At
  <1>2. PICK s \in Object, o \in Operation : s = MyStream(t) /\ o = MyOp(t)
    BY <1>1 DEF Alone
  <1>3. PICK c \in Local : /\ thread' = [thread EXCEPT ![t] = c]
                           /\ c.at = "pop prev" /\ c.op = o /\ c.stream = s
    BY <1>1, <1>2, Goes DEF Place, Pop
  <1>4. PICK n : n = nextOp[o]
    OBVIOUS
  <1>5. /\ prevOp' = Link(prevOp, n, prevOp[o]) /\ UNCHANGED <<readHeader, nextOp>>
        /\ dangling' = (dangling \/ (n # null /\ state[n] = "deleted"))
        /\ prevOp \in [Operation -> Operation \cup {null}]
        /\ nextOp \in [Operation -> Operation \cup {null}]
    BY <1>2, <1>4 DEF PopNext, ListStep, IocpTypeOK
  <1>6. /\ reads[o] = s /\ o \in In(s) /\ In(s) \in SUBSET Operation
        /\ IsList(In(s), readHeader[s], nextOp, prevOp)
    BY <1>1, <1>2 DEF Alone, Pop
  <1>7. n \in In(s) \cup {null} /\ null \notin Operation
    BY <1>4, <1>6, IocpAssumption DEF IsList
  <1>8. ~dangling'
    BY <1>5, <1>7 DEF In
  <1>9. PopPrevPhase(In(s), o, readHeader[s], nextOp, prevOp')
    BY <1>4, <1>5, <1>6, ListPopNext
  <1>10. thread'[t] = c /\ \A u \in Thread : u # t => thread'[u] = thread[u]
    BY <1>3, ThreadIs
  <1>11. In(s)' = In(s)
    <2>1. thread'[t].op = o /\ thread'[t].at \notin Passing /\ UNCHANGED ops
      BY <1>1, <1>3, <1>10 DEF Passing, Push
    <2>2. In(s)' = In(s) \cup {o}
      BY <1>1, <1>2, <1>10, <2>1, InMoved
    <2> QED
      BY <1>6, <2>2
  <1>12. Phase(t)'
    <2>1. /\ MyOp(t)' = o /\ MyStream(t)' = s /\ thread'[t].at = "pop prev"
          /\ readHeader'[s] = readHeader[s] /\ nextOp' = nextOp
      BY <1>3, <1>5, <1>10 DEF MyOp, MyStream
    <2> QED
      BY <1>9, <1>11, <2>1 DEF Phase, At, Push
  <1>13. InMid(t)'
    BY <1>3, <1>10 DEF InMid, Mid
  <1>14. \A q \in Operation : reads[q] # s => nextOp'[q] = nextOp[q] /\ prevOp'[q] = prevOp[q]
    BY <1>5, <1>7 DEF In, Link
  <1> QED
    BY <1>1, <1>2, <1>3, <1>5, <1>8, <1>12, <1>13, <1>14, ListsMoved

LEMMA PopPrevLists ==
  ASSUME IocpTypeOK, IocpTypeOK', Held, Streams, Lists, NEW t \in Thread, PopPrev(t),
         ~beside', ~dangling
  PROVE  Lists' /\ ~dangling'
  <1>1. Alone(t) /\ thread[t].at = "pop prev" /\ Go(t, "pop header") /\ UNCHANGED <<objects, ops>>
    BY MovesAlone DEF ListMove, PopPrev, ListStep, At
  <1>2. PICK s \in Object, o \in Operation : s = MyStream(t) /\ o = MyOp(t)
    BY <1>1 DEF Alone
  <1>3. PICK c \in Local : /\ thread' = [thread EXCEPT ![t] = c]
                           /\ c.at = "pop header" /\ c.op = o /\ c.stream = s
    BY <1>1, <1>2, Goes DEF Place, Pop
  <1>4. PICK p : p = prevOp[o]
    OBVIOUS
  <1>5. /\ nextOp' = Link(nextOp, p, nextOp[o]) /\ UNCHANGED <<readHeader, prevOp>>
        /\ dangling' = (dangling \/ (p # null /\ state[p] = "deleted"))
        /\ prevOp \in [Operation -> Operation \cup {null}]
        /\ nextOp \in [Operation -> Operation \cup {null}]
    BY <1>2, <1>4 DEF PopPrev, ListStep, IocpTypeOK
  <1>6. /\ reads[o] = s /\ o \in In(s) /\ In(s) \in SUBSET Operation
        /\ PopPrevPhase(In(s), o, readHeader[s], nextOp, prevOp)
    BY <1>1, <1>2 DEF Alone, Pop, Phase, At
  <1>7. p \in In(s) \cup {null} /\ null \notin Operation
    BY <1>4, <1>6, IocpAssumption DEF PopPrevPhase
  <1>8. ~dangling'
    BY <1>5, <1>7 DEF In
  <1>9. PopHeaderPhase(In(s), o, readHeader[s], nextOp', prevOp)
    BY <1>4, <1>5, <1>6, ListPopPrev
  <1>10. thread'[t] = c /\ \A u \in Thread : u # t => thread'[u] = thread[u]
    BY <1>3, ThreadIs
  <1>11. In(s)' = In(s)
    <2>1. thread'[t].op = o /\ thread'[t].at \notin Passing /\ UNCHANGED ops
      BY <1>1, <1>3, <1>10 DEF Passing, Push
    <2>2. In(s)' = In(s) \cup {o}
      BY <1>1, <1>2, <1>10, <2>1, InMoved
    <2> QED
      BY <1>6, <2>2
  <1>12. Phase(t)'
    <2>1. /\ MyOp(t)' = o /\ MyStream(t)' = s /\ thread'[t].at = "pop header"
          /\ readHeader'[s] = readHeader[s] /\ prevOp' = prevOp
      BY <1>3, <1>5, <1>10 DEF MyOp, MyStream
    <2> QED
      BY <1>9, <1>11, <2>1 DEF Phase, At, Push
  <1>13. InMid(t)'
    BY <1>3, <1>10 DEF InMid, Mid
  <1>14. \A q \in Operation : reads[q] # s => nextOp'[q] = nextOp[q] /\ prevOp'[q] = prevOp[q]
    BY <1>5, <1>7 DEF In, Link
  <1> QED
    BY <1>1, <1>2, <1>3, <1>5, <1>8, <1>12, <1>13, <1>14, ListsMoved

LEMMA PopHeaderLists ==
  ASSUME IocpTypeOK, IocpTypeOK', Held, Streams, Lists, NEW t \in Thread, PopHeader(t),
         ~beside', ~dangling
  PROVE  Lists' /\ ~dangling'
  <1>1. Alone(t) /\ thread[t].at = "pop header" /\ Go(t, "call") /\ UNCHANGED <<objects, ops>>
    BY MovesAlone DEF ListMove, PopHeader, ListStep, At
  <1>2. PICK s \in Object, o \in Operation : s = MyStream(t) /\ o = MyOp(t)
    BY <1>1 DEF Alone
  <1>3. PICK c \in Local : /\ thread' = [thread EXCEPT ![t] = c]
                           /\ c.at = "call" /\ c.op = o /\ c.stream = s
    BY <1>1, <1>2, Goes DEF Place
  <1>4. /\ readHeader' = IF readHeader[s] = o THEN [readHeader EXCEPT ![s] = nextOp[o]]
                                              ELSE readHeader
        /\ UNCHANGED <<nextOp, prevOp>> /\ ~dangling'
        /\ readHeader \in [Object -> Operation \cup {null}]
        /\ nextOp \in [Operation -> Operation \cup {null}]
        /\ prevOp \in [Operation -> Operation \cup {null}]
    BY <1>2 DEF PopHeader, ListStep, IocpTypeOK, links
  <1>5. /\ o \in In(s) /\ In(s) \in SUBSET Operation
        /\ PopHeaderPhase(In(s), o, readHeader[s], nextOp, prevOp)
    BY <1>1, <1>2 DEF Alone, Pop, Phase, At
  <1>6. IsList(In(s) \ {o}, IF readHeader[s] = o THEN nextOp[o] ELSE readHeader[s], nextOp, prevOp)
    BY <1>4, <1>5, ListPopped
  <1>7. /\ readHeader'[s] = IF readHeader[s] = o THEN nextOp[o] ELSE readHeader[s]
        /\ \A r \in Object : r # s => readHeader'[r] = readHeader[r]
    BY <1>4
  <1>8. thread'[t] = c /\ \A u \in Thread : u # t => thread'[u] = thread[u]
    BY <1>3, ThreadIs
  <1>9. In(s)' = In(s) \ {o}
    <2>1. thread'[t].op = o /\ thread'[t].at \in Passing /\ UNCHANGED ops
      BY <1>1, <1>3, <1>8 DEF Passing
    <2> QED
      BY <1>1, <1>2, <1>8, <2>1, InMoved
  <1>10. Phase(t)'
    BY <1>3, <1>8 DEF Phase, At, Push
  <1>11. IsList(In(s), readHeader[s], nextOp, prevOp)'
    BY <1>4, <1>6, <1>7, <1>9
  <1> QED
    BY <1>1, <1>2, <1>3, <1>4, <1>7, <1>10, <1>11, ListsMoved

-----------------------------------------------------------------------------
(* The invariant. *)

LEMMA IocpInvInit == IocpInit => IocpInv
  <1> SUFFICES ASSUME IocpInit PROVE IocpInv
    OBVIOUS
  <1>1. IocpTypeOK /\ Held
    BY HeldInit
  <1>2. \A t \in Thread : thread[t].at = "idle"
    BY DEF IocpInit, AtRest
  <1>3. Streams
    BY <1>2 DEF IocpInit, Streams, Apart, OneSets, Sets, Registered, Belongs, WorksOn, At, Push, Pop
  <1>4. Lists
    BY <1>2 DEF IocpInit, Lists, OneInside, ListOf, Fresh, Phase, InMid, Mid, At, Push
  <1>5. ~dangling
    BY DEF IocpInit
  <1> QED
    BY <1>1, <1>3, <1>4, <1>5 DEF IocpInv

\* As long as nothing went wrong, no step but one inside of a list writes into an operation.
LEMMA QuietNext ==
  ASSUME IocpTypeOK, IocpTypeOK', Held, Streams, Lists, ~dangling, NEW t \in Thread,
         Script(t) \/ Service(t), Quiet'
  PROVE  ~dangling' /\ Streams' /\ Lists'
  <1>1. CASE ListMove(t)
    <2>1. Streams'
      BY <1>1, ListMoveStreams
    <2>2. Lists' /\ ~dangling'
      BY <1>1, PushNextLists, PushPrevLists, PushHeaderLists, PopNextLists, PopPrevLists,
         PopHeaderLists DEF ListMove, Quiet
    <2> QED
      BY <2>1, <2>2
  <1>2. CASE \/ ReadFile(t) \/ EnterRunOne(t) \/ Take(t) \/ TimedOut(t) \/ PostAll(t)
             \/ Valid(t) \/ Invalid(t) \/ Call(t)
    <2>1. UNCHANGED dangling
      BY <1>2 DEF ReadFile, EnterRunOne, Take, TimedOut, PostAll, Valid, Invalid, Call, past
    <2> QED
      BY <1>2, <2>1, OtherStreams, OtherLists
  <1>3. ASSUME NEW s \in Object, Open(t, s) PROVE ~dangling' /\ Streams' /\ Lists'
    BY <1>3, OpenStreams, OpenLists DEF Open
  <1>4. ASSUME NEW s \in Object, Close(t, s) PROVE ~dangling' /\ Streams' /\ Lists'
    <2>1. UNCHANGED dangling
      BY <1>4 DEF Close, past
    <2> QED
      BY <1>4, <2>1, CloseStreams, CloseLists
  <1>5. ASSUME NEW s \in Object, Read(t, s) PROVE ~dangling' /\ Streams' /\ Lists'
    <2>1. UNCHANGED dangling
      BY <1>5 DEF Read, past
    <2> QED
      BY <1>5, <2>1, ReadStreams, ReadLists
  <1>6. CASE Register(t) \/ Unregistered(t)
    <2>1. UNCHANGED dangling
      BY <1>6 DEF Register, Unregistered, SetHandler, past
    <2> QED
      BY <1>6, <2>1, RegisterStreams, RegisterLists
  <1> QED
    BY <1>1, <1>2, <1>3, <1>4, <1>5, <1>6 DEF Script, Service, ListMove

LEMMA IocpInvNext == IocpInv /\ [IocpNext]_iocpVars => IocpInv'
  <1> SUFFICES ASSUME IocpInv, [IocpNext]_iocpVars PROVE IocpInv'
    OBVIOUS
  <1>1. IocpTypeOK /\ Held /\ IocpTypeOK' /\ Held'
    BY HeldNext DEF IocpInv
  <1>2. CASE UNCHANGED iocpVars
    <2>1. Streams => Streams'
      BY <1>2 DEF iocpVars, objects, ops, Streams, Apart, OneSets, Sets, Registered, Belongs,
                  WorksOn, At, MyOp, MyStream
    <2>2. Lists => Lists'
      BY <1>2 DEF iocpVars, objects, links, ops, Lists, OneInside, ListOf, Fresh, Phase, InMid,
                  Calm,
                  In, Out, At, MyOp, MyStream
    <2> QED
      BY <1>1, <1>2, <2>1, <2>2 DEF IocpInv, Quiet, iocpVars, past
  <1>3. ASSUME NEW t \in Thread, Script(t) \/ Service(t) PROVE IocpInv'
    <2>1. Quiet' => Quiet
      BY <1>3 DEF Script, Service, Quiet, past, Open, Register, Unregistered, SetHandler, Close,
                  Read, PushNext, PushPrev, PushHeader, PopNext, PopPrev, PopHeader, ListStep,
                  ReadFile,
                  EnterRunOne, Take, TimedOut, PostAll, Valid, Invalid, Call
    <2>2. Quiet' => ~dangling' /\ Streams' /\ Lists'
      BY <1>1, <1>3, <2>1, QuietNext DEF IocpInv
    <2> QED
      BY <1>1, <2>2 DEF IocpInv
  <1>4. ASSUME NEW o \in Operation, IoDone(o) PROVE IocpInv'
    <2>1. UNCHANGED past
      BY <1>4 DEF IoDone
    <2>2. (Quiet' <=> Quiet) /\ dangling' = dangling
      BY <2>1 DEF Quiet, past
    <2> QED
      BY <1>1, <1>4, <2>2, IoDoneStreams, IoDoneLists DEF IocpInv
  <1> QED
    BY <1>2, <1>3, <1>4 DEF IocpNext

\* Memory of a deleted operation is touched only after a read ran beside another thread in
\* the stream's list, or after a handle was given away before the old stream was
\* unregistered or with operations on it left (iocp_io_object.hpp:97-128,
\* iocp_io_service.hpp:160-174): reads and completions of one stream that take turns, on
\* handles that are not given again too early, never meet a deleted operation.
THEOREM NothingDanglesAlone == IocpSpec => []DanglingHasCause
  <1>1. IocpInv => DanglingHasCause
    BY DEF IocpInv, Quiet, DanglingHasCause
  <1> QED
    BY <1>1, IocpInvInit, IocpInvNext, PTL DEF IocpSpec

=============================================================================
