-------------------------- MODULE StreamBusProofs --------------------------
(***************************************************************************)
(* For any topics, handlers and capacity: the bus implements the ordered   *)
(* channel, and every handler sees the events of a topic in order, once.   *)
(***************************************************************************)
EXTENDS StreamBus, SequenceTheorems, TLAPS

-----------------------------------------------------------------------------
(* Sequences as queues *)

\* Putting an event at the end of a queue.
LEMMA Appended ==
    ASSUME NEW S, NEW s \in Seq(S), NEW e \in S
    PROVE  /\ Append(s, e) \in Seq(S)
           /\ Len(Append(s, e)) = Len(s) + 1 /\ Len(s) \in Nat
           /\ DOMAIN s = 1 .. Len(s)
           /\ DOMAIN Append(s, e) = 1 .. Len(s) + 1
           /\ \A j \in 1 .. Len(s) : Append(s, e)[j] = s[j]
           /\ Append(s, e)[Len(s) + 1] = e
  BY AppendProperties, LenProperties

\* Getting the event at the head of a queue.
LEMMA Removed ==
    ASSUME NEW S, NEW s \in Seq(S), s # <<>>
    PROVE  /\ Head(s) \in S /\ Tail(s) \in Seq(S)
           /\ Len(s) \in Nat \ {0}
           /\ DOMAIN s = 1 .. Len(s)
           /\ DOMAIN Tail(s) = 1 .. Len(s) - 1
           /\ Len(Tail(s)) = Len(s) - 1
           /\ Head(s) = s[1]
           /\ \A j \in 1 .. Len(s) - 1 : Tail(s)[j] = s[j + 1]
  BY HeadTailProperties, LenProperties, EmptySeq

\* What is appended to the queue is appended to the whole history.
LEMMA AppendToRest ==
    ASSUME NEW S, NEW s \in Seq(S), NEW t \in Seq(S), NEW e \in S
    PROVE  Append(s \o t, e) = s \o Append(t, e)
<1>1. s \o t \in Seq(S) /\ <<e>> \in Seq(S)
  BY ConcatProperties
<1>2. Append(s \o t, e) = (s \o t) \o <<e>>
  BY <1>1, AppendIsConcat
<1>3. Append(t, e) = t \o <<e>>
  BY AppendIsConcat
<1>4. QED
  BY <1>1, <1>2, <1>3, ConcatAssociative

\* What is taken from the head of the queue moves to the end of what was taken.
LEMMA TakeFromRest ==
    ASSUME NEW S, NEW s \in Seq(S), NEW t \in Seq(S), t # <<>>
    PROVE  /\ s \o t = Append(s, Head(t)) \o Tail(t)
           /\ Len(s) < Len(s \o t)
           /\ (s \o t)[Len(s) + 1] = Head(t)
<1>1. Head(t) \in S /\ Tail(t) \in Seq(S) /\ Len(t) \in Nat \ {0} /\ t[1] = Head(t)
  BY Removed
<1>2. Len(s) \in Nat
  BY LenProperties
<1>3. Len(s \o t) = Len(s) + Len(t) /\ s \o t \in Seq(S)
  BY ConcatProperties
<1>4. \A j \in 1 .. Len(s) + Len(t) :
         (s \o t)[j] = IF j <= Len(s) THEN s[j] ELSE t[j - Len(s)]
  BY ConcatProperties
<1>5. (s \o t)[Len(s) + 1] = Head(t)
  <2>1. Len(s) + 1 \in 1 .. Len(s) + Len(t) /\ ~(Len(s) + 1 <= Len(s)) /\ (Len(s) + 1) - Len(s) = 1
    BY <1>1, <1>2
  <2>2. QED
    BY <1>1, <1>4, <2>1
<1>6. s \o t = Append(s, Head(t)) \o Tail(t)
  <2> DEFINE u == Append(s, Head(t))
             r == Tail(t)
  <2>1. /\ u \in Seq(S) /\ Len(u) = Len(s) + 1
        /\ \A j \in 1 .. Len(s) : u[j] = s[j]
        /\ u[Len(s) + 1] = Head(t)
    BY <1>1, Appended
  <2>2. r \in Seq(S) /\ Len(r) = Len(t) - 1 /\ \A j \in 1 .. Len(t) - 1 : r[j] = t[j + 1]
    BY Removed
  <2> HIDE DEF u, r
  <2>3. u \o r \in Seq(S) /\ Len(u \o r) = Len(u) + Len(r)
    BY <2>1, <2>2, ConcatProperties
  <2>4. \A j \in 1 .. Len(u) + Len(r) :
           (u \o r)[j] = IF j <= Len(u) THEN u[j] ELSE r[j - Len(u)]
    BY <2>1, <2>2, ConcatProperties
  <2>5. Len(s \o t) = Len(u \o r)
    BY <1>1, <1>2, <1>3, <2>1, <2>2, <2>3
  <2>6. ASSUME NEW j \in 1 .. Len(s \o t) PROVE (s \o t)[j] = (u \o r)[j]
    <3>1. CASE j <= Len(s)
      BY <3>1, <1>1, <1>2, <1>3, <1>4, <2>1, <2>2, <2>4
    <3>2. CASE j = Len(s) + 1
      BY <3>2, <1>1, <1>2, <1>3, <1>5, <2>1, <2>2, <2>4
    <3>3. CASE j > Len(s) + 1
      <4>1. (s \o t)[j] = t[j - Len(s)]
        BY <3>3, <1>1, <1>2, <1>3, <1>4
      <4>2. (u \o r)[j] = r[j - (Len(s) + 1)]
        BY <3>3, <1>1, <1>2, <1>3, <2>1, <2>2, <2>4
      <4>3. j - (Len(s) + 1) \in 1 .. Len(t) - 1 /\ (j - (Len(s) + 1)) + 1 = j - Len(s)
        BY <3>3, <1>1, <1>2, <1>3
      <4>4. QED
        BY <4>1, <4>2, <4>3, <2>2
    <3>4. j \in Int /\ (j <= Len(s) \/ j = Len(s) + 1 \/ j > Len(s) + 1)
      BY <1>2
    <3>5. QED
      BY <3>1, <3>2, <3>3, <3>4
  <2>7. s \o t = u \o r
    BY <1>3, <2>3, <2>5, <2>6, SeqEqual
  <2>8. QED
    BY <2>7 DEF u, r
<1>7. QED
  BY <1>1, <1>2, <1>3, <1>5, <1>6

-----------------------------------------------------------------------------
(* Types, and the queue as the rest of what was accepted *)

\* What a publisher or stop puts is an event.
LEMMA PutTypes ==
    ASSUME TypeOK, QueueIsRest, NEW e \in Event, Room, Put(e)
    PROVE  /\ q' \in Seq(Event) /\ Len(q') <= Maxsize
           /\ log' \in Seq(Event) /\ log' = taken \o q'
<1> USE StreamBusAssumption DEF TypeOK, Room, Put, QueueIsRest
<1>1. q' \in Seq(Event) /\ Len(q') = Len(q) + 1 /\ Len(q) \in Nat
  BY Appended
<1>2. log' \in Seq(Event)
  BY Appended
<1>3. Append(taken \o q, e) = taken \o Append(q, e)
  <2> HIDE DEF TypeOK, QueueIsRest, Put
  <2>1. taken \in Seq(Event) /\ q \in Seq(Event)
    BY DEF TypeOK
  <2>2. QED
    BY <2>1, AppendToRest
<1>4. log' = taken \o q'
  BY <1>3
<1>5. QED
  BY <1>1, <1>2, <1>4

\* The initial state: nothing published, no consumer.
LEMMA InitRest == Init => TypeOK /\ QueueIsRest
<1> SUFFICES ASSUME Init PROVE TypeOK /\ QueueIsRest
  OBVIOUS
<1> USE StreamBusAssumption DEF Init
<1>1. <<>> \in Seq(Event) /\ <<>> \in Seq(Handlers) /\ Len(<<>>) = 0
  BY EmptySeq
<1>2. left \in [event : Event, handlers : Seq(Handlers)]
  BY <1>1 DEF NoWork, Sentinel, Event
<1>3. count \in [Topics -> Nat] /\ seen \in [Handlers -> Seq(Event)]
  BY <1>1
<1>4. QueueIsRest
  BY <1>1, ConcatEmptySeq DEF QueueIsRest
<1>5. q \in Seq(Event) /\ Len(q) <= Maxsize /\ log \in Seq(Event) /\ taken \in Seq(Event)
  BY <1>1
<1>6. TypeOK
  BY <1>2, <1>3, <1>5 DEF TypeOK
<1>7. QED
  BY <1>4, <1>6

\* Every step keeps the types, and log what was taken followed by the queue.
LEMMA NextRest == TypeOK /\ QueueIsRest /\ [Next]_vars => TypeOK' /\ QueueIsRest'
<1> SUFFICES ASSUME TypeOK, QueueIsRest, [Next]_vars PROVE TypeOK' /\ QueueIsRest'
  OBVIOUS
<1> USE StreamBusAssumption
<1>1. ASSUME NEW t \in Topics, Publish(t) PROVE TypeOK' /\ QueueIsRest'
  <2>1. count' \in [Topics -> Nat] /\ [topic |-> t, n |-> count'[t]] \in Event
    BY <1>1 DEF Publish, TypeOK, Event
  <2>2. CASE Room /\ Put([topic |-> t, n |-> count'[t]]) /\ UNCHANGED waiting
    BY <1>1, <2>1, <2>2, PutTypes DEF Publish, TypeOK, QueueIsRest
  <2>3. CASE ~Room /\ waiting' = waiting \cup {t} /\ UNCHANGED <<q, log>>
    BY <1>1, <2>1, <2>3 DEF Publish, TypeOK, QueueIsRest
  <2>4. QED
    BY <1>1, <2>2, <2>3 DEF Publish
<1>2. ASSUME NEW t \in Topics, PublishResumes(t) PROVE TypeOK' /\ QueueIsRest'
  <2>1. [topic |-> t, n |-> count[t]] \in Event
    BY DEF TypeOK, Event
  <2>2. QED
    BY <1>2, <2>1, PutTypes DEF PublishResumes, TypeOK, QueueIsRest
<1>3. CASE CloseStreams \/ OpenStreams
  BY <1>3 DEF CloseStreams, OpenStreams, TypeOK, QueueIsRest, history
<1>4. CASE Get
  <2>1. q # <<>> /\ q \in Seq(Event) /\ taken \in Seq(Event)
    BY <1>4 DEF Get, TypeOK
  <2>2. /\ Head(q) \in Event /\ Tail(q) \in Seq(Event)
        /\ Len(Tail(q)) = Len(q) - 1 /\ Len(q) \in Nat
    BY <2>1, Removed
  <2>3. Append(taken, Head(q)) \in Seq(Event)
    BY <2>1, <2>2, Appended
  <2>4. taken \o q = Append(taken, Head(q)) \o Tail(q)
    BY <2>1, TakeFromRest
  <2>5. HandlersOf(Head(q)) \in Seq(Handlers)
    BY EmptySeq DEF HandlersOf
  <2>6. left' \in [event : Event, handlers : Seq(Handlers)]
    BY <1>4, <2>2, <2>5 DEF Get
  <2>7. QED
    BY <1>4, <2>2, <2>3, <2>4, <2>6 DEF Get, TypeOK, QueueIsRest
<1>5. CASE HandlerReturns \/ HandlerRaises
  <2>1. left.handlers # <<>> /\ left.handlers \in Seq(Handlers) /\ left.event \in Event
    BY <1>5 DEF HandlerReturns, HandlerRaises, TypeOK
  <2>2. Head(left.handlers) \in Handlers /\ Tail(left.handlers) \in Seq(Handlers)
    BY <2>1, Removed
  <2>3. Append(seen[Head(left.handlers)], left.event) \in Seq(Event)
    BY <2>1, <2>2, Appended DEF TypeOK
  <2>4. Called \in [Handlers -> Seq(Event)]
    BY <2>2, <2>3 DEF Called, TypeOK
  <2>5. left' \in [event : Event, handlers : Seq(Handlers)]
    BY <1>5, <2>1, <2>2, EmptySeq DEF HandlerReturns, HandlerRaises, TypeOK
  <2>6. QED
    BY <1>5, <2>4, <2>5 DEF HandlerReturns, HandlerRaises, TypeOK, QueueIsRest
<1>6. CASE LoopTurns
  <2>1. NoWork \in [event : Event, handlers : Seq(Handlers)]
    BY EmptySeq DEF NoWork, Sentinel, Event
  <2>2. QED
    BY <1>6, <2>1 DEF LoopTurns, TypeOK, QueueIsRest, history
<1>7. CASE Start \/ StopReturns
  BY <1>7 DEF Start, StopReturns, TypeOK, QueueIsRest, history
<1>8. Sentinel \in Event
  BY DEF Sentinel, Event
<1>9. CASE Stop
  <2>1. CASE Room /\ Put(Sentinel) /\ stopper' = "join"
    BY <1>9, <1>8, <2>1, PutTypes DEF Stop, TypeOK, QueueIsRest
  <2>2. CASE ~Room /\ stopper' = "put" /\ UNCHANGED <<q, log>>
    BY <1>9, <2>2 DEF Stop, TypeOK, QueueIsRest
  <2>3. QED
    BY <1>9, <2>1, <2>2 DEF Stop
<1>10. CASE StopResumes
  BY <1>10, <1>8, PutTypes DEF StopResumes, TypeOK, QueueIsRest
<1>11. CASE UNCHANGED vars
  BY <1>11 DEF vars, TypeOK, QueueIsRest
<1>12. QED
  BY <1>1, <1>2, <1>3, <1>4, <1>5, <1>6, <1>7, <1>9, <1>10, <1>11
     DEF Next, StreamStep, LoopStep, StopStep

\* The queue is always what was accepted and not yet taken.
LEMMA SpecRest == Spec => [](TypeOK /\ QueueIsRest)
  BY InitRest, NextRest, PTL DEF Spec

\* The attributes of StreamBus and the history keep their types.
THEOREM BusTypeOK == Spec => []TypeOK
  BY SpecRest, PTL

-----------------------------------------------------------------------------
(* The bus implements the ordered channel *)

\* Putting an event is an Accept, getting one a Take, everything else a stutter.
LEMMA StepMaps == TypeOK /\ QueueIsRest /\ [Next]_vars => [Channel!Next]_<<log, taken>>
<1> SUFFICES ASSUME TypeOK, QueueIsRest, [Next]_vars PROVE [Channel!Next]_<<log, taken>>
  OBVIOUS
<1>1. ASSUME NEW e \in Event, Put(e), UNCHANGED taken PROVE Channel!Accept
  <2>1. log \in Seq(Event) /\ log' = Append(log, e)
    BY <1>1 DEF TypeOK, Put
  <2>2. log' # <<>> /\ Len(log') = Len(log) + 1 /\ log'[Len(log) + 1] = e
    BY <2>1, AppendProperties
  <2>3. QED
    BY <1>1, <2>1, <2>2 DEF Channel!Accept
<1>2. CASE Get
  <2>1. q # <<>> /\ q \in Seq(Event) /\ taken \in Seq(Event) /\ log = taken \o q
    BY <1>2 DEF Get, TypeOK, QueueIsRest
  <2>2. Len(taken) < Len(log) /\ log[Len(taken) + 1] = Head(q)
    BY <2>1, TakeFromRest
  <2>3. Channel!Take
    BY <1>2, <2>2 DEF Get, Channel!Take
  <2>4. QED
    BY <2>3 DEF Channel!Next
<1>3. ASSUME NEW t \in Topics, Publish(t) \/ PublishResumes(t)
      PROVE  Channel!Accept \/ UNCHANGED <<log, taken>>
  <2>1. CASE UNCHANGED log
    BY <1>3, <2>1 DEF Publish, PublishResumes
  <2>2. ASSUME NEW n \in Nat, Put([topic |-> t, n |-> n]) PROVE Channel!Accept
    <3>1. [topic |-> t, n |-> n] \in Event
      BY DEF Event
    <3>2. QED
      BY <1>1, <1>3, <2>2, <3>1 DEF Publish, PublishResumes
  <2>3. count[t] \in Nat /\ (Publish(t) => count'[t] \in Nat)
    BY DEF Publish, TypeOK
  <2>4. QED
    BY <1>3, <2>1, <2>2, <2>3 DEF Publish, PublishResumes
<1>4. CASE Stop \/ StopResumes
  <2>1. Sentinel \in Event
    BY DEF Sentinel, Event
  <2>2. QED
    BY <1>1, <1>4, <2>1 DEF Stop, StopResumes, Channel!Next
<1>5. CASE \/ CloseStreams \/ OpenStreams \/ HandlerReturns \/ HandlerRaises
           \/ LoopTurns \/ Start \/ StopReturns \/ UNCHANGED vars
  BY <1>5 DEF CloseStreams, OpenStreams, HandlerReturns, HandlerRaises, LoopTurns,
              Start, StopReturns, vars, history
<1>6. QED
  BY <1>2, <1>3, <1>4, <1>5 DEF Next, StreamStep, LoopStep, StopStep, Channel!Next

\* The bus implements the ordered channel: publish, the loop, stop and restarts drop,
\* double and reorder nothing, for any capacity of the queue.
THEOREM BusIsOrderedChannel == Spec => IsOrderedChannel
<1>1. Init => Channel!Init
  BY DEF Init, Channel!Init
<1>2. QED
  BY <1>1, StepMaps, SpecRest, PTL DEF Spec, IsOrderedChannel, Channel!Spec

-----------------------------------------------------------------------------
(* Handlers see the events of a topic in order *)

Older(e, f) == e.topic = f.topic => e.n < f.n

\* The number of e has been given out, and not to the publisher that is held back.
Counted(e) ==
    e.topic \in Topics => /\ e.n <= count[e.topic]
                          /\ e.topic \in waiting => e.n < count[e.topic]

\* Everything that is still to come is newer than e.
Ahead(e) == Counted(e) /\ \A k \in DOMAIN q : Older(e, q[k])

QueueOrdered ==
    /\ \A j \in DOMAIN q : Counted(q[j])
    /\ \A j, k \in DOMAIN q : j < k /\ q[j].topic \in Topics => Older(q[j], q[k])

SeenAhead ==
    \A h \in Handlers : \A j \in DOMAIN seen[h] :
        seen[h][j].topic \in Topics /\ Ahead(seen[h][j])

\* The handlers left to call are different and have not seen the event.
LeftUnseen ==
    left.handlers # <<>> =>
        /\ left.event.topic \in Topics /\ Ahead(left.event)
        /\ \A j, k \in DOMAIN left.handlers :
              j # k => left.handlers[j] # left.handlers[k]
        /\ \A k \in DOMAIN left.handlers : \A j \in DOMAIN seen[left.handlers[k]] :
              Older(seen[left.handlers[k]][j], left.event)

OrderInv == QueueOrdered /\ SeenAhead /\ LeftUnseen /\ InOrder

\* The initial state: nothing in the queue, nothing seen.
LEMMA InitOrder == Init => OrderInv
<1> SUFFICES ASSUME Init PROVE OrderInv
  OBVIOUS
<1> USE DEF Init
<1>1. DOMAIN <<>> = {}
  BY EmptySeq, LenProperties
<1>2. \A h \in Handlers : DOMAIN seen[h] = {}
  BY <1>1
<1>3. left.handlers = <<>>
  BY DEF NoWork
<1>4. QED
  BY <1>1, <1>2, <1>3 DEF OrderInv, QueueOrdered, SeenAhead, LeftUnseen, InOrder

\* An event whose number is newer than all that are counted, or the sentinel, may be
\* put: it is newer than the queue, the event handled and all that was seen.
LEMMA PutOrder ==
    ASSUME TypeOK, OrderInv, NEW e \in Event, Put(e), UNCHANGED <<left, seen>>,
           count' \in [Topics -> Nat],
           \A t \in Topics : count[t] <= count'[t] /\ (t \in waiting' => t \in waiting),
           e.topic \in Topics =>
               /\ e.topic \notin waiting' /\ e.n = count'[e.topic]
               /\ e.topic \in waiting \/ count[e.topic] < e.n
    PROVE  OrderInv'
<1> USE DEF Put, TypeOK
<1>1. /\ DOMAIN q = 1 .. Len(q) /\ DOMAIN q' = 1 .. Len(q) + 1 /\ Len(q) \in Nat
      /\ \A j \in 1 .. Len(q) : q'[j] = q[j] /\ q[j] \in Event
      /\ q'[Len(q) + 1] = e
  BY Appended, ElementOfSeq
<1>2. ASSUME NEW f \in Event, Counted(f) PROVE Counted(f)'
  BY <1>2 DEF Counted, Event
<1>3. ASSUME NEW f \in Event, Counted(f), f.topic \in Topics PROVE Older(f, e)
  BY <1>3 DEF Counted, Older, Event
<1>4. ASSUME NEW f \in Event, Ahead(f), f.topic \in Topics PROVE Ahead(f)'
  BY <1>1, <1>2, <1>3, <1>4 DEF Ahead, Older
<1>5. Counted(e)'
  BY DEF Counted, Event
<1>6. QueueOrdered'
  <2>1. ASSUME NEW j \in DOMAIN q', NEW f \in Event, f = q'[j] PROVE Counted(f)'
    <3>1. CASE j = Len(q) + 1
      BY <1>1, <1>5, <2>1, <3>1 DEF Counted
    <3>2. CASE j \in 1 .. Len(q)
      <4>1. f = q[j] /\ Counted(f)
        BY <1>1, <2>1, <3>2 DEF OrderInv, QueueOrdered
      <4>2. QED
        BY <1>2, <4>1
    <3>3. j = Len(q) + 1 \/ j \in 1 .. Len(q)
      BY <1>1
    <3>4. QED
      BY <3>1, <3>2, <3>3
  <2>2. ASSUME NEW j \in DOMAIN q', NEW k \in DOMAIN q', j < k, q'[j].topic \in Topics
        PROVE  Older(q'[j], q'[k])
    <3>1. j \in 1 .. Len(q) /\ q'[j] = q[j] /\ q[j] \in Event /\ Counted(q[j])
      BY <1>1, <2>2 DEF OrderInv, QueueOrdered
    <3>2. CASE k = Len(q) + 1
      BY <1>1, <1>3, <2>2, <3>1, <3>2
    <3>3. CASE k \in 1 .. Len(q)
      BY <1>1, <2>2, <3>1, <3>3 DEF OrderInv, QueueOrdered
    <3>4. QED
      BY <1>1, <3>2, <3>3
  <2>3. (\A j \in DOMAIN q : Counted(q[j]))'
    <3>1. \A j \in DOMAIN q' : q'[j] \in Event
      BY <1>1
    <3>2. QED
      BY <2>1, <3>1 DEF Counted
  <2>4. \A j, k \in DOMAIN q' : j < k /\ q'[j].topic \in Topics => Older(q'[j], q'[k])
    BY <2>2
  <2>5. QED
    BY <2>3, <2>4 DEF QueueOrdered, Older
<1>7. ASSUME NEW h \in Handlers, NEW j \in DOMAIN seen[h] PROVE seen[h][j] \in Event
  BY LenProperties, ElementOfSeq
<1>8. SeenAhead'
  BY <1>4, <1>7 DEF OrderInv, SeenAhead, Ahead, Counted, Older
<1>9. LeftUnseen'
  BY <1>4 DEF OrderInv, LeftUnseen, Ahead, Counted, Older
<1>10. InOrder'
  BY DEF OrderInv, InOrder
<1>11. QED
  BY <1>6, <1>8, <1>9, <1>10 DEF OrderInv

\* A step that leaves queue and handlers alone, and gives out a new number to every
\* publisher it suspends.
LEMMA KeepOrder ==
    ASSUME TypeOK, OrderInv, UNCHANGED <<q, left, seen>>, count' \in [Topics -> Nat],
           \A t \in Topics :
               /\ count[t] <= count'[t]
               /\ t \in waiting' => t \in waiting \/ count[t] < count'[t]
    PROVE  OrderInv'
<1>1. ASSUME NEW f \in Event, Counted(f) PROVE Counted(f)'
  BY <1>1 DEF Counted, Event, TypeOK
<1>2. \A j \in DOMAIN q : q[j] \in Event
  BY LenProperties, ElementOfSeq DEF TypeOK
<1>3. \A h \in Handlers : \A j \in DOMAIN seen[h] : seen[h][j] \in Event
  BY LenProperties, ElementOfSeq DEF TypeOK
<1>4. QueueOrdered'
  BY <1>1, <1>2 DEF OrderInv, QueueOrdered, Counted, Older
<1>5. ASSUME NEW f \in Event, Ahead(f) PROVE Ahead(f)'
  BY <1>1, <1>5 DEF Ahead, Older
<1>6. SeenAhead'
  BY <1>3, <1>5 DEF OrderInv, SeenAhead, Ahead, Counted, Older
<1>7. left.event \in Event
  BY DEF TypeOK
<1>8. LeftUnseen'
  BY <1>5, <1>7 DEF OrderInv, LeftUnseen, Ahead, Counted, Older
<1>9. InOrder'
  BY DEF OrderInv, InOrder
<1>10. QED
  BY <1>4, <1>6, <1>8, <1>9 DEF OrderInv

\* The handler that is called next sees an event newer than all it has seen.
LEMMA CalledOrder ==
    ASSUME TypeOK, OrderInv, left.handlers # <<>>, seen' = Called,
           UNCHANGED <<q, count, waiting>>
    PROVE  SeenAhead' /\ InOrder'
<1> DEFINE h == Head(left.handlers)
<1>1. /\ h \in Handlers /\ h = left.handlers[1] /\ 1 \in DOMAIN left.handlers
      /\ left.event \in Event /\ seen[h] \in Seq(Event)
  BY Removed DEF TypeOK
<1>2. seen' = [seen EXCEPT ![h] = Append(seen[h], left.event)]
  BY DEF Called
<1>3. /\ DOMAIN seen[h] = 1 .. Len(seen[h]) /\ Len(seen[h]) \in Nat
      /\ DOMAIN seen'[h] = 1 .. Len(seen[h]) + 1
      /\ \A j \in 1 .. Len(seen[h]) : seen'[h][j] = seen[h][j]
      /\ seen'[h][Len(seen[h]) + 1] = left.event
  <2> HIDE DEF h
  <2>1. seen'[h] = Append(seen[h], left.event)
    BY <1>1, <1>2 DEF TypeOK
  <2>2. QED
    BY <1>1, <2>1, Appended
<1>4. \A g \in Handlers : g # h => seen'[g] = seen[g]
  BY <1>2 DEF TypeOK
<1>5. left.event.topic \in Topics /\ Ahead(left.event)
  BY DEF OrderInv, LeftUnseen
<1>6. \A j \in DOMAIN seen[h] : Older(seen[h][j], left.event)
  BY <1>1 DEF OrderInv, LeftUnseen
<1> HIDE DEF h
<1>7. ASSUME NEW g \in Handlers, NEW j \in DOMAIN seen'[g]
      PROVE  seen'[g][j].topic \in Topics /\ Ahead(seen'[g][j])
  <2>1. CASE g # h \/ j \in 1 .. Len(seen[h])
    BY <1>1, <1>3, <1>4, <1>7, <2>1 DEF OrderInv, SeenAhead
  <2>2. CASE g = h /\ j = Len(seen[h]) + 1
    BY <1>3, <1>5, <2>2
  <2>3. g # h \/ j \in 1 .. Len(seen[h]) \/ j = Len(seen[h]) + 1
    BY <1>3, <1>7
  <2>4. QED
    BY <2>1, <2>2, <2>3
<1>8. SeenAhead'
  BY <1>7 DEF SeenAhead, Ahead, Counted, Older
<1>9. ASSUME NEW g \in Handlers, NEW j \in DOMAIN seen'[g], NEW k \in DOMAIN seen'[g],
             j < k, seen'[g][j].topic = seen'[g][k].topic
      PROVE  seen'[g][j].n < seen'[g][k].n
  <2>1. CASE g # h
    BY <1>4, <1>9, <2>1 DEF OrderInv, InOrder
  <2>2. CASE g = h /\ k \in 1 .. Len(seen[h])
    <3>1. j \in 1 .. Len(seen[h]) /\ k \in 1 .. Len(seen[h])
      BY <1>3, <1>9, <2>2
    <3>2. seen'[g][j] = seen[h][j] /\ seen'[g][k] = seen[h][k]
      BY <1>3, <2>2, <3>1
    <3>3. QED
      BY <1>1, <1>3, <1>9, <3>1, <3>2 DEF OrderInv, InOrder
  <2>3. CASE g = h /\ k = Len(seen[h]) + 1
    <3>1. j \in 1 .. Len(seen[h])
      BY <1>3, <1>9, <2>3
    <3>2. seen'[g][j] = seen[h][j] /\ seen'[g][k] = left.event
      BY <1>3, <2>3, <3>1
    <3>3. QED
      BY <1>3, <1>6, <1>9, <3>1, <3>2 DEF Older
  <2>4. g # h \/ k \in 1 .. Len(seen[h]) \/ k = Len(seen[h]) + 1
    BY <1>3, <1>9
  <2>5. QED
    BY <2>1, <2>2, <2>3, <2>4
<1>10. InOrder'
  BY <1>9 DEF InOrder
<1>11. QED
  BY <1>8, <1>10

\* Every step keeps the events in order.
LEMMA NextOrder == TypeOK /\ TypeOK' /\ OrderInv /\ [Next]_vars => OrderInv'
<1> SUFFICES ASSUME TypeOK, TypeOK', OrderInv, [Next]_vars PROVE OrderInv'
  OBVIOUS
<1> USE StreamBusAssumption
<1>1. ASSUME NEW t \in Topics, Publish(t) PROVE OrderInv'
  <2> DEFINE e == [topic |-> t, n |-> count'[t]]
  <2>1. /\ e \in Event /\ e.topic = t /\ e.n = count'[t]
        /\ count' \in [Topics -> Nat] /\ count[t] < count'[t]
        /\ \A u \in Topics : count[u] <= count'[u]
        /\ t \notin waiting /\ UNCHANGED <<left, seen>>
    BY <1>1 DEF Publish, TypeOK, Event
  <2> HIDE DEF e
  <2>2. CASE Room /\ Put(e) /\ UNCHANGED waiting
    BY <2>1, <2>2, PutOrder
  <2>3. CASE waiting' = waiting \cup {t} /\ UNCHANGED <<q, log>>
    BY <2>1, <2>3, KeepOrder
  <2>4. QED
    BY <1>1, <2>2, <2>3 DEF Publish, e
<1>2. ASSUME NEW t \in Topics, PublishResumes(t) PROVE OrderInv'
  <2> DEFINE e == [topic |-> t, n |-> count[t]]
  <2>1. /\ e \in Event /\ e.topic = t /\ e.n = count'[t] /\ Put(e)
        /\ UNCHANGED <<count, left, seen>> /\ count \in [Topics -> Nat]
        /\ t \in waiting /\ t \notin waiting'
        /\ \A u \in Topics : u \in waiting' => u \in waiting
    BY <1>2 DEF PublishResumes, TypeOK, Event
  <2> HIDE DEF e
  <2>2. \A u \in Topics : count[u] <= count'[u] /\ (u \in waiting' => u \in waiting)
    BY <2>1
  <2>3. QED
    BY <2>1, <2>2, PutOrder
<1>3. ASSUME Put(Sentinel), UNCHANGED <<count, waiting, left, seen>> PROVE OrderInv'
  <2>1. Sentinel \in Event /\ Sentinel.topic \notin Topics
    BY DEF Sentinel, Event
  <2>2. \A u \in Topics : count[u] <= count'[u] /\ (u \in waiting' => u \in waiting)
    BY <1>3 DEF TypeOK
  <2>3. count' \in [Topics -> Nat]
    BY DEF TypeOK
  <2>4. QED
    BY <1>3, <2>1, <2>2, <2>3, PutOrder
<1>4. ASSUME UNCHANGED <<q, left, seen, count>>, waiting' \subseteq waiting PROVE OrderInv'
  BY <1>4, KeepOrder DEF TypeOK
<1>5. CASE Stop \/ StopResumes
  BY <1>3, <1>4, <1>5 DEF Stop, StopResumes
<1>6. CASE CloseStreams \/ OpenStreams \/ Start \/ StopReturns \/ UNCHANGED vars
  BY <1>4, <1>6 DEF CloseStreams, OpenStreams, Start, StopReturns, vars, history
<1>7. CASE Get
  <2>1. q # <<>> /\ q \in Seq(Event) /\ UNCHANGED <<count, waiting, seen>> /\ q' = Tail(q)
    BY <1>7 DEF Get, TypeOK
  <2>2. /\ Len(q) \in Nat \ {0} /\ DOMAIN q = 1 .. Len(q) /\ Head(q) = q[1]
        /\ DOMAIN q' = 1 .. Len(q) - 1
        /\ \A j \in 1 .. Len(q) - 1 : q'[j] = q[j + 1]
    BY <2>1, Removed
  <2>3. \A j \in DOMAIN q' : j + 1 \in DOMAIN q /\ q'[j] = q[j + 1] /\ 1 < j + 1
    BY <2>2
  <2>4. QueueOrdered'
    <3>1. ASSUME NEW j \in DOMAIN q', NEW k \in DOMAIN q', j < k, q'[j].topic \in Topics
          PROVE  Older(q'[j], q'[k])
      <4>1. j + 1 < k + 1
        BY <2>2, <3>1
      <4>2. QED
        BY <2>3, <3>1, <4>1 DEF OrderInv, QueueOrdered
    <3>2. (\A j \in DOMAIN q : Counted(q[j]))'
      BY <2>1, <2>3 DEF OrderInv, QueueOrdered, Counted
    <3>3. QED
      BY <3>1, <3>2 DEF QueueOrdered, Older
  <2>5. ASSUME NEW f, Ahead(f) PROVE Ahead(f)'
    BY <2>1, <2>3, <2>5 DEF Ahead, Counted, Older
  <2>6. SeenAhead'
    BY <2>1, <2>5 DEF OrderInv, SeenAhead, Ahead, Counted, Older
  <2>7. left'.event = q[1] /\ left'.handlers = HandlersOf(q[1])
    BY <1>7, <2>2 DEF Get
  <2>8. ASSUME left'.handlers # <<>>
        PROVE  q[1].topic \in Topics /\ left'.handlers = Subs[q[1].topic]
    BY <2>7, <2>8 DEF HandlersOf
  <2>9. ASSUME NEW f, f = q[1], f.topic \in Topics PROVE Ahead(f)'
    <3>1. Counted(f) /\ \A k \in DOMAIN q' : Older(f, q'[k])
      BY <2>2, <2>3, <2>9 DEF OrderInv, QueueOrdered
    <3>2. QED
      BY <2>1, <3>1 DEF Ahead, Counted, Older
  <2>10. ASSUME NEW h \in Handlers, NEW j \in DOMAIN seen[h] PROVE Older(seen[h][j], q[1])
    BY <2>2 DEF OrderInv, SeenAhead, Ahead
  <2>11. ASSUME left'.handlers # <<>>, NEW k \in DOMAIN left'.handlers
         PROVE  left'.handlers[k] \in Handlers
    BY <2>8, <2>11, LenProperties, ElementOfSeq
  <2>12. LeftUnseen'
    <3> SUFFICES ASSUME left'.handlers # <<>> PROVE LeftUnseen'
      BY DEF LeftUnseen
    <3>1. PICK f : f = q[1]
      OBVIOUS
    <3>2. left'.event = f /\ f.topic \in Topics /\ Ahead(f)'
      BY <2>7, <2>8, <2>9, <3>1
    <3>3. \A j, k \in DOMAIN left'.handlers : j # k => left'.handlers[j] # left'.handlers[k]
      BY <2>8, SubscribedOnce
    <3>4. \A k \in DOMAIN left'.handlers : \A j \in DOMAIN seen'[left'.handlers[k]] :
             Older(seen'[left'.handlers[k]][j], f)
      BY <2>1, <2>10, <2>11, <3>1
    <3>5. QED
      BY <3>2, <3>3, <3>4 DEF LeftUnseen, Ahead, Counted, Older
  <2>13. InOrder'
    BY <2>1 DEF OrderInv, InOrder
  <2>14. QED
    BY <2>4, <2>6, <2>12, <2>13 DEF OrderInv
<1>8. CASE HandlerReturns \/ HandlerRaises
  <2>1. /\ left.handlers # <<>> /\ seen' = Called /\ UNCHANGED <<q, count, waiting>>
        /\ left'.event = left.event
        /\ left'.handlers \in {<<>>, Tail(left.handlers)}
    BY <1>8 DEF HandlerReturns, HandlerRaises, TypeOK
  <2>2. SeenAhead' /\ InOrder'
    BY <2>1, CalledOrder
  <2>3. QueueOrdered'
    BY <2>1 DEF OrderInv, QueueOrdered, Counted, Older
  <2>4. LeftUnseen'
    <3> SUFFICES ASSUME left'.handlers # <<>> PROVE LeftUnseen'
      BY DEF LeftUnseen
    <3> DEFINE hs == left.handlers
    <3>1. /\ hs \in Seq(Handlers) /\ Head(hs) = hs[1] /\ Len(hs) \in Nat \ {0}
          /\ DOMAIN hs = 1 .. Len(hs) /\ DOMAIN Tail(hs) = 1 .. Len(hs) - 1
          /\ \A k \in 1 .. Len(hs) - 1 : Tail(hs)[k] = hs[k + 1]
      BY <2>1, Removed DEF TypeOK
    <3>2. left'.handlers = Tail(hs)
      BY <2>1
    <3>3. \A j, k \in DOMAIN hs : j # k => hs[j] # hs[k]
      BY <2>1 DEF OrderInv, LeftUnseen
    <3>4. \A k \in DOMAIN Tail(hs) :
             /\ k + 1 \in DOMAIN hs /\ Tail(hs)[k] = hs[k + 1] /\ k + 1 # 1 /\ 1 \in DOMAIN hs
             /\ hs[k + 1] \in Handlers
      BY <3>1, ElementOfSeq
    <3>5. \A k \in DOMAIN Tail(hs) : Tail(hs)[k] # hs[1]
      BY <3>3, <3>4
    <3>6. \A g \in Handlers : g # hs[1] => seen'[g] = seen[g]
      BY <2>1, <3>1 DEF Called, TypeOK
    <3>7. ASSUME NEW k \in DOMAIN Tail(hs), NEW j \in DOMAIN seen'[Tail(hs)[k]]
          PROVE  Older(seen'[Tail(hs)[k]][j], left.event)
      <4>1. seen'[Tail(hs)[k]] = seen[hs[k + 1]] /\ k + 1 \in DOMAIN hs
        BY <3>4, <3>5, <3>6
      <4>2. \A m \in DOMAIN seen[hs[k + 1]] : Older(seen[hs[k + 1]][m], left.event)
        BY <2>1, <4>1 DEF OrderInv, LeftUnseen
      <4>3. QED
        BY <3>7, <4>1, <4>2
    <3>8. ASSUME NEW j \in DOMAIN Tail(hs), NEW k \in DOMAIN Tail(hs), j # k
          PROVE  Tail(hs)[j] # Tail(hs)[k]
      <4>1. j + 1 # k + 1
        BY <3>1, <3>8
      <4>2. QED
        BY <3>3, <3>4, <4>1
    <3>9. left.event.topic \in Topics /\ Ahead(left.event)
      BY <2>1 DEF OrderInv, LeftUnseen
    <3>10. QED
      BY <2>1, <3>2, <3>7, <3>8, <3>9 DEF LeftUnseen, Ahead, Counted, Older
  <2>5. QED
    BY <2>2, <2>3, <2>4 DEF OrderInv
<1>9. CASE LoopTurns
  <2>1. left'.handlers = <<>> /\ UNCHANGED <<q, seen, count, waiting>>
    BY <1>9 DEF LoopTurns, NoWork, history
  <2>2. QED
    BY <2>1 DEF OrderInv, QueueOrdered, SeenAhead, LeftUnseen, InOrder, Ahead, Counted, Older
<1>10. QED
  BY <1>1, <1>2, <1>5, <1>6, <1>7, <1>8, <1>9 DEF Next, StreamStep, LoopStep, StopStep

\* A handler sees the events of a topic in the order they were published and no event
\* twice, for any number of topics, handlers, stops and restarts.
THEOREM HandlersSeeInOrder == Spec => []InOrder
<1>1. OrderInv => InOrder
  BY DEF OrderInv
<1>2. QED
  BY <1>1, SpecRest, InitOrder, NextOrder, PTL DEF Spec

-----------------------------------------------------------------------------
(* stop lets the handlers of the event at hand return *)

GracefulInv ==
    /\ task # "run" => left = NoWork
    /\ flag => stopper # "idle" \/ task = "none"

\* Nothing is left and no flag is up before the first start.
LEMMA InitGraceful == Init => GracefulInv
  BY DEF Init, GracefulInv

\* Every step leaves the flag to the stop that raised it, and the work to the task.
LEMMA NextGraceful == TypeOK /\ GracefulInv /\ [Next]_vars => GracefulInv'
<1> SUFFICES ASSUME TypeOK, GracefulInv, [Next]_vars PROVE GracefulInv'
  OBVIOUS
<1> USE DEF GracefulInv
<1>1. CASE StreamStep \/ UNCHANGED vars
  <2>1. UNCHANGED <<task, left, flag, stopper>>
    BY <1>1 DEF StreamStep, Publish, PublishResumes, CloseStreams, OpenStreams, vars
  <2>2. QED
    BY <2>1
<1>2. CASE Get \/ LoopTurns
  BY <1>2 DEF Get, LoopTurns
<1>3. CASE HandlerReturns \/ HandlerRaises
  BY <1>3 DEF HandlerReturns, HandlerRaises
<1>4. CASE Start \/ StopReturns
  BY <1>4 DEF Start, StopReturns
<1>5. CASE Stop \/ StopResumes
  BY <1>5 DEF Stop, StopResumes
<1>6. QED
  BY <1>1, <1>2, <1>3, <1>4, <1>5 DEF Next, LoopStep, StopStep

\* A handler is never cut short, and none runs once stop has returned.
THEOREM StopLetsHandlersReturn == Spec => []StopIsGraceful
<1>1. GracefulInv => StopIsGraceful
  BY DEF GracefulInv, StopIsGraceful
<1>2. QED
  BY <1>1, InitGraceful, NextGraceful, SpecRest, PTL DEF Spec

-----------------------------------------------------------------------------
(* Nobody waits for a consumer that is gone *)

ServedInv ==
    /\ streams => task \in {"get", "run"} /\ stopper = "idle" /\ ~flag
    /\ waiting # {} => streams
    /\ stopper # "idle" => flag /\ task # "none"
    /\ task = "ended" => flag
    /\ stopper = "join" /\ task = "get" => q # <<>>

\* A publisher that a full queue holds back has a consumer that takes the next event, and
\* a stop() whose sentinel is in has one that ends: it runs, or finds an event to take.
\* BackpressureEnds and StopWithRoomReturns rest on it.
WaitersAreServed ==
    /\ waiting # {} => task \in {"get", "run"} /\ ~flag
    /\ stopper = "join" => flag /\ (task \in {"run", "ended"} \/ (task = "get" /\ q # <<>>))

\* In every interleaving of streams, handlers, stops and restarts.
THEOREM WaitersAlwaysServed == Spec => []WaitersAreServed
<1>1. Init => ServedInv
  BY DEF Init, ServedInv
<1>2. ASSUME TypeOK, GracefulInv, ServedInv, [Next]_vars PROVE ServedInv'
  <2> USE <1>2 DEF ServedInv
  <2>1. ASSUME NEW e PROVE Append(q, e) # <<>>
    <3>1. q \in Seq(Event)
      BY DEF TypeOK
    <3>2. Len(Append(q, e)) = Len(q) + 1 /\ Len(q) \in Nat
      BY <3>1
    <3>3. QED
      BY <3>2
  <2>2. ASSUME NEW t \in Topics, Publish(t) \/ PublishResumes(t) PROVE ServedInv'
    <3>1. /\ UNCHANGED <<streams, task, flag, stopper>>
          /\ streams
          /\ q' = q \/ \E e : q' = Append(q, e)
      BY <2>2 DEF Publish, PublishResumes, Put
    <3>2. q # <<>> => q' # <<>>
      BY <2>1, <3>1
    <3>3. QED
      BY <3>1, <3>2
  <2>3. CASE CloseStreams \/ UNCHANGED vars
    BY <2>3 DEF CloseStreams, history, vars
  <2>4. CASE OpenStreams
    BY <2>4 DEF OpenStreams, history, GracefulInv, TypeOK
  <2>5. CASE Get
    BY <2>5 DEF Get
  <2>6. CASE HandlerReturns \/ HandlerRaises
    BY <2>6 DEF HandlerReturns, HandlerRaises
  <2>7. CASE LoopTurns
    BY <2>7 DEF LoopTurns, history
  <2>8. CASE Start
    BY <2>8 DEF Start, history
  <2>9. CASE Stop
    BY <2>1, <2>9 DEF Stop, Put
  <2>10. CASE StopResumes
    BY <2>1, <2>10 DEF StopResumes, Put
  <2>11. CASE StopReturns
    BY <2>11 DEF StopReturns, history
  <2>12. QED
    BY <2>2, <2>3, <2>4, <2>5, <2>6, <2>7, <2>8, <2>9, <2>10, <2>11
       DEF Next, StreamStep, LoopStep, StopStep
<1>3. TypeOK /\ ServedInv => WaitersAreServed
  BY DEF ServedInv, WaitersAreServed, TypeOK
<1>4. QED
  BY <1>1, <1>2, <1>3, SpecRest, InitGraceful, NextGraceful, PTL DEF Spec

=============================================================================
