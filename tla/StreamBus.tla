----------------------------- MODULE StreamBus -----------------------------
(***************************************************************************)
(* core/domains/event_bus.py: the bounded asyncio queue between the broker *)
(* streams and the handlers, with its consumer task, start and stop.       *)
(*                                                                         *)
(* All of it runs in one event loop, so a step is the code between two     *)
(* awaits that suspend.  asyncio.Queue.put suspends only on a full queue,  *)
(* and a publisher that was woken may find its slot taken by another one:  *)
(* any waiting publisher may be the next to put.                           *)
(***************************************************************************)
EXTENDS Naturals, Sequences, FiniteSets

CONSTANTS
    Topics,         \* one stream of the broker publishes each topic
    Handlers,       \* the handlers subscribed to the topics
    Subs,           \* Subs[t]: the handlers of topic t in subscription order
    Maxsize,        \* capacity of the queue
    MaxEvents,      \* bound: events published per topic
    MaxStops,       \* bound: calls of stop
    StopTopic       \* the topic of the sentinel stop() puts

ASSUME StreamBusAssumption ==
    /\ Subs \in [Topics -> Seq(Handlers)]
    /\ Maxsize \in Nat \ {0}
    /\ MaxEvents \in Nat /\ MaxStops \in Nat
    /\ StopTopic \notin Topics

\* Service.start subscribes each handler once.
ASSUME SubscribedOnce ==
    \A t \in Topics : \A j, k \in DOMAIN Subs[t] : j # k => Subs[t][j] # Subs[t][k]

Event == [topic : Topics \cup {StopTopic}, n : Nat]
Sentinel == [topic |-> StopTopic, n |-> 0]
HandlersOf(e) == IF e.topic \in Topics THEN Subs[e.topic] ELSE <<>>

VARIABLES
    q,          \* the queue
    streams,    \* the broker streams are open (TClient started)
    waiting,    \* the topics whose publisher is suspended in put
    count,      \* events published so far, by topic
    task,       \* the consumer task: "none", "get", "run" or "ended"
    left,       \* the event being handled and the handlers still to call
    flag,       \* the _stop event
    stopper,    \* the caller of stop(): "idle", "put" or "join"
    stops,      \* calls of stop so far
    log, taken, \* history: events accepted by the queue, events got from it
    seen        \* history: the events each handler was called with

vars == <<q, streams, waiting, count, task, left, flag, stopper, stops, log, taken, seen>>
history == <<log, taken, seen>>

NoWork == [event |-> Sentinel, handlers |-> <<>>]

TypeOK ==
    /\ q \in Seq(Event) /\ Len(q) <= Maxsize
    /\ streams \in BOOLEAN
    /\ waiting \subseteq Topics
    /\ count \in [Topics -> Nat]
    /\ task \in {"none", "get", "run", "ended"}
    /\ left \in [event : Event, handlers : Seq(Handlers)]
    /\ flag \in BOOLEAN
    /\ stopper \in {"idle", "put", "join"}
    /\ stops \in Nat
    /\ log \in Seq(Event) /\ taken \in Seq(Event)
    /\ seen \in [Handlers -> Seq(Event)]

Room == Len(q) < Maxsize

Put(e) ==
    /\ q' = Append(q, e)
    /\ log' = Append(log, e)

-----------------------------------------------------------------------------
(* The streams: _listen_stream and _listen_portfolio_stream publish *)

\* Mutant: a full queue drops its oldest event instead of suspending the publisher.
PublishDropsOldest(t) ==
    /\ streams /\ t \notin waiting
    /\ count[t] < MaxEvents
    /\ count' = [count EXCEPT ![t] = @ + 1]
    /\ q' = Append(IF Room THEN q ELSE Tail(q), [topic |-> t, n |-> count'[t]])
    /\ log' = Append(log, [topic |-> t, n |-> count'[t]])
    /\ UNCHANGED <<waiting, streams, task, left, flag, stopper, stops, taken, seen>>

\* Mutant: put_nowait without a look at the capacity.
PublishUnbounded(t) ==
    /\ streams /\ t \notin waiting
    /\ count[t] < MaxEvents
    /\ count' = [count EXCEPT ![t] = @ + 1]
    /\ Put([topic |-> t, n |-> count'[t]])
    /\ UNCHANGED <<waiting, streams, task, left, flag, stopper, stops, taken, seen>>

Publish(t) ==
    /\ streams /\ t \notin waiting
    /\ count[t] < MaxEvents
    /\ count' = [count EXCEPT ![t] = @ + 1]
    /\ \/ /\ Room
          /\ Put([topic |-> t, n |-> count'[t]])
          /\ UNCHANGED waiting
       \/ /\ ~Room
          /\ waiting' = waiting \cup {t}
          /\ UNCHANGED <<q, log>>
    /\ UNCHANGED <<streams, task, left, flag, stopper, stops, taken, seen>>

PublishResumes(t) ==
    /\ t \in waiting /\ Room
    /\ Put([topic |-> t, n |-> count[t]])
    /\ waiting' = waiting \ {t}
    /\ UNCHANGED <<streams, count, task, left, flag, stopper, stops, taken, seen>>

\* TClient.stop cancels the stream tasks, whatever they wait for.
CloseStreams ==
    /\ streams
    /\ streams' = FALSE
    /\ waiting' = {}
    /\ UNCHANGED <<q, count, task, left, flag, stopper, stops, history>>

\* TClient.start; Service starts the bus first and stops it last.
OpenStreams ==
    /\ ~streams /\ task # "none" /\ stopper = "idle"
    /\ streams' = TRUE
    /\ UNCHANGED <<q, waiting, count, task, left, flag, stopper, stops, history>>

-----------------------------------------------------------------------------
(* The consumer: StreamBus._loop *)

Get ==
    /\ task = "get" /\ q # <<>>
    /\ q' = Tail(q)
    /\ taken' = Append(taken, Head(q))
    /\ left' = [event |-> Head(q), handlers |-> HandlersOf(Head(q))]
    /\ task' = "run"
    /\ UNCHANGED <<streams, waiting, count, flag, stopper, stops, log, seen>>

Called == [seen EXCEPT ![Head(left.handlers)] = Append(@, left.event)]

HandlerReturns ==
    /\ task = "run" /\ left.handlers # <<>>
    /\ seen' = Called
    /\ left' = [left EXCEPT !.handlers = Tail(@)]
    /\ UNCHANGED <<q, streams, waiting, count, task, flag, stopper, stops, log, taken>>

\* Mutant: an event whose handler raised is put back.
HandlerRaisesRequeues ==
    /\ task = "run" /\ left.handlers # <<>> /\ Room
    /\ seen' = Called
    /\ left' = [left EXCEPT !.handlers = <<>>]
    /\ Put(left.event)
    /\ UNCHANGED <<streams, waiting, count, task, flag, stopper, stops, taken>>

\* The exception is logged; the handlers after it are not called.
HandlerRaises ==
    /\ task = "run" /\ left.handlers # <<>>
    /\ seen' = Called
    /\ left' = [left EXCEPT !.handlers = <<>>]
    /\ UNCHANGED <<q, streams, waiting, count, task, flag, stopper, stops, log, taken>>

\* Mutant: the consumer dies with the first event it has handled.
LoopTurnsOnce ==
    /\ task = "run" /\ left.handlers = <<>>
    /\ task' = "ended"
    /\ left' = NoWork
    /\ UNCHANGED <<q, streams, waiting, count, flag, stopper, stops, history>>

\* task_done, then the test of the while loop
LoopTurns ==
    /\ task = "run" /\ left.handlers = <<>>
    /\ task' = IF flag THEN "ended" ELSE "get"
    /\ left' = NoWork
    /\ UNCHANGED <<q, streams, waiting, count, flag, stopper, stops, history>>

-----------------------------------------------------------------------------
(* StreamBus.start and StreamBus.stop *)

Start ==
    /\ task = "none"
    /\ flag' = FALSE
    /\ task' = "get"
    /\ UNCHANGED <<q, streams, waiting, count, left, stopper, stops, history>>

\* Mutant: stop sets the flag and awaits the task, without a sentinel.
StopNoSentinel ==
    /\ task # "none" /\ stopper = "idle"
    /\ ~streams /\ stops < MaxStops
    /\ stops' = stops + 1
    /\ flag' = TRUE
    /\ stopper' = "join"
    /\ UNCHANGED <<q, log, streams, waiting, count, task, left, taken, seen>>

Stop ==
    /\ task # "none" /\ stopper = "idle"
    /\ ~streams /\ stops < MaxStops
    /\ stops' = stops + 1
    /\ flag' = TRUE
    /\ \/ Room /\ Put(Sentinel) /\ stopper' = "join"
       \/ ~Room /\ stopper' = "put" /\ UNCHANGED <<q, log>>
    /\ UNCHANGED <<streams, waiting, count, task, left, taken, seen>>

StopResumes ==
    /\ stopper = "put" /\ Room
    /\ Put(Sentinel)
    /\ stopper' = "join"
    /\ UNCHANGED <<streams, waiting, count, task, left, flag, stops, taken, seen>>

\* Mutant: stop does not await the consumer task.
StopReturnsEarly ==
    /\ stopper = "join"
    /\ stopper' = "idle"
    /\ task' = "none"
    /\ UNCHANGED <<q, streams, waiting, count, left, flag, stops, history>>

StopReturns ==
    /\ stopper = "join" /\ task = "ended"
    /\ stopper' = "idle"
    /\ task' = "none"
    /\ UNCHANGED <<q, streams, waiting, count, left, flag, stops, history>>

-----------------------------------------------------------------------------

Init ==
    /\ q = <<>>
    /\ streams = FALSE
    /\ waiting = {}
    /\ count = [t \in Topics |-> 0]
    /\ task = "none"
    /\ left = NoWork
    /\ flag = FALSE
    /\ stopper = "idle"
    /\ stops = 0
    /\ log = <<>> /\ taken = <<>>
    /\ seen = [h \in Handlers |-> <<>>]

StreamStep ==
    \/ \E t \in Topics : Publish(t) \/ PublishResumes(t)
    \/ CloseStreams \/ OpenStreams

LoopStep == Get \/ HandlerReturns \/ HandlerRaises \/ LoopTurns

StopStep == Start \/ Stop \/ StopResumes \/ StopReturns

Next == StreamStep \/ LoopStep \/ StopStep

Spec == Init /\ [][Next]_vars

(***************************************************************************)
(* Handlers return or raise, and the event loop runs every task that can   *)
(* go on.                                                                  *)
(***************************************************************************)
Fairness ==
    /\ WF_vars(LoopStep)
    /\ \A t \in Topics : WF_vars(PublishResumes(t))
    /\ WF_vars(StopResumes) /\ WF_vars(StopReturns)

FairSpec == Spec /\ Fairness

-----------------------------------------------------------------------------
(* Properties *)

\* The queue holds the accepted events that were not taken yet, in order, across
\* stops and restarts: the invariant behind the refinement.
QueueIsRest == log = taken \o q

\* The bus is an ordered channel: a full queue delays publish, it never drops,
\* doubles or reorders what it accepted.
Channel == INSTANCE OrderedChannel WITH sent <- log, got <- taken
IsOrderedChannel == Channel!Spec

\* A handler sees the events of a topic in the order they were published and no
\* event twice, whatever the interleaving of the two streams and the restarts.
InOrder ==
    \A h \in Handlers : \A j, k \in DOMAIN seen[h] :
        j < k /\ seen[h][j].topic = seen[h][k].topic => seen[h][j].n < seen[h][k].n

\* A handler is never cut short: while one is left to call the consumer task is alive,
\* and once stop() has returned none runs.
StopIsGraceful == left # NoWork => task = "run" /\ ~(stopper = "idle" /\ flag)

\* A stop() that found room for its sentinel returns.
StopWithRoomReturns == stopper = "join" ~> stopper = "idle"

\* A publisher held back by a full queue goes on, unless its stream is closed.
BackpressureEnds == \A t \in Topics : t \in waiting ~> t \notin waiting

=============================================================================
