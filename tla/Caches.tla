------------------------------- MODULE Caches -------------------------------
(***************************************************************************)
(* database/redis/client.py as its callers use it: the last price of an    *)
(* instrument, which the price handler and the information card write      *)
(* through a script that refuses older stamps and which never expires; and *)
(* the metrics of a portfolio, which get_portfolio reads and, when there   *)
(* are none, fetches from the broker and stores with two commands, HSET    *)
(* and EXPIRE. HSET keeps the time to live a key has; EXPIRE does nothing  *)
(* to a key that is gone. Redis can be away, and come back empty.          *)
(***************************************************************************)
EXTENDS Naturals

CONSTANTS
    Callers,    \* tasks that ask for a portfolio or a price
    TTL,        \* _cache_ttl_sec, in steps of the clock
    MaxNow,     \* bound: the clock
    None,       \* no such key
    Never       \* a key without a time to live

ASSUME CachesAssumption ==
    /\ TTL \in Nat \ {0} /\ MaxNow \in Nat
    /\ None \notin Nat /\ Never \notin Nat
    /\ None \notin [read : Nat, dies : Nat \cup {Never}]

VARIABLES
    now,        \* the clock; stamps are readings of it
    redis,      \* Redis answers
    price,      \* stamp of the last price stored, or None
    metrics,    \* when the stored metrics were read, and when they go, or None
    pc,         \* pc[c]: "idle"; "portfolio", "price": awaits the broker; "stored": before EXPIRE
    frozen      \* history: the EXPIRE the stored metrics needed was lost

vars == <<now, redis, price, metrics, pc, frozen>>

Time == 0 .. MaxNow

CachesTypeOK ==
    /\ now \in Time
    /\ redis \in BOOLEAN /\ frozen \in BOOLEAN
    /\ price \in Time \cup {None}
    /\ metrics \in [read : Time, dies : (0 .. MaxNow + TTL) \cup {Never}] \cup {None}
    /\ pc \in [Callers -> {"idle", "portfolio", "price", "stored"}]
    /\ frozen => metrics # None /\ metrics.dies = Never

Goes(c, to) == pc' = [pc EXCEPT ![c] = to]

-----------------------------------------------------------------------------
(* The last price *)

\* LUA_SET_IF_NEWER: an older stamp is refused, the same one stored again.
SetIfNewer(ts) == price' = IF price # None /\ price > ts THEN price ELSE ts

\* A price of the stream: what the broker sends again after a reconnection is older.
StreamPrice ==
    /\ redis
    /\ \E ts \in 0 .. now : SetIfNewer(ts)
    /\ UNCHANGED <<now, redis, metrics, pc, frozen>>

\* The card finds no price and asks the broker.
PriceMissed(c) ==
    /\ pc[c] = "idle" /\ redis /\ price = None
    /\ Goes(c, "price")
    /\ UNCHANGED <<now, redis, price, metrics, frozen>>

\* The broker's answer may be of any trade so far.
PriceStored(c) ==
    /\ pc[c] = "price" /\ redis
    /\ \E ts \in 0 .. now : SetIfNewer(ts)
    /\ Goes(c, "idle")
    /\ UNCHANGED <<now, redis, metrics, frozen>>

-----------------------------------------------------------------------------
(* get_portfolio *)

PortfolioMissed(c) ==
    /\ pc[c] = "idle" /\ redis /\ metrics = None
    /\ Goes(c, "portfolio")
    /\ UNCHANGED <<now, redis, price, metrics, frozen>>

\* HSET.
Store == metrics' = [read |-> now, dies |-> IF metrics = None THEN Never ELSE metrics.dies]

\* Mutant: EXPIRE before HSET.
ExpireFirst(c) ==
    /\ pc[c] = "portfolio" /\ redis
    /\ metrics' = [read |-> now, dies |-> IF metrics = None THEN Never ELSE now + TTL]
    /\ Goes(c, "idle")
    /\ UNCHANGED <<now, redis, price, frozen>>

\* The broker answers and the fields are written, also over those another task wrote
\* while the broker was awaited.
PortfolioStored(c) ==
    /\ pc[c] = "portfolio" /\ redis
    /\ Store
    /\ Goes(c, "stored")
    /\ UNCHANGED <<now, redis, price, frozen>>

\* Mutant: the time to live is added to the one another task has set.
ExpireTwice(c) ==
    /\ pc[c] = "stored" /\ redis
    /\ metrics' = IF metrics = None THEN None
                  ELSE [metrics EXCEPT !.dies = IF @ = Never THEN now + TTL ELSE @ + TTL]
    /\ frozen' = FALSE
    /\ Goes(c, "idle")
    /\ UNCHANGED <<now, redis, price>>

\* EXPIRE, and the answer.
PortfolioExpires(c) ==
    /\ pc[c] = "stored" /\ redis
    /\ metrics' = IF metrics = None THEN None ELSE [metrics EXCEPT !.dies = now + TTL]
    /\ frozen' = FALSE
    /\ Goes(c, "idle")
    /\ UNCHANGED <<now, redis, price>>

-----------------------------------------------------------------------------
(* Failures and time *)

\* The broker or Redis raises, or answers too late, or the process is restarted.
Gone(cs) ==
    /\ pc' = [c \in Callers |-> IF c \in cs THEN "idle" ELSE pc[c]]
    /\ frozen' = (frozen \/ /\ metrics # None /\ metrics.dies = Never
                            /\ \E c \in cs : pc[c] = "stored")
    /\ UNCHANGED <<now, redis, price, metrics>>

Fails(c) == pc[c] # "idle" /\ Gone({c})

Crash == Gone(Callers)

RedisLeaves == redis /\ redis' = FALSE /\ UNCHANGED <<now, price, metrics, pc, frozen>>

\* With its data, or empty.
RedisReturns ==
    /\ ~redis /\ redis' = TRUE
    /\ \/ UNCHANGED <<price, metrics, frozen>>
       \/ price' = None /\ metrics' = None /\ frozen' = FALSE
    /\ UNCHANGED <<now, pc>>

\* Redis drops what has come to its end. A command of the two takes no time worth a step
\* (socket_timeout); the broker may take any.
Pass ==
    /\ now < MaxNow
    /\ \A c \in Callers : pc[c] # "stored"
    /\ now' = now + 1
    /\ metrics' = IF metrics # None /\ metrics.dies # Never /\ metrics.dies <= now'
                  THEN None ELSE metrics
    /\ UNCHANGED <<redis, price, pc, frozen>>

-----------------------------------------------------------------------------

Init ==
    /\ now = 0 /\ redis = TRUE
    /\ price = None /\ metrics = None
    /\ pc = [c \in Callers |-> "idle"]
    /\ frozen = FALSE

PriceStep == StreamPrice \/ \E c \in Callers : PriceMissed(c) \/ PriceStored(c)
PortfolioStep ==
    \E c \in Callers : PortfolioMissed(c) \/ PortfolioStored(c) \/ PortfolioExpires(c)
Failure == (\E c \in Callers : Fails(c)) \/ Crash \/ RedisLeaves \/ RedisReturns

Next == PriceStep \/ PortfolioStep \/ Failure \/ Pass

Spec == Init /\ [][Next]_vars

-----------------------------------------------------------------------------
(* Properties *)

\* Positions are sized with metrics the broker gave less than a time to live ago, with
\* two tasks storing at once and Redis away in between - unless an EXPIRE was lost: then
\* the metrics stay for ever, for nobody stores what is there.
MetricsAreRecent == metrics # None /\ ~frozen => now < metrics.read + TTL

=============================================================================
