---------------------------- MODULE CachesProofs ----------------------------
(***************************************************************************)
(* For any number of callers, time to live and clock: the types of the     *)
(* caches, and metrics that are recent unless an EXPIRE was lost.          *)
(***************************************************************************)
EXTENDS Caches, TLAPS

Stored == {c \in Callers : pc[c] = "stored"}

\* Between the two commands no time passes, so what a caller has stored is of now.
StoredInv == metrics # None /\ Stored # {} => metrics.read = now

\* What has a time to live is within it; what has none waits for its EXPIRE, or has
\* lost it.
LifeInv ==
    metrics # None =>
        /\ metrics.read <= now
        /\ IF metrics.dies = Never THEN frozen \/ Stored # {}
           ELSE now < metrics.dies /\ metrics.dies <= metrics.read + TTL

Inv == CachesTypeOK /\ StoredInv /\ LifeInv

Metrics == [read : Time, dies : (0 .. MaxNow + TTL) \cup {Never}]

\* Stored metrics are a record, and not None.
LEMMA MetricsAreSome ==
    ASSUME NEW m \in Metrics
    PROVE  /\ m # None
           /\ m.read \in Nat /\ (m.dies = Never \/ m.dies \in Nat)
<1>1. m \in [read : Nat, dies : Nat \cup {Never}]
  BY CachesAssumption DEF Metrics, Time
<1>2. QED
  BY <1>1, CachesAssumption

\* Nothing is stored at first.
LEMMA InitInv == Init => Inv
<1> SUFFICES ASSUME Init PROVE Inv
  OBVIOUS
<1>0. 0 \in Time
  BY CachesAssumption DEF Time
<1>1. CachesTypeOK
  BY <1>0 DEF Init, CachesTypeOK
<1>2. StoredInv /\ LifeInv
  BY DEF Init, StoredInv, LifeInv
<1>3. QED
  BY <1>1, <1>2 DEF Inv

\* The script stores a stamp that is not older.
LEMMA PriceGrows ==
    ASSUME CachesTypeOK, NEW ts \in 0 .. now, SetIfNewer(ts)
    PROVE  price' \in Time /\ (price # None => price' >= price)
  BY CachesAssumption DEF CachesTypeOK, Time, SetIfNewer

\* A step that leaves the clock and the metrics alone, and takes nobody from between
\* the two commands, keeps the invariant.
LEMMA KeepMetrics ==
    ASSUME Inv, UNCHANGED <<now, metrics, frozen>>, Stored' = Stored,
           redis' \in BOOLEAN, price' \in Time \cup {None},
           pc' \in [Callers -> {"idle", "portfolio", "price", "stored"}]
    PROVE  Inv'
  BY DEF Inv, CachesTypeOK, StoredInv, LifeInv, Time

\* A caller goes between places other than that between the commands.
LEMMA GoesAround ==
    ASSUME CachesTypeOK, NEW c \in Callers, pc[c] # "stored",
           NEW to \in {"idle", "portfolio", "price"}, Goes(c, to)
    PROVE  /\ pc' \in [Callers -> {"idle", "portfolio", "price", "stored"}]
           /\ Stored' = Stored
  BY DEF CachesTypeOK, Goes, Stored

\* The price and the questions to the broker do not touch the metrics.
LEMMA PriceInv == Inv /\ (PriceStep \/ \E c \in Callers : PortfolioMissed(c)) => Inv'
<1> SUFFICES ASSUME Inv, PriceStep \/ \E c \in Callers : PortfolioMissed(c) PROVE Inv'
  OBVIOUS
<1>0. CachesTypeOK
  BY DEF Inv
<1>1. CASE StreamPrice
  BY <1>0, <1>1, PriceGrows, KeepMetrics DEF StreamPrice, CachesTypeOK, Stored
<1>2. CASE \E c \in Callers : PriceMissed(c)
  <2>1. PICK c \in Callers : PriceMissed(c)
    BY <1>2
  <2>2. Stored' = Stored /\ pc' \in [Callers -> {"idle", "portfolio", "price", "stored"}]
    BY <1>0, <2>1, GoesAround DEF PriceMissed
  <2>3. QED
    BY <1>0, <2>1, <2>2, KeepMetrics DEF PriceMissed, CachesTypeOK
<1>3. CASE \E c \in Callers : PriceStored(c)
  <2>1. PICK c \in Callers : PriceStored(c)
    BY <1>3
  <2>2. Stored' = Stored /\ pc' \in [Callers -> {"idle", "portfolio", "price", "stored"}]
    BY <1>0, <2>1, GoesAround DEF PriceStored
  <2>3. price' \in Time
    BY <1>0, <2>1, PriceGrows DEF PriceStored
  <2>4. QED
    BY <1>0, <2>1, <2>2, <2>3, KeepMetrics DEF PriceStored, CachesTypeOK
<1>4. CASE \E c \in Callers : PortfolioMissed(c)
  <2>1. PICK c \in Callers : PortfolioMissed(c)
    BY <1>4
  <2>2. Stored' = Stored /\ pc' \in [Callers -> {"idle", "portfolio", "price", "stored"}]
    BY <1>0, <2>1, GoesAround DEF PortfolioMissed
  <2>3. QED
    BY <1>0, <2>1, <2>2, KeepMetrics DEF PortfolioMissed, CachesTypeOK
<1>5. QED
  BY <1>1, <1>2, <1>3, <1>4 DEF PriceStep

\* HSET: the metrics are of now, with the time to live of those they replace.
LEMMA StoreInv ==
    ASSUME Inv, NEW c \in Callers, PortfolioStored(c)
    PROVE  Inv'
<1> USE DEF Inv, PortfolioStored, Goes
<1>1. now \in Nat /\ TTL \in Nat /\ now \in Time
  BY CachesAssumption DEF CachesTypeOK, Time
<1>2. pc' \in [Callers -> {"idle", "portfolio", "price", "stored"}] /\ pc'[c] = "stored"
  BY DEF CachesTypeOK
<1>3. metrics' \in Metrics
  BY <1>1, MetricsAreSome DEF Store, Metrics, CachesTypeOK, Time
<1>4. /\ metrics' # None /\ metrics'.read = now
      /\ metrics = None => metrics'.dies = Never
      /\ metrics # None => metrics'.dies = metrics.dies
  BY <1>3, MetricsAreSome DEF Store
<1>5. CachesTypeOK'
  BY <1>2, <1>3, <1>4 DEF CachesTypeOK, Time, Metrics
<1>6. StoredInv'
  BY <1>4 DEF StoredInv
<1>7. LifeInv'
  <2>1. CASE metrics'.dies = Never
    BY <1>1, <1>2, <1>4, <2>1 DEF LifeInv, Stored
  <2>2. CASE metrics'.dies # Never
    <3>1. metrics # None /\ metrics.dies # Never /\ metrics \in Metrics
      BY <1>4, <2>2 DEF CachesTypeOK, Metrics
    <3>2. metrics.dies \in Nat /\ metrics.read \in Nat
      BY <3>1, MetricsAreSome
    <3>3. QED
      BY <1>1, <1>4, <2>2, <3>1, <3>2 DEF LifeInv
  <2>3. QED
    BY <2>1, <2>2
<1>8. QED
  BY <1>5, <1>6, <1>7

\* EXPIRE: what was stored is of now, and gets its time to live from now.
LEMMA ExpireInv ==
    ASSUME Inv, NEW c \in Callers, PortfolioExpires(c)
    PROVE  Inv'
<1> USE DEF Inv, PortfolioExpires, Goes
<1>1. now \in Nat /\ TTL \in Nat \ {0} /\ MaxNow \in Nat /\ now <= MaxNow /\ now \in Time
  BY CachesAssumption DEF CachesTypeOK, Time
<1>2. /\ pc' \in [Callers -> {"idle", "portfolio", "price", "stored"}]
      /\ Stored' \subseteq Stored
  BY DEF CachesTypeOK, Stored
<1>3. CASE metrics = None
  BY <1>1, <1>2, <1>3 DEF CachesTypeOK, StoredInv, LifeInv, Time
<1>4. CASE metrics # None
  <2>1. metrics \in Metrics /\ metrics.read = now
    BY <1>4 DEF CachesTypeOK, Metrics, StoredInv, Stored
  <2>2. now + TTL \in 0 .. MaxNow + TTL
    BY <1>1
  <2>3. metrics' \in Metrics /\ metrics'.read = now /\ metrics'.dies = now + TTL
    BY <1>4, <2>1, <2>2 DEF Metrics
  <2>4. CachesTypeOK'
    BY <1>2, <2>3 DEF CachesTypeOK, Metrics, Time
  <2>5. StoredInv' /\ LifeInv'
    <3>1. now + TTL # Never
      BY <1>1, CachesAssumption
    <3>2. QED
      BY <1>1, <2>3, <3>1 DEF StoredInv, LifeInv
  <2>6. QED
    BY <2>4, <2>5
<1>5. QED
  BY <1>3, <1>4

\* Whoever is gone from between the two commands leaves what has no time to live frozen.
LEMMA GoneInv ==
    ASSUME Inv, NEW cs \in SUBSET Callers, Gone(cs)
    PROVE  Inv'
<1> USE DEF Inv, Gone
<1>1. /\ pc' \in [Callers -> {"idle", "portfolio", "price", "stored"}]
      /\ Stored' = Stored \ cs
  BY DEF CachesTypeOK, Stored
<1>2. frozen' \in BOOLEAN
  BY DEF CachesTypeOK
<1>3. frozen' => metrics # None /\ metrics.dies = Never
  BY DEF CachesTypeOK
<1>4. CachesTypeOK'
  BY <1>1, <1>2, <1>3 DEF CachesTypeOK, Time
<1>5. StoredInv'
  BY <1>1 DEF StoredInv
<1>6. metrics # None /\ metrics.dies = Never => frozen' \/ Stored' # {}
  BY <1>1 DEF LifeInv, Stored
<1>7. LifeInv'
  BY <1>6 DEF LifeInv
<1>8. QED
  BY <1>4, <1>5, <1>7

\* A step of the clock, with nobody between the two commands.
LEMMA PassInv == Inv /\ Pass => Inv'
<1> SUFFICES ASSUME Inv, Pass PROVE Inv'
  OBVIOUS
<1> USE DEF Inv, Pass
<1>1. /\ now \in Nat /\ TTL \in Nat \ {0} /\ MaxNow \in Nat
      /\ now' = now + 1 /\ now' \in Time
  BY CachesAssumption DEF CachesTypeOK, Time
<1>2. Stored = {} /\ Stored' = {}
  BY DEF Stored
<1>3. metrics' \in Metrics \cup {None}
  BY DEF CachesTypeOK, Metrics
<1>4. metrics # None /\ metrics.dies = Never => metrics' = metrics
  OBVIOUS
<1>5. CachesTypeOK'
  BY <1>1, <1>3, <1>4 DEF CachesTypeOK, Metrics, Time
<1>6. StoredInv'
  BY <1>2 DEF StoredInv
<1>7. ASSUME metrics' # None
      PROVE  /\ metrics' = metrics /\ metrics # None /\ metrics \in Metrics
             /\ metrics.dies = Never \/ now' < metrics.dies
  <2>1. metrics # None /\ metrics' = metrics /\ metrics \in Metrics
    BY <1>7 DEF CachesTypeOK, Metrics
  <2>2. metrics.dies = Never \/ ~(metrics.dies <= now')
    BY <1>7, <2>1
  <2>3. metrics.dies = Never \/ metrics.dies \in Nat
    BY <2>1, MetricsAreSome
  <2>4. QED
    BY <1>1, <2>1, <2>2, <2>3
<1>8. LifeInv'
  <2>1. SUFFICES ASSUME metrics' # None
                 PROVE  /\ metrics'.read <= now'
                        /\ IF metrics'.dies = Never THEN frozen' \/ Stored' # {}
                           ELSE now' < metrics'.dies /\ metrics'.dies <= metrics'.read + TTL
    BY DEF LifeInv
  <2>2. metrics.read \in Nat
    BY <1>7, <2>1, MetricsAreSome
  <2>3. QED
    BY <1>1, <1>2, <1>7, <2>1, <2>2 DEF LifeInv
<1>9. QED
  BY <1>5, <1>6, <1>8

\* Failures: of a caller, of the process and of Redis.
LEMMA FailureInv == Inv /\ Failure => Inv'
<1> SUFFICES ASSUME Inv, Failure PROVE Inv'
  OBVIOUS
<1>0. CachesTypeOK
  BY DEF Inv
<1>1. CASE \E c \in Callers : Fails(c)
  BY <1>1, GoneInv DEF Fails
<1>2. CASE Crash
  BY <1>2, GoneInv DEF Crash
<1>3. CASE RedisLeaves
  BY <1>0, <1>3, KeepMetrics DEF RedisLeaves, CachesTypeOK, Stored
<1>4. CASE RedisReturns
  <2>1. CASE UNCHANGED <<price, metrics, frozen>>
    BY <1>0, <1>4, <2>1, KeepMetrics DEF RedisReturns, CachesTypeOK, Stored
  <2>2. CASE price' = None /\ metrics' = None /\ frozen' = FALSE
    BY <1>0, <1>4, <2>2 DEF RedisReturns, Inv, CachesTypeOK, StoredInv, LifeInv, Time
  <2>3. QED
    BY <1>4, <2>1, <2>2 DEF RedisReturns
<1>5. QED
  BY <1>1, <1>2, <1>3, <1>4 DEF Failure

\* Every step keeps the invariant.
LEMMA NextInv == Inv /\ [Next]_vars => Inv'
<1> SUFFICES ASSUME Inv, [Next]_vars PROVE Inv'
  OBVIOUS
<1>1. CASE PriceStep \/ \E c \in Callers : PortfolioMissed(c)
  BY <1>1, PriceInv
<1>2. CASE \E c \in Callers : PortfolioStored(c)
  BY <1>2, StoreInv
<1>3. CASE \E c \in Callers : PortfolioExpires(c)
  BY <1>3, ExpireInv
<1>4. CASE Failure
  BY <1>4, FailureInv
<1>5. CASE Pass
  BY <1>5, PassInv
<1>6. CASE UNCHANGED vars
  BY <1>6 DEF vars, Inv, CachesTypeOK, StoredInv, LifeInv, Stored, Time
<1>7. QED
  BY <1>1, <1>2, <1>3, <1>4, <1>5, <1>6 DEF Next, PortfolioStep

\* In every reachable state the three parts hold.
LEMMA SpecInv == Spec => []Inv
<1>1. QED
  BY InitInv, NextInv, PTL DEF Spec

\* The caches keep their types: metrics have a time to live, or wait for one, and
\* only metrics that are there can have lost theirs.
THEOREM CachesAreTyped == Spec => []CachesTypeOK
<1>1. Inv => CachesTypeOK
  BY DEF Inv
<1>2. QED
  BY <1>1, SpecInv, PTL

\* Metrics older than their time to live are served only after an EXPIRE was lost,
\* whichever tasks store at once and whenever Redis is away.
THEOREM MetricsStayRecent == Spec => []MetricsAreRecent
<1>1. Inv => MetricsAreRecent
  <2>1. SUFFICES ASSUME Inv, metrics # None, ~frozen
                 PROVE  now < metrics.read + TTL
    BY DEF MetricsAreRecent
  <2>2. /\ now \in Nat /\ TTL \in Nat \ {0}
        /\ metrics.read \in Nat /\ (metrics.dies = Never \/ metrics.dies \in Nat)
    BY <2>1, CachesAssumption, MetricsAreSome DEF Inv, CachesTypeOK, Metrics, Time
  <2>3. QED
    BY <2>1, <2>2 DEF Inv, StoredInv, LifeInv
<1>2. QED
  BY <1>1, SpecInv, PTL

=============================================================================
