--------------------------- MODULE SignalsProofs ---------------------------
(***************************************************************************)
(* For any instruments, accounts, prices and bands: the types of the       *)
(* Signals model, and one signal for each arming of a row.                 *)
(***************************************************************************)
EXTENDS Signals, TLAPS

\* A row a refresh has locked cannot be deleted under it.
LockedRowsExist == \A i \in Instruments : refresh.upd[i] # None => rows[i] # None

TypeInv == TypeOK /\ LockedRowsExist

\* The rows the writers put together are rows.
LEMMA CoalesceType ==
    ASSUME NEW new \in Levels, NEW old \in Levels
    PROVE  Coalesce(new, old) \in Levels
  BY DEF Coalesce, OrElse, Levels

\* The row written after a fetch of candles is a row.
LEMMA FreshType ==
    ASSUME day \in Nat, NEW band \in Levels
    PROVE  Fresh(band) \in Row
  BY DEF Fresh, Row

\* An upsert gives a row.
LEMMA UpsertType ==
    ASSUME NEW new \in Row, NEW old \in Row \cup {None}
    PROVE  Upsert(old, new) \in Row
<1>1. CASE old = None
  BY <1>1 DEF Upsert
<1>2. CASE old # None
  <2>1. new.levels \in Levels /\ old.levels \in Levels
    BY <1>2 DEF Row
  <2>2. Coalesce(new.levels, old.levels) \in Levels
    BY <2>1, CoalesceType
  <2>3. QED
    BY <1>2, <2>2 DEF Upsert, Row
<1>3. QED
  BY <1>1, <1>2

\* Setting the check flag of a row gives a row.
LEMMA CheckType ==
    ASSUME NEW row \in Row, NEW b \in BOOLEAN
    PROVE  [row EXCEPT !.check = b] \in Row
  BY DEF Row

\* Disarming keeps the rows that exist.
LEMMA DisarmType ==
    ASSUME rows \in [Instruments -> Row \cup {None}], NEW i \in Instruments
    PROVE  /\ Disarm(i) \in [Instruments -> Row \cup {None}]
           /\ \A j \in Instruments : rows[j] # None => Disarm(i)[j] # None
<1>1. CASE rows[i] = None
  BY <1>1 DEF Disarm
<1>2. CASE rows[i] # None
  <2>1. [rows[i] EXCEPT !.to_notify = FALSE] \in Row
    BY <1>2 DEF Row
  <2>2. [rows[i] EXCEPT !.to_notify = FALSE] # None
    BY <2>1, SignalsAssumption
  <2>3. Disarm(i) = [rows EXCEPT ![i] = [rows[i] EXCEPT !.to_notify = FALSE]]
    BY <1>2 DEF Disarm
  <2>4. QED
    BY <2>1, <2>2, <2>3
<1>3. QED
  BY <1>1, <1>2

\* The history keeps its type when rows are armed and when a disarm is lost.
HistType == [Instruments -> [sent : Nat, lost : Nat, kind : {"none", "entry", "stop"}]]

\* Arming resets counters and keeps the type of the history.
LEMMA RearmedType ==
    ASSUME hist \in HistType, NEW S
    PROVE  Rearmed(S) \in HistType
  BY DEF Rearmed, HistType

\* A lost disarm keeps the type of the history.
LEMMA DisarmLostType ==
    ASSUME hist \in HistType, NEW i \in Instruments
    PROVE  DisarmLost(i) \in HistType
  BY DEF DisarmLost, HistType

\* The rows the add-account dialog writes.
LEMMA AccRowType ==
    ASSUME TypeOK, acc # None, NEW got \in SUBSET Instruments,
           NEW band \in [Instruments -> Bands], NEW i \in Instruments
    PROVE  AccRow(i, got, band) \in Row
<1> USE SignalsAssumption DEF TypeOK
<1>1. Fresh(band[i]) \in Row
  BY FreshType
<1>2. Fresh(NoLevels) \in Row
  BY FreshType DEF NoLevels, Levels, Level
<1>3. acc.old[i] # None => [acc.old[i] EXCEPT !.check = TRUE] \in Row
  BY CheckType
<1>4. QED
  BY <1>1, <1>2, <1>3 DEF AccRow

\* The empty tables have their types.
LEMMA InitType == Init => TypeInv
<1> SUFFICES ASSUME Init PROVE TypeInv
  OBVIOUS
<1> USE SignalsAssumption DEF Init
<1>1. LockedRowsExist
  BY DEF LockedRowsExist, NoRefresh, NoUpdates
<1>2. links \in [Accounts -> Positions]
  BY DEF Positions, NoPositions
<1>3. hand \in [pc : HandPc, i : Instruments \cup {None}, matched : BOOLEAN] /\ hand.pc = "idle"
  BY DEF IdleHand, HandPc
<1>4. refresh \in [active : BOOLEAN, todo : SUBSET Instruments,
                   upd : [Instruments -> Bands \cup {None}]]
  BY DEF NoRefresh, NoUpdates
<1>5. hist \in [Instruments -> [sent : Nat, lost : Nat, kind : {"none", "entry", "stop"}]]
  BY DEF NoSignals
<1>6. QED
  BY <1>1, <1>2, <1>3, <1>4, <1>5 DEF TypeInv, TypeOK

\* Every step keeps the types, and the rows the refresh has locked.
LEMMA NextType == TypeInv /\ [Next]_vars => TypeInv'
<1> SUFFICES ASSUME TypeInv, [Next]_vars PROVE TypeInv'
  OBVIOUS
<1> USE SignalsAssumption DEF TypeInv, TypeOK, LockedRowsExist
<1>1. ASSUME NEW i \in Instruments, NEW price \in Prices, Tick(i, price) PROVE TypeInv'
  <2>1. hand' \in [pc : HandPc, i : Instruments \cup {None}, matched : BOOLEAN]
        /\ hand'.i \in Instruments
    <3>1. CASE hand' = [pc |-> "send_stop", i |-> i, matched |-> FALSE]
      BY <3>1 DEF HandPc
    <3>2. CASE hand' = [pc |-> "set_entry", i |-> i, matched |-> FALSE]
      BY <3>2 DEF HandPc
    <3>3. QED
      BY <1>1, <3>1, <3>2 DEF Tick
  <2>2. QED
    BY <1>1, <2>1 DEF Tick, clock, database
<1>2. CASE SendStop
  BY <1>2 DEF SendStop, clock, database, HandPc, Delivered
<1>3. CASE SetStop
  BY <1>3, DisarmType DEF SetStop, clock, HandPc, IdleHand
<1>4. CASE SetEntry
  BY <1>4 DEF SetEntry, clock, database, HandPc
<1>5. CASE SendEntry
  BY <1>5 DEF SendEntry, clock, database, HandPc, Delivered
<1>6. CASE CommitEntry
  <2>1. hand.i \in Instruments /\ hist \in HistType
    BY <1>6 DEF CommitEntry, HistType
  <2>2. rows' \in [Instruments -> Row \cup {None}] /\ LockedRowsExist' /\ hist' \in HistType
    BY <1>6, <2>1, DisarmType, DisarmLostType DEF CommitEntry
  <2>3. QED
    BY <1>6, <2>2 DEF CommitEntry, clock, HandPc, IdleHand, HistType
<1>7. CASE HandlerRaises
  BY <1>7 DEF HandlerRaises, clock, database, HandPc, IdleHand
<1>8. CASE SendRaisesLate
  BY <1>8 DEF SendRaisesLate, clock, database, HandPc, IdleHand, DeliveredAndLost
<1>9. CASE HandlerCommitFails
  BY <1>9 DEF HandlerCommitFails, clock, database, HandPc, IdleHand, DisarmLost
<1>10. ASSUME NEW a \in Accounts, SyncEmpty(a) PROVE TypeInv'
  BY <1>10 DEF SyncEmpty, clock, bus, NoPositions, Positions
<1>11. ASSUME NEW a \in Accounts, NEW p \in Portfolios, SyncBegin(a, p) PROVE TypeInv'
  BY <1>11 DEF SyncBegin, clock, database, Portfolio
<1>12. ASSUME NEW band \in [Instruments -> Bands], SyncCommit(band) PROVE TypeInv'
  <2>1. \A i \in Instruments : Fresh(band[i]) \in Row
    BY FreshType
  <2>2. \A i \in Instruments : Upsert(rows[i], Fresh(band[i])) \in Row
    BY <2>1, UpsertType
  <2>3. rows' \in [Instruments -> Row \cup {None}] /\ LockedRowsExist'
    BY <1>12, <2>2 DEF SyncCommit
  <2>4. links' \in [Accounts -> Positions]
    BY <1>12 DEF SyncCommit, Positions
  <2>5. hist' \in HistType
    BY <1>12, RearmedType DEF SyncCommit, HistType
  <2>6. QED
    BY <1>12, <2>3, <2>4, <2>5 DEF SyncCommit, clock, HistType
<1>13. CASE SyncRaises
  BY <1>13 DEF SyncRaises, clock, database
<1>13a. CASE SyncReads
  BY <1>13a DEF SyncReads, clock, database, Portfolio
<1>14. CASE OpenJob
  BY <1>14 DEF OpenJob, database, bus, NoUpdates
<1>15. ASSUME NEW i \in Instruments, NEW band \in Bands, Recalc(i, band) PROVE TypeInv'
  BY <1>15 DEF Recalc, clock, database, bus
<1>16. ASSUME NEW i \in Instruments, RecalcRaises(i) PROVE TypeInv'
  BY <1>16 DEF RecalcRaises, clock, database, bus
<1>17. CASE RefreshCommit
  <2>1. ASSUME NEW i \in Recalculated
        PROVE  [rows[i] EXCEPT !.to_notify = TRUE, !.last_update = day,
                               !.levels = refresh.upd[i]] \in Row
    <3>1. rows[i] \in Row /\ refresh.upd[i] \in Levels
      BY <2>1 DEF Recalculated
    <3>2. QED
      BY <3>1 DEF Row
  <2>2. rows' \in [Instruments -> Row \cup {None}]
    BY <1>17, <2>1 DEF RefreshCommit
  <2>3. hist' \in HistType
    BY <1>17, RearmedType DEF RefreshCommit, HistType
  <2>4. QED
    BY <1>17, <2>2, <2>3 DEF RefreshCommit, clock, bus, NoRefresh, NoUpdates, HistType
<1>18. CASE RefreshRollback
  BY <1>18 DEF RefreshRollback, clock, database, bus, NoRefresh, NoUpdates
<1>19. CASE CloseJob
  BY <1>19 DEF CloseJob, database, bus
<1>20. CASE ExpirationJob
  BY <1>20 DEF ExpirationJob, clock, bus, Positions, Locked
<1>21. CASE NewDay
  <2>1. hist' \in HistType
    BY <1>21 DEF NewDay, HistType
  <2>2. QED
    BY <1>21, <2>1 DEF NewDay, database, bus, HistType
<1>22. CASE Crash
  <2>1. hist' \in HistType
    BY <1>22, DisarmLostType DEF Crash, HistType
  <2>2. QED
    BY <1>22, <2>1 DEF Crash, database, IdleHand, NoRefresh, NoUpdates, HandPc, HistType
<1>23. ASSUME NEW ids \in SUBSET Favourites, FavBegin(ids) PROVE TypeInv'
  BY <1>23 DEF FavBegin, clock, database, bus
<1>24. ASSUME NEW band \in [Instruments -> Bands], FavCommit(band) PROVE TypeInv'
  <2>1. \A i \in Instruments : Fresh(band[i]) \in Row
    BY FreshType
  <2>2. \A i \in Instruments : Upsert(rows[i], Fresh(band[i])) \in Row
    BY <2>1, UpsertType
  <2>3. \A i \in Instruments : rows[i] # None => [rows[i] EXCEPT !.check = TRUE] \in Row
    BY CheckType
  <2>4. rows' \in [Instruments -> Row \cup {None}] /\ LockedRowsExist'
    BY <1>24, <2>2, <2>3 DEF FavCommit
  <2>5. hist' \in HistType
    BY <1>24, RearmedType DEF FavCommit, HistType
  <2>6. QED
    BY <1>24, <2>4, <2>5 DEF FavCommit, clock, bus, HistType
<1>25. CASE FavRaises
  BY <1>25 DEF FavRaises, clock, database, bus
<1>26. ASSUME NEW a \in Addable, NEW p \in Portfolios, AccBegin(a, p) PROVE TypeInv'
  BY <1>26 DEF AccBegin, clock, database, bus, Portfolio
<1>27. ASSUME NEW got \in SUBSET Instruments, NEW band \in [Instruments -> Bands],
              AccCommit(got, band)
       PROVE TypeInv'
  <2>1. \A i \in Instruments : AccRow(i, got, band) \in Row
    BY <1>27, AccRowType DEF AccCommit
  <2>2. \A i \in Instruments : Upsert(rows[i], AccRow(i, got, band)) \in Row
    BY <2>1, UpsertType
  <2>3. rows' \in [Instruments -> Row \cup {None}] /\ LockedRowsExist'
    BY <1>27, <2>2 DEF AccCommit
  <2>4. links' \in [Accounts -> Positions]
    BY <1>27 DEF AccCommit, Positions
  <2>5. hist' \in HistType
    BY <1>27, RearmedType DEF AccCommit, HistType
  <2>6. QED
    BY <1>27, <2>3, <2>4, <2>5 DEF AccCommit, clock, bus, HistType
<1>28. CASE AccRaises
  BY <1>28 DEF AccRaises, clock, database, bus
<1>29. ASSUME NEW a \in Accounts, RemoveAccount(a) PROVE TypeInv'
  BY <1>29 DEF RemoveAccount, clock, bus, NoPositions, Positions
<1>30. ASSUME NEW ids \in SUBSET Instruments, Uncheck(ids) PROVE TypeInv'
  <2>1. \A i \in Instruments : rows[i] # None => [rows[i] EXCEPT !.check = FALSE] \in Row
    BY CheckType
  <2>2. rows' \in [Instruments -> Row \cup {None}] /\ LockedRowsExist'
    BY <1>30, <2>1 DEF Uncheck
  <2>3. QED
    BY <1>30, <2>2 DEF Uncheck, clock, bus
<1>31. CASE UNCHANGED vars
  BY <1>31 DEF vars, clock, database, bus
<1>32. QED
  BY <1>1, <1>2, <1>3, <1>4, <1>5, <1>6, <1>7, <1>8, <1>9, <1>10, <1>11, <1>12, <1>13,
     <1>14, <1>15, <1>16, <1>17, <1>18, <1>19, <1>20, <1>21, <1>22, <1>23, <1>24, <1>25,
     <1>26, <1>27, <1>28, <1>29, <1>30, <1>31, <1>13a
     DEF Next, MarketStep, SyncStep, RefreshStep, ServiceStep, UserStep

\* The types hold in every reachable state.
LEMMA SpecType == Spec => []TypeInv
  BY InitType, NextType, PTL DEF Spec

\* Every variable of the model keeps its type.
THEOREM SignalsTypeOK == Spec => []TypeOK
<1>1. TypeInv => TypeOK
  BY DEF TypeInv
<1>2. QED
  BY <1>1, SpecType, PTL

-----------------------------------------------------------------------------
(* One signal for each arming *)

\* What the writers put into to_notify.
LEMMA UpsertNotify ==
    ASSUME NEW new \in Row, NEW old \in Row \cup {None}
    PROVE  Upsert(old, new).to_notify = new.to_notify
  BY DEF Upsert, Row

\* Disarming touches the notify flag of one row only.
LEMMA DisarmNotify ==
    ASSUME rows \in [Instruments -> Row \cup {None}], NEW i \in Instruments, rows' = Disarm(i)
    PROVE  /\ ~Armed(i)'
           /\ \A j \in Instruments \ {i} : rows'[j] = rows[j]
<1>1. CASE rows[i] = None
  <2>1. rows' = rows
    BY <1>1 DEF Disarm
  <2>2. QED
    BY <1>1, <2>1 DEF Armed
<1>2. CASE rows[i] # None
  <2>1. rows' = [rows EXCEPT ![i] = [rows[i] EXCEPT !.to_notify = FALSE]]
    BY <1>2 DEF Disarm
  <2>2. rows'[i].to_notify = FALSE
    BY <1>2, <2>1 DEF Row
  <2>3. ~rows'[i].to_notify
    BY <2>2, Zenon
  <2>4. QED
    BY <2>1, <2>3 DEF Armed
<1>3. QED
  BY <1>1, <1>2

\* A commit that arms a set of rows starts their budget anew.
LEMMA ArmingBudget ==
    ASSUME TypeInv, SignalBudget, NEW S, hist' = Rearmed(S), UNCHANGED hand,
           \A i \in Instruments : Armed(i)' => i \in S \/ Armed(i)
    PROVE  SignalBudget'
<1>1. ASSUME NEW i \in Instruments \cap S
      PROVE  hist'[i].sent = 0 /\ hist'[i].lost = 0
  BY <1>1 DEF TypeInv, TypeOK, Rearmed
<1>2. ASSUME NEW i \in Instruments \ S
      PROVE  hist'[i] = hist[i]
  BY <1>2 DEF Rearmed
<1>3. ASSUME NEW i \in Instruments
      PROVE  /\ hist'[i].sent <= hist'[i].lost + 1
             /\ PreSend(i)' => hist'[i].sent <= hist'[i].lost
             /\ Armed(i)' /\ ~PostSend(i)' => hist'[i].sent <= hist'[i].lost
  <2>1. CASE i \in S
    BY <1>1, <2>1
  <2>2. CASE i \notin S
    BY <1>2, <2>2 DEF SignalBudget, PreSend, PostSend
  <2>3. QED
    BY <2>1, <2>2
<1>4. QED
  BY <1>3 DEF SignalBudget

\* A write that arms nothing and says nothing leaves the budget alone.
LEMMA QuietBudget ==
    ASSUME TypeInv, SignalBudget, UNCHANGED hand,
           \A i \in Instruments : /\ hist'[i].sent = hist[i].sent
                                  /\ hist'[i].lost = hist[i].lost
                                  /\ Armed(i)' => Armed(i)
    PROVE  SignalBudget'
  BY DEF SignalBudget, PreSend, PostSend

\* The handler that has disarmed its row is done.
LEMMA IdleBudget ==
    ASSUME TypeInv, SignalBudget, NEW i \in Instruments,
           hand.i = i, hand'.pc = "idle", UNCHANGED hist,
           ~Armed(i)', \A j \in Instruments \ {i} : rows'[j] = rows[j]
    PROVE  SignalBudget'
<1> SUFFICES ASSUME NEW j \in Instruments
             PROVE  /\ hist[j].sent <= hist[j].lost + 1
                    /\ ~PreSend(j)'
                    /\ Armed(j)' => hist[j].sent <= hist[j].lost
  BY DEF SignalBudget
<1>1. hist[j].sent <= hist[j].lost + 1 /\ ~PreSend(j)'
  BY DEF SignalBudget, PreSend
<1>2. CASE j = i
  BY <1>1, <1>2
<1>3. CASE j # i
  <2>1. Armed(j)' <=> Armed(j)
    BY <1>3 DEF Armed
  <2>2. ~PostSend(j)
    BY <1>3 DEF PostSend
  <2>3. QED
    BY <1>1, <2>1, <2>2 DEF SignalBudget
<1>4. QED
  BY <1>2, <1>3

\* The price handler spends the budget and disarms the row, whichever call fails.
LEMMA MarketBudget ==
    ASSUME TypeInv, SignalBudget, MarketStep
    PROVE  SignalBudget'
<1> USE DEF TypeInv, TypeOK
<1>1. ASSUME NEW i \in Instruments, NEW price \in Prices, Tick(i, price) PROVE SignalBudget'
  <2>1. Armed(i) /\ ~PostSend(i) /\ ~PreSend(i)
    BY <1>1 DEF Tick, BusFree, Armed, PostSend, PreSend
  <2>2. hand'.i = i /\ hand'.pc \in {"send_stop", "set_entry"} /\ UNCHANGED <<rows, hist>>
    BY <1>1 DEF Tick, database
  <2>3. QED
    BY <1>1, <2>1, <2>2 DEF Tick, BusFree, SignalBudget, Armed, PostSend, PreSend
<1>2. CASE SendStop \/ SendEntry
  <2>1. /\ PreSend(hand.i) /\ hand.i \in Instruments
        /\ hand'.i = hand.i /\ hand'.pc \in {"set_stop", "commit_entry"}
        /\ UNCHANGED rows
    BY <1>2 DEF SendStop, SendEntry, PreSend, database
  <2>2. /\ hist'[hand.i].sent = hist[hand.i].sent + 1
        /\ hist'[hand.i].lost = hist[hand.i].lost
        /\ \A j \in Instruments \ {hand.i} : hist'[j] = hist[j]
    BY <1>2, <2>1 DEF SendStop, SendEntry, Delivered
  <2>3. QED
    BY <2>1, <2>2 DEF SignalBudget, Armed, PostSend, PreSend
<1>3. CASE SetStop
  <2>1. PICK i \in Instruments : hand.i = i
    BY <1>3 DEF SetStop
  <2>2. PostSend(i) /\ UNCHANGED hist /\ hand'.pc = "idle"
    BY <1>3, <2>1 DEF SetStop, PostSend, IdleHand
  <2>3. ~Armed(i)' /\ \A j \in Instruments \ {i} : rows'[j] = rows[j]
    BY <1>3, <2>1, DisarmNotify DEF SetStop
  <2>4. QED
    BY <2>1, <2>2, <2>3, IdleBudget
<1>4. CASE SetEntry
  BY <1>4 DEF SetEntry, database, SignalBudget, Armed, PostSend, PreSend
<1>5. CASE CommitEntry
  <2>1. PostSend(hand.i) /\ hand.i \in Instruments /\ hand'.pc = "idle"
    BY <1>5 DEF CommitEntry, PostSend, IdleHand
  <2>2. CASE hand.matched
    <3>1. PICK i \in Instruments : hand.i = i
      BY <2>1
    <3>2. UNCHANGED hist /\ ~Armed(i)' /\ \A j \in Instruments \ {i} : rows'[j] = rows[j]
      BY <1>5, <2>2, <3>1, DisarmNotify DEF CommitEntry
    <3>3. QED
      BY <2>1, <3>1, <3>2, IdleBudget
  <2>3. CASE ~hand.matched
    <3>1. /\ UNCHANGED rows
          /\ hist'[hand.i].sent = hist[hand.i].sent
          /\ hist'[hand.i].lost = hist[hand.i].lost + 1
          /\ \A j \in Instruments \ {hand.i} : hist'[j] = hist[j]
      BY <1>5, <2>1, <2>3 DEF CommitEntry, DisarmLost
    <3>2. QED
      BY <2>1, <3>1 DEF SignalBudget, Armed, PostSend, PreSend
  <2>4. QED
    BY <2>2, <2>3
<1>6. CASE HandlerRaises
  BY <1>6 DEF HandlerRaises, database, IdleHand, SignalBudget, Armed, PostSend, PreSend
<1>7. CASE SendRaisesLate
  <2>1. PreSend(hand.i) /\ hand.i \in Instruments /\ hand'.pc = "idle" /\ UNCHANGED rows
    BY <1>7 DEF SendRaisesLate, PreSend, IdleHand, database
  <2>2. /\ hist'[hand.i].sent = hist[hand.i].sent + 1
        /\ hist'[hand.i].lost = hist[hand.i].lost + 1
        /\ \A j \in Instruments \ {hand.i} : hist'[j] = hist[j]
    BY <1>7, <2>1 DEF SendRaisesLate, DeliveredAndLost
  <2>3. QED
    BY <2>1, <2>2 DEF SignalBudget, Armed, PostSend, PreSend
<1>8. CASE HandlerCommitFails
  <2>1. PostSend(hand.i) /\ hand.i \in Instruments /\ hand'.pc = "idle" /\ UNCHANGED rows
    BY <1>8 DEF HandlerCommitFails, PostSend, IdleHand, database
  <2>2. /\ hist'[hand.i].sent = hist[hand.i].sent
        /\ hist'[hand.i].lost = hist[hand.i].lost + 1
        /\ \A j \in Instruments \ {hand.i} : hist'[j] = hist[j]
    BY <1>8, <2>1 DEF HandlerCommitFails, DisarmLost
  <2>3. QED
    BY <2>1, <2>2 DEF SignalBudget, Armed, PostSend, PreSend
<1>9. QED
  BY <1>1, <1>2, <1>3, <1>4, <1>5, <1>6, <1>7, <1>8 DEF MarketStep

\* The portfolio updates of the bus.
LEMMA SyncBudget ==
    ASSUME TypeInv, SignalBudget, SyncStep
    PROVE  SignalBudget'
<1> USE DEF TypeInv, TypeOK
<1>1. ASSUME NEW band \in [Instruments -> Bands], SyncCommit(band) PROVE SignalBudget'
  <2>1. \A i \in Instruments : Armed(i)' => i \in sync.need \/ Armed(i)
    BY <1>1 DEF SyncCommit, Armed
  <2>2. hist' = Rearmed(sync.need) /\ UNCHANGED hand
    BY <1>1 DEF SyncCommit
  <2>3. QED
    BY <2>1, <2>2, ArmingBudget
<1>2. CASE UNCHANGED <<rows, hand, hist>>
  BY <1>2, QuietBudget DEF Armed
<1>3. QED
  BY <1>1, <1>2 DEF SyncStep, SyncEmpty, SyncBegin, SyncReads, SyncRaises, database, bus

\* The refresh.
LEMMA RefreshBudget ==
    ASSUME TypeInv, SignalBudget, RefreshStep
    PROVE  SignalBudget'
<1> USE DEF TypeInv, TypeOK
<1>1. CASE RefreshCommit
  <2>1. \A i \in Instruments : Armed(i)' => i \in Recalculated \/ Armed(i)
    BY <1>1 DEF RefreshCommit, Armed
  <2>2. hist' = Rearmed(Recalculated) /\ UNCHANGED hand
    BY <1>1 DEF RefreshCommit, bus
  <2>3. QED
    BY <2>1, <2>2, ArmingBudget
<1>2. CASE UNCHANGED <<rows, hand, hist>>
  BY <1>2, QuietBudget DEF Armed
<1>3. QED
  BY <1>1, <1>2 DEF RefreshStep, Recalc, RecalcRaises, RefreshRollback, database, bus

\* The scheduler's jobs, and a crash that loses the disarm of a message that is out.
LEMMA ServiceBudget ==
    ASSUME TypeInv, SignalBudget, ServiceStep
    PROVE  SignalBudget'
<1> USE DEF TypeInv, TypeOK
<1>1. CASE UNCHANGED <<rows, hand, hist>>
  BY <1>1, QuietBudget DEF Armed
<1>2. CASE ExpirationJob
  <2>1. UNCHANGED <<hand, hist>> /\ \A i \in Instruments : Armed(i)' => Armed(i)
    BY <1>2 DEF ExpirationJob, Armed, bus
  <2>2. QED
    BY <2>1, QuietBudget
<1>3. CASE NewDay
  <2>1. /\ UNCHANGED <<hand, rows>>
        /\ \A i \in Instruments : /\ hist'[i].sent = hist[i].sent
                                  /\ hist'[i].lost = hist[i].lost
    BY <1>3 DEF NewDay, bus, database
  <2>2. QED
    BY <2>1, QuietBudget DEF Armed
<1>4. CASE Crash
  <2>1. UNCHANGED rows /\ hand'.pc = "idle"
    BY <1>4 DEF Crash, database, IdleHand
  <2>2. CASE hand.pc \in {"set_stop", "commit_entry"}
    <3>1. /\ hand.i \in Instruments
          /\ hist'[hand.i].sent = hist[hand.i].sent
          /\ hist'[hand.i].lost = hist[hand.i].lost + 1
          /\ \A j \in Instruments \ {hand.i} : hist'[j] = hist[j]
      BY <1>4, <2>2 DEF Crash, DisarmLost
    <3>2. QED
      BY <2>1, <2>2, <3>1 DEF SignalBudget, Armed, PostSend, PreSend
  <2>3. CASE hand.pc \notin {"set_stop", "commit_entry"}
    BY <1>4, <2>1, <2>3 DEF Crash, SignalBudget, Armed, PostSend, PreSend
  <2>4. QED
    BY <2>2, <2>3
<1>5. QED
  BY <1>1, <1>2, <1>3, <1>4 DEF ServiceStep, OpenJob, CloseJob, database, bus

\* The dialogs: each row they arm starts a new budget.
LEMMA UserBudget ==
    ASSUME TypeInv, SignalBudget, UserStep
    PROVE  SignalBudget'
<1> USE SignalsAssumption DEF TypeInv, TypeOK
<1>1. ASSUME NEW band \in [Instruments -> Bands], FavCommit(band) PROVE SignalBudget'
  <2>1. \A i \in Instruments : rows[i] # None =>
           [rows[i] EXCEPT !.check = TRUE].to_notify = rows[i].to_notify
    BY DEF Row
  <2>2. \A i \in Instruments : Armed(i)' => i \in fav.need \/ Armed(i)
    BY <1>1, <2>1 DEF FavCommit, Armed
  <2>3. hist' = Rearmed(fav.need) /\ UNCHANGED hand
    BY <1>1 DEF FavCommit, bus
  <2>4. QED
    BY <2>2, <2>3, ArmingBudget
<1>2. ASSUME NEW got \in SUBSET Instruments, NEW band \in [Instruments -> Bands],
             AccCommit(got, band)
      PROVE SignalBudget'
  <2> DEFINE arming == {i \in Portfolio(acc.p) : AccRow(i, got, band).to_notify}
  <2>1. \A i \in Instruments : AccRow(i, got, band) \in Row
    BY <1>2, AccRowType DEF AccCommit
  <2>2. \A i \in Instruments :
           Upsert(rows[i], AccRow(i, got, band)).to_notify = AccRow(i, got, band).to_notify
    BY <2>1, UpsertNotify
  <2>3. \A i \in Instruments : Armed(i)' => i \in arming \/ Armed(i)
    BY <1>2, <2>2 DEF AccCommit, Armed, Portfolio
  <2>4. hist' = Rearmed(arming) /\ UNCHANGED hand
    BY <1>2 DEF AccCommit, bus
  <2>5. QED
    BY <2>3, <2>4, ArmingBudget
<1>3. ASSUME NEW ids \in SUBSET Instruments, Uncheck(ids) PROVE SignalBudget'
  <2>1. \A i \in Instruments : rows[i] # None =>
           [rows[i] EXCEPT !.check = FALSE].to_notify = rows[i].to_notify
    BY DEF Row
  <2>2. UNCHANGED <<hand, hist>> /\ \A i \in Instruments : Armed(i)' => Armed(i)
    BY <1>3, <2>1 DEF Uncheck, Armed, bus
  <2>3. QED
    BY <2>2, QuietBudget
<1>4. CASE UNCHANGED <<rows, hand, hist>>
  BY <1>4, QuietBudget DEF Armed
<1>5. QED
  BY <1>1, <1>2, <1>3, <1>4
     DEF UserStep, FavBegin, FavRaises, AccBegin, AccRaises, RemoveAccount, database, bus

\* The budget of messages is never exceeded, by whatever handlers, jobs and dialogs do to
\* a row while the price handler awaits (market_proc.py:97-177).
THEOREM SpecBudget == Spec => []SignalBudget
<1>1. Init => SignalBudget
  <2> SUFFICES ASSUME Init PROVE SignalBudget
    OBVIOUS
  <2>1. ASSUME NEW i \in Instruments PROVE hist[i].sent = 0 /\ hist[i].lost = 0
    <3>1. hist[i] = NoSignals
      BY DEF Init
    <3>2. QED
      BY <3>1 DEF NoSignals
  <2>2. ASSUME NEW i \in Instruments
        PROVE  hist[i].sent <= hist[i].lost + 1 /\ hist[i].sent <= hist[i].lost
    BY <2>1
  <2>3. QED
    BY <2>2 DEF SignalBudget
<1>2. TypeInv /\ SignalBudget /\ [Next]_vars => SignalBudget'
  <2>1. ASSUME TypeInv, SignalBudget, UNCHANGED vars PROVE SignalBudget'
    BY <2>1, QuietBudget DEF vars, clock, Armed
  <2>2. QED
    BY <2>1, MarketBudget, SyncBudget, RefreshBudget, ServiceBudget, UserBudget DEF Next
<1>3. QED
  BY <1>1, <1>2, SpecType, PTL DEF Spec

\* An arming is worth one message, plus one for each disarm lost to a failed call.
THEOREM OneSignalPerArming == Spec => []AtMostOneSignal
<1>1. SignalBudget => AtMostOneSignal
  BY DEF SignalBudget, AtMostOneSignal
<1>2. QED
  BY <1>1, SpecBudget, PTL

=============================================================================
