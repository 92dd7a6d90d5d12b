------------------------ MODULE SignalsTablesProofs ------------------------
(***************************************************************************)
(* What the transactions leave in the tables, for any instruments,         *)
(* accounts, prices and bands: links that refer to what exists, stamps     *)
(* that come with an arming, no swallowed signal, and no entry signal for  *)
(* a recorded position.                                                    *)
(***************************************************************************)
EXTENDS SignalsProofs

-----------------------------------------------------------------------------
(* Positions are recorded for stored accounts and instruments only *)

RowsStay == \A i \in Instruments : rows[i] # None => rows'[i] # None

\* A transaction that deletes a row or an account deletes its links, and one that adds
\* a link adds it to what exists.
LEMMA KeepLinks ==
    ASSUME LinksAreBacked,
           \A a \in Accounts, i \in Instruments : links'[a][i] # None =>
               \/ links[a][i] # None /\ (rows[i] # None => rows'[i] # None)
                                     /\ (a \in accounts => a \in accounts')
               \/ rows'[i] # None /\ a \in accounts'
    PROVE  LinksAreBacked'
  BY DEF LinksAreBacked

\* The rows a transaction writes exist afterwards.
LEMMA UpsertExists ==
    ASSUME NEW new \in Row, NEW old \in Row \cup {None}
    PROVE  Upsert(old, new) # None
  BY UpsertType, SignalsAssumption

\* None is not a row.
LEMMA RowsAreNotNone == \A row \in Row : row # None
  BY SignalsAssumption

\* Every step leaves links to stored rows and accounts only.
LEMMA NextLinks == TypeInv /\ LinksAreBacked /\ [Next]_vars => LinksAreBacked'
<1> SUFFICES ASSUME TypeInv, LinksAreBacked, [Next]_vars PROVE LinksAreBacked'
  OBVIOUS
<1> USE SignalsAssumption DEF TypeInv, TypeOK
<1>1. ASSUME UNCHANGED <<links, accounts>>, RowsStay PROVE LinksAreBacked'
  BY <1>1, KeepLinks DEF RowsStay
<1>2. ASSUME UNCHANGED <<links, accounts, rows>> PROVE LinksAreBacked'
  BY <1>1, <1>2 DEF RowsStay
<1>3. CASE MarketStep
  <2>1. ASSUME SetStop \/ CommitEntry PROVE UNCHANGED <<links, accounts>> /\ RowsStay
    <3>1. UNCHANGED <<links, accounts>> /\ hand.i \in Instruments
          /\ (rows' = rows \/ rows' = Disarm(hand.i))
      BY <2>1 DEF SetStop, CommitEntry
    <3>2. QED
      BY <3>1, DisarmType DEF RowsStay
  <2>2. QED
    BY <1>1, <1>2, <1>3, <2>1 DEF MarketStep, Tick, SendStop, SetEntry, SendEntry,
       HandlerRaises, SendRaisesLate, HandlerCommitFails, database
<1>4. ASSUME NEW a \in Accounts, SyncEmpty(a) PROVE LinksAreBacked'
  BY <1>4, KeepLinks DEF SyncEmpty, NoPositions
<1>5. ASSUME NEW band \in [Instruments -> Bands], SyncCommit(band) PROVE LinksAreBacked'
  <2>1. \A i \in Instruments : Upsert(rows[i], Fresh(band[i])) # None
    BY FreshType, UpsertExists
  <2>2. \A i \in Instruments : rows[i] # None \/ i \in sync.need => rows'[i] # None
    BY <1>5, <2>1 DEF SyncCommit
  <2>3. \A i \in sync.add : rows'[i] # None /\ sync.a \in accounts'
    BY <1>5, <2>2 DEF SyncCommit, LinksExist
  <2>4. \A a \in Accounts, i \in Instruments : links'[a][i] # None =>
           links[a][i] # None \/ (a = sync.a /\ i \in sync.add)
    BY <1>5 DEF SyncCommit
  <2>5. accounts' = accounts
    BY <1>5 DEF SyncCommit
  <2>6. QED
    BY <2>2, <2>3, <2>4, <2>5, KeepLinks
<1>6. CASE RefreshCommit
  <2>1. ASSUME NEW i \in Recalculated
        PROVE  [rows[i] EXCEPT !.to_notify = TRUE, !.last_update = day,
                               !.levels = refresh.upd[i]] \in Row
    <3>1. rows[i] \in Row /\ refresh.upd[i] \in Levels
      BY DEF LockedRowsExist, Recalculated
    <3>2. QED
      BY <3>1 DEF Row
  <2>2. UNCHANGED <<links, accounts>> /\ RowsStay
    BY <1>6, <2>1, RowsAreNotNone DEF RefreshCommit, RowsStay
  <2>3. QED
    BY <1>1, <2>2
<1>7. CASE ExpirationJob
  <2> DEFINE expired == {i \in Expiring : rows[i] # None}
  <2>1. \A i \in Instruments : rows'[i] = IF i \in expired THEN None ELSE rows[i]
    BY <1>7 DEF ExpirationJob
  <2>2. \A a \in Accounts, i \in Instruments :
           links'[a][i] = IF i \in expired THEN None ELSE links[a][i]
    BY <1>7 DEF ExpirationJob
  <2>3. accounts' = accounts
    BY <1>7 DEF ExpirationJob
  <2>4. QED
    BY <2>1, <2>2, <2>3, KeepLinks
<1>8. ASSUME NEW band \in [Instruments -> Bands], FavCommit(band) PROVE LinksAreBacked'
  <2>1. \A i \in Instruments : Upsert(rows[i], Fresh(band[i])) # None
    BY FreshType, UpsertExists
  <2>2. \A i \in Instruments : rows[i] # None => [rows[i] EXCEPT !.check = TRUE] # None
    BY CheckType, RowsAreNotNone
  <2>3. UNCHANGED <<links, accounts>> /\ RowsStay
    BY <1>8, <2>1, <2>2 DEF FavCommit, RowsStay
  <2>4. QED
    BY <1>1, <2>3
<1>9. ASSUME NEW got \in SUBSET Instruments, NEW band \in [Instruments -> Bands],
             AccCommit(got, band)
      PROVE  LinksAreBacked'
  <2>1. \A i \in Instruments : AccRow(i, got, band) \in Row
    BY <1>9, AccRowType DEF AccCommit
  <2>2. \A i \in Instruments : Upsert(rows[i], AccRow(i, got, band)) # None
    BY <2>1, UpsertExists
  <2>3. \A i \in Instruments : rows[i] # None \/ i \in Portfolio(acc.p) => rows'[i] # None
    BY <1>9, <2>2 DEF AccCommit
  <2>4. \A a \in Accounts, i \in Instruments : links'[a][i] # None =>
           links[a][i] # None \/ (a = acc.a /\ i \in Portfolio(acc.p))
    BY <1>9 DEF AccCommit
  <2>5. accounts' = accounts \cup {acc.a}
    BY <1>9 DEF AccCommit
  <2>6. QED
    BY <2>3, <2>4, <2>5, KeepLinks
<1>10. ASSUME NEW a \in Accounts, RemoveAccount(a) PROVE LinksAreBacked'
  <2>1. \A b \in Accounts, i \in Instruments : links'[b][i] # None => b # a /\ links[b][i] # None
    BY <1>10 DEF RemoveAccount, NoPositions
  <2>2. rows' = rows /\ accounts' = accounts \ {a}
    BY <1>10 DEF RemoveAccount
  <2>3. QED
    BY <2>1, <2>2, KeepLinks
<1>11. ASSUME NEW ids \in SUBSET Instruments, Uncheck(ids) PROVE LinksAreBacked'
  <2>1. \A i \in Instruments : rows[i] # None => [rows[i] EXCEPT !.check = FALSE] # None
    BY CheckType, RowsAreNotNone
  <2>2. UNCHANGED <<links, accounts>> /\ RowsStay
    BY <1>11, <2>1 DEF Uncheck, RowsStay
  <2>3. QED
    BY <1>1, <2>2
<1>12. CASE SyncStep
  BY <1>2, <1>4, <1>5, <1>12 DEF SyncStep, SyncBegin, SyncReads, SyncRaises, database
<1>13. CASE RefreshStep
  BY <1>2, <1>6, <1>13 DEF RefreshStep, Recalc, RecalcRaises, RefreshRollback, database
<1>14. CASE ServiceStep
  BY <1>2, <1>7, <1>14 DEF ServiceStep, OpenJob, CloseJob, NewDay, Crash, database
<1>15. CASE UserStep
  BY <1>2, <1>8, <1>9, <1>10, <1>11, <1>15
     DEF UserStep, FavBegin, FavRaises, AccBegin, AccRaises, database
<1>16. CASE UNCHANGED vars
  BY <1>2, <1>16 DEF vars
<1>17. QED
  BY <1>3, <1>12, <1>13, <1>14, <1>15, <1>16 DEF Next

\* A position is recorded only for a stored account and a stored instrument.
THEOREM LinksStayBacked == Spec => []LinksAreBacked
<1>1. Init => LinksAreBacked
  BY DEF Init, LinksAreBacked, NoPositions
<1>2. QED
  BY <1>1, NextLinks, SpecType, PTL DEF Spec

-----------------------------------------------------------------------------
(* How a step may write a row *)

SameStamp(new, old) == new.last_update = old.last_update /\ new.to_notify = old.to_notify

\* Kept, disarmed by the handler that has sent its message, armed and stamped today, or
\* put back by the add-account dialog as it was read.
Written(i) ==
    \/ rows[i] # None /\ SameStamp(rows'[i], rows[i])
    \/ rows[i] # None /\ rows'[i].last_update = rows[i].last_update /\ PostSend(i)
    \/ rows'[i].to_notify /\ rows'[i].last_update = day
    \/ /\ acc # None /\ acc' = None
       /\ acc.old[i] # None /\ SameStamp(rows'[i], acc.old[i])

WrittenRows == \A i \in Instruments : rows'[i] # None => Written(i)

\* The row written after a fetch of candles is armed and stamped today.
LEMMA FreshStamp ==
    ASSUME NEW band
    PROVE  Fresh(band).to_notify /\ Fresh(band).last_update = day
  BY DEF Fresh

\* An upsert takes the stamp and the flag of the new row.
LEMMA UpsertStamp ==
    ASSUME NEW new \in Row, NEW old \in Row \cup {None}
    PROVE  SameStamp(Upsert(old, new), new)
  BY DEF Upsert, Row, SameStamp

\* The rows that favourites and portfolio updates compute are armed and stamped.
LEMMA UpsertFresh ==
    ASSUME TypeInv, NEW band \in [Instruments -> Bands], NEW i \in Instruments
    PROVE  LET new == Upsert(rows[i], Fresh(band[i]))
           IN  new.to_notify /\ new.last_update = day
<1> DEFINE new == Upsert(rows[i], Fresh(band[i]))
<1>1. Fresh(band[i]) \in Row /\ rows[i] \in Row \cup {None}
  BY FreshType, SignalsAssumption DEF TypeInv, TypeOK
<1>2. SameStamp(new, Fresh(band[i]))
  BY <1>1, UpsertStamp
<1>3. QED
  BY <1>2, FreshStamp, Zenon DEF SameStamp

\* Every transaction writes a row in one of these four ways.
LEMMA NextWrites == TypeInv /\ [Next]_vars => WrittenRows
<1> SUFFICES ASSUME TypeInv, [Next]_vars PROVE WrittenRows
  OBVIOUS
<1> USE SignalsAssumption DEF TypeInv, TypeOK
<1>1. ASSUME \A i \in Instruments : rows'[i] # None => rows[i] # None /\ SameStamp(rows'[i], rows[i])
      PROVE  WrittenRows
  BY <1>1 DEF WrittenRows, Written
<1>2. ASSUME UNCHANGED rows PROVE WrittenRows
  BY <1>1, <1>2 DEF SameStamp
<1>3. CASE SetStop \/ CommitEntry
  <2>1. PostSend(hand.i) /\ hand.i \in Instruments /\ (rows' = rows \/ rows' = Disarm(hand.i))
    BY <1>3 DEF SetStop, CommitEntry, PostSend
  <2>2. CASE rows' = Disarm(hand.i)
    <3>1. \A j \in Instruments : rows'[j] # None => rows[j] # None
                              /\ rows'[j].last_update = rows[j].last_update
                              /\ (j # hand.i => rows'[j] = rows[j])
      BY <2>1, <2>2 DEF Disarm, Row
    <3>2. QED
      BY <2>1, <3>1 DEF WrittenRows, Written, SameStamp
  <2>3. QED
    BY <1>2, <2>1, <2>2
<1>4. ASSUME NEW band \in [Instruments -> Bands], SyncCommit(band) PROVE WrittenRows
  BY <1>4, UpsertFresh DEF SyncCommit, WrittenRows, Written, SameStamp
<1>5. CASE RefreshCommit
  <2>1. ASSUME NEW i \in Recalculated
        PROVE  rows'[i].to_notify /\ rows'[i].last_update = day
    <3>1. rows[i] \in Row /\ i \in Instruments
      BY DEF LockedRowsExist, Recalculated
    <3>2. rows'[i] = [rows[i] EXCEPT !.to_notify = TRUE, !.last_update = day,
                                     !.levels = refresh.upd[i]]
      BY <1>5, <3>1 DEF RefreshCommit
    <3>3. QED
      BY <3>1, <3>2 DEF Row
  <2>2. \A i \in Instruments : i \notin Recalculated => rows'[i] = rows[i]
    BY <1>5 DEF RefreshCommit
  <2>3. QED
    BY <2>1, <2>2 DEF WrittenRows, Written, SameStamp
<1>6. CASE ExpirationJob
  BY <1>1, <1>6 DEF ExpirationJob, SameStamp
<1>7. ASSUME NEW band \in [Instruments -> Bands], FavCommit(band) PROVE WrittenRows
  <2>1. \A i \in Instruments : rows[i] # None => SameStamp([rows[i] EXCEPT !.check = TRUE], rows[i])
    BY DEF Row, SameStamp
  <2>2. QED
    BY <1>7, <2>1, UpsertFresh DEF FavCommit, WrittenRows, Written, SameStamp
<1>8. ASSUME NEW got \in SUBSET Instruments, NEW band \in [Instruments -> Bands],
             AccCommit(got, band)
      PROVE  WrittenRows
  <2>1. acc # None /\ acc' = None
    BY <1>8 DEF AccCommit
  <2>2. ASSUME NEW i \in Portfolio(acc.p), i \in Instruments
        PROVE  Written(i)
    <3> DEFINE new == AccRow(i, got, band)
    <3>1. new \in Row /\ rows'[i] = Upsert(rows[i], new)
      BY <1>8, <2>1, <2>2, AccRowType DEF AccCommit
    <3>2. SameStamp(rows'[i], new)
      <4>1. rows[i] \in Row \cup {None}
        BY <2>2
      <4> HIDE DEF new
      <4>2. SameStamp(Upsert(rows[i], new), new)
        BY <3>1, <4>1, UpsertStamp
      <4>3. QED
        BY <3>1, <4>2
    <3>3. CASE i \in got \/ acc.old[i] = None
      <4>1. new.to_notify /\ new.last_update = day
        BY <3>3, FreshStamp DEF AccRow
      <4>2. QED
        BY <3>2, <4>1, Zenon DEF SameStamp, Written
    <3>4. CASE i \notin got /\ acc.old[i] # None
      <4>1. new = [acc.old[i] EXCEPT !.check = TRUE] /\ acc.old[i] \in Row
        BY <2>1, <2>2, <3>4 DEF AccRow
      <4>2. SameStamp(new, acc.old[i])
        BY <4>1 DEF SameStamp, Row
      <4>3. QED
        BY <2>1, <3>2, <3>4, <4>2 DEF SameStamp, Written
    <3>5. QED
      BY <3>3, <3>4
  <2>3. \A i \in Instruments : i \notin Portfolio(acc.p) => rows'[i] = rows[i]
    BY <1>8 DEF AccCommit
  <2>4. QED
    BY <2>2, <2>3 DEF WrittenRows, Written, SameStamp
<1>9. ASSUME NEW ids \in SUBSET Instruments, Uncheck(ids) PROVE WrittenRows
  <2>1. \A i \in Instruments : rows[i] # None => SameStamp([rows[i] EXCEPT !.check = FALSE], rows[i])
    BY DEF Row, SameStamp
  <2>2. QED
    BY <1>1, <1>9, <2>1 DEF Uncheck, SameStamp
<1>10. CASE MarketStep
  BY <1>2, <1>3, <1>10 DEF MarketStep, Tick, SendStop, SetEntry, SendEntry,
     HandlerRaises, SendRaisesLate, HandlerCommitFails, database
<1>11. CASE SyncStep
  BY <1>2, <1>4, <1>11 DEF SyncStep, SyncEmpty, SyncBegin, SyncReads, SyncRaises, database
<1>12. CASE RefreshStep
  BY <1>2, <1>5, <1>12 DEF RefreshStep, Recalc, RecalcRaises, RefreshRollback, database
<1>13. CASE ServiceStep
  BY <1>2, <1>6, <1>13 DEF ServiceStep, OpenJob, CloseJob, NewDay, Crash, database
<1>14. CASE UserStep
  BY <1>2, <1>7, <1>8, <1>9, <1>14
     DEF UserStep, FavBegin, FavRaises, AccBegin, AccRaises, RemoveAccount, database
<1>15. CASE UNCHANGED vars
  BY <1>2, <1>15 DEF vars
<1>16. QED
  BY <1>10, <1>11, <1>12, <1>13, <1>14, <1>15 DEF Next

-----------------------------------------------------------------------------
(* A new stamp arms, and a disarmed row of today was signalled *)

Said(i) == hist[i].kind # "none"

\* Stamps are not ahead of the calendar; a message that is out has been noted; the
\* add-account dialog holds rows that are not newer than the table's, and a disarmed
\* row of today among them was signalled.
StampInv ==
    \A i \in Instruments :
        /\ rows[i] # None => rows[i].last_update <= day
        /\ PostSend(i) => Said(i)
        /\ rows[i] # None /\ ~rows[i].to_notify /\ rows[i].last_update = day => Said(i)
        /\ acc # None /\ acc.old[i] # None =>
              /\ acc.old[i].last_update <= day
              /\ rows[i] # None => acc.old[i].last_update <= rows[i].last_update
              /\ ~acc.old[i].to_notify /\ acc.old[i].last_update = day => Said(i)

\* What the steps do to the history, the calendar and the dialog.
LEMMA NextSaid ==
    ASSUME TypeInv, [Next]_vars
    PROVE  /\ \A i \in Instruments : PostSend(i)' => PostSend(i) \/ Said(i)'
           /\ \/ day' = day /\ \A i \in Instruments : Said(i) => Said(i)'
              \/ day' = day + 1 /\ hand.pc = "idle" /\ UNCHANGED <<rows, hand, acc>>
           /\ \/ acc' \in {acc, None}
              \/ acc = None /\ UNCHANGED <<rows, hist, day>>
                 /\ \A i \in Instruments : acc'.old[i] \in {rows[i], None}
<1> USE SignalsAssumption DEF TypeInv, TypeOK
<1>1. ASSUME NEW S, hist' = Rearmed(S) PROVE \A i \in Instruments : Said(i) <=> Said(i)'
  BY <1>1 DEF Said, Rearmed
<1>2. CASE MarketStep
  <2>1. day' = day /\ acc' = acc
    BY <1>2 DEF MarketStep, Tick, SendStop, SetStop, SetEntry, SendEntry, CommitEntry, HandlerRaises,
       SendRaisesLate, HandlerCommitFails, clock
  <2>2. CASE SendStop \/ SendEntry \/ SendRaisesLate
    <3>1. PICK i \in Instruments : hand.i = i
      BY <2>2 DEF SendStop, SendEntry, SendRaisesLate
    <3>2. PICK kind \in {"stop", "entry"} : hist' = Delivered(i, kind) \/ hist' = DeliveredAndLost(i, kind)
      BY <2>2, <3>1 DEF SendStop, SendEntry, SendRaisesLate
    <3>3. Said(i)' /\ \A j \in Instruments : j # i => hist'[j] = hist[j]
      BY <3>2 DEF Delivered, DeliveredAndLost, Said
    <3>4. hand'.i = i \/ hand'.pc = "idle"
      BY <2>2, <3>1 DEF SendStop, SendEntry, SendRaisesLate, IdleHand
    <3>5. QED
      BY <2>1, <3>3, <3>4 DEF Said, PostSend
  <2>3. CASE SetStop \/ CommitEntry \/ HandlerRaises \/ HandlerCommitFails
    <3>1. hand'.pc = "idle" /\ hand.i \in Instruments /\ (hist' = hist \/ hist' = DisarmLost(hand.i))
      BY <2>3 DEF SetStop, CommitEntry, HandlerRaises, HandlerCommitFails, IdleHand
    <3>2. \A j \in Instruments : hist'[j].kind = hist[j].kind
      BY <3>1 DEF DisarmLost
    <3>3. QED
      BY <2>1, <3>1, <3>2 DEF Said, PostSend
  <2>4. CASE SetEntry \/ \E i \in Instruments, price \in Prices : Tick(i, price)
    <3>1. CASE SetEntry
      <4>1. hand'.pc = "send_entry" /\ hist' = hist
        BY <3>1 DEF SetEntry
      <4>2. QED
        BY <2>1, <4>1 DEF Said, PostSend
    <3>2. ASSUME NEW i \in Instruments, NEW price \in Prices, Tick(i, price)
          PROVE  hist' = hist /\ hand'.pc \in {"send_stop", "set_entry"}
      BY <3>2 DEF Tick
    <3>3. CASE \E i \in Instruments, price \in Prices : Tick(i, price)
      <4>1. hist' = hist /\ hand'.pc \in {"send_stop", "set_entry"}
        BY <3>2, <3>3
      <4>2. QED
        BY <2>1, <4>1 DEF Said, PostSend
    <3>4. QED
      BY <2>4, <3>1, <3>3
  <2>5. QED
    BY <1>2, <2>2, <2>3, <2>4 DEF MarketStep
<1>3. CASE SyncStep
  BY <1>1, <1>3 DEF SyncStep, SyncEmpty, SyncBegin, SyncReads, SyncCommit, SyncRaises, Said, PostSend,
     clock, bus, database
<1>4. CASE RefreshStep
  BY <1>1, <1>4 DEF RefreshStep, Recalc, RecalcRaises, RefreshCommit, RefreshRollback,
     Said, PostSend, clock, bus, database
<1>5. CASE NewDay
  BY <1>5 DEF NewDay, BusFree, PostSend, bus, database
<1>6. CASE OpenJob \/ CloseJob \/ ExpirationJob
  BY <1>6 DEF OpenJob, CloseJob, ExpirationJob, Said, PostSend, bus, clock, database
<1>7. CASE Crash
  BY <1>7 DEF Crash, DisarmLost, Said, PostSend, IdleHand
<1>8. ASSUME NEW a \in Addable, NEW p \in Portfolios, AccBegin(a, p)
      PROVE  /\ acc = None /\ UNCHANGED <<rows, hist, day, hand>>
             /\ \A i \in Instruments : acc'.old[i] \in {rows[i], None}
  BY <1>8 DEF AccBegin, clock, bus, database
<1>9. ASSUME NEW got, NEW band, AccCommit(got, band)
      PROVE  acc' = None /\ UNCHANGED <<day, hand>> /\ \E S : hist' = Rearmed(S)
  BY <1>9 DEF AccCommit, clock, bus
<1>10. CASE UserStep
  <2>1. CASE \E a \in Addable, p \in Portfolios : AccBegin(a, p)
    BY <1>8, <2>1 DEF Said, PostSend
  <2>2. CASE \E got \in SUBSET Instruments, band \in [Instruments -> Bands] : AccCommit(got, band)
    BY <1>1, <1>9, <2>2 DEF PostSend
  <2>3. CASE \E band \in [Instruments -> Bands] : FavCommit(band)
    BY <1>1, <2>3 DEF FavCommit, PostSend, clock, bus
  <2>4. QED
    BY <1>10, <2>1, <2>2, <2>3 DEF UserStep, FavBegin, FavRaises, AccRaises, RemoveAccount,
       Uncheck, Said, PostSend, clock, bus, database
<1>11. CASE UNCHANGED vars
  BY <1>11 DEF vars, Said, PostSend, clock
<1>12. QED
  BY <1>2, <1>3, <1>4, <1>5, <1>6, <1>7, <1>10, <1>11 DEF Next, ServiceStep

\* Every step keeps the stamps and the notes of what was said.
LEMMA NextStamp == TypeInv /\ StampInv /\ [Next]_vars => StampInv'
<1> SUFFICES ASSUME TypeInv, StampInv, [Next]_vars, NEW i \in Instruments
             PROVE  /\ rows'[i] # None => rows'[i].last_update <= day'
                    /\ PostSend(i)' => Said(i)'
                    /\ rows'[i] # None /\ ~rows'[i].to_notify /\ rows'[i].last_update = day' => Said(i)'
                    /\ acc' # None /\ acc'.old[i] # None =>
                          /\ acc'.old[i].last_update <= day'
                          /\ rows'[i] # None => acc'.old[i].last_update <= rows'[i].last_update
                          /\ ~acc'.old[i].to_notify /\ acc'.old[i].last_update = day' => Said(i)'
  BY DEF StampInv
<1>1. day \in Nat /\ (rows[i] # None => rows[i].last_update \in Nat)
                  /\ (acc # None /\ acc.old[i] # None => acc.old[i].last_update \in Nat)
  BY DEF TypeInv, TypeOK, Row
<1>2. CASE day' = day /\ \A j \in Instruments : Said(j) => Said(j)'
  <2>1. rows'[i] # None => Written(i)
    BY NextWrites DEF WrittenRows
  <2>2. PostSend(i)' => Said(i)'
    BY <1>2, NextSaid DEF StampInv
  <2>3. rows'[i] # None => rows'[i].last_update <= day'
    BY <1>1, <1>2, <2>1 DEF StampInv, Written, SameStamp
  <2>4. rows'[i] # None /\ ~rows'[i].to_notify /\ rows'[i].last_update = day' => Said(i)'
    BY <1>2, <2>1, Zenon DEF StampInv, Written, SameStamp
  <2>5. CASE acc' \in {acc, None}
    BY <1>1, <1>2, <2>1, <2>2, <2>3, <2>4, <2>5 DEF StampInv, Written, SameStamp
  <2>6. CASE acc = None /\ UNCHANGED <<rows, hist, day>> /\ acc'.old[i] \in {rows[i], None}
    BY <1>1, <2>2, <2>3, <2>4, <2>6 DEF StampInv, Said
  <2>7. QED
    BY <2>5, <2>6, NextSaid
<1>3. CASE day' = day + 1 /\ hand.pc = "idle" /\ UNCHANGED <<rows, hand, acc>>
  BY <1>1, <1>3 DEF StampInv, PostSend
<1>4. QED
  BY <1>2, <1>3, NextSaid

\* The stamps and the notes agree in every reachable state.
LEMMA SpecStamp == Spec => []StampInv
<1>1. Init => StampInv
  <2> SUFFICES ASSUME Init PROVE StampInv
    OBVIOUS
  <2>1. acc = None /\ hand.pc = "idle" /\ \A i \in Instruments : rows[i] = None
    BY DEF Init, IdleHand
  <2>2. \A i \in Instruments : ~PostSend(i)
    BY <2>1 DEF PostSend
  <2>3. QED
    BY <2>1, <2>2 DEF StampInv
<1>2. QED
  BY <1>1, NextStamp, SpecType, PTL DEF Spec

\* No signal is swallowed: a row of today that is disarmed was signalled today.
THEOREM NoSignalSwallowed == Spec => []DisarmedMeansSignalled
<1>1. StampInv => DisarmedMeansSignalled
  BY DEF StampInv, Said, DisarmedMeansSignalled
<1>2. QED
  BY <1>1, SpecStamp, PTL

\* A row that gets a newer day is armed by the same commit.
THEOREM NewStampAlwaysArms == Spec => NewStampArms
<1> DEFINE Step == \A i \in Instruments :
                     rows[i] # None /\ rows'[i] # None
                         /\ rows'[i].last_update > rows[i].last_update => rows'[i].to_notify
<1>1. TypeInv /\ StampInv /\ [Next]_vars => Step
  <2> SUFFICES ASSUME TypeInv, StampInv, [Next]_vars, NEW i \in Instruments,
                      rows[i] # None, rows'[i] # None, rows'[i].last_update > rows[i].last_update
               PROVE  rows'[i].to_notify
    OBVIOUS
  <2>1. Written(i)
    BY NextWrites DEF WrittenRows
  <2>2. rows[i].last_update \in Nat
    BY DEF TypeInv, TypeOK, Row
  <2>3. rows'[i].last_update # rows[i].last_update
    BY <2>2
  <2>4. acc # None /\ acc.old[i] # None => rows'[i].last_update # acc.old[i].last_update
    <3>1. acc # None /\ acc.old[i] # None => acc.old[i].last_update \in Nat
      BY DEF TypeInv, TypeOK, Row
    <3>2. QED
      BY <2>2, <3>1 DEF StampInv
  <2>5. QED
    BY <2>1, <2>3, <2>4, Zenon DEF Written, SameStamp
<1>2. QED
  BY <1>1, SpecType, SpecStamp, PTL DEF Spec, NewStampArms

-----------------------------------------------------------------------------
(* Who may record a position under an entry signal *)

\* The consumer runs one handler at a time.
OneHandler == hand.pc # "idle" => sync = None

\* What a step may do to the position of an instrument with an entry under way.
Overtaking ==
    \/ EntryWhileHeld
    \/ acc # None /\ acc' = None /\ acc.p[hand.i] # None

\* While a price is handled the consumer records no position, so a link that appears
\* under an entry is one the add-account dialog has just committed.
LEMMA NextOneHandler ==
    TypeInv /\ OneHandler /\ [Next]_vars => OneHandler' /\ (EntryWhileHeld' => Overtaking)
<1> DEFINE Goal == OneHandler' /\ (EntryWhileHeld' => Overtaking)
<1> SUFFICES ASSUME TypeInv, OneHandler, [Next]_vars PROVE Goal
  OBVIOUS
<1> USE SignalsAssumption DEF TypeInv, TypeOK, OneHandler
<1>1. ASSUME hand' = hand, sync' \in {sync, None},
             \A a \in Accounts, i \in Instruments : links'[a][i] # None => links[a][i] # None
      PROVE  Goal
  <2>1. ASSUME EntryWhileHeld' PROVE EntryWhileHeld
    <3>1. PICK a \in Accounts : links'[a][hand.i] # None
      BY <1>1, <2>1 DEF EntryWhileHeld, Held
    <3>2. hand.i \in Instruments /\ EntryUnderWay
      BY <1>1, <2>1 DEF EntryWhileHeld, EntryUnderWay
    <3>3. links[a][hand.i] # None
      BY <1>1, <3>1, <3>2
    <3>4. QED
      BY <3>2, <3>3 DEF EntryWhileHeld, Held
  <2>2. QED
    BY <1>1, <2>1 DEF Overtaking
<1>2. ASSUME hand'.pc = "idle" PROVE Goal
  BY <1>2 DEF EntryWhileHeld, EntryUnderWay
<1>3. CASE MarketStep
  <2>1. ASSUME NEW i \in Instruments, NEW price \in Prices, Tick(i, price) PROVE Goal
    <3>1. UNCHANGED <<links, sync>> /\ sync = None
      BY <2>1 DEF Tick, BusFree, database
    <3>2. CASE hand' = [pc |-> "send_stop", i |-> i, matched |-> FALSE]
      <4>1. hand'.pc = "send_stop"
        BY <3>2
      <4>2. QED
        BY <3>1, <4>1 DEF EntryWhileHeld, EntryUnderWay
    <3>3. CASE Held(i) = {} /\ hand' = [pc |-> "set_entry", i |-> i, matched |-> FALSE]
      <4>1. hand'.i = i
        BY <3>3
      <4>2. \A a \in Accounts : links[a][i] = None
        BY <3>3 DEF Held
      <4>3. \A a \in Accounts : links'[a][hand'.i] = None
        BY <3>1, <4>1, <4>2
      <4>4. Held(hand.i)' = {}
        BY <4>3 DEF Held
      <4>5. QED
        BY <3>1, <4>4 DEF EntryWhileHeld
    <3>4. QED
      BY <2>1, <3>2, <3>3 DEF Tick
  <2>2. CASE SendStop \/ SetEntry \/ SendEntry
    <3>1. UNCHANGED <<links, sync>> /\ hand'.i = hand.i /\ hand.pc # "idle"
          /\ (hand'.pc \in {"set_entry", "send_entry"} => hand.pc \in {"set_entry", "send_entry"})
      BY <2>2 DEF SendStop, SetEntry, SendEntry, database
    <3>2. Held(hand.i)' = Held(hand.i)
      <4>1. \A a \in Accounts : links'[a][hand'.i] = links[a][hand.i]
        BY <3>1
      <4>2. QED
        BY <4>1 DEF Held
    <3>3. QED
      BY <3>1, <3>2 DEF Overtaking, EntryWhileHeld, EntryUnderWay
  <2>3. CASE SetStop \/ CommitEntry \/ HandlerRaises \/ SendRaisesLate \/ HandlerCommitFails
    BY <1>2, <2>3 DEF SetStop, CommitEntry, HandlerRaises, SendRaisesLate, HandlerCommitFails, IdleHand
  <2>4. QED
    BY <1>3, <2>1, <2>2, <2>3 DEF MarketStep
<1>4. CASE SyncStep
  <2>1. CASE SyncRaises
    BY <1>1, <2>1 DEF SyncRaises, database
  <2>2. CASE ~SyncRaises
    <3>1. hand'.pc = "idle"
      BY <1>4, <2>2 DEF SyncStep, SyncEmpty, SyncBegin, SyncReads, SyncCommit, BusFree, bus
    <3>2. QED
      BY <1>2, <3>1
  <2>3. QED
    BY <2>1, <2>2
<1>5. CASE RefreshStep \/ UNCHANGED vars
  BY <1>1, <1>5 DEF RefreshStep, Recalc, RecalcRaises, RefreshCommit, RefreshRollback, bus, database, vars
<1>6. CASE ServiceStep
  <2>1. CASE Crash
    BY <1>2, <2>1 DEF Crash, IdleHand
  <2>2. CASE ExpirationJob
    BY <1>1, <2>2 DEF ExpirationJob, bus
  <2>3. CASE OpenJob \/ CloseJob \/ NewDay
    BY <1>1, <2>3 DEF OpenJob, CloseJob, NewDay, bus, database
  <2>4. QED
    BY <1>6, <2>1, <2>2, <2>3 DEF ServiceStep
<1>7. CASE UserStep
  <2>1. ASSUME NEW a \in Accounts, RemoveAccount(a) PROVE Goal
    BY <1>1, <2>1 DEF RemoveAccount, NoPositions, bus
  <2>2. ASSUME NEW got \in SUBSET Instruments, NEW band \in [Instruments -> Bands],
               AccCommit(got, band)
        PROVE  Goal
    <3>1. acc # None /\ acc' = None /\ UNCHANGED <<hand, sync>>
      BY <2>2 DEF AccCommit, bus
    <3>2. ASSUME EntryWhileHeld', ~EntryWhileHeld PROVE acc.p[hand.i] # None
      <4>1. hand.i \in Instruments /\ Held(hand.i) = {}
        BY <3>1, <3>2 DEF EntryWhileHeld, EntryUnderWay
      <4>2. PICK a \in Accounts : links'[a][hand.i] # None
        BY <3>1, <3>2 DEF EntryWhileHeld, Held
      <4>3. links[a][hand.i] = None
        BY <4>1, <4>2 DEF Held
      <4>4. hand.i \in Portfolio(acc.p)
        BY <2>2, <4>1, <4>2, <4>3 DEF AccCommit
      <4>5. QED
        BY <4>4 DEF Portfolio
    <3>3. QED
      BY <3>1, <3>2 DEF Overtaking
  <2>3. QED
    BY <1>1, <1>7, <2>1, <2>2 DEF UserStep, FavBegin, FavCommit, FavRaises, AccBegin, AccRaises,
       Uncheck, bus, database
<1>8. QED
  BY <1>3, <1>4, <1>5, <1>6, <1>7 DEF Next

\* Whatever accounts may be added while prices arrive: a position is recorded under an
\* entry signal by no task but the add-account dialog.
THEOREM EntryOvertakenByDialogOnly == Spec => OvertakenByDialogOnly
<1>1. Init => OneHandler
  BY DEF Init, OneHandler, IdleHand
<1>2. TypeInv /\ OneHandler /\ [Next]_vars => OneHandler'
  BY NextOneHandler
<1>3. TypeInv /\ OneHandler /\ [Next]_vars
        => [EntryWhileHeld' => \/ EntryWhileHeld
                               \/ acc # None /\ acc' = None /\ acc.p[hand.i] # None]_vars
  BY NextOneHandler DEF Overtaking
<1>4. QED
  BY <1>1, <1>2, <1>3, SpecType, PTL DEF Spec, OvertakenByDialogOnly

-----------------------------------------------------------------------------
(* Nobody waits for each other *)

LockInv ==
    /\ hand.matched => hand.pc \in {"send_entry", "commit_entry"}
    /\ hand.matched => refresh.upd[hand.i] = None
    /\ \A i \in Instruments : refresh.upd[i] # None => refresh.active /\ i \notin refresh.todo
    /\ refresh.todo # {} => refresh.active
    /\ sync # None => hand.pc = "idle"

\* The bus consumer is held up by a locked row.
ConsumerWaits ==
    \/ hand.pc \in {"set_stop", "set_entry"} /\ Locked(hand.i)
    \/ sync # None /\ \E i \in sync.need : Locked(i)

\* A consumer that waits for a row waits for a refresh that itself waits for none, and a
\* refresh that waits for a row waits for a handler that is past its own waiting: no
\* circle of locks forms, though the refresh keeps many rows locked over its awaits.
\* BusReturns and RefreshEnds rest on it.
NoCircularWait ==
    /\ ConsumerWaits => refresh.active /\ \A i \in refresh.todo : ~Locked(i)
    /\ (\E i \in refresh.todo : Locked(i)) => hand.pc \in {"send_entry", "commit_entry"}

\* No row is locked at the beginning.
LEMMA InitLock == Init => LockInv
  BY DEF Init, LockInv, IdleHand, NoRefresh, NoUpdates

\* A row is locked by one task at a time, and its holder goes on without another row.
LEMMA NextLock == TypeInv /\ LockInv /\ [Next]_vars => LockInv'
<1> SUFFICES ASSUME TypeInv, LockInv, [Next]_vars PROVE LockInv'
  OBVIOUS
<1> USE SignalsAssumption DEF TypeInv, TypeOK, LockInv
<1>1. ASSUME UNCHANGED <<hand, refresh>>, sync' \in {sync, None} PROVE LockInv'
  BY <1>1
<1>2. ASSUME hand' = IdleHand, UNCHANGED refresh PROVE LockInv'
  BY <1>2 DEF IdleHand
<1>3. CASE MarketStep
  <2>1. ASSUME NEW i \in Instruments, NEW price \in Prices, Tick(i, price) PROVE LockInv'
    <3>1. sync' = None /\ UNCHANGED refresh
      BY <2>1 DEF Tick, BusFree
    <3>2. hand'.matched = FALSE
      BY <2>1 DEF Tick
    <3>3. QED
      BY <3>1, <3>2
  <2>2. CASE SendStop
    <3>1. /\ UNCHANGED <<refresh, sync>> /\ hand.pc = "send_stop"
          /\ hand'.i = hand.i /\ hand'.matched = hand.matched
      BY <2>2 DEF SendStop
    <3>2. QED
      BY <3>1
  <2>3. CASE SetEntry
    <3>1. /\ UNCHANGED <<refresh, sync>> /\ hand.pc = "set_entry"
          /\ hand'.i = hand.i /\ hand'.pc = "send_entry"
      BY <2>3 DEF SetEntry
    <3>2. refresh.upd[hand.i] = None
      BY <2>3 DEF SetEntry, Locked
    <3>3. QED
      BY <3>1, <3>2
  <2>4. CASE SendEntry
    <3>1. /\ UNCHANGED <<refresh, sync>> /\ hand.pc = "send_entry"
          /\ hand'.i = hand.i /\ hand'.matched = hand.matched /\ hand'.pc = "commit_entry"
      BY <2>4 DEF SendEntry
    <3>2. QED
      BY <3>1
  <2>5. CASE SetStop \/ CommitEntry \/ HandlerRaises \/ SendRaisesLate \/ HandlerCommitFails
    BY <1>2, <2>5 DEF SetStop, CommitEntry, HandlerRaises, SendRaisesLate, HandlerCommitFails
  <2>6. QED
    BY <1>3, <2>1, <2>2, <2>3, <2>4, <2>5 DEF MarketStep
<1>4. CASE SyncStep
  <2>1. ASSUME NEW a \in Accounts, NEW p \in Portfolios, SyncBegin(a, p) PROVE LockInv'
    BY <2>1 DEF SyncBegin, BusFree
  <2>2. QED
    BY <1>1, <1>4, <2>1 DEF SyncStep, SyncEmpty, SyncReads, SyncCommit, SyncRaises, bus
<1>5. CASE RefreshStep
  <2>1. ASSUME NEW i \in Instruments, NEW band \in Bands, Recalc(i, band) PROVE LockInv'
    <3>1. /\ UNCHANGED bus /\ refresh'.active = refresh.active
          /\ i \in refresh.todo /\ refresh'.todo = refresh.todo \ {i}
          /\ \A k \in Instruments : k # i => refresh'.upd[k] = refresh.upd[k]
      BY <2>1 DEF Recalc
    <3>2. hand.matched => hand.i # i /\ hand.i \in Instruments
      BY <2>1 DEF Recalc, Locked
    <3>3. refresh.active
      BY <3>1
    <3>4. QED
      BY <3>1, <3>2, <3>3 DEF bus
  <2>2. ASSUME NEW i \in Instruments, RecalcRaises(i) PROVE LockInv'
    <3>1. /\ UNCHANGED bus /\ refresh'.active = refresh.active
          /\ refresh'.todo = refresh.todo \ {i} /\ refresh'.upd = refresh.upd
      BY <2>2 DEF RecalcRaises
    <3>2. QED
      BY <3>1 DEF bus
  <2>3. CASE RefreshCommit \/ RefreshRollback
    <3>1. UNCHANGED bus /\ refresh' = NoRefresh
      BY <2>3 DEF RefreshCommit, RefreshRollback
    <3>2. QED
      BY <3>1 DEF bus, NoRefresh, NoUpdates
  <2>4. QED
    BY <1>5, <2>1, <2>2, <2>3 DEF RefreshStep
<1>6. CASE ServiceStep
  <2>1. CASE OpenJob
    <3>1. UNCHANGED bus /\ refresh'.active /\ refresh'.upd = NoUpdates
      BY <2>1 DEF OpenJob
    <3>2. QED
      BY <3>1 DEF bus, NoUpdates
  <2>2. CASE Crash
    BY <2>2 DEF Crash, IdleHand, NoRefresh, NoUpdates
  <2>3. CASE CloseJob \/ ExpirationJob \/ NewDay
    BY <1>1, <2>3 DEF CloseJob, ExpirationJob, NewDay, bus
  <2>4. QED
    BY <1>6, <2>1, <2>2, <2>3 DEF ServiceStep
<1>7. CASE UserStep
  BY <1>1, <1>7 DEF UserStep, FavBegin, FavCommit, FavRaises, AccBegin, AccCommit, AccRaises,
     RemoveAccount, Uncheck, bus
<1>8. CASE UNCHANGED vars
  BY <1>1, <1>8 DEF vars
<1>9. QED
  BY <1>3, <1>4, <1>5, <1>6, <1>7, <1>8 DEF Next

\* In every interleaving of prices, updates, the refresh, jobs and dialogs.
THEOREM NobodyWaitsInACircle == Spec => []NoCircularWait
<1>1. ASSUME TypeInv, LockInv PROVE NoCircularWait
  <2> USE <1>1, SignalsAssumption DEF TypeInv, TypeOK, LockInv
  <2>1. \A i \in refresh.todo : Locked(i) => hand.i = i /\ hand.matched
    BY DEF Locked
  <2>2. ASSUME ConsumerWaits PROVE ~hand.matched /\ \E i \in Instruments : refresh.upd[i] # None
    <3>1. ~hand.matched
      BY <2>2 DEF ConsumerWaits
    <3>2. QED
      BY <2>2, <3>1 DEF ConsumerWaits, Locked
  <2>3. QED
    BY <2>1, <2>2 DEF NoCircularWait
<1>2. QED
  BY <1>1, InitLock, NextLock, SpecType, PTL DEF Spec

-----------------------------------------------------------------------------
(* Every step is one whole transaction of Ledger on the tables, or none *)

Checked(row) == row # None /\ row.check

TableStep == [Table!Next]_(Table!vars)

\* Which rows are checked decides what is tracked.
LEMMA TrackedFrom ==
    ASSUME NEW S \in SUBSET Instruments
    PROVE  /\ (\A i \in Instruments : Checked(rows'[i]) <=> Checked(rows[i]) \/ i \in S)
                  => Tracked' = Tracked \cup S
           /\ (\A i \in Instruments : Checked(rows'[i]) <=> Checked(rows[i]) /\ i \notin S)
                  => Tracked' = Tracked \ S
  BY DEF Tracked, Checked

\* The links of the abstract table change with the positions that are written.
LEMMA LinkedFrom ==
    ASSUME NEW a \in Accounts, NEW q, links \in [Accounts -> Positions],
           links' = [links EXCEPT ![a] = q]
    PROVE  Linked' = [Linked EXCEPT ![a] = Portfolio(q)]
<1>1. \A b \in Accounts : links'[b] = IF b = a THEN q ELSE links[b]
  OBVIOUS
<1>2. QED
  BY <1>1 DEF Linked, Portfolio

\* A step that leaves accounts, links and checks alone is none of Ledger's.
LEMMA TablesStay ==
    ASSUME UNCHANGED <<accounts, links>>,
           \A i \in Instruments : Checked(rows'[i]) <=> Checked(rows[i])
    PROVE  TableStep
<1>1. Tracked' = Tracked
  BY DEF Tracked, Checked
<1>2. Linked' = Linked
  BY DEF Linked, Portfolio
<1>3. QED
  BY <1>1, <1>2 DEF TableStep, Table!vars

\* A row that an upsert writes is checked if the new one is.
LEMMA UpsertChecked ==
    ASSUME NEW new \in Row, NEW old \in Row \cup {None}, new.check
    PROVE  Checked(Upsert(old, new))
<1>1. Upsert(old, new) # None
  BY UpsertExists
<1>2. Upsert(old, new).check
  BY DEF Upsert, Row
<1>3. QED
  BY <1>1, <1>2 DEF Checked

\* A row written from fetched candles is checked, and stays so through an upsert.
LEMMA FreshChecked ==
    ASSUME TypeInv, NEW band \in [Instruments -> Bands], NEW i \in Instruments
    PROVE  Checked(Upsert(rows[i], Fresh(band[i])))
<1>1. Fresh(band[i]) \in Row /\ rows[i] \in Row \cup {None}
  BY FreshType, SignalsAssumption DEF TypeInv, TypeOK
<1>2. Fresh(band[i]).check
  BY DEF Fresh
<1>3. QED
  BY <1>1, <1>2, UpsertChecked

\* Whatever the add-account dialog writes for a position is checked.
LEMMA AccRowChecked ==
    ASSUME TypeInv, acc # None, NEW got \in SUBSET Instruments,
           NEW band \in [Instruments -> Bands], NEW i \in Instruments
    PROVE  Checked(Upsert(rows[i], AccRow(i, got, band)))
<1> DEFINE new == AccRow(i, got, band)
<1>1. new \in Row /\ rows[i] \in Row \cup {None}
  BY AccRowType DEF TypeInv, TypeOK
<1>2. acc.old[i] \in Row \cup {None}
  BY DEF TypeInv, TypeOK
<1>3. new.check
  BY <1>2 DEF AccRow, Fresh, Row
<1>4. QED
  <2> HIDE DEF new
  <2>1. Checked(Upsert(rows[i], new))
    BY <1>1, <1>3, UpsertChecked
  <2>2. QED
    BY <2>1 DEF new

\* The empty tables are the initial state of Ledger.
LEMMA InitTable == Init => Table!Init
<1> SUFFICES ASSUME Init PROVE Table!Init
  OBVIOUS
<1>1. Tracked = {}
  BY DEF Init, Tracked
<1>2. Linked = [a \in Accounts |-> {}]
  BY DEF Init, Linked, Portfolio, NoPositions
<1>3. accounts \in SUBSET Accounts
  BY SignalsAssumption DEF Init
<1>4. QED
  BY <1>1, <1>2, <1>3 DEF Table!Init

\* A portfolio update writes what it read earlier: still one transaction of Ledger.
LEMMA SyncTable ==
    ASSUME TypeInv, NEW band \in [Instruments -> Bands], SyncCommit(band)
    PROVE  TableStep
<1> USE SignalsAssumption DEF TypeInv, TypeOK
<1> DEFINE a == sync.a
           q == [i \in Instruments |-> IF i \in sync.add THEN sync.p[i]
                                       ELSE IF i \in sync.del THEN None ELSE links[a][i]]
           p == Portfolio(q)
           need == sync.need
<1>1. a \in Accounts /\ p \in SUBSET Instruments /\ need \in SUBSET Instruments
  BY DEF SyncCommit, Portfolio
<1>2. Linked' = [Linked EXCEPT ![a] = p]
  <2>1. links' = [links EXCEPT ![a] = q]
    BY DEF SyncCommit
  <2> HIDE DEF q
  <2>2. QED
    BY <1>1, <2>1, LinkedFrom
<1>3. Tracked' = Tracked \cup need
  <2>1. \A i \in Instruments : Checked(Upsert(rows[i], Fresh(band[i])))
    BY FreshChecked
  <2>2. \A i \in Instruments : rows'[i] = IF i \in need THEN Upsert(rows[i], Fresh(band[i]))
                                                       ELSE rows[i]
    BY DEF SyncCommit
  <2>3. \A i \in Instruments : Checked(rows'[i]) <=> Checked(rows[i]) \/ i \in need
    BY <2>1, <2>2
  <2>4. QED
    BY <1>1, <2>3, TrackedFrom
<1>4. p \subseteq Linked[a] \/ a \in accounts
  <2>1. sync.add = {} \/ a \in accounts
    BY DEF SyncCommit, LinksExist
  <2>2. sync.add = {} => p \subseteq Portfolio(links[a])
    BY DEF Portfolio
  <2>3. Linked[a] = Portfolio(links[a])
    BY <1>1 DEF Linked
  <2> HIDE DEF p, a
  <2>4. QED
    BY <2>1, <2>2, <2>3
<1>5. accounts' = accounts
  BY DEF SyncCommit
<1>6. Table!Record(a, p, need)
  BY <1>2, <1>3, <1>4, <1>5 DEF Table!Record
<1>7. QED
  BY <1>1, <1>6 DEF TableStep, Table!Next

\* The add-account dialog writes rows, account and links at once.
LEMMA AccTable ==
    ASSUME TypeInv, NEW got \in SUBSET Instruments, NEW band \in [Instruments -> Bands],
           AccCommit(got, band)
    PROVE  TableStep
<1> USE SignalsAssumption DEF TypeInv, TypeOK
<1> DEFINE a == acc.a
           p == Portfolio(acc.p)
           q == [i \in Instruments |-> IF i \in p THEN acc.p[i] ELSE links[a][i]]
<1>1. a \in Accounts /\ p \in SUBSET Instruments /\ acc # None
  BY DEF AccCommit, Portfolio
<1>2. Linked' = [Linked EXCEPT ![a] = @ \cup p]
  <2>1. links' = [links EXCEPT ![a] = q]
    BY DEF AccCommit
  <2>2. Portfolio(q) = Portfolio(links[a]) \cup p
    BY DEF Portfolio
  <2>3. Linked[a] = Portfolio(links[a])
    BY <1>1 DEF Linked
  <2> HIDE DEF q
  <2>4. Linked' = [Linked EXCEPT ![a] = Portfolio(q)]
    BY <1>1, <2>1, LinkedFrom
  <2>5. QED
    BY <2>2, <2>3, <2>4
<1>3. Tracked' = Tracked \cup p
  <2>1. \A i \in Instruments : Checked(Upsert(rows[i], AccRow(i, got, band)))
    BY <1>1, AccRowChecked
  <2>2. \A i \in Instruments : rows'[i] = IF i \in p THEN Upsert(rows[i], AccRow(i, got, band))
                                                    ELSE rows[i]
    BY DEF AccCommit
  <2>3. \A i \in Instruments : Checked(rows'[i]) <=> Checked(rows[i]) \/ i \in p
    BY <2>1, <2>2
  <2>4. QED
    BY <1>1, <2>3, TrackedFrom
<1>4. accounts' = accounts \cup {a}
  BY DEF AccCommit
<1>5. Table!AddAccount(a, p)
  BY <1>2, <1>3, <1>4 DEF Table!AddAccount
<1>6. QED
  BY <1>1, <1>5 DEF TableStep, Table!Next

\* The refresh and the disarming handler write rows whose check they keep.
LEMMA QuietTable ==
    ASSUME TypeInv, SetStop \/ CommitEntry \/ RefreshCommit
    PROVE  TableStep
<1> USE SignalsAssumption DEF TypeInv, TypeOK
<1>1. ASSUME SetStop \/ CommitEntry PROVE TableStep
  <2>1. UNCHANGED <<accounts, links>> /\ (rows' = rows \/ rows' = Disarm(hand.i))
    BY <1>1 DEF SetStop, CommitEntry
  <2>2. ASSUME NEW row \in Row
        PROVE  [row EXCEPT !.to_notify = FALSE] \in Row
               /\ [row EXCEPT !.to_notify = FALSE].check = row.check
    BY DEF Row
  <2>3. ASSUME NEW i \in Instruments, rows' = Disarm(hand.i)
        PROVE  Checked(rows'[i]) <=> Checked(rows[i])
    <3>1. rows'[i] = rows[i] \/ (rows[i] # None /\ rows'[i] = [rows[i] EXCEPT !.to_notify = FALSE])
      BY <2>3 DEF Disarm
    <3>2. QED
      BY <2>2, <3>1, RowsAreNotNone DEF Checked
  <2>4. \A i \in Instruments : Checked(rows'[i]) <=> Checked(rows[i])
    BY <2>1, <2>3
  <2>5. QED
    BY <2>1, <2>4, TablesStay
<1>2. ASSUME RefreshCommit PROVE TableStep
  <2>1. UNCHANGED <<accounts, links>>
    BY <1>2 DEF RefreshCommit
  <2>2. ASSUME NEW i \in Instruments PROVE Checked(rows'[i]) <=> Checked(rows[i])
    <3>1. CASE i \in Recalculated
      <4> DEFINE new == [rows[i] EXCEPT !.to_notify = TRUE, !.last_update = day,
                                        !.levels = refresh.upd[i]]
      <4>1. rows[i] \in Row /\ refresh.upd[i] \in Levels /\ rows'[i] = new
        BY <1>2, <3>1 DEF RefreshCommit, Recalculated, LockedRowsExist
      <4>2. new \in Row /\ new.check = rows[i].check
        BY <4>1 DEF Row
      <4>3. QED
        BY <4>1, <4>2, RowsAreNotNone DEF Checked
    <3>2. CASE i \notin Recalculated
      BY <1>2, <3>2 DEF RefreshCommit
    <3>3. QED
      BY <3>1, <3>2
  <2>3. QED
    BY <2>1, <2>2, TablesStay
<1>3. QED
  BY <1>1, <1>2

\* Favourites, uncheck, expiry, and the account or the links taken away.
LEMMA DialogTable ==
    ASSUME TypeInv,
           \/ \E band \in [Instruments -> Bands] : FavCommit(band)
           \/ \E ids \in SUBSET Instruments : Uncheck(ids)
           \/ \E a \in Accounts : RemoveAccount(a) \/ SyncEmpty(a)
           \/ ExpirationJob
    PROVE  TableStep
<1> USE SignalsAssumption DEF TypeInv, TypeOK
<1>1. ASSUME NEW row \in Row, NEW b \in BOOLEAN
      PROVE  Checked([row EXCEPT !.check = b]) <=> b
  <2>1. [row EXCEPT !.check = b] \in Row /\ [row EXCEPT !.check = b].check = b
    BY DEF Row
  <2>2. QED
    BY <2>1, RowsAreNotNone DEF Checked
<1>2. \A i \in Instruments : rows[i] \in Row <=> rows[i] # None
  BY RowsAreNotNone
<1>3. ASSUME NEW band \in [Instruments -> Bands], FavCommit(band) PROVE TableStep
  <2> DEFINE S == fav.need \cup {i \in fav.ids : rows[i] # None}
  <2>1. S \in SUBSET Instruments /\ UNCHANGED <<accounts, links>>
    BY <1>3 DEF FavCommit
  <2>2. \A i \in Instruments : Checked(Upsert(rows[i], Fresh(band[i])))
    BY FreshChecked
  <2>3. ASSUME NEW i \in Instruments
        PROVE  Checked(rows'[i]) <=> Checked(rows[i]) \/ i \in S
    <3>1. CASE i \in fav.need
      BY <1>3, <2>2, <3>1 DEF FavCommit
    <3>2. CASE i \notin fav.need /\ i \in fav.ids /\ rows[i] # None
      BY <1>1, <1>2, <1>3, <3>2 DEF FavCommit
    <3>3. CASE i \notin S
      BY <1>3, <3>3 DEF FavCommit
    <3>4. QED
      BY <3>1, <3>2, <3>3
  <2> HIDE DEF S
  <2>4. Tracked' = Tracked \cup S
    BY <2>1, <2>3, TrackedFrom
  <2>5. Linked' = Linked
    BY <2>1 DEF Linked, Portfolio
  <2>6. Table!Track(S)
    BY <2>1, <2>4, <2>5 DEF Table!Track
  <2>7. QED
    BY <2>1, <2>6 DEF TableStep, Table!Next
<1>4. ASSUME NEW ids \in SUBSET Instruments, Uncheck(ids) PROVE TableStep
  <2>1. ASSUME NEW i \in Instruments
        PROVE  Checked(rows'[i]) <=> Checked(rows[i]) /\ i \notin ids
    BY <1>1, <1>2, <1>4 DEF Uncheck
  <2>2. Tracked' = Tracked \ ids
    BY <2>1, TrackedFrom
  <2>3. accounts' = accounts /\ Linked' = Linked
    BY <1>4 DEF Uncheck, Linked, Portfolio
  <2>4. Table!Untrack(ids)
    BY <2>2, <2>3 DEF Table!Untrack
  <2>5. QED
    BY <2>4 DEF TableStep, Table!Next
<1>5. ASSUME NEW a \in Accounts, links' = [links EXCEPT ![a] = NoPositions]
      PROVE  Linked' = [Linked EXCEPT ![a] = {}]
  <2>1. Portfolio(NoPositions) = {}
    BY DEF Portfolio, NoPositions
  <2>2. Linked' = [Linked EXCEPT ![a] = Portfolio(NoPositions)]
    BY <1>5, LinkedFrom
  <2>3. QED
    BY <2>1, <2>2
<1>6. ASSUME UNCHANGED rows PROVE Tracked' = Tracked
  BY <1>6 DEF Tracked
<1>7. ASSUME NEW a \in Accounts, RemoveAccount(a) PROVE TableStep
  <2>1. Table!RemoveAccount(a)
    BY <1>5, <1>6, <1>7 DEF RemoveAccount, Table!RemoveAccount
  <2>2. QED
    BY <2>1 DEF TableStep, Table!Next
<1>8. ASSUME NEW a \in Accounts, SyncEmpty(a) PROVE TableStep
  <2>1. Table!Record(a, {}, {})
    BY <1>5, <1>6, <1>8 DEF SyncEmpty, Table!Record
  <2>2. QED
    BY <2>1 DEF TableStep, Table!Next
<1>9. ASSUME ExpirationJob PROVE TableStep
  <2> DEFINE expired == {i \in Expiring : rows[i] # None}
  <2>1. /\ \A i \in Instruments : rows'[i] = IF i \in expired THEN None ELSE rows[i]
        /\ links' = [a \in Accounts |-> [i \in Instruments |->
                        IF i \in expired THEN None ELSE links[a][i]]]
        /\ accounts' = accounts
    BY <1>9 DEF ExpirationJob
  <2>2. expired \in SUBSET Instruments
    OBVIOUS
  <2> HIDE DEF expired
  <2>3. Tracked' = Tracked \ expired
    BY <2>1, <2>2, TrackedFrom DEF Checked
  <2>4. Linked' = [a \in Accounts |-> Linked[a] \ expired]
    BY <2>1 DEF Linked, Portfolio
  <2>5. Table!Expire(expired)
    BY <2>1, <2>3, <2>4 DEF Table!Expire
  <2>6. QED
    BY <2>2, <2>5 DEF TableStep, Table!Next
<1>10. QED
  BY <1>3, <1>4, <1>7, <1>8, <1>9

\* Every step of every task is one transaction of Ledger or leaves its tables alone.
LEMMA NextTable == TypeInv /\ [Next]_vars => TableStep
<1> SUFFICES ASSUME TypeInv, [Next]_vars PROVE TableStep
  OBVIOUS
<1>1. ASSUME UNCHANGED database PROVE TableStep
  BY <1>1, TablesStay DEF database
<1>2. CASE MarketStep
  BY <1>1, <1>2, QuietTable DEF MarketStep, Tick, SendStop, SetEntry, SendEntry,
     HandlerRaises, SendRaisesLate, HandlerCommitFails
<1>3. CASE SyncStep
  BY <1>1, <1>3, SyncTable, DialogTable DEF SyncStep, SyncBegin, SyncReads, SyncRaises
<1>4. CASE RefreshStep
  BY <1>1, <1>4, QuietTable DEF RefreshStep, Recalc, RecalcRaises, RefreshRollback
<1>5. CASE ServiceStep
  BY <1>1, <1>5, DialogTable DEF ServiceStep, OpenJob, CloseJob, NewDay, Crash
<1>6. CASE UserStep
  BY <1>1, <1>6, DialogTable, AccTable DEF UserStep, FavBegin, FavRaises, AccBegin, AccRaises
<1>7. CASE UNCHANGED vars
  BY <1>1, <1>7 DEF vars, database
<1>8. QED
  BY <1>2, <1>3, <1>4, <1>5, <1>6, <1>7 DEF Next

\* However the tasks interleave, the tables change by whole transactions of Ledger.
THEOREM TablesAreALedger == Spec => IsLedger
<1>1. QED
  BY InitTable, NextTable, SpecType, PTL DEF Spec, IsLedger, Table!Spec, TableStep

=============================================================================
