------------------------------ MODULE Signals ------------------------------
(***************************************************************************)
(* How an instrument is armed, signalled and disarmed.                     *)
(*                                                                         *)
(* The instruments table is shared by tasks of one asyncio process: the    *)
(* bus consumer (last prices and portfolio updates, one at a time), the    *)
(* morning refresh, the favourites and account dialogs, the expiry job.    *)
(* Each opens a READ COMMITTED transaction of its own, reads rows, awaits  *)
(* the broker or Telegram, and writes.  A model step is the code between   *)
(* two awaits that another task can get into; an UPDATE that stays         *)
(* uncommitted over an await keeps its row locked (Locked).                *)
(***************************************************************************)
EXTENDS Integers

CONSTANTS
    Instruments,    \* instrument uids
    Accounts,       \* broker account ids
    None,           \* NULL, a missing row, no transaction
    Prices,         \* last prices the stream may bring
    Bands,          \* channel levels the candles of a day may give
    Portfolios,     \* position maps the broker may answer with
    Saved,          \* accounts stored before the model starts
    Addable,        \* accounts the user may add with /add_account_check
    Favourites,     \* instruments the favourites dialog offers
    Expiring,       \* futures whose expiration date has come
    MaxDay,         \* bound: calendar days
    MaxLost         \* bound: signals of one arming whose disarm is lost

Direction == {"long", "short"}
Level == Int \cup {None}
Levels == [long_55 : Level, short_55 : Level, long_20 : Level, short_20 : Level]
NoLevels == [long_55 |-> None, short_55 |-> None, long_20 |-> None, short_20 |-> None]
Positions == [Instruments -> Direction \cup {None}]
NoPositions == [i \in Instruments |-> None]
Row == [check : BOOLEAN, to_notify : BOOLEAN, last_update : Nat, levels : Levels]

ASSUME SignalsAssumption ==
    /\ None \notin Int
    /\ None \notin Instruments /\ None \notin Direction /\ None \notin Row
    /\ Prices \subseteq Int
    /\ Bands \subseteq Levels
    /\ Portfolios \subseteq Positions
    /\ Saved \subseteq Accounts /\ Addable \subseteq Accounts
    /\ Favourites \subseteq Instruments /\ Expiring \subseteq Instruments
    /\ MaxDay \in Nat /\ MaxLost \in Nat

VARIABLES
    day,        \* calendar day in Moscow (is_updated_today)
    session,    \* "before" the open job, "open", "after" the close job
    rows,       \* instruments: a row or None
    accounts,   \* accounts: the ids stored
    links,      \* account_instruments: direction by account and instrument
    hand,       \* the last price the bus consumer is handling
    sync,       \* the portfolio update the bus consumer is handling
    refresh,    \* the morning refresh transaction
    fav,        \* the favourites transaction
    acc,        \* the add-account transaction
    hist        \* history: the messages sent about an instrument

vars == <<day, session, rows, accounts, links, hand, sync, refresh, fav, acc, hist>>
database == <<rows, accounts, links>>
bus == <<hand, sync>>
clock == <<day, session>>

HandPc == {"idle", "send_stop", "set_stop", "set_entry", "send_entry", "commit_entry"}
IdleHand == [pc |-> "idle", i |-> None, matched |-> FALSE]
NoUpdates == [i \in Instruments |-> None]
NoRefresh == [active |-> FALSE, todo |-> {}, upd |-> NoUpdates]
NoSignals == [sent |-> 0, lost |-> 0, kind |-> "none"]

(***************************************************************************)
(* hist[i].sent counts the messages since the row was last armed, lost     *)
(* those whose disarm never reached the row, and kind is the last message  *)
(* of the day.  The code does not keep it: the properties do.              *)
(***************************************************************************)
Delivered(i, kind) == [hist EXCEPT ![i].sent = @ + 1, ![i].kind = kind]
DeliveredAndLost(i, kind) ==
    [hist EXCEPT ![i] = [sent |-> @.sent + 1, lost |-> @.lost + 1, kind |-> kind]]
DisarmLost(i) == [hist EXCEPT ![i].lost = @ + 1]
Rearmed(S) ==
    [i \in Instruments |-> IF i \in S THEN [hist[i] EXCEPT !.sent = 0, !.lost = 0]
                                      ELSE hist[i]]

TypeOK ==
    /\ day \in Nat
    /\ session \in {"before", "open", "after"}
    /\ rows \in [Instruments -> Row \cup {None}]
    /\ accounts \subseteq Accounts
    /\ links \in [Accounts -> Positions]
    /\ hand \in [pc : HandPc, i : Instruments \cup {None}, matched : BOOLEAN]
    /\ hand.pc # "idle" => hand.i \in Instruments
    /\ sync \in [a : Accounts, p : Portfolios, add : SUBSET Instruments, del : SUBSET Instruments,
                 read : BOOLEAN, need : SUBSET Instruments] \cup {None}
    /\ refresh \in [active : BOOLEAN, todo : SUBSET Instruments,
                    upd : [Instruments -> Bands \cup {None}]]
    /\ fav \in [ids : SUBSET Favourites, need : SUBSET Favourites] \cup {None}
    /\ acc \in [a : Addable, p : Portfolios, old : [Instruments -> Row \cup {None}],
                need : SUBSET Instruments] \cup {None}
    /\ hist \in [Instruments -> [sent : Nat, lost : Nat, kind : {"none", "entry", "stop"}]]

-----------------------------------------------------------------------------
(* What the transactions read and write *)

Stale(row) == row = None \/ (row # None /\ row.last_update # day)

\* A row carries an uncommitted UPDATE: other writers wait.
Locked(i) == \/ hand.i = i /\ hand.matched
             \/ refresh.upd[i] # None

OrElse(new, old) == IF new = None THEN old ELSE new
Coalesce(new, old) ==
    [long_55  |-> OrElse(new.long_55, old.long_55),
     short_55 |-> OrElse(new.short_55, old.short_55),
     long_20  |-> OrElse(new.long_20, old.long_20),
     short_20 |-> OrElse(new.short_20, old.short_20)]

\* INSERT ... ON CONFLICT DO UPDATE SET column = coalesce(excluded, current)
Upsert(old, new) ==
    IF old = None THEN new
    ELSE [new EXCEPT !.levels = Coalesce(new.levels, old.levels)]

\* Mutant: the upserted row is not stamped.
FreshUnstamped(band) ==
    [check |-> TRUE, to_notify |-> TRUE, last_update |-> None, levels |-> band]

\* The row written for an instrument whose candles have just been fetched
Fresh(band) == [check |-> TRUE, to_notify |-> TRUE, last_update |-> day, levels |-> band]

Disarm(i) ==
    [rows EXCEPT ![i] = IF @ = None THEN None ELSE [@ EXCEPT !.to_notify = FALSE]]

Held(i) == {links[a][i] : a \in Accounts} \ {None}
Portfolio(p) == {i \in Instruments : p[i] # None}

StopHit(levels, direction, price) ==
    \/ direction = "long" /\ levels.short_20 # None /\ price <= levels.short_20
    \/ direction = "short" /\ levels.long_20 # None /\ price >= levels.long_20

Breakout(levels, price) ==
    /\ levels.long_55 # None
    /\ price >= levels.long_55 \/ (levels.short_55 # None /\ price <= levels.short_55)

-----------------------------------------------------------------------------
(* MarketDataHandler._on_last_price: one tick, run by the bus consumer *)

\* Mutant: the handlers of the bus run in parallel.
BusFreeOfUpdates == sync = None

BusFree == hand.pc = "idle" /\ sync = None

\* The SELECT joins one link of the instrument, whichever comes first.
Tick(i, price) ==
    /\ session # "before"
    /\ BusFree
    /\ rows[i] # None
    /\ rows[i].check /\ rows[i].to_notify
    /\ \/ /\ \E d \in Held(i) : StopHit(rows[i].levels, d, price)
          /\ hand' = [pc |-> "send_stop", i |-> i, matched |-> FALSE]
       \/ /\ Held(i) = {}
          /\ Breakout(rows[i].levels, price)
          /\ hand' = [pc |-> "set_entry", i |-> i, matched |-> FALSE]
    /\ UNCHANGED <<clock, database, sync, refresh, fav, acc, hist>>

SendStop ==
    /\ hand.pc = "send_stop"
    /\ hand' = [hand EXCEPT !.pc = "set_stop"]
    /\ hist' = Delivered(hand.i, "stop")
    /\ UNCHANGED <<clock, database, sync, refresh, fav, acc>>

\* Mutant: the stop signal leaves the row armed.
SetStopForgets ==
    /\ hand.pc = "set_stop"
    /\ hand' = IdleHand
    /\ UNCHANGED <<clock, database, sync, refresh, fav, acc, hist>>

\* set_notify and commit: the UPDATE waits for a refresh that holds the row.
SetStop ==
    /\ hand.pc = "set_stop"
    /\ ~Locked(hand.i)
    /\ rows' = Disarm(hand.i)
    /\ hand' = IdleHand
    /\ UNCHANGED <<clock, accounts, links, sync, refresh, fav, acc, hist>>

\* Before the entry message the row is disarmed, uncommitted.
SetEntry ==
    /\ hand.pc = "set_entry"
    /\ ~Locked(hand.i)
    /\ hand' = [hand EXCEPT !.pc = "send_entry", !.matched = rows[hand.i] # None]
    /\ UNCHANGED <<clock, database, sync, refresh, fav, acc, hist>>

SendEntry ==
    /\ hand.pc = "send_entry"
    /\ hand' = [hand EXCEPT !.pc = "commit_entry"]
    /\ hist' = Delivered(hand.i, "entry")
    /\ UNCHANGED <<clock, database, sync, refresh, fav, acc>>

\* Mutant: the entry signal returns without its commit.
CommitEntryForgets ==
    /\ hand.pc = "commit_entry"
    /\ hand' = IdleHand
    /\ UNCHANGED <<clock, database, sync, refresh, fav, acc, hist>>

CommitEntry ==
    /\ hand.pc = "commit_entry"
    /\ IF hand.matched THEN rows' = Disarm(hand.i) /\ UNCHANGED hist
                       ELSE hist' = DisarmLost(hand.i) /\ UNCHANGED rows
    /\ hand' = IdleHand
    /\ UNCHANGED <<clock, accounts, links, sync, refresh, fav, acc>>

\* Mutant: set_notify commits by itself, before the message.
HandlerRaisesDisarmed ==
    /\ hand.pc = "send_entry"
    /\ rows' = Disarm(hand.i)
    /\ hand' = IdleHand
    /\ UNCHANGED <<clock, accounts, links, sync, refresh, fav, acc, hist>>

\* The margin, portfolio, name or Telegram call raises: the session rolls back.
HandlerRaises ==
    /\ hand.pc \in {"send_stop", "set_entry", "send_entry"}
    /\ hand' = IdleHand
    /\ UNCHANGED <<clock, database, sync, refresh, fav, acc, hist>>

\* Telegram took the message but the call raised (a timeout).
SendRaisesLate ==
    /\ hand.pc \in {"send_stop", "send_entry"}
    /\ hist[hand.i].lost < MaxLost
    /\ hist' = DeliveredAndLost(hand.i, IF hand.pc = "send_stop" THEN "stop" ELSE "entry")
    /\ hand' = IdleHand
    /\ UNCHANGED <<clock, database, sync, refresh, fav, acc>>

\* The message is out and the commit of its disarm fails.
HandlerCommitFails ==
    /\ hand.pc \in {"set_stop", "commit_entry"}
    /\ hist[hand.i].lost < MaxLost
    /\ hist' = DisarmLost(hand.i)
    /\ hand' = IdleHand
    /\ UNCHANGED <<clock, database, sync, refresh, fav, acc>>

-----------------------------------------------------------------------------
(* PortfolioHandler._on_portfolio_response, run by the same bus consumer *)

SyncEmpty(a) ==
    /\ session # "before"
    /\ BusFree
    /\ links' = [links EXCEPT ![a] = NoPositions]
    /\ UNCHANGED <<clock, rows, accounts, bus, refresh, fav, acc, hist>>

\* The first SELECT: which positions are new, which are gone
SyncBegin(a, p) ==
    /\ session # "before"
    /\ BusFree
    /\ Portfolio(p) # {}
    /\ sync' = [a |-> a, p |-> p, read |-> FALSE, need |-> {},
                add |-> Portfolio(p) \ Portfolio(links[a]),
                del |-> Portfolio(links[a]) \ Portfolio(p)]
    /\ UNCHANGED <<clock, database, hand, refresh, fav, acc, hist>>

\* The second SELECT: which instruments are missing or stale
SyncReads ==
    /\ sync # None
    /\ ~sync.read
    /\ sync' = [sync EXCEPT !.read = TRUE,
                            !.need = {i \in Portfolio(sync.p) : Stale(rows[i])}]
    /\ UNCHANGED <<clock, database, hand, refresh, fav, acc, hist>>

\* The foreign keys reject a link to a missing instrument or account.
LinksExist ==
    /\ \A i \in sync.add : i \in sync.need \/ rows[i] # None
    /\ sync.add # {} => sync.a \in accounts

\* Upsert, delete the closed positions, insert the opened ones, commit.
SyncCommit(band) ==
    /\ sync # None
    /\ sync.read
    /\ \A i \in sync.need : ~Locked(i)
    /\ LinksExist
    /\ rows' = [i \in Instruments |-> IF i \in sync.need THEN Upsert(rows[i], Fresh(band[i]))
                                                         ELSE rows[i]]
    /\ links' = [links EXCEPT ![sync.a] =
                    [i \in Instruments |-> IF i \in sync.add THEN sync.p[i]
                                           ELSE IF i \in sync.del THEN None
                                           ELSE @[i]]]
    /\ hist' = Rearmed(sync.need)
    /\ sync' = None
    /\ UNCHANGED <<clock, accounts, hand, refresh, fav, acc>>

SyncRaises ==
    /\ sync # None
    /\ sync' = None
    /\ UNCHANGED <<clock, database, hand, refresh, fav, acc, hist>>

-----------------------------------------------------------------------------
(* Service: the open job with its refresh, the close job, the expiry job *)

OpenJob ==
    /\ session = "before"
    /\ session' = "open"
    /\ refresh' = [active |-> TRUE, upd |-> NoUpdates,
                   todo |-> {i \in Instruments : rows[i] # None /\ Stale(rows[i])}]
    /\ UNCHANGED <<day, database, bus, fav, acc, hist>>

\* One _recalc_and_update: its UPDATE stays uncommitted until the gather ends.
Recalc(i, band) ==
    /\ i \in refresh.todo
    /\ ~Locked(i)
    /\ refresh' = [refresh EXCEPT !.todo = @ \ {i},
                                  !.upd[i] = IF rows[i] = None THEN None ELSE band]
    /\ UNCHANGED <<clock, database, bus, fav, acc, hist>>

\* return_exceptions=True: a failed instrument is skipped without a word.
RecalcRaises(i) ==
    /\ i \in refresh.todo
    /\ refresh' = [refresh EXCEPT !.todo = @ \ {i}]
    /\ UNCHANGED <<clock, database, bus, fav, acc, hist>>

Recalculated == {i \in Instruments : refresh.upd[i] # None}

\* Mutant: the refresh does not re-arm (update_notify=False).
RefreshCommitSilent ==
    /\ refresh.active /\ refresh.todo = {}
    /\ rows' = [i \in Instruments |->
                   IF i \in Recalculated
                   THEN [rows[i] EXCEPT !.last_update = day, !.levels = refresh.upd[i]]
                   ELSE rows[i]]
    /\ refresh' = NoRefresh
    /\ UNCHANGED <<clock, accounts, links, bus, fav, acc, hist>>

\* Mutant: the refresh waits for an idle bus before it commits.
RefreshCommitAfterBus ==
    /\ BusFree
    /\ refresh.active /\ refresh.todo = {}
    /\ rows' = [i \in Instruments |->
                   IF i \in Recalculated
                   THEN [rows[i] EXCEPT !.to_notify = TRUE, !.last_update = day,
                                        !.levels = refresh.upd[i]]
                   ELSE rows[i]]
    /\ hist' = Rearmed(Recalculated)
    /\ refresh' = NoRefresh
    /\ UNCHANGED <<clock, accounts, links, bus, fav, acc>>

RefreshCommit ==
    /\ refresh.active /\ refresh.todo = {}
    /\ rows' = [i \in Instruments |->
                   IF i \in Recalculated
                   THEN [rows[i] EXCEPT !.to_notify = TRUE, !.last_update = day,
                                        !.levels = refresh.upd[i]]
                   ELSE rows[i]]
    /\ hist' = Rearmed(Recalculated)
    /\ refresh' = NoRefresh
    /\ UNCHANGED <<clock, accounts, links, bus, fav, acc>>

\* A name lookup raises, or a failed statement turns the commit into a rollback.
RefreshRollback ==
    /\ refresh.active
    /\ refresh' = NoRefresh
    /\ UNCHANGED <<clock, database, bus, fav, acc, hist>>

\* The job shares a lock with OpenJob, so it waits for the refresh.
CloseJob ==
    /\ session = "open" /\ ~refresh.active
    /\ session' = "after"
    /\ UNCHANGED <<day, database, bus, refresh, fav, acc, hist>>

\* Mutant: the instruments go, their links stay.
ExpirationJobNoCascade ==
    LET expired == {i \in Expiring : rows[i] # None} IN
    /\ expired # {}
    /\ \A i \in expired : ~Locked(i)
    /\ rows' = [i \in Instruments |-> IF i \in expired THEN None ELSE rows[i]]
    /\ UNCHANGED <<clock, accounts, links, bus, refresh, fav, acc, hist>>

ExpirationJob ==
    LET expired == {i \in Expiring : rows[i] # None} IN
    /\ expired # {}
    /\ \A i \in expired : ~Locked(i)
    /\ rows' = [i \in Instruments |-> IF i \in expired THEN None ELSE rows[i]]
    /\ links' = [a \in Accounts |-> [i \in Instruments |->
                    IF i \in expired THEN None ELSE links[a][i]]]
    /\ UNCHANGED <<clock, accounts, bus, refresh, fav, acc, hist>>

\* Midnight is hours after the close job: the queue is drained by then.
NewDay ==
    /\ session = "after" /\ day < MaxDay
    /\ BusFree
    /\ day' = day + 1
    /\ session' = "before"
    /\ hist' = [i \in Instruments |-> [hist[i] EXCEPT !.kind = "none"]]
    /\ UNCHANGED <<database, bus, refresh, fav, acc>>

\* The process dies and is started again: every open transaction rolls back.
Crash ==
    /\ IF hand.pc \in {"set_stop", "commit_entry"}
       THEN hist[hand.i].lost < MaxLost /\ hist' = DisarmLost(hand.i)
       ELSE UNCHANGED hist
    /\ hand' = IdleHand
    /\ sync' = None /\ fav' = None /\ acc' = None
    /\ refresh' = NoRefresh
    /\ session' = IF session = "open" THEN "before" ELSE session
    /\ UNCHANGED <<day, database>>

-----------------------------------------------------------------------------
(* The dialogs *)

\* add_favorites_instruments: read, fetch candles, then one batch of writes
FavBegin(ids) ==
    /\ fav = None
    /\ fav' = [ids |-> ids, need |-> {i \in ids : Stale(rows[i])}]
    /\ UNCHANGED <<clock, database, bus, refresh, acc, hist>>

FavCommit(band) ==
    /\ fav # None
    /\ \A i \in fav.ids : ~Locked(i)
    /\ rows' = [i \in Instruments |->
                   IF i \in fav.need THEN Upsert(rows[i], Fresh(band[i]))
                   ELSE IF i \in fav.ids /\ rows[i] # None THEN [rows[i] EXCEPT !.check = TRUE]
                   ELSE rows[i]]
    /\ hist' = Rearmed(fav.need)
    /\ fav' = None
    /\ UNCHANGED <<clock, accounts, links, bus, refresh, acc>>

FavRaises ==
    /\ fav # None
    /\ fav' = None
    /\ UNCHANGED <<clock, database, bus, refresh, acc, hist>>

\* add_account_id: an account without positions is not saved
AccBegin(a, p) ==
    /\ acc = None
    /\ Portfolio(p) # {}
    /\ acc' = [a |-> a, p |-> p,
               old  |-> [i \in Instruments |-> IF i \in Portfolio(p) THEN rows[i] ELSE None],
               need |-> {i \in Portfolio(p) : Stale(rows[i])}]
    /\ UNCHANGED <<clock, database, bus, refresh, fav, hist>>

\* Mutant: the row put back is stamped as new.
AccRowTouched(i, got, band) ==
    IF i \in got THEN Fresh(band[i])
    ELSE IF acc.old[i] # None THEN [acc.old[i] EXCEPT !.check = TRUE, !.last_update = day]
    ELSE Fresh(NoLevels)

\* The row written for a position: recomputed, or put back as it was read
AccRow(i, got, band) ==
    IF i \in got THEN Fresh(band[i])
    ELSE IF acc.old[i] # None THEN [acc.old[i] EXCEPT !.check = TRUE]
    ELSE Fresh(NoLevels)

AccCommit(got, band) ==
    /\ acc # None
    /\ got \subseteq acc.need
    /\ \A i \in Portfolio(acc.p) : ~Locked(i)
    /\ rows' = [i \in Instruments |->
                   IF i \in Portfolio(acc.p) THEN Upsert(rows[i], AccRow(i, got, band))
                                             ELSE rows[i]]
    /\ hist' = Rearmed({i \in Portfolio(acc.p) : AccRow(i, got, band).to_notify})
    /\ links' = [links EXCEPT ![acc.a] =
                    [i \in Instruments |-> IF i \in Portfolio(acc.p) THEN acc.p[i] ELSE @[i]]]
    /\ accounts' = accounts \cup {acc.a}
    /\ acc' = None
    /\ UNCHANGED <<clock, bus, refresh, fav>>

AccRaises ==
    /\ acc # None
    /\ acc' = None
    /\ UNCHANGED <<clock, database, bus, refresh, fav, hist>>

\* Mutant: the links of the account are not deleted with it.
RemoveAccountKeepsLinks(a) ==
    /\ a \in accounts
    /\ acc # None => acc.a # a
    /\ accounts' = accounts \ {a}
    /\ UNCHANGED <<clock, rows, links, bus, refresh, fav, acc, hist>>

RemoveAccount(a) ==
    /\ a \in accounts
    /\ acc # None => acc.a # a
    /\ accounts' = accounts \ {a}
    /\ links' = [links EXCEPT ![a] = NoPositions]
    /\ UNCHANGED <<clock, rows, bus, refresh, fav, acc, hist>>

\* _apply_uncheck_and_unsubscribe, the database half
Uncheck(ids) ==
    /\ \A i \in ids : rows[i] # None /\ rows[i].check /\ ~Locked(i)
    /\ rows' = [i \in Instruments |-> IF i \in ids THEN [rows[i] EXCEPT !.check = FALSE]
                                                   ELSE rows[i]]
    /\ UNCHANGED <<clock, accounts, links, bus, refresh, fav, acc, hist>>

-----------------------------------------------------------------------------

Init ==
    /\ day = 1
    /\ session = "before"
    /\ rows = [i \in Instruments |-> None]
    /\ accounts = Saved
    /\ links = [a \in Accounts |-> NoPositions]
    /\ hand = IdleHand
    /\ sync = None
    /\ refresh = NoRefresh
    /\ fav = None
    /\ acc = None
    /\ hist = [i \in Instruments |-> NoSignals]

MarketStep ==
    \/ \E i \in Instruments, price \in Prices : Tick(i, price)
    \/ SendStop \/ SetStop
    \/ SetEntry \/ SendEntry \/ CommitEntry
    \/ HandlerRaises \/ SendRaisesLate \/ HandlerCommitFails

SyncStep ==
    \/ \E a \in Accounts : SyncEmpty(a)
    \/ \E a \in Accounts, p \in Portfolios : SyncBegin(a, p)
    \/ SyncReads
    \/ \E band \in [Instruments -> Bands] : SyncCommit(band)
    \/ SyncRaises

RefreshStep ==
    \/ \E i \in Instruments, band \in Bands : Recalc(i, band)
    \/ \E i \in Instruments : RecalcRaises(i)
    \/ RefreshCommit \/ RefreshRollback

ServiceStep == OpenJob \/ CloseJob \/ ExpirationJob \/ NewDay \/ Crash

UserStep ==
    \/ \E ids \in SUBSET Favourites \ {{}} : FavBegin(ids)
    \/ \E band \in [Instruments -> Bands] : FavCommit(band)
    \/ FavRaises
    \/ \E a \in Addable, p \in Portfolios : AccBegin(a, p)
    \/ \E got \in SUBSET Instruments, band \in [Instruments -> Bands] : AccCommit(got, band)
    \/ AccRaises
    \/ \E a \in Accounts : RemoveAccount(a)
    \/ \E ids \in SUBSET Instruments \ {{}} : Uncheck(ids)

Next == MarketStep \/ SyncStep \/ RefreshStep \/ ServiceStep \/ UserStep

Spec == Init /\ [][Next]_vars

-----------------------------------------------------------------------------
(* Properties *)

\* The message of the current handler run is out, its disarm is not recorded yet.
PostSend(i) == hand.i = i /\ hand.pc \in {"set_stop", "commit_entry"}
PreSend(i) == hand.i = i /\ hand.pc \in {"send_stop", "set_entry", "send_entry"}
Armed(i) == rows[i] # None /\ rows[i].to_notify

(***************************************************************************)
(* One arming of a row is worth one signal: the price may stay beyond the  *)
(* level for hours of ticks, the row may be rewritten by the refresh or a  *)
(* dialog while the handler awaits, and still a second message goes out    *)
(* only if the disarm of the first was lost with a failed or late call.    *)
(***************************************************************************)
AtMostOneSignal == \A i \in Instruments : hist[i].sent <= hist[i].lost + 1

\* The strengthening of AtMostOneSignal that every step preserves.
SignalBudget ==
    \A i \in Instruments :
        /\ hist[i].sent <= hist[i].lost + 1
        /\ PreSend(i) => hist[i].sent <= hist[i].lost
        /\ Armed(i) /\ ~PostSend(i) => hist[i].sent <= hist[i].lost

(***************************************************************************)
(* No signal is swallowed: a row computed today that is disarmed was       *)
(* signalled today.  A message that fails before it is out must leave the  *)
(* row armed, whatever else writes the row meanwhile.                      *)
(***************************************************************************)
DisarmedMeansSignalled ==
    \A i \in Instruments :
        rows[i] # None /\ ~rows[i].to_notify /\ rows[i].last_update = day
            => hist[i].kind # "none"

(***************************************************************************)
(* Prices and portfolio updates share one bus consumer, so no position     *)
(* read from the broker's stream is recorded between the SELECT of the     *)
(* price handler and its entry message.  The add-account dialog is a task  *)
(* of its own and writes links while the handler awaits the margin, the    *)
(* portfolios or Telegram: an entry is under way for a held instrument     *)
(* only once the commit of that dialog has overtaken it.                   *)
(***************************************************************************)
EntryUnderWay == hand.pc \in {"set_entry", "send_entry"}
EntryWhileHeld == EntryUnderWay /\ Held(hand.i) # {}

OvertakenByDialogOnly ==
    [][EntryWhileHeld' => \/ EntryWhileHeld
                          \/ acc # None /\ acc' = None /\ acc.p[hand.i] # None]_vars

\* A row is stamped with a newer day only by a commit that arms it: levels of a
\* new day never come with yesterday's silence (_recalc_and_update, the upserts).
NewStampArms ==
    [][\A i \in Instruments :
          rows[i] # None /\ rows'[i] # None /\ rows'[i].last_update > rows[i].last_update
              => rows'[i].to_notify]_vars

\* A position is recorded only for a stored account and a stored instrument: the
\* expiry job and the account dialogs take the links away with what they delete.
LinksAreBacked ==
    \A a \in Accounts, i \in Instruments :
        links[a][i] # None => a \in accounts /\ rows[i] # None

\* What the rows and links come to beside their levels: the tables of Ledger.
Tracked == {i \in Instruments : rows[i] # None /\ rows[i].check}
Linked == [a \in Accounts |-> Portfolio(links[a])]
Table == INSTANCE Ledger WITH tracked <- Tracked, links <- Linked

\* However the tasks interleave between their reads and their commits, every step is
\* one whole transaction on the tables or none: no half of an account, of an expiry or
\* of a portfolio update is left behind by what was read before an await.
IsLedger == Table!Spec

\* The bus consumer always comes back for the next event: waiting for a row the
\* refresh has locked never turns into waiting for each other.
BusReturns == ~BusFree ~> BusFree

\* The morning refresh ends, so that the close job is not kept waiting.
RefreshEnds == refresh.active ~> ~refresh.active

\* Tracked, without a position, with levels of the long window, in the session.
Candidate(i) ==
    /\ session = "open" /\ Held(i) = {}
    /\ rows[i] # None /\ rows[i].check /\ rows[i].levels.long_55 # None

\* An armed candidate whose price stays beyond its level gets its message before the
\* session ends (README.md:15, all signals are sent at once), unless it stops being one.
SignalGoesOut ==
    \A i \in Instruments :
        Candidate(i) /\ Armed(i) ~> hist[i].kind # "none" \/ ~Candidate(i)

(***************************************************************************)
(* Fairness.  Every awaited call returns or raises, so a task that can go  *)
(* on does (WF); PostgreSQL queues the writers of a locked row, so one     *)
(* that waits gets its turn (SF).  Opening, closing, the user and failures *)
(* have none.                                                              *)
(***************************************************************************)
Fairness ==
    /\ WF_vars(SendStop \/ SendEntry \/ CommitEntry)
    /\ SF_vars(SetStop \/ SetEntry)
    /\ SF_vars(\E band \in [Instruments -> Bands] : SyncCommit(band))
    /\ WF_vars(SyncReads)
    /\ WF_vars(SyncRaises /\ sync.read /\ ~LinksExist)
    /\ \A i \in Instruments : SF_vars(\E band \in Bands : Recalc(i, band))
    /\ WF_vars(RefreshCommit)

FairSpec == Spec /\ Fairness

\* What SignalGoesOut assumes of the outside: the price is seen beyond the level
\* again and again, and not every message to Telegram fails.
InsistentMarket ==
    /\ \A i \in Instruments : SF_vars(\E price \in Prices : Tick(i, price))
    /\ SF_vars(SendStop) /\ SF_vars(SendEntry)

MarketSpec == FairSpec /\ InsistentMarket

(***************************************************************************)
(* What the documentation says and the code does not do.                   *)
(***************************************************************************)


\* README.md:13: once a position is open its stop level is watched.  A held,
\* tracked instrument is armed, or its stop has been signalled today.
HeldPositionIsGuarded ==
    \A i \in Instruments :
        /\ session = "open" /\ BusFree /\ ~refresh.active
        /\ rows[i] # None /\ rows[i].check /\ rows[i].last_update = day
        /\ Held(i) # {}
        => rows[i].to_notify \/ hist[i].kind = "stop"

\* router.py:164, "up to date: not recomputed, existing fields not overwritten":
\* adding an account leaves the armed state of an up-to-date row alone.
AddAccountKeepsFields ==
    [][\A i \in Instruments :
          /\ acc # None /\ acc' = None
          /\ acc.p[i] # None /\ i \notin acc.need
          /\ rows[i] # None /\ rows'[i] # None
          => rows'[i].to_notify = rows[i].to_notify]_vars

=============================================================================
