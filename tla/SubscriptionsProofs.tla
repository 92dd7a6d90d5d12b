------------------------ MODULE SubscriptionsProofs ------------------------
(***************************************************************************)
(* For any instruments and accounts: the dictionary never runs ahead of    *)
(* the stream, and a tracked instrument is subscribed during the session   *)
(* unless a path that is named left it out.                                *)
(***************************************************************************)
EXTENDS Subscriptions, TLAPS

-----------------------------------------------------------------------------
(* The operations of the client *)

\* A subscription adds to the dictionary what it adds to a stream that is up.
LEMMA SubscribeFacts ==
    ASSUME TypeOK, NEW ids \in SUBSET Instruments, Subscribe(ids)
    PROVE  /\ subs' \in SUBSET Instruments /\ Subscribed' = Subscribed \cup ids
           /\ live' \subseteq Instruments /\ (live' # {} => up)
           /\ missed' = missed \ ids
           /\ (up => Subscribed \subseteq live) => (up => Subscribed' \subseteq live')
<1> USE SubscriptionsAssumption DEF TypeOK, Subscribe
<1>1. Subscribed \in SUBSET Instruments
  BY DEF Subscribed
<1>2. subs' \in SUBSET Instruments /\ subs' = Subscribed \cup ids
  BY <1>1
<1>3. Subscribed' = Subscribed \cup ids
  BY <1>2 DEF Subscribed
<1>4. QED
  BY <1>2, <1>3

\* An unsubscription that fails half-way leaves the stream as it is.
LEMMA UnsubscribeFacts ==
    ASSUME TypeOK, NEW ids \in SUBSET Instruments, Unsubscribe(ids)
    PROVE  /\ subs' \in (SUBSET Instruments) \cup {None}
           /\ Subscribed \ ids \subseteq Subscribed'
           /\ live' \subseteq live
           /\ missed' = missed \cup (ids \cap tracked)
           /\ (up => Subscribed \subseteq live) => (up => Subscribed' \subseteq live')
<1> USE SubscriptionsAssumption DEF TypeOK
<1>1. PICK gone \in SUBSET (ids \cap Subscribed) :
         /\ subs' = IF subs = None THEN None ELSE subs \ gone
         /\ live' = IF gone = ids THEN live \ ids ELSE live
  BY DEF Unsubscribe
<1>2. Subscribed' = Subscribed \ gone /\ subs' \in (SUBSET Instruments) \cup {None}
  BY <1>1 DEF Subscribed
<1>3. missed' = missed \cup (ids \cap tracked)
  BY DEF Unsubscribe
<1>4. QED
  BY <1>1, <1>2, <1>3

-----------------------------------------------------------------------------

\* What may be tracked and not subscribed: left out on a named path, or about to be
\* subscribed by a dialog that has committed.
Pending ==
    Subscribed \cup missed \cup (IF fav = None THEN {} ELSE fav)
               \cup (IF acct.pc = "subscribe" THEN acct.ids ELSE {})

\* While the open job refreshes, it holds what was tracked when it began.
TrackInv ==
    /\ opening.pc = "refresh" => started /\ tracked \subseteq Pending \cup opening.snap
    /\ opening.pc = "read" => started
    /\ started /\ opening = Idle => tracked \subseteq Pending

Inv == TypeOK /\ EntriesAreLive /\ TrackInv

\* The initial state: nothing tracked, nothing open.
LEMMA InitInv == Init => Inv
<1> SUFFICES ASSUME Init PROVE Inv
  OBVIOUS
<1> USE SubscriptionsAssumption DEF Init
<1>1. links \in [Accounts -> SUBSET Instruments]
  OBVIOUS
<1>2. TypeOK
  BY <1>1 DEF TypeOK
<1>3. EntriesAreLive
  BY DEF EntriesAreLive
<1>4. opening.pc = "idle" /\ ~started
  BY DEF Idle
<1>5. TrackInv
  BY <1>4 DEF TrackInv
<1>6. QED
  BY <1>2, <1>3, <1>5 DEF Inv

\* Steps of the stream, the jobs, the dialogs and the portfolio handler.
LEMMA NextInv == Inv /\ [Next]_vars => Inv'
<1> SUFFICES ASSUME Inv, [Next]_vars PROVE Inv'
  OBVIOUS
<1> USE SubscriptionsAssumption DEF Inv
<1>1. CASE CreateStream \/ StreamFails
  BY <1>1 DEF CreateStream, StreamFails, TypeOK, EntriesAreLive, TrackInv, Pending, Subscribed,
              database, dialogs
<1>2. CASE OpenLists \/ OpenStarts \/ OpenReads \/ OpenRaises
  <2>1. CASE OpenLists
    BY <2>1 DEF OpenLists, TypeOK, EntriesAreLive, TrackInv, Pending, Subscribed,
                database, dialogs, stream, Idle
  <2>2. CASE OpenStarts
    <3>1. opening.accounts \subseteq Accounts
      BY <2>2 DEF OpenStarts, TypeOK, Idle
    <3>2. opening' = [pc |-> "read"] /\ opening'.pc = "read"
      BY <2>2 DEF OpenStarts
    <3>3. TypeOK'
      BY <2>2, <3>1, <3>2 DEF OpenStarts, TypeOK, database, dialogs
    <3>4. EntriesAreLive' /\ TrackInv'
      BY <2>2, <3>2 DEF OpenStarts, EntriesAreLive, TrackInv, Idle
    <3>5. QED
      BY <3>3, <3>4
  <2>3. CASE OpenReads
    BY <2>3 DEF OpenReads, TypeOK, EntriesAreLive, TrackInv, Pending, Subscribed,
                database, dialogs, stream, Idle
  <2>4. CASE OpenRaises
    BY <2>4 DEF OpenRaises, TypeOK, EntriesAreLive, TrackInv, Pending, Subscribed,
                database, dialogs, stream, Idle
  <2>5. QED
    BY <1>2, <2>1, <2>2, <2>3, <2>4
<1>3. CASE OpenSubscribes
  <2> DEFINE ids == opening.snap \ Subscribed
  <2>1. ids \in SUBSET Instruments /\ opening.pc = "refresh" /\ opening' = Idle
    BY <1>3 DEF OpenSubscribes, TypeOK, Idle
  <2>2. CASE ids # {}
    <3>1. Subscribe(ids)
      BY <1>3, <2>2 DEF OpenSubscribes
    <3> HIDE DEF ids
    <3>2. /\ subs' \in SUBSET Instruments /\ Subscribed' = Subscribed \cup ids
          /\ live' \subseteq Instruments /\ (live' # {} => up) /\ missed' = missed \ ids
          /\ (up => Subscribed \subseteq live) => (up => Subscribed' \subseteq live')
      BY <2>1, <3>1, SubscribeFacts
    <3>3. TypeOK'
      BY <1>3, <2>1, <2>2, <3>2 DEF OpenSubscribes, TypeOK, database, dialogs, ids
    <3>4. EntriesAreLive'
      BY <1>3, <2>2, <3>2 DEF OpenSubscribes, EntriesAreLive, ids
    <3>5. TrackInv'
      BY <1>3, <2>1, <2>2, <3>2 DEF OpenSubscribes, TrackInv, Pending, database, dialogs, Idle, ids
    <3>6. QED
      BY <3>3, <3>4, <3>5
  <2>3. CASE ids = {}
    <3>1. UNCHANGED <<up, live, subs>> /\ missed' = missed \ opening.snap
      BY <1>3, <2>3 DEF OpenSubscribes
    <3>2. TypeOK'
      BY <1>3, <2>1, <3>1 DEF OpenSubscribes, TypeOK, database, dialogs
    <3>3. Subscribed' = Subscribed /\ EntriesAreLive'
      BY <3>1 DEF EntriesAreLive, Subscribed
    <3>4. TrackInv'
      BY <1>3, <2>1, <2>3, <3>1, <3>3 DEF OpenSubscribes, TrackInv, Pending, database, dialogs, Idle
    <3>5. QED
      BY <3>2, <3>3, <3>4
  <2>4. QED
    BY <2>2, <2>3
<1>4. CASE Close \/ Crash
  <2>1. CASE Close
    BY <2>1 DEF Close, TypeOK, EntriesAreLive, TrackInv, Pending, Subscribed,
                database, dialogs, Idle
  <2>2. CASE Crash
    <3>1. opening'.pc = "idle" /\ ~started' /\ ~up'
      BY <2>2 DEF Crash, Idle
    <3>2. TypeOK'
      BY <2>2 DEF Crash, TypeOK, database
    <3>3. EntriesAreLive' /\ TrackInv'
      BY <3>1 DEF EntriesAreLive, TrackInv
    <3>4. QED
      BY <3>2, <3>3
  <2>3. QED
    BY <1>4, <2>1, <2>2
<1>5. ASSUME NEW ids \in SUBSET Expiring, Expire(ids) PROVE Inv'
  BY <1>5 DEF Expire, TypeOK, EntriesAreLive, TrackInv, Pending, Subscribed,
              stream, dialogs, Idle
<1>6. CASE HandlerStep
  BY <1>6 DEF HandlerStep, Sync, TypeOK, EntriesAreLive, TrackInv, Pending, Subscribed,
              stream, dialogs, Idle
<1>7. ASSUME NEW ids \in SUBSET Instruments,
             FavCommit(ids) \/ UncheckCommits(ids) \/ UncheckCommitFails(ids)
      PROVE  Inv'
  BY <1>7 DEF FavCommit, UncheckCommits, UncheckCommitFails, TypeOK, EntriesAreLive, TrackInv,
              Pending, Subscribed, database, stream, Idle
<1>8. CASE FavSubscribes
  BY <1>8, SubscribeFacts DEF FavSubscribes, TypeOK, EntriesAreLive, TrackInv,
              Pending, database, stream, Idle
<1>9. CASE FavMessageFails \/ UncheckLists
  BY <1>9 DEF FavMessageFails, UncheckLists, TypeOK, EntriesAreLive, TrackInv,
              Pending, Subscribed, database, stream, Idle
<1>10. CASE UncheckUnsubscribes
  BY <1>10, UnsubscribeFacts DEF UncheckUnsubscribes, TypeOK, EntriesAreLive, TrackInv,
              Pending, database, stream, Idle
<1>11. ASSUME NEW a \in Accounts, NEW p \in SUBSET Instruments, AddCommit(a, p) \/ RemoveCommit(a, p)
       PROVE  Inv'
  BY <1>11 DEF AddCommit, RemoveCommit, TypeOK, EntriesAreLive, TrackInv,
              Pending, Subscribed, database, stream, Idle
<1>12. CASE AddSubscribes
  BY <1>12, SubscribeFacts DEF AddSubscribes, TypeOK, EntriesAreLive, TrackInv,
              Pending, database, stream, Idle
<1>13. CASE RemoveUnsubscribes
  BY <1>13, UnsubscribeFacts DEF RemoveUnsubscribes, TypeOK, EntriesAreLive, TrackInv,
              Pending, database, stream, Idle
<1>14. CASE AccountsListed \/ Recreate
  BY <1>14 DEF AccountsListed, Recreate, TypeOK, EntriesAreLive, TrackInv,
              Pending, Subscribed, database, stream, Idle
<1>15. CASE UNCHANGED vars
  BY <1>15 DEF vars, TypeOK, EntriesAreLive, TrackInv, Pending, Subscribed
<1>16. QED
  BY <1>1, <1>2, <1>3, <1>4, <1>5, <1>6, <1>7, <1>8, <1>9, <1>10, <1>11, <1>12, <1>13,
     <1>14, <1>15 DEF Next, ServiceStep, FavouritesStep, AccountStep

\* The strengthened invariant holds in every reachable state.
LEMMA SpecInv == Spec => []Inv
  BY InitInv, NextInv, PTL DEF Spec

\* The attributes of TClient, the tables and the dialogs keep their types.
THEOREM SubscriptionsTypeOK == Spec => []TypeOK
<1>1. Inv => TypeOK
  BY DEF Inv
<1>2. QED
  BY <1>1, SpecInv, PTL

\* The dictionary never runs ahead of the stream.
THEOREM EntriesStayLive == Spec => []EntriesAreLive
<1>1. Inv => EntriesAreLive
  BY DEF Inv
<1>2. QED
  BY <1>1, SpecInv, PTL

\* A tracked instrument is subscribed during the session, or a named path left it out.
THEOREM TrackedIsSubscribed == Spec => []TrackedOrMissed
<1>1. Inv => TrackedOrMissed
  BY DEF Inv, TrackInv, TrackedOrMissed, Pending
<1>2. QED
  BY <1>1, SpecInv, PTL

-----------------------------------------------------------------------------
(* The tables of this module and of Signals are the same Ledger *)

Table == INSTANCE Ledger

IsLedger == Table!Spec

\* A step of the stream, the client or a dialog that writes no table stutters.
LEMMA NextTable == [Next]_vars => [Table!Next]_(Table!vars)
<1> SUFFICES ASSUME [Next]_vars PROVE [Table!Next]_(Table!vars)
  OBVIOUS
<1> USE SubscriptionsAssumption
<1>1. ASSUME UNCHANGED database PROVE [Table!Next]_(Table!vars)
  BY <1>1 DEF database, Table!vars
<1>2. ASSUME NEW ids \in SUBSET Expiring, Expire(ids) PROVE [Table!Next]_(Table!vars)
  <2>1. Table!Expire(ids) /\ ids \in SUBSET Instruments
    BY <1>2 DEF Expire, Table!Expire
  <2>2. QED
    BY <2>1 DEF Table!Next
<1>3. CASE HandlerStep
  <2>1. PICK a \in Accounts, p \in SUBSET Instruments, need \in SUBSET Instruments :
           Sync(a, p, need)
    BY <1>3 DEF HandlerStep
  <2>2. Table!Record(a, p, need)
    BY <2>1 DEF Sync, Table!Record
  <2>3. QED
    BY <2>2 DEF Table!Next
<1>4. ASSUME NEW ids \in SUBSET Instruments, FavCommit(ids) PROVE [Table!Next]_(Table!vars)
  <2>1. Table!Track(ids)
    BY <1>4 DEF FavCommit, Table!Track
  <2>2. QED
    BY <2>1 DEF Table!Next
<1>5. ASSUME NEW ids \in SUBSET Instruments, UncheckCommits(ids)
      PROVE  [Table!Next]_(Table!vars)
  <2>1. Table!Untrack(ids)
    BY <1>5 DEF UncheckCommits, Table!Untrack
  <2>2. QED
    BY <2>1 DEF Table!Next
<1>6. ASSUME NEW a \in Accounts, NEW p \in SUBSET Instruments, AddCommit(a, p)
      PROVE  [Table!Next]_(Table!vars)
  <2>1. Table!AddAccount(a, p)
    BY <1>6 DEF AddCommit, Table!AddAccount
  <2>2. QED
    BY <2>1 DEF Table!Next
<1>7. ASSUME NEW a \in Accounts, NEW p \in SUBSET Instruments, RemoveCommit(a, p)
      PROVE  [Table!Next]_(Table!vars)
  <2>1. Table!RemoveAccount(a)
    BY <1>7 DEF RemoveCommit, Table!RemoveAccount
  <2>2. QED
    BY <2>1 DEF Table!Next
<1>8. CASE CreateStream \/ StreamFails
  BY <1>1, <1>8 DEF CreateStream, StreamFails
<1>9. CASE ServiceStep
  BY <1>1, <1>2, <1>9 DEF ServiceStep, OpenLists, OpenStarts, OpenReads, OpenSubscribes,
     OpenRaises, Close, Crash
<1>10. CASE FavouritesStep
  BY <1>1, <1>4, <1>5, <1>10 DEF FavouritesStep, UncheckCommitFails, FavSubscribes,
     FavMessageFails, UncheckLists, UncheckUnsubscribes
<1>11. CASE AccountStep
  BY <1>1, <1>6, <1>7, <1>11 DEF AccountStep, AddSubscribes, RemoveUnsubscribes,
     AccountsListed, Recreate
<1>12. CASE UNCHANGED vars
  BY <1>1, <1>12 DEF vars, database
<1>13. QED
  BY <1>3, <1>8, <1>9, <1>10, <1>11, <1>12 DEF Next

\* Beside the streams, the tables change by the transactions of Ledger, as in Signals.
THEOREM SameLedger == Spec => IsLedger
<1>1. Init => Table!Init
  BY DEF Init, Table!Init
<1>2. QED
  BY <1>1, NextTable, PTL DEF Spec, IsLedger, Table!Spec

\* The foreign key, as Ledger keeps it.
LinkedAreStored == \A a \in Accounts : links[a] # {} => a \in accounts

LedgerInv ==
    /\ links \in [Accounts -> SUBSET Instruments]
    /\ LinkedAreStored

\* No transaction leaves a position with an account that is not stored, in whatever
\* order the dialogs and the updates of the broker commit.
THEOREM LedgerKeepsLinks == Table!Spec => []LinkedAreStored
<1>1. Table!Init => LedgerInv
  BY DEF Table!Init, LedgerInv, LinkedAreStored
<1>2. LedgerInv /\ [Table!Next]_(Table!vars) => LedgerInv'
  <2> SUFFICES ASSUME LedgerInv, [Table!Next]_(Table!vars) PROVE LedgerInv'
    OBVIOUS
  <2> USE DEF LedgerInv, LinkedAreStored
  <2>1. ASSUME NEW ids \in SUBSET Instruments,
               Table!Track(ids) \/ Table!Untrack(ids) \/ Table!Expire(ids)
        PROVE  LedgerInv'
    BY <2>1 DEF Table!Track, Table!Untrack, Table!Expire
  <2>2. ASSUME NEW a \in Accounts, NEW p \in SUBSET Instruments, Table!AddAccount(a, p)
        PROVE  LedgerInv'
    BY <2>2 DEF Table!AddAccount
  <2>3. ASSUME NEW a \in Accounts, Table!RemoveAccount(a) PROVE LedgerInv'
    BY <2>3 DEF Table!RemoveAccount
  <2>4. ASSUME NEW a \in Accounts, NEW p \in SUBSET Instruments, NEW need \in SUBSET Instruments,
               Table!Record(a, p, need)
        PROVE  LedgerInv'
    BY <2>4 DEF Table!Record
  <2>5. CASE UNCHANGED Table!vars
    BY <2>5 DEF Table!vars
  <2>6. QED
    BY <2>1, <2>2, <2>3, <2>4, <2>5 DEF Table!Next
<1>3. LedgerInv => LinkedAreStored
  BY DEF LedgerInv
<1>4. QED
  BY <1>1, <1>2, <1>3, PTL DEF Table!Spec

\* What Ledger keeps, its implementation beside the streams keeps.
THEOREM LinkedAccountsAreStored == Spec => []LinkedAreStored
<1>1. QED
  BY SameLedger, LedgerKeepsLinks, PTL DEF IsLedger

=============================================================================
