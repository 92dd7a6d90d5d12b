--------------------------- MODULE Subscriptions ---------------------------
(***************************************************************************)
(* Which prices the bot listens to: the flags and positions in the         *)
(* database, the dictionary TClient.subscribes, the subscription of the    *)
(* market stream, and the accounts of the portfolio stream.                *)
(*                                                                         *)
(* The open job, the dialogs and the portfolio handler change the database *)
(* first and the subscriptions some awaits later, or not at all.  A step   *)
(* ends where another task can get in: at a commit, a read or a message.   *)
(* The client itself (TClient._api) is the subject of ApiHandle: here it   *)
(* lasts as long as the session.                                           *)
(***************************************************************************)
CONSTANTS
    Instruments,    \* instrument uids
    Accounts,       \* broker account ids
    None,           \* no entry, no dialog
    Expiring        \* futures whose expiration date has come

ASSUME SubscriptionsAssumption ==
    /\ Expiring \subseteq Instruments
    /\ \A S \in SUBSET Instruments : None # S

VARIABLES
    tracked,    \* instruments with check = TRUE
    accounts,   \* stored accounts
    links,      \* account_instruments: the instruments of each account
    started,    \* market_stream_task is set (and Service._tclient_running)
    up,         \* _stream_market is a stream, not None
    live,       \* instruments the stream is subscribed to
    subs,       \* TClient.subscribes["last_price"], None without the key
    pstream,    \* accounts of the portfolio stream, {} without its task
    heard,      \* accounts of this process's portfolio streams so far: their updates may
                \* still be on the bus
    opening,    \* _ensure_tclient_started, between its awaits
    fav,        \* add_favorites_instruments: committed, not subscribed yet
    unc,        \* the uncheck dialog
    acct,       \* the account dialogs, after their commit
    missed      \* history: tracked instruments that some path left out

vars == <<tracked, accounts, links, started, up, live, subs, pstream, heard, opening, fav,
          unc, acct, missed>>
database == <<tracked, accounts, links>>
stream == <<started, up, live>>
dialogs == <<fav, unc, acct>>

Idle == [pc |-> "idle"]

TypeOK ==
    /\ tracked \subseteq Instruments
    /\ accounts \subseteq Accounts
    /\ links \in [Accounts -> SUBSET Instruments]
    /\ started \in BOOLEAN /\ up \in BOOLEAN
    /\ up => started
    /\ live \subseteq Instruments /\ (live # {} => up)
    /\ subs \in (SUBSET Instruments) \cup {None}
    /\ pstream \subseteq heard /\ heard \subseteq Accounts
    /\ opening \in {Idle} \cup [pc : {"start"}, accounts : SUBSET Accounts]
                   \cup [pc : {"read"}] \cup [pc : {"refresh"}, snap : SUBSET Instruments]
    /\ fav \in (SUBSET Instruments) \cup {None}
    /\ unc \in {Idle} \cup [pc : {"listed", "unsubscribe"}, ids : SUBSET Instruments]
    /\ acct \in {Idle} \cup [pc : {"subscribe", "unsubscribe"}, ids : SUBSET Instruments]
                \cup [pc : {"list"}] \cup [pc : {"recreate"}, accounts : SUBSET Accounts]
    /\ missed \subseteq Instruments

Held == UNION {links[a] : a \in Accounts}
Subscribed == IF subs = None THEN {} ELSE subs

-----------------------------------------------------------------------------
(* TClient *)

\* subscribe_to_instrument_last_price: the dictionary first, then the stream, which
\* may be None: then the call raises.
Subscribe(ids) ==
    /\ subs' = Subscribed \cup ids
    /\ live' = IF up THEN live \cup ids ELSE live
    /\ missed' = missed \ ids

\* unsubscribe_to_instrument_last_price: a uid that is not in the dictionary raises
\* KeyError, after those before it are gone.
Unsubscribe(ids) ==
    /\ \E gone \in SUBSET (ids \cap Subscribed) :
          /\ ids \subseteq Subscribed => gone = ids
          /\ subs' = IF subs = None THEN None ELSE subs \ gone
          /\ live' = IF gone = ids THEN live \ ids ELSE live
    /\ missed' = missed \cup (ids \cap tracked)

UnsubscribeReturns(ids) == up /\ ids \subseteq Subscribed

\* Mutant: the new stream is not told of the old subscriptions.
CreateStreamBare ==
    /\ started /\ ~up
    /\ up' = TRUE
    /\ live' = {}
    /\ UNCHANGED <<database, started, subs, pstream, heard, opening, dialogs, missed>>

\* _listen_stream: a new stream takes over the subscriptions.
CreateStream ==
    /\ started /\ ~up
    /\ up' = TRUE
    /\ live' = Subscribed
    /\ UNCHANGED <<database, started, subs, pstream, heard, opening, dialogs, missed>>

StreamFails ==
    /\ up
    /\ up' = FALSE
    /\ live' = {}
    /\ UNCHANGED <<database, started, subs, pstream, heard, opening, dialogs, missed>>

-----------------------------------------------------------------------------
(* Service: the open job, the close job, the expiry job *)

OpenLists ==
    /\ ~started /\ opening = Idle
    /\ opening' = [pc |-> "start", accounts |-> accounts]
    /\ UNCHANGED <<database, stream, subs, pstream, heard, dialogs, missed>>

OpenStarts ==
    /\ opening.pc = "start"
    /\ started' = TRUE /\ up' = FALSE /\ live' = {}
    /\ pstream' = opening.accounts /\ heard' = heard \cup opening.accounts
    /\ opening' = [pc |-> "read"]
    /\ UNCHANGED <<database, subs, dialogs, missed>>

OpenReads ==
    /\ opening.pc = "read"
    /\ opening' = [pc |-> "refresh", snap |-> tracked]
    /\ UNCHANGED <<database, stream, subs, pstream, heard, dialogs, missed>>

\* Mutant: the instruments are subscribed only when the dictionary is empty.
OpenSubscribesOnce ==
    /\ opening.pc = "refresh"
    /\ IF Subscribed = {} THEN Subscribe(opening.snap)
       ELSE missed' = missed \ opening.snap /\ UNCHANGED <<live, subs>>
    /\ opening' = Idle
    /\ UNCHANGED <<database, started, up, pstream, heard, dialogs>>

\* After the refresh: what was checked when it began and is not subscribed yet.
OpenSubscribes ==
    /\ opening.pc = "refresh"
    /\ LET ids == opening.snap \ Subscribed IN
       IF ids # {} THEN Subscribe(ids) /\ UNCHANGED up
       ELSE missed' = missed \ opening.snap /\ UNCHANGED <<up, live, subs>>
    /\ opening' = Idle
    /\ UNCHANGED <<database, started, pstream, heard, dialogs>>

\* A read, the client, a name lookup or the commit raises: the job ends there, and
\* a client that is started stays started.
OpenRaises ==
    /\ opening # Idle
    /\ opening' = Idle
    /\ missed' = missed \cup tracked
    /\ UNCHANGED <<database, stream, subs, pstream, heard, dialogs>>

\* Mutant: stop keeps the stream it has stopped.
CloseKeepsStream ==
    /\ started /\ opening = Idle
    /\ started' = FALSE
    /\ pstream' = {}
    /\ UNCHANGED <<database, up, live, subs, heard, opening, dialogs, missed>>

\* The dictionary survives the night.
Close ==
    /\ started /\ opening = Idle
    /\ started' = FALSE /\ up' = FALSE /\ live' = {}
    /\ pstream' = {}
    /\ UNCHANGED <<database, subs, heard, opening, dialogs, missed>>

\* _job_check_expiration_date deletes rows and links, nothing else.
Expire(ids) ==
    /\ ids \cap (tracked \cup Held) # {}
    /\ tracked' = tracked \ ids
    /\ links' = [a \in Accounts |-> links[a] \ ids]
    /\ UNCHANGED <<accounts, stream, subs, pstream, heard, opening, dialogs, missed>>

Crash ==
    /\ started' = FALSE /\ up' = FALSE /\ live' = {}
    /\ subs' = None
    /\ pstream' = {} /\ heard' = {}
    /\ opening' = Idle
    /\ fav' = None /\ unc' = Idle /\ acct' = Idle
    /\ missed' = {}
    /\ UNCHANGED database

-----------------------------------------------------------------------------
(* PortfolioHandler: the rows it computes (need) are checked, nothing is   *)
(* subscribed.  Its transaction is one step here (Signals has its steps),  *)
(* of an update that some stream of this process brought: one that waited  *)
(* on the bus outlasts the stream.  What it writes was read before it      *)
(* awaited candles and the links may have changed since, so p, the links   *)
(* it leaves, and need, the rows that were stale, are any: only the        *)
(* foreign key of a new link is left.                                      *)

Sync(a, p, need) ==
    /\ a \in heard
    /\ p \subseteq links[a] \/ a \in accounts
    /\ tracked' = tracked \cup need
    /\ links' = [links EXCEPT ![a] = p]
    /\ missed' = missed \cup (need \ Subscribed)
    /\ UNCHANGED <<accounts, stream, subs, pstream, heard, opening, dialogs>>

-----------------------------------------------------------------------------
(* The favourites dialogs *)

FavCommit(ids) ==
    /\ fav = None
    /\ tracked' = tracked \cup ids
    /\ fav' = ids
    /\ UNCHANGED <<accounts, links, stream, subs, pstream, heard, opening, unc, acct, missed>>

FavSubscribes ==
    /\ fav # None
    /\ IF started THEN Subscribe(fav) ELSE UNCHANGED <<live, subs, missed>>
    /\ fav' = None
    /\ UNCHANGED <<database, started, up, pstream, heard, opening, unc, acct>>

\* The message comes before the subscription.
FavMessageFails ==
    /\ fav # None
    /\ fav' = None
    /\ missed' = missed \cup fav
    /\ UNCHANGED <<database, stream, subs, pstream, heard, opening, unc, acct>>

\* The menu lists what no account holds.
UncheckLists ==
    /\ unc = Idle
    /\ tracked \ Held # {}
    /\ unc' = [pc |-> "listed", ids |-> tracked \ Held]
    /\ UNCHANGED <<database, stream, subs, pstream, heard, opening, fav, acct, missed>>

UncheckCommits(ids) ==
    /\ unc.pc = "listed" /\ ids \subseteq unc.ids
    /\ tracked' = tracked \ ids
    /\ unc' = [pc |-> "unsubscribe", ids |-> ids]
    /\ UNCHANGED <<accounts, links, stream, subs, pstream, heard, opening, fav, acct, missed>>

\* The exception is reported and the handler goes on.
UncheckCommitFails(ids) ==
    /\ unc.pc = "listed" /\ ids \subseteq unc.ids
    /\ unc' = [pc |-> "unsubscribe", ids |-> ids]
    /\ UNCHANGED <<database, stream, subs, pstream, heard, opening, fav, acct, missed>>

UncheckUnsubscribes ==
    /\ unc.pc = "unsubscribe"
    /\ IF started THEN Unsubscribe(unc.ids) ELSE UNCHANGED <<live, subs, missed>>
    /\ unc' = Idle
    /\ UNCHANGED <<database, started, up, pstream, heard, opening, fav, acct>>

-----------------------------------------------------------------------------
(* The account dialogs: one of them at a time *)

AddCommit(a, p) ==
    /\ acct = Idle
    /\ tracked' = tracked \cup p
    /\ accounts' = accounts \cup {a}
    /\ links' = [links EXCEPT ![a] = @ \cup p]
    /\ acct' = [pc |-> "subscribe", ids |-> p]
    /\ UNCHANGED <<stream, subs, pstream, heard, opening, fav, unc, missed>>

\* A subscription that raises ends the handler.
AddSubscribes ==
    /\ acct.pc = "subscribe"
    /\ IF started
       THEN /\ Subscribe(acct.ids)
            /\ acct' = IF up THEN [pc |-> "list"] ELSE Idle
       ELSE /\ acct' = [pc |-> "list"]
            /\ UNCHANGED <<live, subs, missed>>
    /\ UNCHANGED <<database, started, up, pstream, heard, opening, fav, unc>>

\* delete_account cascades to the links; p is what the broker reports of the account.
RemoveCommit(a, p) ==
    /\ acct = Idle
    /\ a \in accounts
    /\ accounts' = accounts \ {a}
    /\ links' = [links EXCEPT ![a] = {}]
    /\ acct' = [pc |-> "unsubscribe", ids |-> p]
    /\ UNCHANGED <<tracked, stream, subs, pstream, heard, opening, fav, unc, missed>>

RemoveUnsubscribes ==
    /\ acct.pc = "unsubscribe"
    /\ IF started
       THEN /\ Unsubscribe(acct.ids)
            /\ acct' = IF UnsubscribeReturns(acct.ids) THEN [pc |-> "list"] ELSE Idle
       ELSE /\ acct' = [pc |-> "list"]
            /\ UNCHANGED <<live, subs, missed>>
    /\ UNCHANGED <<database, started, up, pstream, heard, opening, fav, unc>>

AccountsListed ==
    /\ acct.pc = "list"
    /\ acct' = [pc |-> "recreate", accounts |-> accounts]
    /\ UNCHANGED <<database, stream, subs, pstream, heard, opening, fav, unc, missed>>

\* recreate_portfolio_stream, if there is one to recreate
Recreate ==
    /\ acct.pc = "recreate"
    /\ pstream' = IF pstream # {} THEN acct.accounts ELSE {}
    /\ heard' = heard \cup pstream'
    /\ acct' = Idle
    /\ UNCHANGED <<database, stream, subs, opening, fav, unc, missed>>

-----------------------------------------------------------------------------

Init ==
    /\ tracked = {} /\ accounts = {}
    /\ links = [a \in Accounts |-> {}]
    /\ started = FALSE /\ up = FALSE /\ live = {}
    /\ subs = None
    /\ pstream = {} /\ heard = {}
    /\ opening = Idle
    /\ fav = None /\ unc = Idle /\ acct = Idle
    /\ missed = {}

ServiceStep ==
    \/ OpenLists \/ OpenStarts \/ OpenReads \/ OpenSubscribes \/ OpenRaises
    \/ Close \/ Crash
    \/ \E ids \in SUBSET Expiring : Expire(ids)

HandlerStep == \E a \in Accounts, p, need \in SUBSET Instruments : Sync(a, p, need)

FavouritesStep ==
    \/ \E ids \in SUBSET Instruments \ {{}} :
          FavCommit(ids) \/ UncheckCommits(ids) \/ UncheckCommitFails(ids)
    \/ FavSubscribes \/ FavMessageFails
    \/ UncheckLists \/ UncheckUnsubscribes

AccountStep ==
    \/ \E a \in Accounts, p \in SUBSET Instruments \ {{}} : AddCommit(a, p)
    \/ \E a \in Accounts, p \in SUBSET Instruments : RemoveCommit(a, p)
    \/ AddSubscribes \/ RemoveUnsubscribes \/ AccountsListed \/ Recreate

Next ==
    \/ CreateStream \/ StreamFails
    \/ ServiceStep \/ HandlerStep \/ FavouritesStep \/ AccountStep

Spec == Init /\ [][Next]_vars

-----------------------------------------------------------------------------
(* Properties *)

\* The dictionary never runs ahead of the stream: an entry whose subscribe call
\* failed, or that an unsubscribe dropped half-way, is not silently dead while the
\* stream is up.
EntriesAreLive == up => Subscribed \subseteq live

\* A tracked instrument is subscribed during the session, whatever the order of the
\* refresh, the dialogs and their commits, except for those a named path left out: a
\* failed open job or message, a portfolio update, an unsubscription that hit it.
TrackedOrMissed ==
    started /\ opening = Idle =>
        tracked \subseteq Subscribed \cup missed
                          \cup (IF fav = None THEN {} ELSE fav)
                          \cup (IF acct.pc = "subscribe" THEN acct.ids ELSE {})

=============================================================================
