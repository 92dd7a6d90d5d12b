------------------------------- MODULE Ledger -------------------------------
(***************************************************************************)
(* The tables as a list of transactions.  Signals has the reads, awaits    *)
(* and locks of each task, Subscriptions the streams beside the tables:    *)
(* both implement this, so they mean the same database.                    *)
(***************************************************************************)
CONSTANTS
    Instruments,    \* instrument uids
    Accounts        \* broker account ids

VARIABLES
    tracked,    \* instruments with check = TRUE
    accounts,   \* stored accounts
    links       \* account_instruments: the instruments of each account

vars == <<tracked, accounts, links>>

\* Favourites are added: upsert, or check = TRUE where the row is up to date.
Track(ids) ==
    /\ tracked' = tracked \cup ids
    /\ UNCHANGED <<accounts, links>>

Untrack(ids) ==
    /\ tracked' = tracked \ ids
    /\ UNCHANGED <<accounts, links>>

\* Deleted instruments take the links of every account with them.
Expire(ids) ==
    /\ tracked' = tracked \ ids
    /\ links' = [a \in Accounts |-> links[a] \ ids]
    /\ UNCHANGED accounts

\* The account, its rows and its links are one commit.
AddAccount(a, p) ==
    /\ tracked' = tracked \cup p
    /\ accounts' = accounts \cup {a}
    /\ links' = [links EXCEPT ![a] = @ \cup p]

RemoveAccount(a) ==
    /\ a \in accounts
    /\ accounts' = accounts \ {a}
    /\ links' = [links EXCEPT ![a] = {}]
    /\ UNCHANGED tracked

\* A portfolio update leaves the links p and checks the rows need: an account that
\* is not stored can only lose links.
Record(a, p, need) ==
    /\ p \subseteq links[a] \/ a \in accounts
    /\ tracked' = tracked \cup need
    /\ links' = [links EXCEPT ![a] = p]
    /\ UNCHANGED accounts

Init ==
    /\ tracked = {}
    /\ accounts \in SUBSET Accounts
    /\ links = [a \in Accounts |-> {}]

Next ==
    \/ \E ids \in SUBSET Instruments : Track(ids) \/ Untrack(ids) \/ Expire(ids)
    \/ \E a \in Accounts, p \in SUBSET Instruments : AddAccount(a, p)
    \/ \E a \in Accounts : RemoveAccount(a)
    \/ \E a \in Accounts, p, need \in SUBSET Instruments : Record(a, p, need)

Spec == Init /\ [][Next]_vars

=============================================================================
