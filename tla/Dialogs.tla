------------------------------ MODULE Dialogs ------------------------------
(***************************************************************************)
(* bots/tg_bot/handlers: the dialogs of one chat. aiogram runs every       *)
(* update in a task of its own, chooses the handler by the state it finds  *)
(* on arrival, and isolates nothing: state and data are one shared record  *)
(* (MemoryStorage, which does not suspend), and between two awaits of a    *)
(* handler any other may run. Menus stay in the chat and can be pressed    *)
(* for ever; a button says nothing of the menu it is on.                   *)
(*                                                                         *)
(* The data is the set of keys that are stored; "favs" and "rows" are the  *)
(* two kinds of list the one key "instruments" holds.                      *)
(***************************************************************************)
EXTENDS Naturals, FiniteSets

CONSTANTS
    Tasks,      \* bound: handlers that run at the same time
    MaxDialogs, \* bound: commands the user sends
    None

ASSUME DialogsAssumption ==
    /\ MaxDialogs \in Nat
    /\ None \notin {"AddAccount", "RemoveAccount", "SetFavorites", "RemoveFavorites",
                    "Info", "Direction"}
    /\ None \notin [kind : STRING, d : Nat]

Accounts == {"AddAccount", "RemoveAccount"}
Favorites == {"SetFavorites", "RemoveFavorites"}
Kinds == Accounts \cup Favorites \cup {"Info", "Direction"}

\* The data a state relies on.
Needs == [AddAccount      |-> {"acc_map"},
          RemoveAccount   |-> {},
          SetFavorites    |-> {"favs", "set_favorite"},
          RemoveFavorites |-> {"rows", "unset"},
          Info            |-> {"rows"},
          Direction       |-> {"instrument"}]
Keys == UNION {Needs[k] : k \in Kinds}

\* The buttons of a menu: "account" is on two of them, "cancel" on all.
Buttons == [AddAccount      |-> {"account", "cancel"},
            RemoveAccount   |-> {"account", "cancel"},
            SetFavorites    |-> {"set", "add", "cancel"},
            RemoveFavorites |-> {"unset", "remove", "cancel"},
            Info            |-> {"info", "cancel"},
            Direction       |-> {"side", "cancel"}]

VARIABLES
    st,         \* the state of the chat, or None
    data,       \* the keys stored with it
    task,       \* task[t]: where the handler is, and what it was called for
    shown,      \* kinds of menus in the chat
    current,    \* history: the menu the user got last and has not used up
    d,          \* history: commands so far, each a dialog
    calm,       \* history: no other handler ran when the last command began, and no
                \* failure since has set menu and state apart
    hasty,      \* history: the user has sent a command before the menu of the last
                \* arrived, or used a menu that was not the current one
    late,       \* history: a command has begun while the handler of an account command,
                \* its menu in the chat, had its state still to set
    did         \* history: the last thing done: the menu it was asked on, and what

chat == <<st, data>>
user == <<shown, current, d, hasty, late>>
vars == <<chat, task, user, calm, did>>

Idle == [pc |-> "idle", k |-> "start", m |-> "start", d |-> 0]

Stages == {"idle", "fetching", "answering", "answered",
           "asking", "working", "ending", "cancelling", "replacing", "noting"}

\* What the user waits for: the menu is not in the chat. And what he does not see: the
\* call that sent it has not returned, and the state is set after it.
Unanswered(t) == task[t].pc \in {"fetching", "answering"}
Unset(t) == task[t].pc = "answered" /\ task[t].k \in Accounts

DialogTypeOK ==
    /\ st \in Kinds \cup {None}
    /\ data \subseteq Keys
    /\ task \in [Tasks -> [pc : Stages, k : Kinds \cup {"start"}, m : Kinds \cup {"start"},
                           d : 0 .. MaxDialogs]]
    /\ shown \subseteq Kinds
    /\ current \in [kind : Kinds, d : 0 .. MaxDialogs] \cup {None}
    /\ d \in 0 .. MaxDialogs
    /\ calm \in BOOLEAN /\ hasty \in BOOLEAN /\ late \in BOOLEAN
    /\ did \in (Kinds \X Kinds) \cup {None}
    /\ "favs" \notin data \/ "rows" \notin data

Goes(t, pc) == task' = [task EXCEPT ![t].pc = pc]
Leaves(t) == task' = [task EXCEPT ![t] = Idle]

Clear == st' = None /\ data' = {}

\* Mutant: the lists of two dialogs side by side.
StoreBeside(keys) == data' = keys \cup data

\* update_data: "instruments" is one key.
Store(keys) ==
    data' = keys \cup IF keys \cap {"favs", "rows"} = {} THEN data ELSE data \ {"favs", "rows"}

\* The dialog of the current menu is over for the user.
UsedUp(t) ==
    current' = IF current # None /\ current.d = task[t].d THEN None ELSE current

-----------------------------------------------------------------------------
(* Commands *)

\* Mutant: the command does not clear what was there.
CommandBeginsOnTop(t, k) ==
    /\ task[t] = Idle /\ d < MaxDialogs
    /\ d' = d + 1
    /\ task' = [task EXCEPT ![t] = [pc |-> "fetching", k |-> k, m |-> k, d |-> d']]
    /\ current' = None
    /\ calm' = (\A u \in Tasks : task[u] = Idle)
    /\ hasty' = (hasty \/ \E u \in Tasks : Unanswered(u))
    /\ late' = (late \/ \E u \in Tasks : Unset(u))
    /\ UNCHANGED <<chat, shown, did>>

\* The commands that open a dialog, and /start, clear first; the former then await the
\* broker or the database. (/help and the listings of info.py touch neither state nor
\* data, and are left out.)
CommandBegins(t, k) ==
    /\ task[t] = Idle /\ d < MaxDialogs
    /\ d' = d + 1
    /\ task' = [task EXCEPT ![t] = [pc |-> "fetching", k |-> k, m |-> k, d |-> d']]
    /\ Clear
    /\ current' = None
    /\ calm' = (\A u \in Tasks : task[u] = Idle)
    /\ hasty' = (hasty \/ \E u \in Tasks : Unanswered(u))
    /\ late' = (late \/ \E u \in Tasks : Unset(u))
    /\ UNCHANGED <<shown, did>>

\* The data is stored; only the account commands await the menu before the state.
CommandFetched(t) ==
    /\ task[t].pc = "fetching" /\ task[t].k # "start"
    /\ Store(Needs[task[t].k])
    /\ st' = IF task[t].k \in Accounts THEN st ELSE task[t].k
    /\ Goes(t, "answering")
    /\ UNCHANGED <<user, calm, did>>

\* There is nothing to uncheck.
NothingToUncheck(t) ==
    /\ task[t].pc = "fetching" /\ task[t].k = "RemoveFavorites"
    /\ Clear
    /\ Goes(t, "noting")
    /\ UNCHANGED <<user, calm, did>>

\* The menu is in the chat; the call that sent it has not returned yet.
MenuArrives(t) ==
    /\ task[t].pc = "answering"
    /\ shown' = shown \cup {task[t].k}
    /\ current' = [kind |-> task[t].k, d |-> task[t].d]
    /\ Goes(t, "answered")
    /\ UNCHANGED <<chat, d, hasty, late, calm, did>>

\* Mutant: every command sets its state after its menu.
CommandEndsSetting(t) ==
    /\ task[t].pc = "answered"
    /\ st' = task[t].k
    /\ Leaves(t)
    /\ UNCHANGED <<data, user, calm, did>>

CommandEnds(t) ==
    /\ task[t].pc = "answered"
    /\ st' = IF task[t].k \in Accounts THEN task[t].k ELSE st
    /\ Leaves(t)
    /\ UNCHANGED <<data, user, calm, did>>

-----------------------------------------------------------------------------
(* Buttons *)

\* The account handlers take whatever comes, and the routers are asked in order.
Accepts(b) == st # None /\ (st \in Accounts \/ b \in Buttons[st])

\* A press on a menu of kind m reaches the handler of the state, if that takes it.
Called(t, m, b, pc) ==
    /\ task[t] = Idle
    /\ m \in shown /\ b \in Buttons[m] /\ Accepts(b)
    /\ task' = [task EXCEPT ![t] =
                  [pc |-> pc, k |-> st, m |-> m, d |-> IF current = None THEN 0 ELSE current.d]]
    /\ hasty' = (hasty \/ current = None \/ current.kind # m)
    /\ UNCHANGED <<shown, d, late, calm, did>>

\* The favourites dialogs clear at once, the others after an await.
Cancel(t, m) ==
    IF st \in Favorites
    THEN /\ Called(t, m, "cancel", "noting")
         /\ Clear
         /\ current' = None
    ELSE /\ Called(t, m, "cancel", "cancelling")
         /\ UNCHANGED <<chat, current>>

\* A tick: what is picked changes in place, and the keyboard is drawn again. A button of
\* another dialog that an account handler takes fails at the broker.
Tick(t, m, b) ==
    /\ \/ st \in Favorites /\ b \in {"set", "unset"} /\ Needs[st] \subseteq data
       \/ st \in Accounts /\ b \notin {"account", "cancel"}
    /\ Called(t, m, b, "noting")
    /\ UNCHANGED <<chat, current>>

\* What was asked for begins; nothing picked to uncheck leaves the dialog open, nothing
\* picked to add ends it.
Confirm(t, m, b) ==
    /\ \/ st = "AddAccount" /\ b = "account" /\ Called(t, m, b, "asking")
       \/ st = "RemoveAccount" /\ b = "account" /\ Called(t, m, b, "working")
       \/ st = "SetFavorites" /\ b = "add" /\ Needs[st] \subseteq data
          /\ \E pc \in {"working", "cancelling"} : Called(t, m, b, pc)
       \/ st = "RemoveFavorites" /\ b = "remove" /\ Needs[st] \subseteq data
          /\ \E pc \in {"working", "noting"} : Called(t, m, b, pc)
       \/ st = "Direction" /\ b = "side" /\ Needs[st] \subseteq data
          /\ Called(t, m, b, "working")
       \/ st = "Info" /\ b = "info" /\ Needs[st] \subseteq data
          /\ Called(t, m, b, "cancelling")          \* not in the list: an older menu
    /\ UNCHANGED <<chat, current>>

\* The instrument is chosen; its message turns into the menu of directions.
Choose(t, m) ==
    /\ st = "Info" /\ Needs[st] \subseteq data
    /\ Called(t, m, "info", "replacing")
    /\ Store({"instrument"})
    /\ st' = "Direction"
    /\ UNCHANGED current

MenuReplaced(t) ==
    /\ task[t].pc = "replacing"
    /\ shown' = shown \cup {"Direction"}
    /\ current' = IF current # None /\ current.d = task[t].d
                  THEN [current EXCEPT !.kind = "Direction"] ELSE current
    /\ Leaves(t)
    /\ UNCHANGED <<chat, d, hasty, late, calm, did>>

\* add_account_id looks for the name only after the portfolio was awaited.
AccountRead(t) ==
    /\ task[t].pc = "asking"
    /\ IF "acc_map" \in data
       THEN \E pc \in {"working", "cancelling"} : Goes(t, pc)
       ELSE Leaves(t)
    /\ UNCHANGED <<chat, user, calm, did>>

\* The commit, or the card. A failed commit of an uncheck is told and passed over.
Works(t) ==
    /\ task[t].pc = "working"
    /\ Goes(t, "ending")
    /\ \/ did' = <<task[t].m, task[t].k>>
       \/ task[t].k = "RemoveFavorites" /\ UNCHANGED did
    /\ UNCHANGED <<chat, user, calm>>

\* The last thing a handler does is to clear the state, whosever it is by now.
Ends(t) ==
    /\ task[t].pc \in {"ending", "cancelling"}
    /\ Clear
    /\ UsedUp(t)
    /\ Leaves(t)
    /\ UNCHANGED <<shown, d, hasty, late, calm, did>>

-----------------------------------------------------------------------------
(* Failures *)

\* Mutant: a handler that raises clears the state.
RaisesCleared(t) ==
    /\ task[t] # Idle
    /\ Clear
    /\ Leaves(t)
    /\ calm' = (calm /\ task[t].pc # "replacing"
                     /\ ~(task[t].pc = "answered" /\ task[t].k \in Accounts))
    /\ UNCHANGED <<user, did>>

\* Any await may raise, or return and leave nothing more to do. A menu that arrived and
\* whose call timed out has no state; one that was not replaced has the next one's.
Raises(t) ==
    /\ task[t] # Idle
    /\ Leaves(t)
    /\ calm' = (calm /\ task[t].pc # "replacing"
                     /\ ~(task[t].pc = "answered" /\ task[t].k \in Accounts))
    /\ UNCHANGED <<chat, user, did>>

\* The process is restarted: storage and handlers are gone, the menus are not.
Crash ==
    /\ Clear
    /\ task' = [t \in Tasks |-> Idle]
    /\ current' = None /\ calm' = FALSE
    /\ UNCHANGED <<shown, d, hasty, late, did>>

-----------------------------------------------------------------------------

Init ==
    /\ st = None /\ data = {}
    /\ task = [t \in Tasks |-> Idle]
    /\ shown = {} /\ current = None /\ d = 0
    /\ calm = TRUE /\ hasty = FALSE /\ late = FALSE /\ did = None

Press(t) ==
    \E m \in Kinds : \/ Cancel(t, m)
                     \/ \E b \in Buttons[m] : Tick(t, m, b) \/ Confirm(t, m, b)
                     \/ Choose(t, m)

Handler(t) ==
    \/ \E k \in (Kinds \ {"Direction"}) \cup {"start"} : CommandBegins(t, k)
    \/ CommandFetched(t) \/ NothingToUncheck(t) \/ MenuArrives(t) \/ CommandEnds(t)
    \/ Press(t) \/ MenuReplaced(t) \/ AccountRead(t) \/ Works(t) \/ Ends(t) \/ Raises(t)

Next == (\E t \in Tasks : Handler(t)) \/ Crash

Spec == Init /\ [][Next]_vars

-----------------------------------------------------------------------------
(* Properties *)

\* Whatever handlers overlap, a state has the data its handlers read: none of them fails
\* on a key. The account menu, whose state is set an await after its data, has it only
\* if no other handler ran meanwhile.
StateFitsData ==
    st # None /\ (st = "AddAccount" => calm) => Needs[st] \subseteq data

(***************************************************************************)
(* What is done is what the menu it was asked on says (router.py:51 adds   *)
(* an account, :223 removes one), but for one mix-up: on a menu to add an  *)
(* account one can be deleted, and the other way round.  It happens to a   *)
(* hasty user, and to one who awaits each menu if the state of an older    *)
(* account command is set after the next has begun: the removing menu      *)
(* arrives, the user sends the adding command, the first handler's call    *)
(* returns and line 229 sets RemoveAccount, before or after line 60 has    *)
(* set AddAccount.  No other two menus mix, whatever the user does.        *)
(***************************************************************************)
MenuMeansUnlessLate ==
    did # None /\ did[1] # did[2] => /\ did[1] \in Accounts /\ did[2] \in Accounts
                                     /\ hasty \/ late

\* The menu a user got last who awaits each menu and uses the last, in a dialog that began when no handler ran, can be used
\* until it is used up: also after a failure, when it is tried again.
MenuIsUsable ==
    current # None /\ calm /\ ~hasty /\ (\A t \in Tasks : task[t] = Idle) => st = current.kind

=============================================================================
