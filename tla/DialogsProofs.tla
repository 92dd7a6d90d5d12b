--------------------------- MODULE DialogsProofs ---------------------------
(***************************************************************************)
(* For any number of overlapping handlers and of commands: the state of    *)
(* the chat has the data its handlers read (StateFitsData), and a user who *)
(* awaits each menu can use it (MenuIsUsable); what is done is what the    *)
(* menu says, but that two of them may mix (MenuMeansUnlessLate).          *)
(***************************************************************************)
EXTENDS Dialogs, TLAPS

\* What the proofs use of the table of states and data.
LEMMA NeedsFacts ==
    /\ \A k \in Kinds : Needs[k] \subseteq Keys
    /\ \A k \in Kinds : "favs" \notin Needs[k] \/ "rows" \notin Needs[k]
    /\ \A k \in Accounts : Needs[k] \cap {"favs", "rows"} = {}
    /\ Needs["AddAccount"] = {"acc_map"} /\ Needs["RemoveAccount"] = {}
    /\ Needs["Direction"] = {"instrument"}
    /\ {"instrument"} \subseteq Keys
<1>1. Needs["AddAccount"] = {"acc_map"} /\ Needs["RemoveAccount"] = {}
  BY DEF Needs
<1>2. Needs["Direction"] = {"instrument"}
  BY DEF Needs
<1>3. \A k \in Kinds : Needs[k] \subseteq Keys
  BY DEF Keys
<1>4. \A k \in Kinds : "favs" \notin Needs[k] \/ "rows" \notin Needs[k]
  BY DEF Needs, Kinds, Accounts, Favorites
<1>5. \A k \in Accounts : Needs[k] \cap {"favs", "rows"} = {}
  BY <1>1 DEF Accounts
<1>6. {"instrument"} \subseteq Keys
  BY <1>2, <1>3 DEF Kinds
<1>7. QED
  BY <1>1, <1>2, <1>3, <1>4, <1>5, <1>6

\* Storing keeps the keys that are no list, and everything if no list is stored.
LEMMA StoreFacts ==
    ASSUME NEW keys \in SUBSET Keys, "favs" \notin keys \/ "rows" \notin keys,
           data \subseteq Keys, "favs" \notin data \/ "rows" \notin data,
           Store(keys)
    PROVE  /\ data' \subseteq Keys
           /\ "favs" \notin data' \/ "rows" \notin data'
           /\ keys \subseteq data'
           /\ "acc_map" \in data => "acc_map" \in data'
           /\ keys \cap {"favs", "rows"} = {} => data \subseteq data'
<1>1. CASE keys \cap {"favs", "rows"} = {}
  <2>1. data' = keys \cup data
    BY <1>1 DEF Store
  <2>2. QED
    BY <1>1, <2>1
<1>2. CASE keys \cap {"favs", "rows"} # {}
  <2>1. data' = keys \cup (data \ {"favs", "rows"})
    BY <1>2 DEF Store
  <2>2. QED
    BY <1>2, <2>1
<1>3. QED
  BY <1>1, <1>2

-----------------------------------------------------------------------------
(* Types *)

Record == [pc : Stages, k : Kinds \cup {"start"}, m : Kinds \cup {"start"}, d : 0 .. MaxDialogs]

\* The idle record is a record of the type.
LEMMA IdleType == Idle \in Record /\ Idle.pc = "idle"
  BY DialogsAssumption DEF Idle, Record, Stages

\* A press writes a record of the type, for the state it found.
LEMMA CalledFacts ==
    ASSUME DialogTypeOK, NEW t \in Tasks, NEW m \in Kinds, NEW b, NEW pc \in Stages,
           Called(t, m, b, pc)
    PROVE  /\ st \in Kinds /\ task[t] = Idle
           /\ task' \in [Tasks -> Record]
           /\ \A u \in Tasks : u # t => task'[u] = task[u]
           /\ task'[t].pc = pc /\ task'[t].k = st /\ task'[t].m = m
           /\ ~hasty' => ~hasty /\ current # None /\ current.kind = m
           /\ current # None => task'[t].d = current.d
           /\ hasty' \in BOOLEAN
           /\ b \in Buttons[m] /\ (st \in Accounts \/ b \in Buttons[st])
           /\ UNCHANGED <<shown, d, late, calm, did>>
<1> DEFINE D == IF current = None THEN 0 ELSE current.d
           R == [pc |-> pc, k |-> st, m |-> m, d |-> D]
<1>1. st \in Kinds /\ task[t] = Idle /\ b \in Buttons[m] /\ (st \in Accounts \/ b \in Buttons[st])
  BY DEF Called, Accepts, DialogTypeOK
<1>2. D \in 0 .. MaxDialogs
  BY DialogsAssumption DEF DialogTypeOK
<1>3. R \in Record
  BY <1>1, <1>2 DEF Record
<1>4. task \in [Tasks -> Record] /\ task' = [task EXCEPT ![t] = R]
  BY DEF DialogTypeOK, Record, Called
<1>5. task' \in [Tasks -> Record]
  BY <1>3, <1>4
<1>6. (\A u \in Tasks : u # t => task'[u] = task[u]) /\ task'[t] = R
  BY <1>4
<1>7. /\ hasty' = (hasty \/ current = None \/ current.kind # m)
      /\ UNCHANGED <<shown, d, late, calm, did>>
  BY DEF Called
<1>8. hasty' \in BOOLEAN
  BY <1>7, Zenon
<1>9. ~hasty' => ~hasty /\ current # None /\ current.kind = m
  BY <1>7, Zenon
<1>10. task'[t].pc = pc /\ task'[t].k = st /\ task'[t].m = m /\ task'[t].d = D
  BY <1>6
<1>11. QED
  BY <1>1, <1>5, <1>6, <1>7, <1>8, <1>9, <1>10

\* A handler goes on to its next await.
LEMMA GoesFacts ==
    ASSUME DialogTypeOK, NEW t \in Tasks, NEW pc \in Stages, Goes(t, pc)
    PROVE  /\ task' \in [Tasks -> Record]
           /\ \A u \in Tasks : u # t => task'[u] = task[u]
           /\ task'[t].pc = pc /\ task'[t].k = task[t].k /\ task'[t].m = task[t].m
           /\ task'[t].d = task[t].d
  BY DEF DialogTypeOK, Record, Goes

\* A handler returns.
LEMMA LeavesFacts ==
    ASSUME DialogTypeOK, NEW t \in Tasks, Leaves(t)
    PROVE  /\ task' \in [Tasks -> Record]
           /\ \A u \in Tasks : u # t => task'[u] = task[u]
           /\ task'[t] = Idle /\ task'[t].pc = "idle"
<1>1. task \in [Tasks -> Record]
  BY DEF DialogTypeOK, Record
<1>2. task' = [task EXCEPT ![t] = Idle]
  BY DEF Leaves
<1>3. QED
  BY <1>1, <1>2, IdleType

\* A command begins: its record, and what is forgotten.
LEMMA BeginsFacts ==
    ASSUME DialogTypeOK, NEW t \in Tasks, NEW k \in (Kinds \ {"Direction"}) \cup {"start"},
           CommandBegins(t, k)
    PROVE  /\ task' \in [Tasks -> Record]
           /\ \A u \in Tasks : u # t => task'[u] = task[u]
           /\ task'[t].pc = "fetching" /\ task'[t].k = k /\ task'[t].m = k
           /\ task[t] = Idle
           /\ d' \in 0 .. MaxDialogs
           /\ st' = None /\ data' = {} /\ current' = None
           /\ calm' \in BOOLEAN /\ calm' => \A u \in Tasks : task[u] = Idle
           /\ hasty' \in BOOLEAN
           /\ ~hasty' => ~hasty /\ \A u \in Tasks : ~Unanswered(u)
           /\ late' \in BOOLEAN
           /\ ~late' => ~late /\ \A u \in Tasks : ~Unset(u)
           /\ UNCHANGED <<shown, did>>
<1>1. d' \in 0 .. MaxDialogs
  BY DialogsAssumption DEF CommandBegins, DialogTypeOK
<1> DEFINE R == [pc |-> "fetching", k |-> k, m |-> k, d |-> d']
<1>2. R \in Record
  BY <1>1 DEF Record, Stages
<1>3. task \in [Tasks -> Record] /\ task' = [task EXCEPT ![t] = R]
  BY DEF DialogTypeOK, Record, CommandBegins
<1>4. /\ task' \in [Tasks -> Record]
      /\ \A u \in Tasks : u # t => task'[u] = task[u]
      /\ task'[t] = R
  BY <1>2, <1>3
<1>5. task'[t].pc = "fetching" /\ task'[t].k = k /\ task'[t].m = k
  BY <1>4
<1>6. calm' = (\A u \in Tasks : task[u] = Idle)
  BY DEF CommandBegins
<1>7. /\ hasty' = (hasty \/ \E u \in Tasks : Unanswered(u))
      /\ late' = (late \/ \E u \in Tasks : Unset(u))
  BY DEF CommandBegins
<1>8. calm' \in BOOLEAN /\ (calm' => \A u \in Tasks : task[u] = Idle)
  BY <1>6, Zenon
<1>9. /\ hasty' \in BOOLEAN /\ (~hasty' => ~hasty /\ \A u \in Tasks : ~Unanswered(u))
      /\ late' \in BOOLEAN /\ (~late' => ~late /\ \A u \in Tasks : ~Unset(u))
  BY <1>7, Zenon
<1>10. st' = None /\ data' = {} /\ current' = None /\ task[t] = Idle /\ UNCHANGED <<shown, did>>
  BY DEF CommandBegins, Clear
<1>11. QED
  BY <1>1, <1>4, <1>5, <1>8, <1>9, <1>10

\* A confirmed button: what it was asked for, and by which state.
LEMMA ConfirmFacts ==
    ASSUME DialogTypeOK, NEW t \in Tasks, NEW m \in Kinds, NEW b \in Buttons[m], Confirm(t, m, b)
    PROVE  /\ \E pc \in {"asking", "working", "cancelling", "noting"} : Called(t, m, b, pc)
           /\ st \in Accounts \/ task'[t].pc \notin {"asking", "working"} \/ m = st
           /\ st \in Accounts => m \in Accounts
           /\ UNCHANGED <<chat, current>>
<1>1. /\ \E pc \in {"asking", "working", "cancelling", "noting"} : Called(t, m, b, pc)
      /\ UNCHANGED <<chat, current>>
  BY DEF Confirm
<1>2. st \in Accounts => b = "account"
  BY DEF Confirm, Accounts
<1>3. b = "account" => m \in Accounts
  BY DEF Buttons, Kinds, Accounts, Favorites
<1>4. ASSUME st \notin Accounts, m # st PROVE task'[t].pc \notin {"asking", "working"}
  <2>1. CASE st = "Info"
    <3>1. Called(t, m, b, "cancelling")
      BY <2>1 DEF Confirm
    <3>2. QED
      BY <3>1, CalledFacts DEF Stages
  <2>2. CASE st # "Info"
    <3>1. \/ st = "SetFavorites" /\ b = "add"
          \/ st = "RemoveFavorites" /\ b = "remove"
          \/ st = "Direction" /\ b = "side"
      BY <1>4, <2>2 DEF Confirm, Accounts
    <3>2. m = st
      BY <3>1 DEF Buttons, Kinds, Accounts, Favorites
    <3>3. QED
      BY <3>2, <1>4
  <2>3. QED
    BY <2>1, <2>2
<1>5. QED
  BY <1>1, <1>2, <1>3, <1>4

\* A handler raises.
LEMMA RaisesFacts ==
    ASSUME DialogTypeOK, NEW t \in Tasks, Raises(t)
    PROVE  /\ task[t] # Idle /\ Leaves(t)
           /\ calm' \in BOOLEAN
           /\ calm' => /\ calm /\ task[t].pc # "replacing"
                       /\ ~(task[t].pc = "answered" /\ task[t].k \in Accounts)
           /\ UNCHANGED <<chat, user, did>>
<1>1. calm' = (calm /\ task[t].pc # "replacing"
                    /\ ~(task[t].pc = "answered" /\ task[t].k \in Accounts))
  BY DEF Raises
<1>2. /\ calm' \in BOOLEAN
      /\ calm' => /\ calm /\ task[t].pc # "replacing"
                  /\ ~(task[t].pc = "answered" /\ task[t].k \in Accounts)
  BY <1>1, Zenon
<1>3. QED
  BY <1>2 DEF Raises

-----------------------------------------------------------------------------
(* Type correctness *)

\* DialogTypeOK with the records named.
Typed ==
    /\ st \in Kinds \cup {None}
    /\ data \subseteq Keys
    /\ task \in [Tasks -> Record]
    /\ shown \subseteq Kinds
    /\ current \in [kind : Kinds, d : 0 .. MaxDialogs] \cup {None}
    /\ d \in 0 .. MaxDialogs
    /\ calm \in BOOLEAN /\ hasty \in BOOLEAN /\ late \in BOOLEAN
    /\ did \in (Kinds \X Kinds) \cup {None}
    /\ "favs" \notin data \/ "rows" \notin data

\* The two say the same.
LEMMA TypedIsType == Typed <=> DialogTypeOK
  BY DEF Typed, DialogTypeOK, Record

\* Only /start and /help go on with no kind of menu, and no further than this.
KindInv ==
    \A t \in Tasks :
        /\ task[t].pc \notin {"idle", "fetching"} => task[t].k \in Kinds /\ task[t].m \in Kinds
        /\ task[t].pc = "fetching" => task[t].m = task[t].k

TypeInv == DialogTypeOK /\ KindInv

\* Commands keep the types.
LEMMA CommandType ==
    ASSUME TypeInv, NEW t \in Tasks,
           \/ \E k \in (Kinds \ {"Direction"}) \cup {"start"} : CommandBegins(t, k)
           \/ CommandFetched(t) \/ NothingToUncheck(t) \/ MenuArrives(t) \/ CommandEnds(t)
    PROVE  Typed' /\ KindInv'
<1> USE DEF TypeInv
<1>1. ASSUME NEW k \in (Kinds \ {"Direction"}) \cup {"start"}, CommandBegins(t, k)
      PROVE  Typed' /\ KindInv'
  <2>1. /\ task' \in [Tasks -> Record]
        /\ \A u \in Tasks : u # t => task'[u] = task[u]
        /\ task'[t].pc = "fetching" /\ task'[t].k = k /\ task'[t].m = k
        /\ d' \in 0 .. MaxDialogs
        /\ st' = None /\ data' = {} /\ current' = None
        /\ UNCHANGED <<shown, did>>
    BY <1>1, BeginsFacts
  <2>2. Typed'
    <3>1. /\ calm' = (\A u \in Tasks : task[u] = Idle)
          /\ hasty' = (hasty \/ \E u \in Tasks : Unanswered(u))
          /\ late' = (late \/ \E u \in Tasks : Unset(u))
      BY <1>1 DEF CommandBegins
    <3>2. calm' \in BOOLEAN /\ hasty' \in BOOLEAN /\ late' \in BOOLEAN
      BY <3>1, Zenon
    <3>3. QED
      BY <2>1, <3>2 DEF Typed, DialogTypeOK
  <2>3. KindInv'
    BY <2>1 DEF KindInv
  <2>4. QED
    BY <2>2, <2>3
<1>2. CASE CommandFetched(t)
  <2>1. task[t].k \in Kinds /\ task[t].m \in Kinds
    <3>1. task[t] \in Record /\ task[t].k # "start" /\ task[t].pc = "fetching"
      BY <1>2 DEF CommandFetched, DialogTypeOK, Record
    <3>2. QED
      BY <3>1 DEF KindInv, Record
  <2>2. Store(Needs[task[t].k]) /\ Goes(t, "answering") /\ UNCHANGED <<user, calm, did>>
    BY <1>2 DEF CommandFetched
  <2>3. data' \subseteq Keys /\ ("favs" \notin data' \/ "rows" \notin data')
    <3>1. Needs[task[t].k] \in SUBSET Keys
      BY <2>1, NeedsFacts
    <3>2. "favs" \notin Needs[task[t].k] \/ "rows" \notin Needs[task[t].k]
      BY <2>1, NeedsFacts
    <3>3. QED
      BY <3>1, <3>2, <2>2, StoreFacts DEF DialogTypeOK
  <2>4. st' \in Kinds \cup {None}
    BY <1>2, <2>1 DEF CommandFetched, DialogTypeOK
  <2>5. task' \in [Tasks -> Record] /\ KindInv'
    BY <2>1, <2>2, GoesFacts DEF Stages, KindInv
  <2>6. QED
    BY <2>2, <2>3, <2>4, <2>5 DEF Typed, DialogTypeOK, user
<1>3. CASE NothingToUncheck(t)
  <2>1. task' \in [Tasks -> Record] /\ KindInv'
    BY <1>3, GoesFacts DEF NothingToUncheck, Stages, KindInv, Kinds, Favorites, DialogTypeOK
  <2>2. QED
    BY <1>3, <2>1 DEF NothingToUncheck, Clear, Typed, DialogTypeOK, user
<1>4. CASE MenuArrives(t)
  <2>1. task[t].k \in Kinds /\ task[t].d \in 0 .. MaxDialogs
    BY <1>4 DEF MenuArrives, KindInv, DialogTypeOK
  <2>2. task' \in [Tasks -> Record] /\ KindInv'
    BY <1>4, GoesFacts DEF MenuArrives, Stages, KindInv
  <2>3. QED
    BY <1>4, <2>1, <2>2 DEF MenuArrives, Typed, DialogTypeOK, chat
<1>5. CASE CommandEnds(t)
  <2>1. task' \in [Tasks -> Record] /\ KindInv'
    BY <1>5, LeavesFacts DEF CommandEnds, KindInv
  <2>2. st' \in Kinds \cup {None}
    BY <1>5 DEF CommandEnds, DialogTypeOK, Kinds
  <2>3. QED
    BY <1>5, <2>1, <2>2 DEF CommandEnds, Typed, DialogTypeOK, user
<1>6. QED
  BY <1>1, <1>2, <1>3, <1>4, <1>5

\* Presses keep the types.
LEMMA PressType ==
    ASSUME TypeInv, NEW t \in Tasks, Press(t)
    PROVE  Typed' /\ KindInv'
<1> USE DEF TypeInv
<1>1. PICK m \in Kinds : \/ Cancel(t, m)
                         \/ \E b \in Buttons[m] : Tick(t, m, b) \/ Confirm(t, m, b)
                         \/ Choose(t, m)
  BY DEF Press
<1>2. ASSUME NEW b, NEW pc \in Stages \ {"fetching"}, Called(t, m, b, pc)
      PROVE  /\ task' \in [Tasks -> Record] /\ KindInv' /\ hasty' \in BOOLEAN
             /\ UNCHANGED <<shown, d, late, calm, did>>
  <2>1. /\ task' \in [Tasks -> Record] /\ UNCHANGED <<shown, d, late, calm, did>>
        /\ st \in Kinds
        /\ \A u \in Tasks : u # t => task'[u] = task[u]
        /\ task'[t].pc = pc /\ task'[t].k = st /\ task'[t].m = m
    BY <1>2, CalledFacts
  <2>2. hasty' \in BOOLEAN
    BY <1>2, CalledFacts, Zenon
  <2>3. QED
    BY <2>1, <2>2 DEF KindInv
<1>3. CASE Cancel(t, m)
  <2>1. PICK pc \in {"noting", "cancelling"} : Called(t, m, "cancel", pc)
    BY <1>3 DEF Cancel
  <2>2. data' \in {data, {}} /\ st' \in {st, None} /\ current' \in {current, None}
    BY <1>3 DEF Cancel, Clear, chat
  <2>3. pc \in Stages \ {"fetching"}
    BY DEF Stages
  <2>4. QED
    BY <2>1, <2>2, <2>3, <1>2 DEF Typed, DialogTypeOK
<1>4. ASSUME NEW b \in Buttons[m], Tick(t, m, b)
      PROVE  Typed' /\ KindInv'
  <2>1. Called(t, m, b, "noting") /\ UNCHANGED <<chat, current>>
    BY <1>4 DEF Tick
  <2>2. QED
    BY <2>1, <1>2 DEF Typed, DialogTypeOK, chat, Stages
<1>5. ASSUME NEW b \in Buttons[m], Confirm(t, m, b)
      PROVE  Typed' /\ KindInv'
  <2>1. PICK pc \in {"asking", "working", "cancelling", "noting"} : Called(t, m, b, pc)
    BY <1>5, ConfirmFacts
  <2>2. UNCHANGED <<chat, current>>
    BY <1>5 DEF Confirm
  <2>3. pc \in Stages \ {"fetching"}
    BY DEF Stages
  <2>4. QED
    BY <2>1, <2>2, <2>3, <1>2 DEF Typed, DialogTypeOK, chat
<1>6. CASE Choose(t, m)
  <2>1. Called(t, m, "info", "replacing") /\ Store({"instrument"}) /\ st' = "Direction"
        /\ UNCHANGED current
    BY <1>6 DEF Choose
  <2>2. data' \subseteq Keys /\ ("favs" \notin data' \/ "rows" \notin data')
    BY <2>1, StoreFacts, NeedsFacts DEF DialogTypeOK
  <2>3. QED
    BY <2>1, <2>2, <1>2 DEF Typed, DialogTypeOK, Stages, Kinds
<1>7. QED
  BY <1>1, <1>3, <1>4, <1>5, <1>6

\* What a handler does, and what ends it, keeps the types.
LEMMA WorkType ==
    ASSUME TypeInv, NEW t \in Tasks,
           MenuReplaced(t) \/ AccountRead(t) \/ Works(t) \/ Ends(t) \/ Raises(t)
    PROVE  Typed' /\ KindInv'
<1> USE DEF TypeInv
<1>1. CASE MenuReplaced(t)
  <2>1. task' \in [Tasks -> Record] /\ KindInv'
    BY <1>1, LeavesFacts DEF MenuReplaced, KindInv
  <2>2. current' \in [kind : Kinds, d : 0 .. MaxDialogs] \cup {None}
    BY <1>1 DEF MenuReplaced, DialogTypeOK, Kinds
  <2>3. QED
    BY <1>1, <2>1, <2>2 DEF MenuReplaced, Typed, DialogTypeOK, chat, Kinds
<1>2. CASE AccountRead(t)
  <2>1. Leaves(t) \/ \E pc \in {"working", "cancelling"} : Goes(t, pc)
    BY <1>2 DEF AccountRead
  <2>2. task[t].k \in Kinds /\ task[t].m \in Kinds
    BY <1>2 DEF AccountRead, KindInv
  <2>3. task' \in [Tasks -> Record] /\ KindInv'
    BY <2>1, <2>2, LeavesFacts, GoesFacts DEF KindInv, Stages
  <2>4. QED
    BY <1>2, <2>3 DEF AccountRead, Typed, DialogTypeOK, chat, user
<1>3. CASE Works(t)
  <2>1. task[t].k \in Kinds /\ task[t].m \in Kinds
    BY <1>3 DEF Works, KindInv
  <2>2. task' \in [Tasks -> Record] /\ KindInv'
    BY <1>3, <2>1, GoesFacts DEF Works, KindInv, Stages
  <2>3. did' \in (Kinds \X Kinds) \cup {None}
    BY <1>3, <2>1 DEF Works, DialogTypeOK
  <2>4. QED
    BY <1>3, <2>2, <2>3 DEF Works, Typed, DialogTypeOK, chat, user
<1>4. CASE Ends(t)
  <2>1. task' \in [Tasks -> Record] /\ KindInv'
    BY <1>4, LeavesFacts DEF Ends, KindInv
  <2>2. QED
    BY <1>4, <2>1 DEF Ends, Clear, UsedUp, Typed, DialogTypeOK
<1>5. CASE Raises(t)
  <2>1. task' \in [Tasks -> Record] /\ KindInv'
    BY <1>5, LeavesFacts, RaisesFacts DEF KindInv
  <2>2. QED
    BY <1>5, <2>1, RaisesFacts DEF Typed, DialogTypeOK, chat, user
<1>6. QED
  BY <1>1, <1>2, <1>3, <1>4, <1>5

\* The invariant of types, for the specification.
LEMMA SpecTyped == Spec => []TypeInv
<1>1. Init => TypeInv
  <2> SUFFICES ASSUME Init PROVE Typed /\ KindInv
    BY TypedIsType DEF TypeInv
  <2>1. task \in [Tasks -> Record] /\ KindInv
    BY IdleType DEF Init, KindInv
  <2>2. d \in 0 .. MaxDialogs
    BY DialogsAssumption DEF Init
  <2>3. calm \in BOOLEAN /\ hasty \in BOOLEAN /\ late \in BOOLEAN
    BY Zenon DEF Init
  <2>4. QED
    BY <2>1, <2>2, <2>3 DEF Init, Typed
<1>2. TypeInv /\ [Next]_vars => TypeInv'
  <2> SUFFICES ASSUME TypeInv, [Next]_vars PROVE Typed' /\ KindInv'
    BY TypedIsType DEF TypeInv, Typed, DialogTypeOK, Record
  <2>1. ASSUME NEW t \in Tasks, Handler(t) PROVE Typed' /\ KindInv'
    BY <2>1, CommandType, PressType, WorkType DEF Handler
  <2>2. CASE Crash
    <3>1. task' \in [Tasks -> Record] /\ KindInv'
      BY <2>2, IdleType DEF Crash, KindInv
    <3>2. QED
      BY <2>2, <3>1 DEF Crash, Clear, Typed, TypeInv, DialogTypeOK
  <2>3. CASE UNCHANGED vars
    <3>1. KindInv'
      BY <2>3 DEF vars, chat, user, KindInv, TypeInv
    <3>2. Typed'
      BY <2>3, TypedIsType DEF vars, chat, user, Typed, TypeInv
    <3>3. QED
      BY <3>1, <3>2
  <2>4. QED
    BY <2>1, <2>2, <2>3 DEF Next
<1>3. QED
  BY <1>1, <1>2, PTL DEF Spec

\* Whatever handlers overlap (aiogram isolates none), the chat's state, its data and the
\* handlers keep their types, and the one key "instruments" holds one list.
THEOREM DialogsAreTyped == Spec => []DialogTypeOK
<1>1. TypeInv => DialogTypeOK
  BY DEF TypeInv
<1>2. QED
  BY <1>1, SpecTyped, PTL

-----------------------------------------------------------------------------
(* The state and its data *)

\* A command that has not set its state: until its data is stored, the account
\* commands until they end.
Waits(t) ==
    \/ task[t].pc = "fetching"
    \/ task[t].pc \in {"answering", "answered"} /\ task[t].k \in Accounts

\* In a calm dialog nothing else runs meanwhile, and what it has stored is there.
AloneInv ==
    calm => \A t \in Tasks : Waits(t) =>
        /\ st = None
        /\ \A u \in Tasks : u # t => task[u] = Idle
        /\ task[t].pc # "fetching" /\ task[t].k = "AddAccount" => "acc_map" \in data

DataInv ==
    /\ st \notin {None, "AddAccount"} => Needs[st] \subseteq data
    /\ st = "AddAccount" /\ calm => "acc_map" \in data

FitInv == TypeInv /\ AloneInv /\ DataInv

\* No state but None is none.
LEMMA NoneIsNoKind == None \notin Kinds
  BY DialogsAssumption DEF Kinds, Accounts, Favorites

\* A command stores its data before it sets its state.
LEMMA CommandFits ==
    ASSUME FitInv, NEW t \in Tasks,
           \/ \E k \in (Kinds \ {"Direction"}) \cup {"start"} : CommandBegins(t, k)
           \/ CommandFetched(t) \/ NothingToUncheck(t) \/ MenuArrives(t) \/ CommandEnds(t)
    PROVE  AloneInv' /\ DataInv'
<1>0. TypeInv /\ DialogTypeOK /\ AloneInv /\ DataInv
  BY DEF FitInv, TypeInv
<1>1. ASSUME NEW k \in (Kinds \ {"Direction"}) \cup {"start"}, CommandBegins(t, k)
      PROVE  AloneInv' /\ DataInv'
  <2>1. st' = None /\ task'[t].pc = "fetching"
        /\ (calm' => \A u \in Tasks : task[u] = Idle)
        /\ \A u \in Tasks : u # t => task'[u] = task[u]
    BY <1>0, <1>1, BeginsFacts
  <2>2. DataInv'
    BY <2>1, NoneIsNoKind DEF DataInv, Kinds, Accounts
  <2>3. AloneInv'
    BY <2>1, IdleType DEF AloneInv, Waits
  <2>4. QED
    BY <2>2, <2>3
<1>2. CASE CommandFetched(t)
  <2>1. task[t].k \in Kinds /\ task[t].pc = "fetching"
    BY <1>0, <1>2 DEF CommandFetched, DialogTypeOK
  <2> DEFINE k == task[t].k
  <2>2. /\ Store(Needs[k]) /\ Goes(t, "answering") /\ calm' = calm
        /\ st' = IF k \in Accounts THEN st ELSE k
    BY <1>2 DEF CommandFetched
  <2>3. /\ Needs[k] \subseteq data'
        /\ "acc_map" \in data => "acc_map" \in data'
        /\ k \in Accounts => data \subseteq data'
    <3>1. Needs[k] \in SUBSET Keys /\ ("favs" \notin Needs[k] \/ "rows" \notin Needs[k])
      BY <2>1, NeedsFacts
    <3>2. k \in Accounts => Needs[k] \cap {"favs", "rows"} = {}
      BY NeedsFacts
    <3>3. QED
      BY <1>0, <2>2, <3>1, <3>2, StoreFacts DEF DialogTypeOK
  <2>4. /\ \A u \in Tasks : u # t => task'[u] = task[u]
        /\ task'[t].pc = "answering" /\ task'[t].k = k
    BY <1>0, <2>2, GoesFacts DEF Stages
  <2>5. DataInv'
    BY <1>0, <2>2, <2>3, NoneIsNoKind DEF DataInv, Kinds, Accounts
  <2>6. AloneInv'
    <3> SUFFICES ASSUME calm', NEW u \in Tasks, Waits(u)'
                 PROVE  /\ st' = None
                        /\ \A v \in Tasks : v # u => task'[v] = Idle
                        /\ task'[u].pc # "fetching" /\ task'[u].k = "AddAccount"
                             => "acc_map" \in data'
      BY DEF AloneInv
    <3>1. st = None /\ \A v \in Tasks : v # t => task[v] = Idle
      BY <1>0, <2>1, <2>2 DEF AloneInv, Waits
    <3>2. u = t
      BY <2>4, <3>1, IdleType DEF Waits
    <3>3. k \in Accounts
      BY <2>4, <3>2 DEF Waits
    <3>4. k = "AddAccount" => "acc_map" \in data'
      BY <2>3, NeedsFacts
    <3>5. QED
      BY <2>2, <2>4, <3>1, <3>2, <3>3, <3>4
  <2>7. QED
    BY <2>5, <2>6
<1>3. CASE NothingToUncheck(t)
  <2>1. st' = None /\ Goes(t, "noting") /\ calm' = calm /\ task[t].pc = "fetching"
    BY <1>3 DEF NothingToUncheck, Clear
  <2>2. (\A u \in Tasks : u # t => task'[u] = task[u]) /\ task'[t].pc = "noting"
    BY <1>0, <2>1, GoesFacts DEF Stages
  <2>3. DataInv'
    BY <2>1, NoneIsNoKind DEF DataInv, Kinds, Accounts
  <2>4. AloneInv'
    BY <1>0, <2>1, <2>2, IdleType DEF AloneInv, Waits
  <2>5. QED
    BY <2>3, <2>4
<1>4. CASE MenuArrives(t)
  <2>1. Goes(t, "answered") /\ UNCHANGED <<st, data, calm>> /\ task[t].pc = "answering"
    BY <1>4 DEF MenuArrives, chat
  <2>2. /\ \A u \in Tasks : u # t => task'[u] = task[u]
        /\ task'[t].pc = "answered" /\ task'[t].k = task[t].k
    BY <1>0, <2>1, GoesFacts DEF Stages
  <2>3. DataInv'
    BY <1>0, <2>1 DEF DataInv
  <2>4. AloneInv'
    <3> SUFFICES ASSUME calm', NEW u \in Tasks, Waits(u)'
                 PROVE  /\ st' = None
                        /\ \A v \in Tasks : v # u => task'[v] = Idle
                        /\ task'[u].pc # "fetching" /\ task'[u].k = "AddAccount"
                             => "acc_map" \in data'
      BY DEF AloneInv
    <3>1. calm /\ Waits(u)
      BY <2>1, <2>2 DEF Waits
    <3>2. st = None /\ (\A v \in Tasks : v # u => task[v] = Idle)
      BY <1>0, <3>1 DEF AloneInv
    <3>3. u = t
      BY <2>1, <3>2, IdleType
    <3>4. task[u].k = "AddAccount" => "acc_map" \in data
      BY <1>0, <2>1, <3>1, <3>3 DEF AloneInv
    <3>5. QED
      BY <2>1, <2>2, <3>2, <3>3, <3>4
  <2>5. QED
    BY <2>3, <2>4
<1>5. CASE CommandEnds(t)
  <2>1. /\ Leaves(t) /\ UNCHANGED <<data, calm>> /\ task[t].pc = "answered"
        /\ st' = IF task[t].k \in Accounts THEN task[t].k ELSE st
    BY <1>5 DEF CommandEnds
  <2>2. /\ \A u \in Tasks : u # t => task'[u] = task[u]
        /\ task'[t] = Idle /\ task'[t].pc = "idle"
    BY <1>0, <2>1, LeavesFacts
  <2>3. DataInv'
    BY <1>0, <2>1, NeedsFacts DEF DataInv, AloneInv, Waits, Accounts
  <2>4. AloneInv'
    BY <1>0, <2>1, <2>2, IdleType DEF AloneInv, Waits
  <2>5. QED
    BY <2>3, <2>4
<1>6. QED
  BY <1>1, <1>2, <1>3, <1>4, <1>5

\* A press is of a set state, so no calm command waits.
LEMMA PressFits ==
    ASSUME FitInv, NEW t \in Tasks, Press(t)
    PROVE  AloneInv' /\ DataInv'
<1>0. TypeInv /\ DialogTypeOK /\ AloneInv /\ DataInv
  BY DEF FitInv, TypeInv
<1>1. PICK m \in Kinds : \/ Cancel(t, m)
                         \/ \E b \in Buttons[m] : Tick(t, m, b) \/ Confirm(t, m, b)
                         \/ Choose(t, m)
  BY DEF Press
<1>2. ASSUME NEW b, NEW pc \in {"noting", "cancelling", "asking", "working", "replacing"},
             Called(t, m, b, pc)
      PROVE  AloneInv' /\ calm' = calm
  <2>1. /\ st \in Kinds /\ calm' = calm /\ task'[t].pc = pc
        /\ \A u \in Tasks : u # t => task'[u] = task[u]
    BY <1>0, <1>2, CalledFacts DEF Stages
  <2>2. calm => \A u \in Tasks : ~Waits(u)
    BY <1>0, <2>1, NoneIsNoKind DEF AloneInv
  <2>3. calm => \A u \in Tasks : ~Waits(u)'
    BY <2>1, <2>2 DEF Waits
  <2>4. QED
    BY <2>1, <2>3 DEF AloneInv
<1>3. ASSUME NEW b \in Buttons[m], Tick(t, m, b) \/ Confirm(t, m, b)
      PROVE  AloneInv' /\ DataInv'
  <2>1. PICK pc \in {"noting", "cancelling", "asking", "working"} : Called(t, m, b, pc)
    BY <1>0, <1>3, ConfirmFacts DEF Tick
  <2>2. UNCHANGED <<st, data>>
    BY <1>3 DEF Tick, Confirm, chat
  <2>3. QED
    BY <1>0, <1>2, <2>1, <2>2 DEF DataInv
<1>4. CASE Cancel(t, m)
  <2>1. PICK pc \in {"noting", "cancelling"} : Called(t, m, "cancel", pc)
    BY <1>4 DEF Cancel
  <2>2. st' = None \/ UNCHANGED <<st, data>>
    BY <1>4 DEF Cancel, Clear, chat
  <2>3. QED
    BY <1>0, <1>2, <2>1, <2>2, NoneIsNoKind DEF DataInv, Kinds, Accounts
<1>5. CASE Choose(t, m)
  <2>1. Called(t, m, "info", "replacing") /\ Store({"instrument"}) /\ st' = "Direction"
    BY <1>5 DEF Choose
  <2>2. {"instrument"} \subseteq data'
    BY <1>0, <2>1, StoreFacts, NeedsFacts DEF DialogTypeOK
  <2>3. DataInv'
    BY <2>1, <2>2, NeedsFacts DEF DataInv
  <2>4. QED
    BY <1>2, <2>1, <2>3
<1>6. QED
  BY <1>1, <1>3, <1>4, <1>5

\* What ends a handler keeps the state and its data, or clears both.
LEMMA WorkFits ==
    ASSUME FitInv, NEW t \in Tasks,
           MenuReplaced(t) \/ AccountRead(t) \/ Works(t) \/ Ends(t) \/ Raises(t)
    PROVE  AloneInv' /\ DataInv'
<1>0. TypeInv /\ DialogTypeOK /\ AloneInv /\ DataInv
  BY DEF FitInv, TypeInv
<1>1. /\ task[t] # Idle
      /\ \A u \in Tasks : u # t => task'[u] = task[u]
      /\ task'[t] = Idle \/ task'[t].pc \in {"working", "cancelling", "ending"}
  <2>1. ASSUME MenuReplaced(t) \/ Ends(t) \/ Raises(t) PROVE Leaves(t) /\ task[t] # Idle
    BY <2>1, IdleType DEF MenuReplaced, Ends, Raises
  <2>2. ASSUME AccountRead(t) \/ Works(t)
        PROVE  /\ task[t] # Idle
               /\ Leaves(t) \/ \E pc \in {"working", "cancelling", "ending"} : Goes(t, pc)
    BY <2>2, IdleType DEF AccountRead, Works
  <2>3. QED
    BY <1>0, <2>1, <2>2, LeavesFacts, GoesFacts DEF Stages
<1>2. /\ calm' => calm
      /\ \/ UNCHANGED <<st, data>>
         \/ st' = None /\ calm' = calm
  <2>1. CASE Raises(t)
    <3>1. UNCHANGED <<st, data>>
      BY <2>1 DEF Raises, chat
    <3>2. calm' => calm
      <4>1. calm' = (calm /\ task[t].pc # "replacing"
                          /\ ~(task[t].pc = "answered" /\ task[t].k \in Accounts))
        BY <2>1 DEF Raises
      <4>2. QED
        BY <4>1, Zenon
    <3>3. QED
      BY <3>1, <3>2, Zenon
  <2>2. CASE ~Raises(t)
    BY <2>2 DEF MenuReplaced, AccountRead, Works, Ends, Clear, chat
  <2>3. QED
    BY <2>1, <2>2
<1>3. DataInv'
  BY <1>0, <1>2, NoneIsNoKind DEF DataInv, Kinds, Accounts
<1>4. AloneInv'
  <2> SUFFICES ASSUME calm', NEW u \in Tasks, Waits(u)'
               PROVE  /\ st' = None
                      /\ \A v \in Tasks : v # u => task'[v] = Idle
                      /\ task'[u].pc # "fetching" /\ task'[u].k = "AddAccount"
                           => "acc_map" \in data'
    BY DEF AloneInv
  <2>1. u # t
    BY <1>1, IdleType DEF Waits
  <2>2. Waits(u)
    BY <1>1, <2>1 DEF Waits
  <2>3. task[t] = Idle
    BY <1>0, <1>2, <2>1, <2>2 DEF AloneInv
  <2>4. QED
    BY <1>1, <2>3
<1>5. QED
  BY <1>3, <1>4

\* The invariant, for the specification.
LEMMA SpecFits == Spec => []FitInv
<1>1. Init => AloneInv /\ DataInv
  BY NoneIsNoKind, IdleType DEF Init, AloneInv, DataInv, Waits, Kinds, Accounts
<1>2. FitInv /\ [Next]_vars => AloneInv' /\ DataInv'
  <2> SUFFICES ASSUME FitInv, [Next]_vars PROVE AloneInv' /\ DataInv'
    OBVIOUS
  <2>1. ASSUME NEW t \in Tasks, Handler(t) PROVE AloneInv' /\ DataInv'
    BY <2>1, CommandFits, PressFits, WorkFits DEF Handler
  <2>2. CASE Crash
    BY <2>2, NoneIsNoKind DEF Crash, Clear, AloneInv, DataInv, Kinds, Accounts
  <2>3. CASE UNCHANGED vars
    BY <2>3 DEF vars, chat, user, AloneInv, DataInv, Waits, FitInv
  <2>4. QED
    BY <2>1, <2>2, <2>3 DEF Next
<1>3. QED
  BY <1>1, <1>2, SpecTyped, PTL DEF Spec, FitInv

\* The handlers of a state find the data it relies on (router.py:63-97, 219-229): with any
\* number of handlers overlapping, none fails on a key - the adding of an account, whose
\* state is set an await after its data, if no other handler ran meanwhile.
THEOREM StatesFitTheirData == Spec => []StateFitsData
<1>1. FitInv => StateFitsData
  BY NeedsFacts DEF FitInv, DataInv, StateFitsData
<1>2. QED
  BY <1>1, SpecFits, PTL

-----------------------------------------------------------------------------
(* What a menu says *)

\* A command whose state is still to come, as far as it matters to the account menus.
Setting(t) == Unanswered(t) \/ Unset(t)

\* Of a user who awaits each menu, with none sent late, one command is setting at a time,
\* and until it has the state is of no account dialog.
OneCommand ==
    \A t \in Tasks : Setting(t) =>
        /\ st \notin Accounts
        /\ \A u \in Tasks : Setting(u) => u = t

\* Of two account menus the current one is that of the state, or of the command about
\* to set it.
SameMenu ==
    current # None /\ current.kind \in Accounts =>
        /\ st \in Accounts => st = current.kind
        /\ \A t \in Tasks : Unset(t) => task[t].k = current.kind

\* What handlers are about to do, and what was done, is what the menu said.
Meant ==
    /\ \A t \in Tasks : task[t].pc \in {"asking", "working"} => task[t].k = task[t].m
    /\ did # None => did[1] = did[2]

MeantInv == ~hasty /\ ~late => OneCommand /\ SameMenu /\ Meant

\* A command of a user who has awaited the last one.
LEMMA CommandMeant ==
    ASSUME TypeInv, MeantInv, ~hasty', ~late', NEW t \in Tasks,
           \/ \E k \in (Kinds \ {"Direction"}) \cup {"start"} : CommandBegins(t, k)
           \/ CommandFetched(t) \/ NothingToUncheck(t) \/ MenuArrives(t) \/ CommandEnds(t)
    PROVE  OneCommand' /\ SameMenu' /\ Meant'
<1>0. DialogTypeOK
  BY DEF TypeInv
<1>1. ASSUME NEW k \in (Kinds \ {"Direction"}) \cup {"start"}, CommandBegins(t, k)
      PROVE  OneCommand' /\ SameMenu' /\ Meant'
  <2>1. /\ st' = None /\ current' = None /\ UNCHANGED did
        /\ task'[t].pc = "fetching"
        /\ \A u \in Tasks : u # t => task'[u] = task[u]
    BY <1>0, <1>1, BeginsFacts
  <2>2. ~hasty /\ ~late /\ \A u \in Tasks : ~Setting(u)
    BY <1>0, <1>1, BeginsFacts DEF Setting
  <2>3. OneCommand'
    BY <2>1, <2>2, NoneIsNoKind DEF OneCommand, Setting, Unanswered, Unset, Kinds
  <2>4. SameMenu' /\ Meant'
    BY <2>1, <2>2 DEF SameMenu, Meant, MeantInv
  <2>5. QED
    BY <2>3, <2>4
<1>2. ASSUME NEW pc \in {"answering", "noting"}, Goes(t, pc), task[t].pc = "fetching",
             st' \notin Accounts, UNCHANGED <<current, hasty, late, did>>
      PROVE  OneCommand' /\ SameMenu' /\ Meant'
  <2>1. /\ \A u \in Tasks : u # t => task'[u] = task[u]
        /\ task'[t].pc = pc
    BY <1>0, <1>2, GoesFacts DEF Stages
  <2>2. OneCommand /\ SameMenu /\ Meant
    BY <1>2 DEF MeantInv
  <2>3. OneCommand'
    BY <1>2, <2>1, <2>2 DEF OneCommand, Setting, Unanswered, Unset
  <2>4. SameMenu'
    BY <1>2, <2>1, <2>2 DEF SameMenu, Unset
  <2>5. Meant'
    BY <1>2, <2>1, <2>2 DEF Meant
  <2>6. QED
    BY <2>3, <2>4, <2>5
<1>3. CASE CommandFetched(t)
  <2>1. st \notin Accounts
    BY <1>3 DEF CommandFetched, user, MeantInv, OneCommand, Setting, Unanswered, Unset
  <2>2. QED
    BY <1>2, <1>3, <2>1 DEF CommandFetched, user
<1>4. CASE NothingToUncheck(t)
  BY <1>2, <1>4, NoneIsNoKind DEF NothingToUncheck, Clear, user, Kinds
<1>5. CASE MenuArrives(t)
  <2>1. /\ \A u \in Tasks : u # t => task'[u] = task[u]
        /\ task'[t].pc = "answered" /\ task'[t].k = task[t].k
    BY <1>0, <1>5, GoesFacts DEF MenuArrives, Stages
  <2>2. /\ OneCommand /\ Meant /\ task[t].pc = "answering"
        /\ UNCHANGED <<st, did>> /\ current'.kind = task[t].k
    BY <1>5 DEF MenuArrives, MeantInv, chat
  <2>3. OneCommand'
    BY <2>1, <2>2 DEF OneCommand, Setting, Unanswered, Unset
  <2>4. SameMenu'
    BY <2>1, <2>2 DEF SameMenu, OneCommand, Setting, Unanswered, Unset
  <2>5. Meant'
    BY <2>1, <2>2 DEF Meant
  <2>6. QED
    BY <2>3, <2>4, <2>5
<1>6. CASE CommandEnds(t)
  <2>1. /\ \A u \in Tasks : u # t => task'[u] = task[u]
        /\ task'[t].pc = "idle"
    BY <1>0, <1>6, LeavesFacts DEF CommandEnds
  <2>2. /\ OneCommand /\ SameMenu /\ Meant /\ task[t].pc = "answered"
        /\ UNCHANGED <<current, did>>
        /\ st' = IF task[t].k \in Accounts THEN task[t].k ELSE st
    BY <1>6 DEF CommandEnds, MeantInv, user
  <2>3. OneCommand'
    BY <2>1, <2>2 DEF OneCommand, Setting, Unanswered, Unset
  <2>4. SameMenu'
    BY <2>1, <2>2 DEF SameMenu, OneCommand, Setting, Unanswered, Unset
  <2>5. Meant'
    BY <2>1, <2>2 DEF Meant
  <2>6. QED
    BY <2>3, <2>4, <2>5
<1>7. QED
  BY <1>1, <1>3, <1>4, <1>5, <1>6

\* A press on the current menu.
LEMMA PressMeant ==
    ASSUME TypeInv, MeantInv, ~hasty', ~late', NEW t \in Tasks, Press(t)
    PROVE  OneCommand' /\ SameMenu' /\ Meant'
<1>0. DialogTypeOK
  BY DEF TypeInv
<1>1. PICK m \in Kinds : \/ Cancel(t, m)
                         \/ \E b \in Buttons[m] : Tick(t, m, b) \/ Confirm(t, m, b)
                         \/ Choose(t, m)
  BY DEF Press
<1>2. ASSUME NEW b, NEW pc \in {"noting", "cancelling", "asking", "working", "replacing"},
             Called(t, m, b, pc),
             UNCHANGED <<st, current>> \/ (st' \notin Accounts /\ current' \in {current, None}),
             pc \in {"asking", "working"} => m = st
      PROVE  OneCommand' /\ SameMenu' /\ Meant'
  <2>1. /\ task'[t].pc = pc /\ task'[t].k = st /\ task'[t].m = m /\ UNCHANGED did
        /\ \A u \in Tasks : u # t => task'[u] = task[u]
    BY <1>0, <1>2, CalledFacts DEF Stages
  <2>2. ~hasty /\ ~late
    BY <1>0, <1>2, CalledFacts DEF Stages
  <2>3. OneCommand /\ SameMenu /\ Meant
    BY <2>2 DEF MeantInv
  <2>4. OneCommand'
    BY <1>2, <2>1, <2>3 DEF OneCommand, Setting, Unanswered, Unset
  <2>5. SameMenu'
    BY <1>2, <2>1, <2>3 DEF SameMenu, Unset
  <2>6. Meant'
    BY <1>2, <2>1, <2>3 DEF Meant
  <2>7. QED
    BY <2>4, <2>5, <2>6
<1>3. CASE Cancel(t, m)
  <2>1. PICK pc \in {"noting", "cancelling"} : Called(t, m, "cancel", pc)
    BY <1>3 DEF Cancel
  <2>2. UNCHANGED <<st, current>> \/ (st' \notin Accounts /\ current' \in {current, None})
    BY <1>3, NoneIsNoKind DEF Cancel, Clear, chat, Kinds
  <2>3. QED
    BY <1>2, <2>1, <2>2
<1>4. ASSUME NEW b \in Buttons[m], Tick(t, m, b)
      PROVE  OneCommand' /\ SameMenu' /\ Meant'
  BY <1>2, <1>4 DEF Tick, chat
<1>5. ASSUME NEW b \in Buttons[m], Confirm(t, m, b)
      PROVE  OneCommand' /\ SameMenu' /\ Meant'
  <2>1. PICK pc \in {"asking", "working", "cancelling", "noting"} : Called(t, m, b, pc)
    BY <1>0, <1>5, ConfirmFacts
  <2>2. /\ st \in Accounts \/ task'[t].pc \notin {"asking", "working"} \/ m = st
        /\ st \in Accounts => m \in Accounts
        /\ UNCHANGED <<st, current>>
    BY <1>0, <1>5, ConfirmFacts DEF chat
  <2>3. /\ ~hasty /\ ~late /\ current # None /\ current.kind = m
        /\ task'[t].pc = pc
    BY <1>0, <2>1, CalledFacts DEF Stages
  <2>4. pc \in {"asking", "working"} => m = st
    BY <2>2, <2>3 DEF MeantInv, SameMenu
  <2>5. QED
    BY <1>2, <2>1, <2>2, <2>4
<1>6. CASE Choose(t, m)
  <2>1. Called(t, m, "info", "replacing") /\ st' \notin Accounts /\ UNCHANGED current
    BY <1>6 DEF Choose, Accounts
  <2>2. QED
    BY <1>2, <2>1
<1>7. QED
  BY <1>1, <1>3, <1>4, <1>5, <1>6

\* A handler does what it was called for.
LEMMA WorkMeant ==
    ASSUME TypeInv, MeantInv, ~hasty', ~late', NEW t \in Tasks,
           MenuReplaced(t) \/ AccountRead(t) \/ Works(t) \/ Ends(t) \/ Raises(t)
    PROVE  OneCommand' /\ SameMenu' /\ Meant'
<1>0. DialogTypeOK
  BY DEF TypeInv
<1>1. ~hasty /\ ~late /\ OneCommand /\ SameMenu /\ Meant
  <2>1. hasty' = hasty /\ late' = late
    BY DEF MenuReplaced, AccountRead, Works, Ends, Raises, user
  <2>2. QED
    BY <2>1 DEF MeantInv
<1>2. \/ Leaves(t)
      \/ task[t].pc = "asking" /\ \E pc \in {"working", "cancelling"} : Goes(t, pc)
      \/ Goes(t, "ending")
  BY DEF MenuReplaced, AccountRead, Works, Ends, Raises
<1>3. /\ \A u \in Tasks : u # t => task'[u] = task[u]
      /\ ~Setting(t)' /\ task'[t].pc # "asking"
      /\ task'[t].pc = "working" =>
            task[t].pc = "asking" /\ task'[t].k = task[t].k /\ task'[t].m = task[t].m
  BY <1>0, <1>2, LeavesFacts, GoesFacts DEF Stages, Setting, Unanswered, Unset
<1>4. UNCHANGED st \/ st' \notin Accounts
  BY NoneIsNoKind DEF MenuReplaced, AccountRead, Works, Ends, Raises, Clear, chat, Kinds
<1>5. current' = None \/ UNCHANGED current \/ current'.kind \notin Accounts
  <2>1. CASE MenuReplaced(t)
    BY <1>0, <2>1 DEF MenuReplaced, Accounts, DialogTypeOK
  <2>2. CASE ~MenuReplaced(t)
    BY <2>2 DEF AccountRead, Works, Ends, Raises, UsedUp, user
  <2>3. QED
    BY <2>1, <2>2
<1>6. OneCommand'
  BY <1>1, <1>3, <1>4 DEF OneCommand, Setting, Unanswered, Unset
<1>7. SameMenu'
  BY <1>1, <1>3, <1>4, <1>5 DEF SameMenu, Setting, Unanswered, Unset
<1>8. Meant'
  <2>1. did' # None => did'[1] = did'[2]
    BY <1>1 DEF MenuReplaced, AccountRead, Works, Ends, Raises, Meant
  <2>2. \A u \in Tasks : task'[u].pc \in {"asking", "working"} => task'[u].k = task'[u].m
    BY <1>1, <1>3 DEF Meant
  <2>3. QED
    BY <2>1, <2>2 DEF Meant
<1>9. QED
  BY <1>6, <1>7, <1>8

\* The invariant, for the specification.
LEMMA SpecMeant == Spec => []MeantInv
<1>1. Init => MeantInv
  BY IdleType DEF Init, MeantInv, OneCommand, SameMenu, Meant, Setting, Unanswered, Unset
<1>2. TypeInv /\ MeantInv /\ [Next]_vars => MeantInv'
  <2> SUFFICES ASSUME TypeInv, MeantInv, [Next]_vars, ~hasty', ~late'
               PROVE  OneCommand' /\ SameMenu' /\ Meant'
    BY DEF MeantInv
  <2>1. ASSUME NEW t \in Tasks, Handler(t) PROVE OneCommand' /\ SameMenu' /\ Meant'
    BY <2>1, CommandMeant, PressMeant, WorkMeant DEF Handler
  <2>2. CASE Crash
    <3>1. /\ \A t \in Tasks : task'[t].pc = "idle"
          /\ current' = None /\ did' = did /\ ~hasty /\ ~late
      BY <2>2, IdleType DEF Crash
    <3>2. QED
      BY <3>1 DEF OneCommand, SameMenu, Meant, MeantInv, Setting, Unanswered, Unset
  <2>3. CASE UNCHANGED vars
    BY <2>3 DEF vars, chat, user, MeantInv, OneCommand, SameMenu, Meant, Setting, Unanswered, Unset
  <2>4. QED
    BY <2>1, <2>2, <2>3 DEF Next
<1>3. QED
  BY <1>1, <1>2, SpecTyped, PTL DEF Spec

\* Whatever the user does, a handler is about to do what the menu said, or both are of
\* the account dialogs.
MixInv ==
    /\ \A t \in Tasks : task[t].pc \in {"asking", "working"} =>
          task[t].k = task[t].m \/ (task[t].k \in Accounts /\ task[t].m \in Accounts)
    /\ did # None => did[1] = did[2] \/ (did[1] \in Accounts /\ did[2] \in Accounts)

\* It is kept where nothing begins to act and nothing is done.
LEMMA MixKept ==
    ASSUME MixInv, NEW t \in Tasks, \A u \in Tasks : u # t => task'[u] = task[u],
           task'[t].pc \notin {"asking", "working"}, did' = did
    PROVE  MixInv'
  BY DEF MixInv

\* Only a confirmed button begins to act, and only Works is an act.
LEMMA SpecMix == Spec => []MixInv
<1>1. Init => MixInv
  BY IdleType DEF Init, MixInv
<1>2. TypeInv /\ MixInv /\ [Next]_vars => MixInv'
  <2> SUFFICES ASSUME TypeInv, MixInv, [Next]_vars PROVE MixInv'
    OBVIOUS
  <2>0. DialogTypeOK
    BY DEF TypeInv
  <2>1. ASSUME NEW t \in Tasks, NEW k \in (Kinds \ {"Direction"}) \cup {"start"},
               CommandBegins(t, k)
        PROVE  MixInv'
    BY <2>0, <2>1, BeginsFacts, MixKept
  <2>2. ASSUME NEW t \in Tasks,
               CommandFetched(t) \/ NothingToUncheck(t) \/ MenuArrives(t)
        PROVE  MixInv'
    <3>1. PICK pc \in {"answering", "noting", "answered"} : Goes(t, pc)
      BY <2>2 DEF CommandFetched, NothingToUncheck, MenuArrives
    <3>2. did' = did
      BY <2>2 DEF CommandFetched, NothingToUncheck, MenuArrives
    <3>3. QED
      BY <2>0, <3>1, <3>2, GoesFacts, MixKept DEF Stages
  <2>3. ASSUME NEW t \in Tasks,
               CommandEnds(t) \/ MenuReplaced(t) \/ Ends(t) \/ Raises(t)
        PROVE  MixInv'
    <3>1. Leaves(t) /\ did' = did
      BY <2>3 DEF CommandEnds, MenuReplaced, Ends, Raises
    <3>2. QED
      BY <2>0, <3>1, LeavesFacts, MixKept
  <2>4. ASSUME NEW t \in Tasks, AccountRead(t) PROVE MixInv'
    <3>1. did' = did /\ task[t].pc = "asking"
      BY <2>4 DEF AccountRead
    <3>2. CASE Leaves(t)
      BY <2>0, <3>1, <3>2, LeavesFacts, MixKept
    <3>3. CASE \E pc \in {"working", "cancelling"} : Goes(t, pc)
      <4>1. /\ \A u \in Tasks : u # t => task'[u] = task[u]
            /\ task'[t].k = task[t].k /\ task'[t].m = task[t].m
        BY <2>0, <3>3, GoesFacts DEF Stages
      <4>2. QED
        BY <3>1, <4>1 DEF MixInv
    <3>4. QED
      BY <2>4, <3>2, <3>3 DEF AccountRead
  <2>5. ASSUME NEW t \in Tasks, Works(t) PROVE MixInv'
    <3>1. /\ \A u \in Tasks : u # t => task'[u] = task[u]
          /\ task'[t].pc = "ending"
      BY <2>0, <2>5, GoesFacts DEF Works, Stages
    <3>2. did' = <<task[t].m, task[t].k>> \/ did' = did
      BY <2>5 DEF Works
    <3>3. did' # None => did'[1] = did'[2] \/ (did'[1] \in Accounts /\ did'[2] \in Accounts)
      BY <2>5, <3>2 DEF MixInv, Works
    <3>4. QED
      BY <3>1, <3>3 DEF MixInv
  <2>6. ASSUME NEW t \in Tasks, Press(t) PROVE MixInv'
    <3>1. PICK m \in Kinds : \/ Cancel(t, m)
                             \/ \E b \in Buttons[m] : Tick(t, m, b) \/ Confirm(t, m, b)
                             \/ Choose(t, m)
      BY <2>6 DEF Press
    <3>2. ASSUME NEW b \in Buttons[m], Confirm(t, m, b) PROVE MixInv'
      <4>1. PICK pc \in {"asking", "working", "cancelling", "noting"} : Called(t, m, b, pc)
        BY <2>0, <3>2, ConfirmFacts
      <4>2. /\ task'[t].pc = pc /\ task'[t].k = st /\ task'[t].m = m /\ did' = did
            /\ \A u \in Tasks : u # t => task'[u] = task[u]
        BY <2>0, <4>1, CalledFacts DEF Stages
      <4>3. task'[t].pc \in {"asking", "working"} =>
               st = m \/ (st \in Accounts /\ m \in Accounts)
        BY <2>0, <3>2, ConfirmFacts
      <4>4. QED
        BY <4>2, <4>3 DEF MixInv
    <3>3. ASSUME NEW b, NEW pc \in {"noting", "cancelling", "replacing"}, Called(t, m, b, pc)
          PROVE  MixInv'
      BY <2>0, <3>3, CalledFacts, MixKept DEF Stages
    <3>4. QED
      BY <3>1, <3>2, <3>3 DEF Cancel, Tick, Choose
  <2>7. CASE Crash
    BY <2>7, IdleType DEF Crash, MixInv
  <2>8. CASE UNCHANGED vars
    BY <2>8 DEF vars, MixInv
  <2>9. QED
    BY <2>1, <2>2, <2>3, <2>4, <2>5, <2>6, <2>7, <2>8 DEF Next, Handler
<1>3. QED
  BY <1>1, <1>2, SpecTyped, PTL DEF Spec

\* The account menus share the data of their buttons (kb_account.py:8-32), and every handler
\* takes what it finds as state. What is done to an account or a list is what its menu says,
\* for any user: the two account menus alone mix, and only if the user was hasty, or a
\* command began between the menu and the state of an account command (router.py:59-60,
\* 227-229), which no user can see.
THEOREM MenusMeanWhatTheySay == Spec => []MenuMeansUnlessLate
<1>1. MeantInv /\ MixInv => MenuMeansUnlessLate
  <2> SUFFICES ASSUME MeantInv, MixInv, did # None, did[1] # did[2]
               PROVE  did[1] \in Accounts /\ did[2] \in Accounts /\ (hasty \/ late)
    BY DEF MenuMeansUnlessLate
  <2>1. did[1] \in Accounts /\ did[2] \in Accounts
    BY DEF MixInv
  <2>2. hasty \/ late
    BY DEF MeantInv, Meant
  <2>3. QED
    BY <2>1, <2>2
<1>2. QED
  BY <1>1, SpecMeant, SpecMix, PTL

-----------------------------------------------------------------------------
(* What can be used *)

\* Before its menu is there a command runs alone, and no menu is current.
PreMenu ==
    \A t \in Tasks : task[t].pc \in {"fetching", "answering"} =>
        /\ current = None
        /\ \A u \in Tasks : u # t => task[u] = Idle
        /\ task[t].pc = "fetching" => st = None
        /\ task[t].pc = "answering" => st = IF task[t].k \in Accounts THEN None ELSE task[t].k

\* The state is that of the current menu, or a handler is about to make them agree.
Shows ==
    current # None =>
        \/ st = current.kind
        \/ /\ st = None
           /\ \E t \in Tasks : /\ task[t].pc = "answered" /\ task[t].k \in Accounts
                               /\ task[t].k = current.kind
        \/ /\ st = "Direction" /\ current.kind = "Info"
           /\ \E t \in Tasks : task[t].pc = "replacing"

Pressed == {"asking", "working", "ending", "cancelling", "replacing"}

\* Whatever runs was called in the dialog of the current menu, and one replaces it.
OneDialog ==
    current # None =>
        /\ \A t \in Tasks : task[t].pc \in Pressed => task[t].d = current.d
        /\ \A t \in Tasks : task[t].pc = "replacing" =>
              /\ st = "Direction" /\ current.kind = "Info"
              /\ \A u \in Tasks : task[u].pc = "replacing" => u = t

Usable == PreMenu /\ Shows /\ OneDialog

UsableInv == calm /\ ~hasty => Usable

\* A command that begins calmly shows its menu and has its state.
LEMMA CommandUsable ==
    ASSUME FitInv, UsableInv, calm', ~hasty', NEW t \in Tasks,
           \/ \E k \in (Kinds \ {"Direction"}) \cup {"start"} : CommandBegins(t, k)
           \/ CommandFetched(t) \/ NothingToUncheck(t) \/ MenuArrives(t) \/ CommandEnds(t)
    PROVE  Usable'
<1>0. DialogTypeOK /\ TypeInv /\ AloneInv
  BY DEF FitInv, TypeInv
<1>1. ASSUME NEW k \in (Kinds \ {"Direction"}) \cup {"start"}, CommandBegins(t, k)
      PROVE  Usable'
  <2>1. /\ st' = None /\ current' = None /\ task'[t].pc = "fetching"
        /\ \A u \in Tasks : u # t => task'[u] = task[u]
        /\ \A u \in Tasks : task[u] = Idle
    BY <1>0, <1>1, BeginsFacts
  <2>2. PreMenu'
    BY <2>1, IdleType DEF PreMenu
  <2>3. QED
    BY <2>1, <2>2 DEF Shows, OneDialog, Usable
<1>2. ASSUME task[t].pc = "fetching", calm' = calm, hasty' = hasty
      PROVE  st = None /\ current = None /\ \A u \in Tasks : u # t => task[u] = Idle
  BY <1>2 DEF UsableInv, Usable, PreMenu
<1>3. CASE CommandFetched(t)
  <2>1. /\ task[t].pc = "fetching" /\ Goes(t, "answering")
        /\ st' = IF task[t].k \in Accounts THEN st ELSE task[t].k
        /\ UNCHANGED <<current, calm, hasty>>
    BY <1>3 DEF CommandFetched, user
  <2>2. /\ st = None /\ current' = None
        /\ \A u \in Tasks : u # t => task[u] = Idle
    BY <1>2, <2>1
  <2>3. /\ \A u \in Tasks : u # t => task'[u] = task[u]
        /\ task'[t].pc = "answering" /\ task'[t].k = task[t].k
    BY <1>0, <2>1, GoesFacts DEF Stages
  <2>4. PreMenu'
    BY <2>1, <2>2, <2>3, IdleType DEF PreMenu
  <2>5. QED
    BY <2>2, <2>4 DEF Shows, OneDialog, Usable
<1>4. CASE NothingToUncheck(t)
  <2>1. /\ task[t].pc = "fetching" /\ Goes(t, "noting")
        /\ UNCHANGED <<current, calm, hasty>>
    BY <1>4 DEF NothingToUncheck, user
  <2>2. current' = None /\ \A u \in Tasks : u # t => task[u] = Idle
    BY <1>2, <2>1
  <2>3. /\ \A u \in Tasks : u # t => task'[u] = task[u]
        /\ task'[t].pc = "noting"
    BY <1>0, <2>1, GoesFacts DEF Stages
  <2>4. PreMenu'
    BY <2>2, <2>3, IdleType DEF PreMenu
  <2>5. QED
    BY <2>2, <2>4 DEF Shows, OneDialog, Usable
<1>5. CASE MenuArrives(t)
  <2>1. /\ task[t].pc = "answering" /\ Goes(t, "answered")
        /\ UNCHANGED <<st, calm, hasty>> /\ current'.kind = task[t].k
    BY <1>5 DEF MenuArrives, chat
  <2>2. /\ st = IF task[t].k \in Accounts THEN None ELSE task[t].k
        /\ \A u \in Tasks : u # t => task[u] = Idle
    BY <2>1 DEF UsableInv, Usable, PreMenu
  <2>3. /\ \A u \in Tasks : u # t => task'[u] = task[u]
        /\ task'[t].pc = "answered" /\ task'[t].k = task[t].k
    BY <1>0, <2>1, GoesFacts DEF Stages
  <2>4. PreMenu' /\ OneDialog'
    BY <2>2, <2>3, IdleType DEF PreMenu, OneDialog, Pressed
  <2>5. Shows'
    BY <2>1, <2>2, <2>3 DEF Shows
  <2>6. QED
    BY <2>4, <2>5 DEF Usable
<1>6. CASE CommandEnds(t)
  <2>1. /\ task[t].pc = "answered" /\ Leaves(t) /\ UNCHANGED <<current, calm, hasty>>
        /\ st' = IF task[t].k \in Accounts THEN task[t].k ELSE st
    BY <1>6 DEF CommandEnds, user
  <2>2. /\ \A u \in Tasks : u # t => task'[u] = task[u]
        /\ task'[t].pc = "idle"
    BY <1>0, <2>1, LeavesFacts
  <2>3. PreMenu /\ Shows /\ OneDialog
    BY <2>1 DEF UsableInv, Usable
  <2>4. PreMenu'
    BY <2>1, <2>2, <2>3, IdleType DEF PreMenu
  <2>5. CASE task[t].k \in Accounts
    <3>1. st = None /\ \A u \in Tasks : u # t => task[u] = Idle
      BY <1>0, <2>1, <2>5 DEF AloneInv, Waits
    <3>2. ASSUME current # None PROVE task[t].k = current.kind
      <4>1. current.kind # None /\ None # "Direction"
        BY <1>0, <3>2, NoneIsNoKind, DialogsAssumption DEF DialogTypeOK
      <4>2. PICK u \in Tasks : task[u].pc = "answered" /\ task[u].k = current.kind
        BY <2>3, <3>1, <3>2, <4>1 DEF Shows
      <4>3. QED
        BY <3>1, <4>2, IdleType
    <3>3. Shows'
      BY <2>1, <2>5, <3>2 DEF Shows
    <3>4. OneDialog'
      BY <2>2, <3>1, IdleType DEF OneDialog, Pressed
    <3>5. QED
      BY <2>4, <3>3, <3>4 DEF Usable
  <2>6. CASE task[t].k \notin Accounts
    <3>1. Shows'
      BY <2>1, <2>2, <2>3, <2>6 DEF Shows
    <3>2. OneDialog'
      BY <2>1, <2>2, <2>3, <2>6 DEF OneDialog, Pressed
    <3>3. QED
      BY <2>4, <3>1, <3>2 DEF Usable
  <2>7. QED
    BY <2>5, <2>6
<1>7. QED
  BY <1>1, <1>3, <1>4, <1>5, <1>6

\* A press on the current menu leaves it current, replaces it, or uses it up.
LEMMA PressUsable ==
    ASSUME FitInv, UsableInv, calm', ~hasty', NEW t \in Tasks, Press(t)
    PROVE  Usable'
<1>0. DialogTypeOK
  BY DEF FitInv, TypeInv
<1>1. PICK m \in Kinds : \/ Cancel(t, m)
                         \/ \E b \in Buttons[m] : Tick(t, m, b) \/ Confirm(t, m, b)
                         \/ Choose(t, m)
  BY DEF Press
<1>2. ASSUME NEW b, NEW pc \in {"noting", "cancelling", "asking", "working", "replacing"},
             Called(t, m, b, pc)
      PROVE  /\ task'[t].pc = pc /\ task'[t].d = current.d /\ task[t] = Idle
             /\ \A u \in Tasks : u # t => task'[u] = task[u]
             /\ current # None /\ current.kind = m /\ b \in Buttons[m]
             /\ Shows /\ OneDialog
             /\ PreMenu'
  <2>0. pc \in Stages
    BY DEF Stages
  <2>1. /\ task'[t].pc = pc /\ task[t] = Idle /\ b \in Buttons[m]
        /\ \A u \in Tasks : u # t => task'[u] = task[u]
    BY <1>0, <1>2, <2>0, CalledFacts
  <2>2. ~hasty /\ current # None /\ current.kind = m /\ calm' = calm
    BY <1>0, <1>2, <2>0, CalledFacts
  <2>3. task'[t].d = current.d
    BY <1>0, <1>2, <2>0, <2>2, CalledFacts
  <2>4. PreMenu /\ Shows /\ OneDialog
    BY <2>2 DEF UsableInv, Usable
  <2>5. \A u \in Tasks : task[u].pc \notin {"fetching", "answering"}
    BY <2>2, <2>4 DEF PreMenu
  <2>6. \A u \in Tasks : task'[u].pc \notin {"fetching", "answering"}
    BY <2>1, <2>5
  <2>7. PreMenu'
    BY <2>6 DEF PreMenu
  <2>8. QED
    BY <2>1, <2>2, <2>3, <2>4, <2>7
<1>3. ASSUME NEW b, NEW pc \in {"noting", "cancelling", "asking", "working"},
             Called(t, m, b, pc), UNCHANGED <<st, current>>
      PROVE  Usable'
  <2>1. /\ task'[t].pc = pc /\ task'[t].d = current.d /\ task[t] = Idle
        /\ \A u \in Tasks : u # t => task'[u] = task[u]
        /\ Shows /\ OneDialog /\ PreMenu'
    BY <1>2, <1>3
  <2>2. Shows'
    BY <1>3, <2>1, IdleType DEF Shows
  <2>3. OneDialog'
    BY <1>3, <2>1 DEF OneDialog, Pressed
  <2>4. QED
    BY <2>1, <2>2, <2>3 DEF Usable
<1>4. CASE Cancel(t, m)
  <2>1. PICK pc \in {"noting", "cancelling"} : Called(t, m, "cancel", pc)
    BY <1>4 DEF Cancel
  <2>2. PreMenu'
    BY <1>2, <2>1
  <2>3. CASE current' = None
    BY <2>2, <2>3 DEF Usable, Shows, OneDialog
  <2>4. CASE current' # None
    <3>1. UNCHANGED <<st, current>>
      BY <1>4, <2>4 DEF Cancel, chat
    <3>2. QED
      BY <1>3, <2>1, <3>1
  <2>5. QED
    BY <2>3, <2>4
<1>5. ASSUME NEW b \in Buttons[m], Tick(t, m, b) PROVE Usable'
  BY <1>3, <1>5 DEF Tick, chat
<1>6. ASSUME NEW b \in Buttons[m], Confirm(t, m, b) PROVE Usable'
  <2>1. PICK pc \in {"asking", "working", "cancelling", "noting"} : Called(t, m, b, pc)
    BY <1>0, <1>6, ConfirmFacts
  <2>2. UNCHANGED <<st, current>>
    BY <1>6 DEF Confirm, chat
  <2>3. QED
    BY <1>3, <2>1, <2>2
<1>7. CASE Choose(t, m)
  <2>1. /\ st = "Info" /\ Called(t, m, "info", "replacing") /\ st' = "Direction"
        /\ UNCHANGED current
    BY <1>7 DEF Choose
  <2>2. /\ task'[t].pc = "replacing" /\ task'[t].d = current.d
        /\ \A u \in Tasks : u # t => task'[u] = task[u]
        /\ current # None /\ current.kind = m /\ "info" \in Buttons[m]
        /\ OneDialog /\ PreMenu'
    BY <1>2, <2>1
  <2>3. m = "Info"
    BY <2>2 DEF Buttons, Kinds, Accounts, Favorites
  <2>4. \A u \in Tasks : task[u].pc # "replacing"
    BY <2>1, <2>2 DEF OneDialog
  <2>5. Shows'
    BY <2>1, <2>2, <2>3 DEF Shows
  <2>6. OneDialog'
    BY <2>1, <2>2, <2>3, <2>4 DEF OneDialog, Pressed
  <2>7. QED
    BY <2>2, <2>5, <2>6 DEF Usable
<1>8. QED
  BY <1>1, <1>4, <1>5, <1>6, <1>7

\* A handler keeps the menu current and usable, or uses it up.
LEMMA WorkUsable ==
    ASSUME FitInv, UsableInv, calm', ~hasty', NEW t \in Tasks,
           MenuReplaced(t) \/ AccountRead(t) \/ Works(t) \/ Ends(t) \/ Raises(t)
    PROVE  Usable'
<1>0. DialogTypeOK
  BY DEF FitInv, TypeInv
<1>1. PreMenu /\ Shows /\ OneDialog
  <2>1. ~hasty
    BY DEF MenuReplaced, AccountRead, Works, Ends, Raises, user
  <2>2. calm
    <3>1. CASE Raises(t)
      BY <1>0, <3>1, RaisesFacts
    <3>2. CASE ~Raises(t)
      BY <3>2 DEF MenuReplaced, AccountRead, Works, Ends
    <3>3. QED
      BY <3>1, <3>2
  <2>3. QED
    BY <2>1, <2>2 DEF UsableInv, Usable
<1>2. /\ task[t] # Idle
      /\ \A u \in Tasks : u # t => task'[u] = task[u]
      /\ \/ task'[t] = Idle
         \/ /\ task[t].pc \in {"asking", "working"} /\ task'[t].d = task[t].d
            /\ task'[t].pc \in {"working", "cancelling", "ending"}
  <2>1. ASSUME MenuReplaced(t) \/ Ends(t) \/ Raises(t) PROVE Leaves(t) /\ task[t] # Idle
    BY <2>1, IdleType DEF MenuReplaced, Ends, Raises
  <2>2. ASSUME AccountRead(t) \/ Works(t)
        PROVE  /\ task[t] # Idle /\ task[t].pc \in {"asking", "working"}
               /\ Leaves(t) \/ \E pc \in {"working", "cancelling", "ending"} : Goes(t, pc)
    BY <2>2, IdleType DEF AccountRead, Works
  <2>3. QED
    BY <1>0, <2>1, <2>2, LeavesFacts, GoesFacts DEF Stages
<1>3. PreMenu'
  <2>1. \A u \in Tasks : u # t => task[u].pc \notin {"fetching", "answering"}
    BY <1>1, <1>2 DEF PreMenu
  <2>2. \A u \in Tasks : task'[u].pc \notin {"fetching", "answering"}
    BY <1>2, <2>1, IdleType
  <2>3. QED
    BY <2>2 DEF PreMenu
<1>4. CASE MenuReplaced(t)
  <2>1. /\ task[t].pc = "replacing" /\ st' = st /\ Leaves(t)
        /\ current' = IF current # None /\ current.d = task[t].d
                      THEN [current EXCEPT !.kind = "Direction"] ELSE current
    BY <1>4 DEF MenuReplaced, chat
  <2>2. CASE current = None
    BY <1>3, <2>1, <2>2 DEF Usable, Shows, OneDialog
  <2>3. CASE current # None
    <3>1. st = "Direction" /\ current.d = task[t].d
          /\ \A u \in Tasks : task[u].pc = "replacing" => u = t
      BY <1>1, <2>1, <2>3 DEF OneDialog, Pressed
    <3>2. current'.kind = "Direction" /\ current'.d = current.d
      BY <1>0, <2>1, <2>3, <3>1 DEF DialogTypeOK
    <3>3. Shows'
      BY <2>1, <3>1, <3>2 DEF Shows
    <3>4. task'[t].pc = "idle"
      BY <1>0, <2>1, LeavesFacts
    <3>5. OneDialog'
      BY <1>1, <1>2, <2>3, <3>1, <3>2, <3>4 DEF OneDialog, Pressed
    <3>6. QED
      BY <1>3, <3>3, <3>5 DEF Usable
  <2>4. QED
    BY <2>2, <2>3
<1>5. CASE Ends(t)
  <2>1. current' = None
    BY <1>1, <1>5 DEF Ends, UsedUp, OneDialog, Pressed
  <2>2. QED
    BY <1>3, <2>1 DEF Usable, Shows, OneDialog
<1>6. CASE AccountRead(t) \/ Works(t) \/ Raises(t)
  <2>1. UNCHANGED <<st, current>>
    BY <1>6 DEF AccountRead, Works, Raises, chat, user
  <2>2. /\ task[t].pc # "replacing"
        /\ ~(task[t].pc = "answered" /\ task[t].k \in Accounts)
    <3>1. CASE Raises(t)
      BY <1>0, <3>1, RaisesFacts
    <3>2. CASE AccountRead(t) \/ Works(t)
      BY <3>2 DEF AccountRead, Works
    <3>3. QED
      BY <1>6, <3>1, <3>2
  <2>3. Shows'
    BY <1>1, <1>2, <2>1, <2>2 DEF Shows
  <2>4. OneDialog'
    BY <1>1, <1>2, <2>1, IdleType DEF OneDialog, Pressed
  <2>5. QED
    BY <1>3, <2>3, <2>4 DEF Usable
<1>7. QED
  BY <1>4, <1>5, <1>6

\* The invariant, for the specification.
LEMMA SpecUsable == Spec => []UsableInv
<1>1. Init => UsableInv
  BY IdleType DEF Init, UsableInv, Usable, PreMenu, Shows, OneDialog
<1>2. FitInv /\ UsableInv /\ [Next]_vars => UsableInv'
  <2> SUFFICES ASSUME FitInv, UsableInv, [Next]_vars, calm', ~hasty' PROVE Usable'
    BY DEF UsableInv
  <2>1. ASSUME NEW t \in Tasks, Handler(t) PROVE Usable'
    BY <2>1, CommandUsable, PressUsable, WorkUsable DEF Handler
  <2>2. CASE Crash
    BY <2>2 DEF Crash
  <2>3. CASE UNCHANGED vars
    BY <2>3 DEF vars, chat, user, UsableInv, Usable, PreMenu, Shows, OneDialog
  <2>4. QED
    BY <2>1, <2>2, <2>3 DEF Next
<1>3. QED
  BY <1>1, <1>2, SpecFits, PTL DEF Spec

\* HELP_TEXT's way out of an error (messages_const.py:41, start again) leads somewhere: the
\* menu of a command that began when nothing ran is that of the state, through cancelled,
\* failed and repeated presses, until it is used up.
THEOREM MenusStayUsable == Spec => []MenuIsUsable
<1>1. FitInv /\ UsableInv => MenuIsUsable
  <2> SUFFICES ASSUME FitInv, UsableInv, calm, ~hasty, current # None,
                      \A t \in Tasks : task[t] = Idle
               PROVE  st = current.kind
    BY DEF MenuIsUsable
  <2>1. QED
    BY IdleType DEF UsableInv, Usable, Shows
<1>2. QED
  BY <1>1, SpecFits, SpecUsable, PTL

=============================================================================
