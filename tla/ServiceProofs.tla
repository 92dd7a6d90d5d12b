--------------------------- MODULE ServiceProofs ---------------------------
(***************************************************************************)
(* For any number of calls, sessions, boots and days.                      *)
(*                                                                         *)
(* The client handle: what a call finds is open, and a session that starts *)
(* with no temporary client open keeps its API and its listener and closes *)
(* its client.                                                             *)
(*                                                                         *)
(* The service: its flag and lock let the client be used only as ApiHandle *)
(* has it, so the same holds of the whole process; and the night is quiet  *)
(* and the day watched, unless a fault was recorded.                       *)
(***************************************************************************)
EXTENDS Service, SequenceTheorems, TLAPS

-----------------------------------------------------------------------------
(* The client handle by itself *)

\* Whose client the attribute and TClient._client may be.
HandleInv ==
    /\ client # None => client = starts
    /\ api \in Calls => call[api] = "own" /\ api \in open
    /\ api \in Sessions => /\ api = client
                           /\ api \in open \/ service = "closing"

\* A clean session is never touched by a temporary client.
CleanInv ==
    clean => /\ service # "down" => /\ api = client
                                    /\ \A c \in Calls : call[c] # "own"
             /\ service = "up" => listener # "exited"
             /\ service \in {"closing", "down"} => starts \notin open

Inv == TypeOK /\ HandleInv /\ CleanInv

\* The initial state: no client, no session.
LEMMA InitInv == Init => Inv
<1> SUFFICES ASSUME Init PROVE Inv
  OBVIOUS
<1> USE ApiHandleAssumption DEF Init
<1>1. TypeOK
  <2>1. clean \in BOOLEAN
    OBVIOUS
  <2>2. client = None <=> service = "down"
    OBVIOUS
  <2>3. starts \in 0 .. MaxStarts
    OBVIOUS
  <2>4. call \in [Calls -> {"idle", "own", "shared"}]
    OBVIOUS
  <2>5. QED
    BY <2>1, <2>2, <2>3, <2>4 DEF TypeOK
<1>2. HandleInv
  BY DEF HandleInv, Clients
<1>3. CleanInv
  BY DEF CleanInv
<1>4. QED
  BY <1>1, <1>2, <1>3 DEF Inv

\* Every operation of TClient preserves the invariant.
LEMMA NextInv == Inv /\ [Next]_vars => Inv'
<1> SUFFICES ASSUME Inv, [Next]_vars PROVE Inv'
  OBVIOUS
<1> USE ApiHandleAssumption DEF Inv, TypeOK, HandleInv, CleanInv, Clients, Sessions
<1>1. ASSUME NEW c \in Calls, CallBegins(c) PROVE Inv'
  BY <1>1 DEF CallBegins
<1>2. ASSUME NEW c \in Calls, OwnCallEnds(c) PROVE Inv'
  BY <1>2 DEF OwnCallEnds
<1>3. ASSUME NEW c \in Calls, SharedCallEnds(c) PROVE Inv'
  BY <1>3 DEF SharedCallEnds
<1>4. CASE service = "down" /\ Start
  BY <1>4 DEF Start
<1>5. CASE StopCancels
  BY <1>5 DEF StopCancels
<1>6. CASE StopCloses
  BY <1>6 DEF StopCloses
<1>7. CASE StopEnds
  BY <1>7 DEF StopEnds
<1>8. CASE Exit
  BY <1>8 DEF Exit
<1>9. CASE ListenerStep
  BY <1>9 DEF ListenerStep, ListenerTests, StreamFails, BackoffEnds
<1>10. CASE UNCHANGED vars
  BY <1>10 DEF vars
<1>11. QED
  BY <1>1, <1>2, <1>3, <1>4, <1>5, <1>6, <1>7, <1>8, <1>9, <1>10 DEF Next, CallStep, ServiceStep

\* The invariant holds in every reachable state.
LEMMA SpecInv == Spec => []Inv
  BY InitInv, NextInv, PTL DEF Spec

\* The attributes of TClient keep their types.
THEOREM ApiTypeOK == Spec => []TypeOK
<1>1. Inv => TypeOK
  BY DEF Inv
<1>2. QED
  BY <1>1, SpecInv, PTL

\* What a call finds in TClient._api is an open client, or the one stop is closing.
THEOREM ApiAlwaysOpen == Spec => []ApiIsOpen
<1>1. Inv => ApiIsOpen
  BY ApiHandleAssumption DEF Inv, TypeOK, HandleInv, ApiIsOpen, Clients, Sessions
<1>2. QED
  BY <1>1, SpecInv, PTL

\* A session opened while no temporary client is open keeps its API and listener.
THEOREM CleanSession == Spec => []CleanSessionKeepsApi
<1>1. Inv => CleanSessionKeepsApi
  BY DEF Inv, TypeOK, CleanInv, CleanSessionKeepsApi
<1>2. QED
  BY <1>1, SpecInv, PTL

\* Such a session leaves no open channel behind.
THEOREM CleanSessionCloses == Spec => []CleanSessionIsClosed
<1>1. Inv => CleanSessionIsClosed
  BY DEF Inv, CleanInv, CleanSessionIsClosed
<1>2. QED
  BY <1>1, SpecInv, PTL

-----------------------------------------------------------------------------
(* The service *)

ProcStates == {"off", "boot", "catchup", "commands", "polling", "backoff", "stopping"}
Stages == {"idle", "asks", "reads", "refreshes", "stops"}

TypeInv ==
    /\ proc \in ProcStates
    /\ boots \in 0 .. MaxBoots /\ days \in 0 .. MaxDays
    /\ time \in {"night", "session"}
    /\ at \in [Jobs -> Stages]
    /\ running \in BOOLEAN /\ refreshed \in BOOLEAN /\ fault \in BOOLEAN

QueueInv ==
    /\ lockq \in Seq(Jobs)
    /\ \A j \in Jobs : at[j] # "idle" <=> \E i \in 1 .. Len(lockq) : lockq[i] = j
    /\ \A i, k \in 1 .. Len(lockq) : lockq[i] = lockq[k] => i = k

\* Only the head of the queue is past the flag, and the flag is as it found it.
StageInv ==
    /\ \A j \in Jobs : at[j] \in {"reads", "refreshes", "stops"} => Turn(j)
    /\ \A j \in Openers : at[j] # "stops"
    /\ \A j \in Closers : at[j] \notin {"reads", "refreshes"}
    /\ \A j \in Jobs : at[j] = "reads" => ~running
    /\ \A j \in Jobs : at[j] \in {"refreshes", "stops"} => running

\* The flag is up while there is a client, also one that a stop has left half stopped.
FlagInv == running <=> service # "down"

\* Nothing runs before the scheduler does; start() waits for its own open job.
BootInv ==
    /\ proc \in {"off", "boot"} => lockq = <<>> /\ ~running
    /\ at["start"] # "idle" => proc = "catchup"

Last(q) == q[Len(q)]

\* The last word of a night, or of a process about to end, is a close.
NightInv ==
    ~fault /\ (time = "night" \/ ~Scheduled)
        => IF lockq = <<>> THEN ~running ELSE Last(lockq) \in Closers

\* The last word of a session is an open; without a close before it the client that
\* is there is up and refreshed, or being refreshed.
DayInv ==
    ~fault /\ time = "session" /\ Scheduled
        => /\ IF lockq = <<>> THEN running ELSE Last(lockq) \in Openers
           /\ running /\ (\A j \in Closers : at[j] = "idle")
                => service = "up" /\ (refreshed \/ \E j \in Openers : at[j] = "refreshes")

ServiceInv ==
    Inv /\ TypeInv /\ QueueInv /\ StageInv /\ FlagInv /\ BootInv /\ NightInv /\ DayInv

-----------------------------------------------------------------------------
(* The queue of the lock *)

\* The holder leaves: the others move up, and the last stays the last.
LEMMA PopQueue ==
    ASSUME TypeInv, QueueInv, NEW j \in Jobs, Turn(j),
           lockq' = Tail(lockq), at' = [at EXCEPT ![j] = "idle"]
    PROVE  /\ QueueInv'
           /\ lockq # <<>>
           /\ IF lockq' = <<>> THEN Last(lockq) = j ELSE Last(lockq)' = Last(lockq)
<1>1. lockq \in Seq(Jobs) /\ lockq # <<>> /\ lockq[1] = j
  BY DEF QueueInv, Turn
<1>2. /\ lockq' \in Seq(Jobs)
      /\ Len(lockq') = Len(lockq) - 1
      /\ \A i \in 1 .. Len(lockq') : lockq'[i] = lockq[i + 1]
  BY <1>1, HeadTailProperties
<1>3. Len(lockq) \in Nat \ {0}
  BY <1>1, EmptySeq
<1>4. \A i, k \in 1 .. Len(lockq') : lockq'[i] = lockq'[k] => i = k
  BY <1>2, <1>3 DEF QueueInv
<1>5. ASSUME NEW m \in Jobs
      PROVE  at'[m] # "idle" <=> \E i \in 1 .. Len(lockq') : lockq'[i] = m
  <2>1. CASE m = j
    <3>1. \A i \in 1 .. Len(lockq') : lockq'[i] # j
      BY <1>1, <1>2, <1>3 DEF QueueInv
    <3>2. QED
      BY <2>1, <3>1 DEF TypeInv
  <2>2. CASE m # j
    <3>1. at'[m] = at[m]
      BY <2>2 DEF TypeInv
    <3>2. ASSUME NEW i \in 1 .. Len(lockq), lockq[i] = m
          PROVE  \E k \in 1 .. Len(lockq') : lockq'[k] = m
      <4>1. i # 1 /\ i - 1 \in 1 .. Len(lockq')
        BY <1>1, <1>2, <1>3, <2>2, <3>2
      <4>2. lockq'[i - 1] = lockq[(i - 1) + 1]
        BY <4>1, <1>2
      <4>3. (i - 1) + 1 = i
        BY <1>3
      <4>4. QED
        BY <4>1, <4>2, <4>3, <3>2
    <3>3. \A k \in 1 .. Len(lockq') : k + 1 \in 1 .. Len(lockq)
      BY <1>2, <1>3
    <3>4. QED
      BY <3>1, <3>2, <3>3, <1>2 DEF QueueInv
  <2>3. QED
    BY <2>1, <2>2
<1>6. QueueInv'
  BY <1>2, <1>4, <1>5 DEF QueueInv
<1>7. CASE lockq' = <<>>
  <2>1. Len(lockq) = 1
    BY <1>2, <1>3, <1>7
  <2>2. QED
    BY <1>1, <1>6, <1>7, <2>1 DEF Last
<1>8. CASE lockq' # <<>>
  <2>1. Len(lockq') \in Nat \ {0}
    BY <1>2, <1>8, EmptySeq
  <2>2. Len(lockq') \in 1 .. Len(lockq') /\ Len(lockq') + 1 = Len(lockq)
    BY <1>2, <1>3, <2>1
  <2>3. lockq'[Len(lockq')] = lockq[Len(lockq)]
    BY <1>2, <2>2
  <2>4. QED
    BY <1>1, <1>6, <1>8, <2>3 DEF Last
<1>9. QED
  BY <1>7, <1>8

\* A job asks for the lock: it comes last, and the holder stays.
LEMMA PushQueue ==
    ASSUME TypeInv, QueueInv, NEW j \in Jobs, at[j] = "idle", Queue(j)
    PROVE  /\ QueueInv'
           /\ lockq' # <<>> /\ Last(lockq)' = j
           /\ \A m \in Jobs : Turn(m) => Turn(m)'
<1>1. lockq \in Seq(Jobs)
  BY DEF QueueInv
<1>2. /\ lockq' \in Seq(Jobs)
      /\ lockq' # <<>>
      /\ Len(lockq') = Len(lockq) + 1
      /\ \A i \in 1 .. Len(lockq) : lockq'[i] = lockq[i]
      /\ lockq'[Len(lockq) + 1] = j
  BY <1>1, AppendProperties DEF Queue
<1>3. Len(lockq) \in Nat
  BY <1>1
<1>4. \A i \in 1 .. Len(lockq) : lockq[i] # j
  BY DEF QueueInv
<1>5. \A i \in 1 .. Len(lockq') : i \in 1 .. Len(lockq) \/ i = Len(lockq')
  BY <1>2, <1>3
<1>6. \A i, k \in 1 .. Len(lockq') : lockq'[i] = lockq'[k] => i = k
  BY <1>2, <1>4, <1>5 DEF QueueInv
<1>7. \A i \in 1 .. Len(lockq) : i \in 1 .. Len(lockq')
  BY <1>2, <1>3
<1>8. Len(lockq') \in 1 .. Len(lockq') /\ lockq'[Len(lockq')] = j
  BY <1>2, <1>3
<1>9. ASSUME NEW m \in Jobs
      PROVE  at'[m] # "idle" <=> \E i \in 1 .. Len(lockq') : lockq'[i] = m
  <2>1. CASE m = j
    BY <1>8, <2>1 DEF Queue, TypeInv
  <2>2. CASE m # j
    <3>1. at'[m] = at[m]
      BY <2>2 DEF Queue, TypeInv
    <3>2. QED
      BY <2>2, <3>1, <1>2, <1>5, <1>7, <1>8 DEF QueueInv
  <2>3. QED
    BY <2>1, <2>2
<1>10. ASSUME NEW m \in Jobs, Turn(m)
       PROVE  Turn(m)'
  <2>1. Head(lockq') = Head(lockq)
    BY <1>1, <1>10, HeadTailAppend DEF Queue, Turn
  <2>2. QED
    BY <2>1, <1>2, <1>10 DEF Turn
<1>11. QED
  BY <1>2, <1>6, <1>8, <1>9, <1>10 DEF QueueInv, Last

-----------------------------------------------------------------------------
(* The client *)

\* Every step of the process is a step of the client, or none: it is started only
\* when it is down, for the flag is up as long as there is a client.
LEMMA StepIsClientStep == ServiceInv /\ [ServiceNext]_svars => [Next]_vars
<1> SUFFICES ASSUME ServiceInv, [ServiceNext]_svars PROVE [Next]_vars
  OBVIOUS
<1>1. ASSUME NEW j \in Openers, OpenStep(j) PROVE [Next]_vars
  <2>1. CASE OpenStarts(j)
    <3>1. ~running
      BY <2>1 DEF OpenStarts, ServiceInv, StageInv, Jobs
    <3>2. service = "down"
      BY <3>1 DEF ServiceInv, FlagInv
    <3>3. QED
      BY <3>2, <2>1 DEF OpenStarts, Next, ServiceStep
  <2>2. CASE OpenSkips(j) \/ OpenReads(j) \/ OpenReadRaises(j) \/ RefreshEnds(j) \/ RefreshRaises(j)
    BY <2>2 DEF OpenSkips, OpenReads, OpenReadRaises, RefreshEnds, RefreshRaises
  <2>3. QED
    BY <1>1, <2>1, <2>2 DEF OpenStep
<1>2. ASSUME NEW j \in Closers, CloseStep(j) PROVE [Next]_vars
  BY <1>2 DEF CloseStep, CloseSkips, CloseCancels, CloseCloses, CloseEnds, CloseRaises,
     Next, ServiceStep
<1>3. CASE ProcessStep
  BY <1>3 DEF ProcessStep, Boot, SchedulerStarts, CommandsSet, CommandsRaise, PollingEnds,
     BackoffPasses, Ends, Next, ServiceStep
<1>4. CASE DayBegins \/ DayEnds
  BY <1>4 DEF DayBegins, DayEnds
<1>5. CASE ClientStep
  BY <1>5 DEF ClientStep, Next
<1>6. CASE UNCHANGED svars
  BY <1>6 DEF svars
<1>7. QED
  BY <1>1, <1>2, <1>3, <1>4, <1>5, <1>6 DEF ServiceNext, JobStep

-----------------------------------------------------------------------------
(* The invariant *)

\* Everything but the part of ApiHandle, which StepIsClientStep and NextInv preserve.
OwnInv == TypeInv /\ QueueInv /\ StageInv /\ FlagInv /\ BootInv /\ NightInv /\ DayInv

\* A job leaves the lock: what is left to show is about the flag and the client.
LEMMA LeaveInv ==
    ASSUME ServiceInv, NEW j \in Jobs, Turn(j), Polls(j), fault' = fault,
           UNCHANGED <<boots, clockVars>>,
           running' \in BOOLEAN, refreshed' \in BOOLEAN, FlagInv',
           service' = service \/ ~running',
           j \in Openers => running' /\ UNCHANGED service
                            /\ (refreshed' \/ (refreshed' = refreshed /\ at[j] = "asks")),
           j \in Closers => ~running'
    PROVE  OwnInv'
<1> USE DEF ServiceInv, Polls, clockVars
<1>1. /\ QueueInv'
      /\ IF lockq' = <<>> THEN Last(lockq) = j ELSE Last(lockq)' = Last(lockq)
      /\ lockq # <<>>
  BY PopQueue
<1>2. \A m \in Jobs : at'[m] = IF m = j THEN "idle" ELSE at[m]
  BY DEF TypeInv
<1>3. \A m \in Jobs : at'[m] \in {"idle", "asks"}
  <2>1. \A m \in Jobs : m # j => at[m] \notin {"reads", "refreshes", "stops"}
    BY DEF StageInv, Turn
  <2>2. \A m \in Jobs : at[m] \in Stages
    BY DEF TypeInv
  <2>3. QED
    BY <1>2, <2>1, <2>2 DEF Stages
<1>4. at[j] # "idle"
  BY EmptySeq, HeadTailProperties DEF Turn, QueueInv
<1>5. proc' = proc \/ (j = "start" /\ proc = "catchup" /\ proc' = "commands")
  BY <1>4 DEF BootInv
<1>6. Scheduled' <=> Scheduled
  BY <1>5 DEF Scheduled
<1>7. TypeInv'
  <2>1. at' \in [Jobs -> Stages]
    BY DEF TypeInv, Stages
  <2>2. QED
    BY <1>5, <2>1 DEF TypeInv, ProcStates
<1>8. StageInv'
  BY <1>3 DEF StageInv, Jobs
<1>9. BootInv'
  <2>1. at'["start"] # "idle" => j # "start" /\ at["start"] # "idle"
    BY <1>2 DEF Jobs, Openers
  <2>2. proc' \notin {"off", "boot"}
    BY <1>1, <1>5 DEF BootInv
  <2>3. QED
    BY <2>1, <2>2, <1>5 DEF BootInv
<1>10. j \in Openers \/ j \in Closers
  BY DEF Jobs
<1>11. Openers \cap Closers = {}
  BY DEF Openers, Closers
<1>12. NightInv'
  BY <1>1, <1>6, <1>10, <1>11 DEF NightInv
<1>13. DayInv'
  <2> SUFFICES ASSUME ~fault', time' = "session", Scheduled'
               PROVE  /\ IF lockq' = <<>> THEN running' ELSE Last(lockq)' \in Openers
                      /\ running' /\ (\A m \in Closers : at'[m] = "idle")
                            => service' = "up" /\ refreshed'
    BY DEF DayInv
  <2>1. Last(lockq) \in Openers
    BY <1>1, <1>6 DEF DayInv
  <2>2. ASSUME running', \A m \in Closers : at'[m] = "idle"
        PROVE  service' = "up" /\ refreshed'
    <3>1. j \in Openers
      BY <2>2, <1>10
    <3>2. \A m \in Closers : at[m] = "idle"
      BY <2>2, <3>1, <1>2, <1>11 DEF Jobs
    <3>3. running
      BY <2>2, <3>1 DEF FlagInv
    <3>4. service = "up" /\ (refreshed \/ \E m \in Openers : at[m] = "refreshes")
      BY <3>2, <3>3, <1>6 DEF DayInv
    <3>5. ASSUME NEW m \in Openers, at[m] = "refreshes"
          PROVE  m = j
      BY <3>5 DEF StageInv, Turn, Jobs
    <3>6. QED
      BY <3>1, <3>4, <3>5
  <2>3. QED
    BY <2>1, <2>2, <1>1, <1>10, <1>11
<1>14. QED
  BY <1>1, <1>7, <1>8, <1>9, <1>12, <1>13 DEF OwnInv

\* stop() takes over: its job is alone in the queue.
LEMMA StopInv ==
    ASSUME ServiceInv, StopRuns, fault' \in BOOLEAN,
           UNCHANGED <<vars, boots, clockVars, running, refreshed>>
    PROVE  OwnInv'
<1> USE DEF ServiceInv, StopRuns, clockVars, vars
<1>1. \A j \in Jobs : at'[j] = IF j = "stop" THEN "asks" ELSE "idle"
  BY DEF Jobs, Closers
<1>2. /\ lockq' \in Seq(Jobs) /\ lockq' # <<>>
      /\ Len(lockq') = 1 /\ lockq'[1] = "stop"
  BY DEF Jobs, Closers
<1>3. TypeInv'
  BY DEF TypeInv, ProcStates, Stages
<1>4. QueueInv'
  BY <1>1, <1>2 DEF QueueInv
<1>5. StageInv'
  BY <1>1 DEF StageInv, Openers, Closers, Jobs
<1>6. FlagInv' /\ BootInv'
  BY <1>1 DEF FlagInv, BootInv, Jobs, Openers
<1>7. NightInv' /\ DayInv'
  BY <1>2 DEF NightInv, DayInv, Last, Closers, Scheduled
<1>8. QED
  BY <1>3, <1>4, <1>5, <1>6, <1>7 DEF OwnInv

\* A job that raises leaves the lock and is recorded.
LEMMA RaiseInv ==
    ASSUME ServiceInv, NEW j \in Jobs, Turn(j), Raises(j),
           UNCHANGED <<vars, boots, clockVars, running, refreshed>>
    PROVE  OwnInv'
<1>1. CASE j = "start"
  BY <1>1, StopInv DEF Raises
<1>2. CASE j # "start"
  <2> USE <1>2 DEF ServiceInv, Raises, Polls, clockVars, vars
  <2>1. QueueInv' /\ lockq # <<>>
    BY PopQueue
  <2>2. \A m \in Jobs : at'[m] = IF m = j THEN "idle" ELSE at[m]
    BY DEF TypeInv
  <2>3. \A m \in Jobs : m # j => at[m] \notin {"reads", "refreshes", "stops"}
    BY DEF StageInv, Turn
  <2>4. StageInv'
    BY <2>2, <2>3 DEF StageInv, Jobs
  <2>5. TypeInv'
    <3>1. at' \in [Jobs -> Stages]
      BY DEF TypeInv, Stages
    <3>2. QED
      BY <3>1 DEF TypeInv
  <2>6. BootInv'
    BY <2>1, <2>2 DEF BootInv, Jobs, Openers
  <2>7. FlagInv' /\ NightInv' /\ DayInv'
    BY DEF FlagInv, NightInv, DayInv
  <2>8. QED
    BY <2>1, <2>4, <2>5, <2>6, <2>7 DEF OwnInv
<1>3. QED
  BY <1>1, <1>2

\* The holder goes on to its next stage, the queue as it is.
LEMMA StageStepInv ==
    ASSUME ServiceInv, NEW j \in Jobs, Turn(j), at[j] # "idle",
           NEW s \in {"reads", "refreshes", "stops"}, at' = [at EXCEPT ![j] = s],
           j \in Openers => s # "stops", j \in Closers => s = "stops",
           s = "reads" => ~running', s # "reads" => running',
           running' \in BOOLEAN, FlagInv',
           running' = running \/ (s = "refreshes" /\ service' = "up"),
           s # "stops" => service' = service \/ service' = "up",
           UNCHANGED <<proc, boots, clockVars, lockq, refreshed, fault>>
    PROVE  OwnInv'
<1> USE DEF ServiceInv, clockVars
<1>1. \A m \in Jobs : at'[m] = IF m = j THEN s ELSE at[m]
  BY DEF TypeInv
<1>2. TypeInv'
  <2>1. at' \in [Jobs -> Stages]
    BY DEF TypeInv, Stages
  <2>2. QED
    BY <2>1 DEF TypeInv
<1>3. QueueInv'
  BY <1>1 DEF QueueInv
<1>4. \A m \in Jobs : at[m] \in {"reads", "refreshes", "stops"} => m = j
  BY DEF StageInv, Turn
<1>5. Turn(j)'
  BY DEF Turn
<1>6. StageInv'
  BY <1>1, <1>4, <1>5 DEF StageInv, Jobs, Openers, Closers
<1>7. lockq # <<>>
  BY DEF Turn
<1>8. BootInv'
  BY <1>1, <1>7 DEF BootInv, Jobs, Openers
<1>9. NightInv'
  BY <1>7 DEF NightInv, Scheduled, Last
<1>10. DayInv'
  <2> SUFFICES ASSUME ~fault, time = "session", Scheduled
               PROVE  /\ Last(lockq) \in Openers
                      /\ running' /\ (\A m \in Closers : at'[m] = "idle")
                           => service' = "up" /\ (refreshed \/ \E m \in Openers : at'[m] = "refreshes")
    BY <1>7 DEF DayInv, Scheduled, Last
  <2>1. Last(lockq) \in Openers
    BY <1>7 DEF DayInv
  <2>2. ASSUME running', \A m \in Closers : at'[m] = "idle"
        PROVE  service' = "up" /\ (refreshed \/ \E m \in Openers : at'[m] = "refreshes")
    <3>1. j \in Openers
      BY <2>2, <1>1 DEF Jobs
    <3>2. s = "refreshes"
      BY <2>2, <3>1
    <3>3. at'[j] = "refreshes"
      BY <1>1, <3>2
    <3>4. ASSUME running PROVE service' = "up"
      <4>1. \A m \in Closers : at[m] = "idle"
        BY <2>2, <3>1, <1>1 DEF Jobs, Openers, Closers
      <4>2. QED
        BY <4>1, <3>2, <3>4 DEF DayInv
    <3>5. QED
      BY <2>2, <3>1, <3>3, <3>4
  <2>3. QED
    BY <2>1, <2>2
<1>11. QED
  BY <1>2, <1>3, <1>6, <1>8, <1>9, <1>10 DEF OwnInv

\* The clock and the scheduler.
LEMMA ClockInv == ServiceInv /\ (DayBegins \/ DayEnds) => OwnInv'
<1> SUFFICES ASSUME ServiceInv, DayBegins \/ DayEnds PROVE OwnInv'
  OBVIOUS
<1> DEFINE job == IF time = "night" THEN "open" ELSE "close"
<1>1. /\ job \in Jobs /\ Triggers(job)
      /\ job = "open" => time' = "session"
      /\ job = "close" => time' = "night"
      /\ time' \in {"night", "session"}
      /\ days' \in 0 .. MaxDays
      /\ UNCHANGED <<vars, proc, boots, running, refreshed>>
  BY ServiceAssumption DEF DayBegins, DayEnds, Jobs, Openers, Closers, ServiceInv, TypeInv
<1>2. job = "open" \/ job = "close"
  OBVIOUS
<1> HIDE DEF job
<1> USE <1>1 DEF ServiceInv, vars
<1>3. Scheduled' <=> Scheduled
  BY DEF Scheduled
<1>4. CASE ~Scheduled
  <2> USE <1>4 DEF Triggers
  <2>1. TypeInv' /\ QueueInv' /\ StageInv' /\ FlagInv' /\ BootInv'
    BY DEF TypeInv, QueueInv, StageInv, FlagInv, BootInv, Turn
  <2>2. NightInv' /\ DayInv'
    BY <1>3 DEF NightInv, DayInv, Last
  <2>3. QED
    BY <2>1, <2>2 DEF OwnInv
<1>5. CASE Scheduled /\ fault' = TRUE /\ UNCHANGED <<lockq, at>>
  <2>1. TypeInv' /\ QueueInv' /\ StageInv' /\ FlagInv' /\ BootInv'
    BY <1>5 DEF TypeInv, QueueInv, StageInv, FlagInv, BootInv, Turn
  <2>2. NightInv' /\ DayInv'
    BY <1>5 DEF NightInv, DayInv
  <2>3. QED
    BY <2>1, <2>2 DEF OwnInv
<1>6. CASE /\ Scheduled /\ at[job] = "idle" /\ Queue(job)
           /\ fault' = (job = "open" /\ service # "down" /\ at["close"] = "idle")
  <2>1. /\ QueueInv' /\ lockq' # <<>> /\ Last(lockq)' = job
        /\ \A m \in Jobs : Turn(m) => Turn(m)'
    BY <1>6, PushQueue
  <2>2. \A m \in Jobs : at'[m] = IF m = job THEN "asks" ELSE at[m]
    BY <1>6 DEF Queue, TypeInv
  <2>3. TypeInv'
    <3>1. at' \in [Jobs -> Stages]
      BY <1>6 DEF Queue, TypeInv, Stages
    <3>2. fault' \in BOOLEAN
      BY <1>6
    <3>3. QED
      BY <3>1, <3>2 DEF TypeInv
  <2>4. StageInv'
    BY <2>1, <2>2 DEF StageInv, Jobs, Openers, Closers
  <2>5. FlagInv' /\ BootInv'
    BY <1>2, <1>6, <2>2 DEF FlagInv, BootInv, Scheduled, Jobs, Openers
  <2>6. NightInv'
    BY <1>2, <1>3, <1>6, <2>1 DEF NightInv, Closers
  <2>7. DayInv'
    <3> SUFFICES ASSUME ~fault', time' = "session"
                 PROVE  /\ Last(lockq)' \in Openers
                        /\ ~(running /\ \A m \in Closers : at'[m] = "idle")
      BY <2>1 DEF DayInv
    <3>1. job = "open"
      BY <1>1, <1>2
    <3>2. service = "down" \/ at["close"] # "idle"
      BY <1>6, <3>1
    <3>3. at'["close"] = at["close"]
      BY <2>2, <3>1 DEF Jobs, Closers
    <3>4. QED
      BY <2>1, <3>1, <3>2, <3>3 DEF FlagInv, Openers, Closers
  <2>8. QED
    BY <2>1, <2>3, <2>4, <2>5, <2>6, <2>7 DEF OwnInv
<1>7. QED
  BY <1>4, <1>5, <1>6 DEF Triggers

\* The steps of start() and the end of the process.
LEMMA ProcessInv == ServiceInv /\ ProcessStep => OwnInv'
<1> SUFFICES ASSUME ServiceInv, ProcessStep PROVE OwnInv'
  OBVIOUS
<1> USE ServiceAssumption DEF ServiceInv, jobVars, clockVars, vars
<1>1. CASE Boot
  BY <1>1 DEF Boot, OwnInv, TypeInv, ProcStates, QueueInv, StageInv, FlagInv, BootInv,
     NightInv, DayInv, Scheduled, Turn, Last
<1>2. CASE SchedulerStarts /\ time = "session"
  <2> USE <1>2 DEF SchedulerStarts
  <2>1. lockq = <<>> /\ ~running /\ at["start"] = "idle" /\ "start" \in Jobs
    BY DEF BootInv, Jobs, Openers
  <2>2. QueueInv' /\ lockq' # <<>> /\ Last(lockq)' = "start"
    BY <2>1, PushQueue
  <2>3. \A m \in Jobs : at'[m] = IF m = "start" THEN "asks" ELSE at[m]
    BY DEF Queue, TypeInv
  <2>4. \A m \in Jobs : at[m] = "idle"
    BY <2>1 DEF QueueInv
  <2>5. TypeInv'
    <3>1. at' \in [Jobs -> Stages]
      BY DEF Queue, TypeInv, Stages
    <3>2. QED
      BY <3>1 DEF TypeInv, ProcStates
  <2>6. StageInv' /\ FlagInv'
    BY <2>3, <2>4 DEF StageInv, FlagInv, Jobs, Openers, Closers
  <2>7. BootInv' /\ NightInv' /\ DayInv'
    BY <2>1, <2>2 DEF BootInv, NightInv, DayInv, Scheduled, Openers
  <2>8. QED
    BY <2>2, <2>5, <2>6, <2>7 DEF OwnInv
<1>3. CASE SchedulerStarts /\ time # "session"
  BY <1>3 DEF SchedulerStarts, OwnInv, TypeInv, ProcStates, QueueInv, StageInv, FlagInv, BootInv,
     NightInv, DayInv, Scheduled, Turn, Last
<1>4. CASE CommandsSet \/ PollingEnds \/ BackoffPasses
  BY <1>4 DEF CommandsSet, PollingEnds, BackoffPasses, OwnInv, TypeInv, ProcStates, QueueInv,
     StageInv, FlagInv, BootInv, NightInv, DayInv, Scheduled, Turn, Last
<1>5. CASE CommandsRaise
  <2>1. fault' \in BOOLEAN
    BY <1>5 DEF CommandsRaise, TypeInv
  <2>2. QED
    BY <1>5, <2>1, StopInv DEF CommandsRaise
<1>6. CASE Ends
  <2> USE <1>6 DEF Ends
  <2>1. TypeInv'
    BY DEF TypeInv, ProcStates, Stages
  <2>2. QueueInv'
    BY DEF QueueInv
  <2>3. StageInv' /\ FlagInv' /\ BootInv' /\ NightInv' /\ DayInv'
    BY DEF StageInv, FlagInv, BootInv, NightInv, DayInv, Scheduled, Exit, Jobs, Openers, Closers
  <2>4. QED
    BY <2>1, <2>2, <2>3 DEF OwnInv
<1>7. QED
  BY <1>1, <1>2, <1>3, <1>4, <1>5, <1>6 DEF ProcessStep

\* Every step of a job that holds the lock.
LEMMA JobInv == ServiceInv /\ JobStep => OwnInv'
<1> SUFFICES ASSUME ServiceInv, JobStep PROVE OwnInv'
  OBVIOUS
<1>1. ASSUME NEW j \in Openers, OpenStep(j) PROVE OwnInv'
  <2> j \in Jobs /\ j \notin Closers
    BY DEF Jobs, Openers, Closers
  <2> USE DEF ServiceInv, TypeInv, FlagInv, vars
  <2>1. CASE OpenSkips(j)
    BY <2>1, LeaveInv DEF OpenSkips
  <2>2. CASE OpenReads(j)
    BY <2>2, StageStepInv DEF OpenReads, clockVars
  <2>3. CASE OpenReadRaises(j)
    BY <2>3, RaiseInv DEF OpenReadRaises
  <2>4. CASE OpenStarts(j)
    BY <2>4, StageStepInv DEF OpenStarts, Start, clockVars
  <2>5. CASE RefreshEnds(j)
    <3>1. running
      BY <2>5 DEF RefreshEnds, StageInv
    <3>2. QED
      BY <2>5, <3>1, LeaveInv DEF RefreshEnds
  <2>6. CASE RefreshRaises(j)
    BY <2>6, RaiseInv DEF RefreshRaises
  <2>7. QED
    BY <1>1, <2>1, <2>2, <2>3, <2>4, <2>5, <2>6 DEF OpenStep
<1>2. ASSUME NEW j \in Closers, CloseStep(j) PROVE OwnInv'
  <2> j \in Jobs /\ j \notin Openers
    BY DEF Jobs, Openers, Closers
  <2> USE DEF ServiceInv, TypeInv, FlagInv, vars
  <2>1. CASE CloseSkips(j)
    BY <2>1, LeaveInv DEF CloseSkips
  <2>2. CASE CloseCancels(j)
    <3>1. service' # "down"
      BY <2>2 DEF CloseCancels, StopCancels
    <3>2. QED
      BY <2>2, <3>1, StageStepInv DEF CloseCancels, clockVars
  <2>3. CASE CloseCloses(j) /\ service' = "down"
    BY <2>3, LeaveInv DEF CloseCloses, Closed
  <2>4. CASE CloseCloses(j) /\ service' # "down"
    <3>1. at' = [at EXCEPT ![j] = "stops"] /\ at[j] = "stops"
      BY <2>4 DEF CloseCloses
    <3>2. running
      BY <3>1 DEF StageInv
    <3>3. QED
      BY <2>4, <3>1, <3>2, StageStepInv DEF CloseCloses, clockVars
  <2>5. CASE CloseEnds(j)
    BY <2>5, LeaveInv DEF CloseEnds, StopEnds, Closed
  <2>6. CASE CloseRaises(j)
    BY <2>6, RaiseInv DEF CloseRaises
  <2>7. QED
    BY <1>2, <2>1, <2>2, <2>3, <2>4, <2>5, <2>6 DEF CloseStep
<1>3. QED
  BY <1>1, <1>2 DEF JobStep

\* The process is off, and nothing waits.
LEMMA ServiceInitInv == ServiceInit => ServiceInv
<1> SUFFICES ASSUME ServiceInit PROVE ServiceInv
  OBVIOUS
<1> USE ServiceAssumption DEF ServiceInit
<1>1. Inv
  BY InitInv
<1>2. TypeInv
  <2>1. running \in BOOLEAN /\ refreshed \in BOOLEAN /\ fault \in BOOLEAN
    BY Zenon
  <2>2. boots \in 0 .. MaxBoots /\ days \in 0 .. MaxDays
    OBVIOUS
  <2>3. proc \in ProcStates /\ time \in {"night", "session"}
    BY DEF ProcStates
  <2>4. at \in [Jobs -> Stages]
    BY DEF Stages
  <2>5. QED
    BY <2>1, <2>2, <2>3, <2>4 DEF TypeInv
<1>3. QueueInv
  BY DEF QueueInv
<1>4. StageInv /\ FlagInv /\ BootInv /\ NightInv /\ DayInv
  BY DEF StageInv, FlagInv, BootInv, NightInv, DayInv, Scheduled, Init, Jobs, Openers, Closers
<1>5. QED
  BY <1>1, <1>2, <1>3, <1>4 DEF ServiceInv

\* The parts together are inductive.
LEMMA ServiceNextInv == ServiceInv /\ [ServiceNext]_svars => ServiceInv'
<1> SUFFICES ASSUME ServiceInv, [ServiceNext]_svars PROVE ServiceInv'
  OBVIOUS
<1>1. Inv'
  BY StepIsClientStep, NextInv DEF ServiceInv
<1>2. CASE JobStep \/ ProcessStep \/ DayBegins \/ DayEnds
  BY <1>2, <1>1, JobInv, ProcessInv, ClockInv DEF OwnInv, ServiceInv
<1>3. CASE ClientStep
  <2>1. UNCHANGED service
    BY <1>3 DEF ClientStep, CallStep, CallBegins, OwnCallEnds, SharedCallEnds,
       ListenerStep, ListenerTests, StreamFails, BackoffEnds
  <2>2. UNCHANGED <<proc, boots, clockVars, jobVars>>
    BY <1>3 DEF ClientStep
  <2>3. QED
    BY <1>1, <2>1, <2>2 DEF clockVars, jobVars, ServiceInv, TypeInv, QueueInv, StageInv, FlagInv,
       BootInv, NightInv, DayInv, Scheduled, Turn, Last
<1>4. CASE UNCHANGED svars
  BY <1>1, <1>4 DEF svars, vars, clockVars, jobVars, ServiceInv, TypeInv, QueueInv, StageInv,
     FlagInv, BootInv, NightInv, DayInv, Scheduled, Turn, Last
<1>5. QED
  BY <1>2, <1>3, <1>4 DEF ServiceNext

\* The invariant holds in every reachable state.
LEMMA ServiceSpecInv == ServiceSpec => []ServiceInv
  BY ServiceInitInv, ServiceNextInv, PTL DEF ServiceSpec

-----------------------------------------------------------------------------

\* The variables of the process keep their types; a job is in the queue once.
THEOREM ServiceAlwaysTyped == ServiceSpec => []ServiceTypeOK
<1>1. ServiceInv => ServiceTypeOK
  BY DEF ServiceInv, Inv, TypeInv, QueueInv, ServiceTypeOK, ProcStates, Stages
<1>2. QED
  BY <1>1, ServiceSpecInv, PTL

\* Every step of the process that touches the client is one ApiHandle allows: the jobs,
\* their failures and the restarts drive the client as ApiHandle assumes.
THEOREM ServiceDrivesClient == ServiceSpec => ClientSpec
<1>1. ServiceInit => Init
  BY DEF ServiceInit
<1>2. QED
  BY <1>1, StepIsClientStep, ServiceSpecInv, PTL DEF ServiceSpec, ClientSpec, Spec

\* What a call of the process finds in TClient._api is open, or being closed by stop.
THEOREM ServiceApiIsOpen == ServiceSpec => []ApiIsOpen
  BY ServiceDrivesClient, ApiAlwaysOpen, PTL DEF ClientSpec

\* In the process, too, a session no temporary client reaches into keeps its API.
THEOREM ServiceKeepsCleanApi == ServiceSpec => []CleanSessionKeepsApi
  BY ServiceDrivesClient, CleanSession, PTL DEF ClientSpec

\* Such a session leaves no channel open when the process has closed it.
THEOREM ServiceClosesCleanSession == ServiceSpec => []CleanSessionIsClosed
  BY ServiceDrivesClient, CleanSessionCloses, PTL DEF ClientSpec

\* Without a fault since the evening, no client lives through the night.
THEOREM NightsAreQuiet == ServiceSpec => []NightIsQuiet
<1>1. ServiceInv => NightIsQuiet
  BY DEF ServiceInv, NightInv, FlagInv, NightIsQuiet
<1>2. QED
  BY <1>1, ServiceSpecInv, PTL

\* Without a fault since the morning, the session is watched with refreshed levels.
THEOREM DaysAreWatched == ServiceSpec => []DayIsWatched
<1>1. ServiceInv => DayIsWatched
  <2> SUFFICES ASSUME ServiceInv, time = "session", Scheduled, lockq = <<>>, ~fault
               PROVE  service = "up" /\ running /\ refreshed
    BY DEF DayIsWatched
  <2>1. \A j \in Jobs : at[j] = "idle"
    BY DEF ServiceInv, QueueInv
  <2>2. QED
    BY <2>1 DEF ServiceInv, DayInv, Jobs
<1>2. QED
  BY <1>1, ServiceSpecInv, PTL

-----------------------------------------------------------------------------
(* The lock moves on *)

HalfStopped == \A j \in Jobs : at[j] = "stops" => service \in {"cancelled", "closing"}

\* The job that holds the lock is at an await of its own, with the client as that await
\* needs it: a start that finds it down, a stop that finds it half stopped. So none is
\* stuck with the lock, and the jobs behind it get their turn. JobsEnd rests on it.
LockHolderGoesOn ==
    lockq # <<>> =>
        LET j == Head(lockq) IN
        \/ at[j] = "asks"
        \/ j \in Openers /\ at[j] = "reads" /\ ~running /\ service = "down"
        \/ j \in Openers /\ at[j] = "refreshes" /\ running
        \/ j \in Closers /\ at[j] = "stops" /\ running /\ service \in {"cancelled", "closing"}

\* A stop finds the client as its first half left it.
LEMMA NextHalfStopped ==
  ServiceInv /\ HalfStopped /\ [ServiceNext]_svars => HalfStopped'
<1> SUFFICES ASSUME ServiceInv, HalfStopped, [ServiceNext]_svars PROVE HalfStopped'
  OBVIOUS
<1>1. /\ at \in [Jobs -> Stages] /\ service \in {"down", "up", "cancelled", "closing"}
      /\ running <=> service # "down"
      /\ \A j \in Jobs : at[j] = "stops" => Turn(j)
  BY DEF ServiceInv, Inv, TypeOK, TypeInv, StageInv, FlagInv
<1>2. ASSUME UNCHANGED service, \A j \in Jobs : at'[j] = "stops" => at[j] = "stops"
      PROVE  HalfStopped'
  BY <1>2 DEF HalfStopped
<1>3. ASSUME \A j \in Jobs : at'[j] # "stops" PROVE HalfStopped'
  BY <1>3 DEF HalfStopped
<1>4. ASSUME NEW j \in Jobs, UNCHANGED vars, StopRuns \/ Polls(j) PROVE HalfStopped'
  BY <1>1, <1>2, <1>4 DEF StopRuns, Polls, vars
<1>5. ASSUME NEW j \in Openers, OpenStep(j) PROVE HalfStopped'
  <2>1. j \in Jobs
    BY DEF Jobs
  <2>2. CASE OpenSkips(j) \/ OpenReadRaises(j) \/ RefreshEnds(j) \/ RefreshRaises(j)
    BY <1>4, <2>1, <2>2 DEF OpenSkips, OpenReadRaises, RefreshEnds, RefreshRaises, Raises
  <2>3. CASE OpenReads(j)
    BY <1>1, <1>2, <2>1, <2>3 DEF OpenReads, vars
  <2>4. CASE OpenStarts(j)
    <3>1. \A k \in Jobs : at'[k] # "stops"
      BY <1>1, <2>1, <2>4 DEF OpenStarts, Turn
    <3>2. QED
      BY <1>3, <3>1
  <2>5. QED
    BY <1>5, <2>2, <2>3, <2>4 DEF OpenStep
<1>6. ASSUME NEW j \in Closers, CloseStep(j) PROVE HalfStopped'
  <2>1. j \in Jobs
    BY DEF Jobs
  <2>2. CASE CloseSkips(j) \/ CloseRaises(j)
    BY <1>4, <2>1, <2>2 DEF CloseSkips, CloseRaises, Raises
  <2>3. CASE CloseCancels(j)
    <3>1. service' \in {"cancelled", "closing"}
      BY <1>1, <2>3 DEF CloseCancels, StopCancels, vars
    <3>2. QED
      BY <3>1 DEF HalfStopped
  <2>4. CASE CloseCloses(j) \/ CloseEnds(j)
    <3>1. CASE service' = "closing"
      BY <3>1 DEF HalfStopped
    <3>2. CASE service' # "closing"
      <4>1. Polls(j) /\ Turn(j)
        BY <2>4, <3>2 DEF CloseCloses, CloseEnds, Closed, StopCloses, StopEnds
      <4>2. \A k \in Jobs : at'[k] # "stops"
        BY <1>1, <2>1, <4>1 DEF Polls, Turn
      <4>3. QED
        BY <1>3, <4>2
    <3>3. QED
      BY <3>1, <3>2
  <2>5. QED
    BY <1>6, <2>2, <2>3, <2>4 DEF CloseStep
<1>7. CASE ProcessStep
  <2>1. CASE Boot \/ CommandsSet \/ PollingEnds \/ BackoffPasses
    BY <1>2, <2>1 DEF Boot, CommandsSet, PollingEnds, BackoffPasses, vars, jobVars
  <2>2. CASE SchedulerStarts
    BY <1>1, <1>2, <2>2 DEF SchedulerStarts, Queue, vars
  <2>3. CASE CommandsRaise
    <3>1. \A k \in Jobs : at'[k] # "stops"
      BY <2>3 DEF CommandsRaise, StopRuns
    <3>2. QED
      BY <1>3, <3>1
  <2>4. CASE Ends
    BY <1>3, <2>4 DEF Ends
  <2>5. QED
    BY <1>7, <2>1, <2>2, <2>3, <2>4 DEF ProcessStep
<1>8. CASE DayBegins \/ DayEnds
  BY <1>1, <1>2, <1>8 DEF DayBegins, DayEnds, Triggers, Queue, vars
<1>9. CASE ClientStep
  BY <1>2, <1>9 DEF ClientStep, CallStep, ListenerStep, CallBegins, OwnCallEnds, SharedCallEnds,
     ListenerTests, StreamFails, BackoffEnds, jobVars
<1>10. CASE UNCHANGED svars
  BY <1>2, <1>10 DEF svars, vars, jobVars
<1>11. QED
  BY <1>5, <1>6, <1>7, <1>8, <1>9, <1>10 DEF ServiceNext, JobStep

\* Through every missed trigger, failure and restart.
THEOREM LockHoldersGoOn == ServiceSpec => []LockHolderGoesOn
<1>1. ServiceInit => HalfStopped
  BY DEF ServiceInit, HalfStopped
<1>2. ASSUME ServiceInv, HalfStopped PROVE LockHolderGoesOn
  <2>1. SUFFICES ASSUME lockq # <<>>, NEW j, j = Head(lockq)
                 PROVE  \/ at[j] = "asks"
                        \/ j \in Openers /\ at[j] = "reads" /\ ~running /\ service = "down"
                        \/ j \in Openers /\ at[j] = "refreshes" /\ running
                        \/ j \in Closers /\ at[j] = "stops" /\ running
                             /\ service \in {"cancelled", "closing"}
    BY DEF LockHolderGoesOn
  <2>2. /\ lockq \in Seq(Jobs)
        /\ \A k \in Jobs : at[k] # "idle" <=> \E i \in 1 .. Len(lockq) : lockq[i] = k
    BY <1>2 DEF ServiceInv, QueueInv
  <2>3. 1 \in 1 .. Len(lockq) /\ lockq[1] = j /\ j \in Jobs
    BY <2>1, <2>2
  <2>4. at[j] \in Stages /\ at[j] # "idle"
    BY <1>2, <2>2, <2>3 DEF ServiceInv, TypeInv
  <2>5. QED
    BY <1>2, <2>3, <2>4 DEF ServiceInv, StageInv, FlagInv, HalfStopped, Stages, Jobs
<1>3. QED
  BY <1>1, <1>2, ServiceSpecInv, NextHalfStopped, PTL DEF ServiceSpec

=============================================================================
