------------------------------ MODULE Service ------------------------------
(***************************************************************************)
(* main.py: the life of the process. start() boots, catches up with a      *)
(* session that has begun and polls Telegram for ever; cron jobs open and  *)
(* close the client of the session (ApiHandle) under one lock, which       *)
(* asyncio gives to its waiters in order; a boot that fails runs stop().   *)
(*                                                                         *)
(* Any await of a job may raise. The scheduler lets a trigger go when it   *)
(* is late or the job still runs.                                          *)
(***************************************************************************)
EXTENDS ApiHandle, Sequences

CONSTANTS
    MaxBoots,   \* bound: starts of the process
    MaxDays     \* bound: trading days

ASSUME ServiceAssumption == MaxBoots \in Nat /\ MaxDays \in Nat

Openers == {"start", "open"}    \* _ensure_tclient_started: called by start(), by cron
Closers == {"close", "stop"}    \* _ensure_tclient_stopped: called by cron, by stop()
Jobs == Openers \cup Closers
Cron == {"open", "close"}

VARIABLES
    proc,       \* "off", "boot", "catchup", "commands", "polling", "backoff", "stopping"
    boots,      \* starts of the process so far
    time,       \* "night" or "session"
    days,       \* trading days so far
    lockq,      \* _tclient_lock: the job that holds it, then those that wait
    at,         \* at[j]: "idle", "asks" (for the lock), "reads", "refreshes", "stops"
    running,    \* _tclient_running
    refreshed,  \* history: the refresh of the open client has succeeded
    fault       \* history: a job of this session or night was missed or has failed

jobVars == <<lockq, at, running, refreshed, fault>>
clockVars == <<time, days>>
svars == <<vars, proc, boots, clockVars, jobVars>>

Scheduled == proc \in {"catchup", "commands", "polling", "backoff"}

\* Mutant: no lock.
TurnAtOnce(j) == at[j] # "idle"

Turn(j) == lockq # <<>> /\ Head(lockq) = j

-----------------------------------------------------------------------------
(* Ends of a job, and of start() *)

\* The lock is released; start() goes on to its commands.
Polls(j) ==
    /\ proc' = IF j = "start" THEN "commands" ELSE proc
    /\ lockq' = Tail(lockq)
    /\ at' = [at EXCEPT ![j] = "idle"]

\* stop(): the scheduler cancels the jobs it runs, then the lock is asked for.
StopRuns ==
    /\ proc' = "stopping"
    /\ lockq' = <<"stop">>
    /\ at' = [[j \in Jobs |-> "idle"] EXCEPT !["stop"] = "asks"]

Raises(j) ==
    /\ fault' = TRUE
    /\ IF j = "start" THEN StopRuns ELSE Polls(j)

-----------------------------------------------------------------------------
(* _ensure_tclient_started *)

OpenSkips(j) ==
    /\ Turn(j) /\ at[j] = "asks" /\ running
    /\ Polls(j)
    /\ UNCHANGED <<vars, boots, clockVars, running, refreshed, fault>>

\* Mutant: the flag is not looked at.
OpenReadsAlways(j) ==
    /\ Turn(j) /\ at[j] = "asks"
    /\ at' = [at EXCEPT ![j] = "reads"]
    /\ UNCHANGED <<vars, proc, boots, clockVars, lockq, running, refreshed, fault>>

\* The flag is down: the accounts are read.
OpenReads(j) ==
    /\ Turn(j) /\ at[j] = "asks" /\ ~running
    /\ at' = [at EXCEPT ![j] = "reads"]
    /\ UNCHANGED <<vars, proc, boots, clockVars, lockq, running, refreshed, fault>>

\* Mutant: the lock is not released when the accounts cannot be read.
OpenReadRaisesHolding(j) ==
    /\ Turn(j) /\ at[j] = "reads"
    /\ fault' = TRUE
    /\ at' = [at EXCEPT ![j] = "idle"]
    /\ UNCHANGED <<vars, proc, boots, clockVars, lockq, running, refreshed>>

OpenReadRaises(j) ==
    /\ Turn(j) /\ at[j] = "reads"
    /\ Raises(j)
    /\ UNCHANGED <<vars, boots, clockVars, running, refreshed>>

\* The client is started and the flag raised without an await between them.
OpenStarts(j) ==
    /\ Turn(j) /\ at[j] = "reads"
    /\ Start
    /\ running' = TRUE
    /\ at' = [at EXCEPT ![j] = "refreshes"]
    /\ UNCHANGED <<proc, boots, clockVars, lockq, refreshed, fault>>

RefreshEnds(j) ==
    /\ Turn(j) /\ at[j] = "refreshes"
    /\ Polls(j)
    /\ refreshed' = TRUE
    /\ UNCHANGED <<vars, boots, clockVars, running, fault>>

\* The flag stays up: no other job of the day refreshes.
RefreshRaises(j) ==
    /\ Turn(j) /\ at[j] = "refreshes"
    /\ Raises(j)
    /\ UNCHANGED <<vars, boots, clockVars, running, refreshed>>

-----------------------------------------------------------------------------
(* _ensure_tclient_stopped *)

CloseSkips(j) ==
    /\ Turn(j) /\ at[j] = "asks" /\ ~running
    /\ Polls(j)
    /\ UNCHANGED <<vars, boots, clockVars, running, refreshed, fault>>

\* A stop() that raised before has left the streams cancelled.
CloseCancels(j) ==
    /\ Turn(j) /\ at[j] = "asks" /\ running
    /\ StopCancels \/ (service # "up" /\ UNCHANGED vars)
    /\ at' = [at EXCEPT ![j] = "stops"]
    /\ UNCHANGED <<proc, boots, clockVars, lockq, running, refreshed, fault>>

\* Mutant: the flag is left up.
ClosedKeepsFlag(j) ==
    /\ Polls(j)
    /\ refreshed' = FALSE
    /\ UNCHANGED running

Closed(j) ==
    /\ Polls(j)
    /\ running' = FALSE /\ refreshed' = FALSE

CloseCloses(j) ==
    /\ Turn(j) /\ at[j] = "stops"
    /\ StopCloses
    /\ \/ service' = "down" /\ Closed(j)
       \/ service' # "down" /\ UNCHANGED <<proc, lockq, at, running, refreshed>>
    /\ UNCHANGED <<boots, clockVars, fault>>

CloseEnds(j) ==
    /\ Turn(j) /\ at[j] = "stops"
    /\ StopEnds
    /\ Closed(j)
    /\ UNCHANGED <<boots, clockVars, fault>>

\* The cancelled task or the channel raises: the flag stays up, the next close goes on.
CloseRaises(j) ==
    /\ Turn(j) /\ at[j] = "stops" /\ service = "cancelled"
    /\ Raises(j)
    /\ UNCHANGED <<vars, boots, clockVars, running, refreshed>>

-----------------------------------------------------------------------------
(* The clock and the scheduler *)

Queue(j) == lockq' = Append(lockq, j) /\ at' = [at EXCEPT ![j] = "asks"]

\* The trigger of j: fired, or missed.
Triggers(j) ==
    IF ~Scheduled
    THEN UNCHANGED <<lockq, at, fault>>
    ELSE \/ /\ at[j] = "idle"
            /\ Queue(j)
            /\ fault' = (j = "open" /\ service # "down" /\ at["close"] = "idle")
         \/ /\ fault' = TRUE
            /\ UNCHANGED <<lockq, at>>

DayBegins ==
    /\ time = "night" /\ days < MaxDays
    /\ time' = "session" /\ days' = days + 1
    /\ Triggers("open")
    /\ UNCHANGED <<vars, proc, boots, running, refreshed>>

DayEnds ==
    /\ time = "session"
    /\ time' = "night"
    /\ Triggers("close")
    /\ UNCHANGED <<vars, proc, boots, days, running, refreshed>>

-----------------------------------------------------------------------------
(* start(), the polling loop and the end of the process *)

Boot ==
    /\ proc = "off" /\ boots < MaxBoots
    /\ proc' = "boot" /\ boots' = boots + 1
    /\ UNCHANGED <<vars, clockVars, jobVars>>

\* Mutant: a session that has begun is not caught up with.
SchedulerStartsPlainly ==
    /\ proc = "boot"
    /\ proc' = "commands"
    /\ UNCHANGED <<vars, boots, clockVars, jobVars>>

\* The schema, the bus and Redis are there. Between the start of the scheduler and
\* the lock nothing is awaited: the first to ask is start() itself.
SchedulerStarts ==
    /\ proc = "boot"
    /\ IF time = "session"
       THEN proc' = "catchup" /\ Queue("start")
       ELSE proc' = "commands" /\ UNCHANGED <<lockq, at>>
    /\ UNCHANGED <<vars, boots, clockVars, running, refreshed, fault>>

CommandsSet ==
    /\ proc = "commands"
    /\ proc' = "polling"
    /\ UNCHANGED <<vars, boots, clockVars, jobVars>>

CommandsRaise ==
    /\ proc = "commands"
    /\ StopRuns
    /\ UNCHANGED <<vars, boots, clockVars, running, refreshed, fault>>

\* Whatever ends the polling, a signal to the process included, it begins again.
PollingEnds ==
    /\ proc = "polling"
    /\ proc' \in {"polling", "backoff"}
    /\ UNCHANGED <<vars, boots, clockVars, jobVars>>

BackoffPasses ==
    /\ proc = "backoff"
    /\ proc' = "polling"
    /\ UNCHANGED <<vars, boots, clockVars, jobVars>>

\* A boot fails, stop() has been through, or the process is killed.
Ends ==
    /\ proc # "off"
    /\ proc' = "off"
    /\ Exit
    /\ lockq' = <<>> /\ at' = [j \in Jobs |-> "idle"]
    /\ running' = FALSE /\ refreshed' = FALSE /\ fault' = FALSE
    /\ UNCHANGED <<boots, clockVars>>

-----------------------------------------------------------------------------

ServiceInit ==
    /\ Init
    /\ proc = "off" /\ boots = 0
    /\ time = "night" /\ days = 0
    /\ lockq = <<>> /\ at = [j \in Jobs |-> "idle"]
    /\ running = FALSE /\ refreshed = FALSE /\ fault = FALSE

OpenStep(j) == OpenSkips(j) \/ OpenReads(j) \/ OpenReadRaises(j) \/ OpenStarts(j)
               \/ RefreshEnds(j) \/ RefreshRaises(j)
CloseStep(j) == CloseSkips(j) \/ CloseCancels(j) \/ CloseCloses(j) \/ CloseEnds(j)
                \/ CloseRaises(j)
JobStep == (\E j \in Openers : OpenStep(j)) \/ (\E j \in Closers : CloseStep(j))
ProcessStep == \/ Boot \/ SchedulerStarts \/ CommandsSet \/ CommandsRaise
               \/ PollingEnds \/ BackoffPasses \/ Ends

\* Calls and the market listener of a running process.
ClientStep ==
    /\ proc # "off"
    /\ CallStep \/ ListenerStep
    /\ UNCHANGED <<proc, boots, clockVars, jobVars>>

ServiceNext == JobStep \/ ProcessStep \/ DayBegins \/ DayEnds \/ ClientStep

\* The awaits of a job end, with a result or an exception.
ServiceSpec == ServiceInit /\ [][ServiceNext]_svars /\ WF_svars(JobStep)

-----------------------------------------------------------------------------
(* Properties *)

\* The variables keep their types; a job is in the queue of the lock once, while it runs.
ServiceTypeOK ==
    /\ TypeOK
    /\ proc \in {"off", "boot", "catchup", "commands", "polling", "backoff", "stopping"}
    /\ boots \in 0 .. MaxBoots /\ days \in 0 .. MaxDays
    /\ time \in {"night", "session"}
    /\ at \in [Jobs -> {"idle", "asks", "reads", "refreshes", "stops"}]
    /\ lockq \in Seq(Jobs)
    /\ \A j \in Jobs : at[j] # "idle" <=> \E i \in 1 .. Len(lockq) : lockq[i] = j
    /\ \A i, k \in 1 .. Len(lockq) : lockq[i] = lockq[k] => i = k
    /\ running \in BOOLEAN /\ refreshed \in BOOLEAN /\ fault \in BOOLEAN

\* Whatever the order of jobs, failures and restarts, the client is used as ApiHandle
\* has it: it is started only when it is down, and stopped one step after the other.
ClientSpec == Spec

\* Once the jobs of the evening are through, and none was missed or raised, nothing
\* of the client is left: no stream runs through the night.
NightIsQuiet == time = "night" /\ lockq = <<>> /\ ~fault => service = "down" /\ ~running

\* Once the jobs of the morning or of a restart are through, and none was missed or
\* raised, the session is watched with refreshed levels. A fault of the day before
\* that a close job has made good does not count.
DayIsWatched ==
    time = "session" /\ Scheduled /\ lockq = <<>> /\ ~fault
        => service = "up" /\ running /\ refreshed

\* A job that asks for the lock is through some time: none waits for ever behind
\* one that has failed.
JobsEnd == \A j \in Jobs : at[j] # "idle" ~> at[j] = "idle"

=============================================================================
