----------------------------- MODULE ApiHandle -----------------------------
(***************************************************************************)
(* clients/tinkoff/client.py: the one attribute TClient._api, shared by    *)
(* the decorator require_api (a temporary client around a call when there  *)
(* is none), by start and stop (the client of the trading session) and by  *)
(* the market listener, which runs as long as the attribute is not None.   *)
(*                                                                         *)
(* Opening a client does not suspend; every call to the broker and every   *)
(* close does.                                                             *)
(***************************************************************************)
EXTENDS Naturals

CONSTANTS
    Calls,      \* tasks that call a method under require_api
    None,       \* no client
    MaxStarts   \* bound: trading sessions, one client each

Sessions == 1 .. MaxStarts
Clients == Calls \cup Sessions

ASSUME ApiHandleAssumption ==
    /\ MaxStarts \in Nat
    /\ None \notin Clients
    /\ Calls \cap Nat = {}

VARIABLES
    api,        \* TClient._api: the client it belongs to, or None
    open,       \* clients whose channel is open
    call,       \* call[c]: "idle", "own" (opened a temporary client) or "shared"
    client,     \* TClient._client, once start() has opened it
    starts,     \* sessions started
    service,    \* TClient as Service drives it: "down", "up", "cancelled", "closing"
    listener,   \* _listen_stream: "none", "top", "stream", "backoff" or "exited"
    clean       \* history: no temporary client was open when the session started

vars == <<api, open, call, client, starts, service, listener, clean>>

TypeOK ==
    /\ api \in Clients \cup {None}
    /\ open \subseteq Clients
    /\ call \in [Calls -> {"idle", "own", "shared"}]
    /\ client \in Sessions \cup {None}
    /\ starts \in 0 .. MaxStarts
    /\ service \in {"down", "up", "cancelled", "closing"}
    /\ listener \in {"none", "top", "stream", "backoff", "exited"}
    /\ clean \in BOOLEAN
    /\ client = None <=> service = "down"

-----------------------------------------------------------------------------
(* require_api *)

CallBegins(c) ==
    /\ call[c] = "idle"
    /\ IF api # None
       THEN /\ call' = [call EXCEPT ![c] = "shared"]
            /\ UNCHANGED <<api, open>>
       ELSE /\ call' = [call EXCEPT ![c] = "own"]
            /\ api' = c
            /\ open' = open \cup {c}
    /\ UNCHANGED <<client, starts, service, listener, clean>>

\* Mutant: no finally around the method.
OwnCallEndsDangling(c) ==
    /\ call[c] = "own"
    /\ call' = [call EXCEPT ![c] = "idle"]
    /\ open' = open \ {c}
    /\ UNCHANGED <<api, client, starts, service, listener, clean>>

\* The method has returned or raised: finally resets the attribute, whatever it
\* holds by now, and the temporary client is closed.
OwnCallEnds(c) ==
    /\ call[c] = "own"
    /\ call' = [call EXCEPT ![c] = "idle"]
    /\ api' = None
    /\ open' = open \ {c}
    /\ UNCHANGED <<client, starts, service, listener, clean>>

\* Mutant: every call resets the attribute.
SharedCallEndsReset(c) ==
    /\ call[c] = "shared"
    /\ call' = [call EXCEPT ![c] = "idle"]
    /\ api' = None
    /\ UNCHANGED <<open, client, starts, service, listener, clean>>

SharedCallEnds(c) ==
    /\ call[c] = "shared"
    /\ call' = [call EXCEPT ![c] = "idle"]
    /\ UNCHANGED <<api, open, client, starts, service, listener, clean>>

-----------------------------------------------------------------------------
(* TClient.start and TClient.stop, called under the lock of Service *)

\* start() does not look at the client it replaces.
Start ==
    /\ starts < MaxStarts
    /\ starts' = starts + 1
    /\ client' = starts'
    /\ api' = starts'
    /\ open' = open \cup {starts'}
    /\ service' = "up"
    /\ listener' = "top"
    /\ clean' = (\A c \in Calls : call[c] # "own")
    /\ UNCHANGED call

\* stop() cancels the stream tasks and waits for them.
StopCancels ==
    /\ service = "up"
    /\ service' = "cancelled"
    /\ listener' = "none"
    /\ UNCHANGED <<api, open, call, client, starts, clean>>

\* Mutant: stop drops the client without closing it.
StopClosesNothing ==
    /\ service = "cancelled"
    /\ service' = "closing"
    /\ UNCHANGED <<open, client, api, call, starts, listener, clean>>

\* The session's client is closed only if the attribute is set.
StopCloses ==
    /\ service = "cancelled"
    /\ IF api # None
       THEN /\ open' = open \ {client}
            /\ service' = "closing"
            /\ UNCHANGED client
       ELSE /\ client' = None
            /\ service' = "down"
            /\ UNCHANGED open
    /\ UNCHANGED <<api, call, starts, listener, clean>>

\* Mutant: stop keeps the closed client.
StopEndsKeepsClient ==
    /\ service = "closing"
    /\ api' = None
    /\ service' = "down"
    /\ UNCHANGED <<open, client, call, starts, listener, clean>>

StopEnds ==
    /\ service = "closing"
    /\ api' = None
    /\ client' = None
    /\ service' = "down"
    /\ UNCHANGED <<open, call, starts, listener, clean>>

\* The process ends, whatever it was doing.
Exit ==
    /\ api' = None /\ open' = {}
    /\ call' = [c \in Calls |-> "idle"]
    /\ client' = None /\ service' = "down" /\ listener' = "none"
    /\ clean' = FALSE
    /\ UNCHANGED starts

-----------------------------------------------------------------------------
(* _listen_stream *)

ListenerTests ==
    /\ listener = "top"
    /\ listener' = IF api # None THEN "stream" ELSE "exited"
    /\ UNCHANGED <<api, open, call, client, starts, service, clean>>

StreamFails ==
    /\ listener = "stream"
    /\ listener' = "backoff"
    /\ UNCHANGED <<api, open, call, client, starts, service, clean>>

BackoffEnds ==
    /\ listener = "backoff"
    /\ listener' = "top"
    /\ UNCHANGED <<api, open, call, client, starts, service, clean>>

-----------------------------------------------------------------------------

Init ==
    /\ api = None
    /\ open = {}
    /\ call = [c \in Calls |-> "idle"]
    /\ client = None
    /\ starts = 0
    /\ service = "down"
    /\ listener = "none"
    /\ clean = FALSE

CallStep == \E c \in Calls : CallBegins(c) \/ OwnCallEnds(c) \/ SharedCallEnds(c)
\* Service starts the client only when it is down: see ClientSpec in Service.
ServiceStep == (service = "down" /\ Start) \/ StopCancels \/ StopCloses \/ StopEnds \/ Exit
ListenerStep == ListenerTests \/ StreamFails \/ BackoffEnds

Next == CallStep \/ ServiceStep \/ ListenerStep

Spec == Init /\ [][Next]_vars

-----------------------------------------------------------------------------
(* Properties *)

\* The attribute never outlives its client: what a call finds there is open, unless
\* stop() is closing it at this moment.
ApiIsOpen == api # None => api \in open \/ (service = "closing" /\ api = client)

\* A session that no temporary client reached into keeps its API and its listener:
\* the stream may fail and come back any number of times.
CleanSessionKeepsApi == service = "up" /\ clean => api = client /\ listener # "exited"

\* stop closes the client of such a session: no channel to the broker stays behind.
CleanSessionIsClosed == service = "down" /\ clean => starts \notin open

\* README.md:15, "connects to the stream of market data and constantly tracks
\* prices": during a session the listener runs.
ListenerRuns == service = "up" => listener # "exited"

=============================================================================
