---------------------------- MODULE StreamServer ----------------------------
(***************************************************************************)
(* The streaming of events to UI clients: the registry of connections      *)
(* (engine/websocket_stream.py) and the handler that serves each of them   *)
(* (engine/api_server_ws.py).                                              *)
(*                                                                         *)
(* handle_connection() runs once per socket, under an id the client may    *)
(* choose and use again when it reconnects.  All tables are changed under  *)
(* one lock, so a sweep over the connections is one action although it     *)
(* awaits every send; the connections that failed are unregistered later,  *)
(* one by one.  A send fails if and only if the socket is broken.          *)
(*                                                                         *)
(* The three filters of a connection are one set of topics, and empty      *)
(* means all.  Left out: what events say, welcome and error texts.         *)
(***************************************************************************)
EXTENDS Integers, FiniteSets

CONSTANTS
    Ids,            \* connection ids
    Topics,         \* event types, job ids and session ids
    MaxConnections, \* max_connections
    RateLimit,      \* rate_limit_per_second
    MaxSockets,     \* bound: connections ever accepted
    MaxEvents,      \* bound: events ever queued
    MaxBeats        \* bound: rounds of the heartbeat

Sockets == 1..MaxSockets
None == 0
Sweepers == {"events", "heartbeat"}

VARIABLES
    running,        \* _running
    conn,           \* _connections: id -> socket or None
    wants,          \* the subscriptions of an id
    aged,           \* ids whose _last_activity is older than connection_timeout
    active,         \* the keys of _last_activity
    count,          \* _message_count
    id,             \* the id a socket is served under
    handler,        \* where handle_connection() is, for each socket
    broken,         \* sockets the client has left
    failed,         \* ids a sweep has still to unregister
    found,          \* history: sockets a sweep has found dead or silent
    shared,         \* history: sockets that had to share their id with another use of it
    queue,          \* topics of the queued events
    events, beats   \* counts for the bounds

tables == <<conn, wants, active, count>>
handlers == <<id, handler, broken>>
sweeps == <<failed, found, queue, events, beats>>
vars == <<running, shared, tables, aged, handlers, sweeps>>

Registered == {c \in Ids : conn[c] # None}
Living == {"accepted", "welcome", "loop", "leaving"}

TypeOK ==
    /\ running \in BOOLEAN
    /\ conn \in [Ids -> Sockets \union {None}]
    /\ wants \in [Ids -> SUBSET Topics]
    /\ aged \subseteq Ids /\ active \subseteq Ids
    /\ count \in [Ids -> 0..RateLimit + 1]
    /\ id \in [Sockets -> Ids]
    /\ handler \in [Sockets -> Living \union {"none", "ended"}]
    /\ broken \subseteq Sockets
    /\ failed \in [Sweepers -> SUBSET Ids] /\ found \subseteq Sockets
    /\ shared \subseteq Sockets
    /\ queue \subseteq Topics
    /\ events \in 0..MaxEvents /\ beats \in 0..MaxBeats

Init ==
    /\ running = TRUE /\ shared = {}
    /\ conn = [c \in Ids |-> None] /\ wants = [c \in Ids |-> {}]
    /\ aged = {} /\ active = {} /\ count = [c \in Ids |-> 0]
    /\ id \in [Sockets -> Ids]
    /\ handler = [s \in Sockets |-> "none"] /\ broken = {}
    /\ failed = [p \in Sweepers |-> {}] /\ found = {}
    /\ queue = {} /\ events = 0 /\ beats = 0

-----------------------------------------------------------------------------
(* The registry.                                                           *)

\* A bug Register could have: it counts before it waits for the lock.
RegisterUnchecked(c, s) ==
    /\ conn' = [conn EXCEPT ![c] = s]
    /\ wants' = [wants EXCEPT ![c] = {}]
    /\ active' = active \union {c} /\ aged' = aged \ {c}
    /\ count' = [count EXCEPT ![c] = 0]

Register(c, s) ==
    /\ Cardinality(Registered) < MaxConnections
    /\ conn' = [conn EXCEPT ![c] = s]
    /\ wants' = [wants EXCEPT ![c] = {}]
    /\ active' = active \union {c} /\ aged' = aged \ {c}
    /\ count' = [count EXCEPT ![c] = 0]

\* A bug Unregister could have: it forgets the table of sockets.
UnregisterHalf(c) ==
    /\ wants' = [wants EXCEPT ![c] = {}]
    /\ active' = active \ {c} /\ aged' = aged \ {c}
    /\ count' = [count EXCEPT ![c] = 0]
    /\ UNCHANGED conn

Unregister(c) ==
    /\ conn' = [conn EXCEPT ![c] = None]
    /\ wants' = [wants EXCEPT ![c] = {}]
    /\ active' = active \ {c} /\ aged' = aged \ {c}
    /\ count' = [count EXCEPT ![c] = 0]

-----------------------------------------------------------------------------
(* handle_connection().                                                    *)

Goto(s, there) == handler' = [handler EXCEPT ![s] = there]

Accept(s) ==
    /\ handler[s] = "none" /\ \A r \in Sockets : r < s => handler[r] # "none"
    /\ Goto(s, "accepted")
    /\ UNCHANGED <<running, shared, tables, aged, id, broken, sweeps>>

\* Another socket is served under an id, or a sweep has still to unregister it.
Uses(r, c) == id[r] = c /\ handler[r] \in {"welcome", "loop", "leaving"}
Rivals(s) == {r \in Sockets \ {s} : Uses(r, id[s])}
Awaited(s) == \E p \in Sweepers : id[s] \in failed[p]

\* At capacity the socket is closed and nothing else happens.
Admit(s) ==
    /\ handler[s] = "accepted"
    /\ \/ /\ Register(id[s], s)
          /\ Goto(s, "welcome")
          /\ shared' = IF Rivals(s) # {} \/ Awaited(s) THEN shared \union {s} \union Rivals(s)
                       ELSE shared
       \/ /\ Cardinality(Registered) >= MaxConnections
          /\ Goto(s, "ended")
          /\ UNCHANGED <<tables, aged, shared>>
    /\ UNCHANGED <<running, id, broken, sweeps>>

Welcome(s) ==
    /\ handler[s] = "welcome"
    /\ Goto(s, IF s \in broken THEN "leaving" ELSE "loop")
    /\ UNCHANGED <<running, shared, tables, aged, id, broken, sweeps>>

\* What subscribe and unsubscribe messages may make of a client's topics.
Wishes == SUBSET Topics

Subscribe(s) ==
    /\ handler[s] = "loop" /\ s \notin broken
    /\ conn[id[s]] # None
    /\ \E ts \in Wishes : wants' = [wants EXCEPT ![id[s]] = ts]
    /\ UNCHANGED <<running, shared, conn, aged, active, count, handlers, sweeps>>

\* Recorded for an id that is not registered, too.
Pong(s) ==
    /\ handler[s] = "loop" /\ s \notin broken
    /\ active' = active \union {id[s]} /\ aged' = aged \ {id[s]}
    /\ UNCHANGED <<running, shared, conn, wants, count, handlers, sweeps>>

\* WebSocketDisconnect, or an error that cannot be reported.
Disconnected(s) ==
    /\ handler[s] = "loop" /\ s \in broken
    /\ Goto(s, "leaving")
    /\ UNCHANGED <<running, shared, tables, aged, id, broken, sweeps>>

\* The finally clause unregisters the id, whoever has it.
Leave(s) ==
    /\ handler[s] = "leaving"
    /\ Unregister(id[s])
    /\ Goto(s, "ended")
    /\ UNCHANGED <<running, shared, id, broken, sweeps>>

-----------------------------------------------------------------------------
(* broadcast_event(), the event processor and the heartbeat.               *)

QueueEvent ==
    /\ events < MaxEvents
    /\ events' = events + 1
    /\ \E t \in Topics \ queue : queue' = queue \union {t}
    /\ UNCHANGED <<running, shared, tables, aged, handlers, failed, found, beats>>

Interested(c, t) == (wants[c] = {} \/ t \in wants[c]) /\ count[c] <= RateLimit

Broadcast ==
    /\ running /\ failed["events"] = {}
    /\ \E t \in queue :
          LET to == {c \in Registered : Interested(c, t)}
              lost == {c \in to : conn[c] \in broken} IN
          /\ queue' = queue \ {t}
          /\ count' = [c \in Ids |-> IF c \in to \ lost THEN count[c] + 1 ELSE count[c]]
          /\ active' = active \union (to \ lost) /\ aged' = aged \ (to \ lost)
          /\ failed' = [failed EXCEPT !["events"] = lost]
          /\ found' = found \union {conn[c] : c \in lost}
    /\ UNCHANGED <<running, shared, conn, wants, handlers, events, beats>>

\* A ping for everybody whose last activity is not too long ago.
Heartbeat ==
    /\ running /\ failed["heartbeat"] = {} /\ beats < MaxBeats
    /\ beats' = beats + 1
    /\ LET silent == {c \in Registered : c \in aged \/ c \notin active}
           pinged == Registered \ silent
           lost == silent \union {c \in pinged : conn[c] \in broken} IN
       /\ count' = [c \in Ids |-> IF c \in pinged THEN 0 ELSE count[c]]
       /\ failed' = [failed EXCEPT !["heartbeat"] = lost]
       /\ found' = found \union {conn[c] : c \in lost}
    /\ UNCHANGED <<running, shared, conn, wants, active, aged, handlers, queue, events>>

\* Behind the sweep, and no longer under its lock.
CleanUp(p) ==
    /\ \E c \in failed[p] :
          /\ Unregister(c)
          /\ failed' = [failed EXCEPT ![p] = @ \ {c}]
    /\ UNCHANGED <<running, shared, handlers, found, queue, events, beats>>

\* stop() cancels the heartbeat, closes the sockets and clears three of the tables.
Stop ==
    /\ running
    /\ running' = FALSE
    /\ broken' = broken \union {conn[c] : c \in Registered}
    /\ conn' = [c \in Ids |-> None] /\ wants' = [c \in Ids |-> {}]
    /\ failed' = [failed EXCEPT !["heartbeat"] = {}]
    /\ UNCHANGED <<shared, active, aged, count, id, handler, found, queue, events, beats>>

-----------------------------------------------------------------------------
(* Clients and the clock.                                                  *)

Break(s) ==
    /\ handler[s] \in Living /\ s \notin broken
    /\ broken' = broken \union {s}
    /\ UNCHANGED <<running, shared, tables, aged, id, handler, sweeps>>

Age(c) ==
    /\ c \in active \ aged
    /\ aged' = aged \union {c}
    /\ UNCHANGED <<running, shared, tables, handlers, sweeps>>

Rest ==
    /\ \A s \in Sockets : handler[s] = "ended"
    /\ UNCHANGED vars

HandlerStep(s) == Admit(s) \/ Welcome(s) \/ Disconnected(s) \/ Leave(s)

Next ==
    \/ \E s \in Sockets : Accept(s) \/ HandlerStep(s) \/ Subscribe(s) \/ Pong(s) \/ Break(s)
    \/ QueueEvent \/ Broadcast \/ Heartbeat
    \/ \E p \in Sweepers : CleanUp(p)
    \/ Stop
    \/ \E c \in Ids : Age(c)
    \/ Rest

Spec == Init /\ [][Next]_vars

-----------------------------------------------------------------------------
(* Properties.                                                             *)

\* A socket in the registry has a handler that will take it out again: connections
\* that end, fail in a sweep, time out or are refused leave nothing behind that
\* counts against max_connections for ever.
RegisteredIsServed ==
    \A c \in Registered : handler[conn[c]] \in {"welcome", "loop", "leaving"}

\* Connections that register at the same time, or while others leave, are never more than
\* max_connections.
CapacityKept == Cardinality(Registered) <= MaxConnections

\* A client that is being served is in the registry, and hence gets the events, until a
\* sweep finds it dead or silent: also one that has come back under its id, if the handler
\* of its earlier socket and the sweep that found that one were through when it registered.
ServedIsRegistered ==
    running =>
        \A s \in Sockets \ (found \union shared) : handler[s] = "loop" => conn[id[s]] = s

\* "Automatic reconnection support" (docstring of WebSocketStreamManager): the same for
\* the last to come under an id, whatever is left of the earlier ones.
ReconnectedIsRegistered ==
    running =>
        \A s \in Sockets :
            /\ handler[s] = "loop" /\ s \notin found
            /\ \A r \in Sockets : r > s => handler[r] = "none"
            => conn[id[s]] = s
=============================================================================
