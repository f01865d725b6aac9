-------------------------- MODULE WebSocketManager --------------------------
(***************************************************************************)
(* The connection to ComfyUI's WebSocket (engine/websocket_manager.py).    *)
(*                                                                         *)
(* A call of connect() that succeeds creates a receive task; the receive   *)
(* task of a lost connection creates a reconnect task and ends; that task  *)
(* calls connect() again.  At each moment one task of such a chain is      *)
(* alive, so a chain is modelled as one driver that changes its stage.     *)
(* The application is a single task: it calls connect(), as often as it    *)
(* likes, and at last disconnect().  An action is what a task does between *)
(* two awaits.                                                             *)
(*                                                                         *)
(* aiohttp is external: it dials, delivers messages and closes sockets;    *)
(* with autoping it answers PING and consumes PONG itself, so the receive  *)
(* loop never sees either.  Two receivers on one socket are an error.      *)
(* Left out: heartbeat tasks (they send pings and change nothing else), the *)
(* handlers of messages, and the queue of outgoing ones.                   *)
(***************************************************************************)
EXTENDS Integers

CONSTANTS
    Eager,          \* the application calls connect() during a reconnection, too
    MaxCalls,       \* bound: calls of connect() by the application
    MaxAttempts,    \* WSConfig.reconnect_max_attempts
    MaxSockets,     \* bound: connections that are ever established
    MaxLosses       \* bound: connections that drop or fall silent

ASSUME WebSocketAssumption ==
    /\ Eager \in BOOLEAN
    /\ {MaxCalls, MaxAttempts, MaxSockets, MaxLosses} \subseteq Nat

Drivers == 1..MaxCalls
Sockets == 1..MaxSockets

VARIABLES
    state,          \* _state
    shutdown,       \* _shutdown
    attempts,       \* _connection_attempts
    ws,             \* _ws, 0 for None
    receiveTask,    \* the driver _receive_task belongs to, 0 for None
    reconnectTask,  \* the driver _reconnect_task belongs to, 0 for None
    stage,          \* where each driver is
    again,          \* the driver calls connect() from _reconnect()
    reading,        \* the socket each driver awaits a message from
    socket,         \* the sockets as aiohttp knows them
    aged,           \* _last_pong is older than twice heartbeat_timeout
    stop,           \* where disconnect() is
    toCancel,       \* the tasks disconnect() has still to cancel
    losses          \* connections lost so far

manager == <<state, shutdown, attempts, ws, receiveTask, reconnectTask>>
drivers == <<stage, again, reading>>
outside == <<socket, aged, losses>>
closing == <<stop, toCancel>>
vars == <<manager, drivers, outside, closing>>

WSState == {"DISCONNECTED", "CONNECTING", "CONNECTED", "RECONNECTING", "FAILED"}
Stage == {"new", "dialing", "connected", "denied", "loop", "receiving", "begin", "asleep", "ended"}
Listening == {"loop", "receiving"}

TypeOK ==
    /\ state \in WSState
    /\ shutdown \in BOOLEAN
    /\ attempts \in 0..MaxAttempts
    /\ ws \in Sockets \union {0}
    /\ {receiveTask, reconnectTask} \subseteq Drivers \union {0}
    /\ stage \in [Drivers -> Stage]
    /\ again \in [Drivers -> BOOLEAN]
    /\ reading \in [Drivers -> Sockets \union {0}]
    /\ socket \in [Sockets -> {"unused", "open", "dropped", "closed"}]
    /\ aged \in BOOLEAN
    /\ stop \in {"no", "receive", "reconnect", "close", "closing", "done"}
    /\ toCancel \in [receive : Drivers \union {0}, reconnect : Drivers \union {0}]
    /\ losses \in 0..MaxLosses

Init ==
    /\ state = "DISCONNECTED" /\ shutdown = FALSE /\ attempts = 0 /\ ws = 0
    /\ receiveTask = 0 /\ reconnectTask = 0
    /\ stage = [d \in Drivers |-> "new"]
    /\ again = [d \in Drivers |-> FALSE]
    /\ reading = [d \in Drivers |-> 0]
    /\ socket = [s \in Sockets |-> "unused"]
    /\ aged = FALSE /\ losses = 0
    /\ stop = "no" /\ toCancel = [receive |-> 0, reconnect |-> 0]

At(d, here) == stage[d] = here
Goto(d, there) == stage' = [stage EXCEPT ![d] = there]

-----------------------------------------------------------------------------
(* connect().                                                              *)

\* The application waits for its call of connect().
Waiting == \E d \in Drivers : ~again[d] /\ stage[d] \in {"dialing", "connected"}

\* The lock is never held over an await.  Whoever finds the state CONNECTING is
\* told True, whatever becomes of the attempt under way.
Enter(d) ==
    IF state \in {"CONNECTED", "CONNECTING"}
    THEN Goto(d, "ended") /\ UNCHANGED state
    ELSE Goto(d, "dialing") /\ state' = "CONNECTING"

\* The manager is on its way to a connection.
Busy == \E d \in Drivers : stage[d] \in {"dialing", "begin", "asleep", "denied"}

Connect(d) ==
    /\ At(d, "new") /\ ~Waiting /\ stop = "no"
    /\ Busy => Eager
    /\ Enter(d)
    /\ UNCHANGED <<shutdown, attempts, ws, receiveTask, reconnectTask, again, reading, outside, closing>>

DialSucceeds(d) ==
    /\ At(d, "dialing")
    /\ \E s \in Sockets :
          /\ \A r \in Sockets : socket[r] = "unused" <=> r >= s
          /\ socket' = [socket EXCEPT ![s] = "open"]
          /\ ws' = s
    /\ state' = "CONNECTED" /\ attempts' = 0 /\ aged' = FALSE
    /\ Goto(d, "connected")
    /\ UNCHANGED <<shutdown, receiveTask, reconnectTask, again, reading, losses, closing>>

DialFails(d) ==
    /\ At(d, "dialing")
    /\ state' = "DISCONNECTED"
    /\ Goto(d, IF again[d] THEN "denied" ELSE "ended")
    /\ UNCHANGED <<shutdown, attempts, ws, receiveTask, reconnectTask, again, reading, outside, closing>>

\* The metrics are counted and the tasks created.
StartTasks(d) ==
    /\ At(d, "connected")
    /\ receiveTask' = d
    /\ Goto(d, "loop")
    /\ UNCHANGED <<state, shutdown, attempts, ws, reconnectTask, again, reading, outside, closing>>

-----------------------------------------------------------------------------
(* _receive_loop().                                                        *)

\* Bugs Lost could have: it takes a loss for a shutdown and just ends; it looks at
\* the state, which the loss has not changed yet, before it reconnects.
LostIsTheEnd(d) ==
    /\ state' = "DISCONNECTED"
    /\ Goto(d, "ended")
    /\ reading' = [reading EXCEPT ![d] = 0]
    /\ UNCHANGED <<reconnectTask, again>>

LostUnnoticed(d) ==
    /\ Goto(d, "ended")
    /\ reading' = [reading EXCEPT ![d] = 0]
    /\ UNCHANGED <<state, reconnectTask, again>>

\* Behind the loop.
Lost(d) ==
    /\ IF shutdown
       THEN Goto(d, "ended") /\ UNCHANGED <<state, reconnectTask, again>>
       ELSE /\ state' = "DISCONNECTED" /\ reconnectTask' = d
            /\ Goto(d, "begin")
            /\ again' = [again EXCEPT ![d] = TRUE]
    /\ reading' = [reading EXCEPT ![d] = 0]

\* The loop condition and, if it holds, the call of receive().
Listen(d) ==
    /\ At(d, "loop")
    /\ IF \/ shutdown \/ ws = 0 \/ socket[ws] = "closed"
          \/ \E e \in Drivers : At(e, "receiving") /\ reading[e] = ws
       THEN Lost(d)
       ELSE /\ Goto(d, "receiving")
            /\ reading' = [reading EXCEPT ![d] = ws]
            /\ UNCHANGED <<state, reconnectTask, again>>
    /\ UNCHANGED <<shutdown, attempts, ws, receiveTask, outside, closing>>

\* A message, or a timeout that is not yet taken for a dead connection.
Hear(d) ==
    /\ At(d, "receiving")
    /\ socket[reading[d]] = "open"
    /\ Goto(d, "loop")
    /\ reading' = [reading EXCEPT ![d] = 0]
    /\ UNCHANGED <<manager, again, outside, closing>>

\* The socket is closed, by the server or by disconnect().  A CLOSE message leads
\* back to the loop condition, CLOSED and ERROR end the loop.
HearClose(d) ==
    /\ At(d, "receiving")
    /\ socket[reading[d]] \in {"dropped", "closed"}
    /\ socket' = [socket EXCEPT ![reading[d]] = "closed"]
    /\ \/ Lost(d)
       \/ /\ Goto(d, "loop")
          /\ reading' = [reading EXCEPT ![d] = 0]
          /\ UNCHANGED <<state, reconnectTask, again>>
    /\ UNCHANGED <<shutdown, attempts, ws, receiveTask, aged, losses, closing>>

\* A timeout with an old _last_pong.  The socket is not closed.
HearNothing(d) ==
    /\ At(d, "receiving")
    /\ aged /\ socket[reading[d]] = "open"
    /\ Lost(d)
    /\ UNCHANGED <<shutdown, attempts, ws, receiveTask, outside, closing>>

-----------------------------------------------------------------------------
(* _reconnect().                                                           *)

\* Bugs NextAttempt could have: one attempt less, or one more.
NextAttemptTooFew(d, otherwise) ==
    IF ~shutdown /\ attempts + 1 < MaxAttempts
    THEN Goto(d, "asleep") /\ attempts' = attempts + 1 /\ state' = otherwise
    ELSE Goto(d, "ended") /\ UNCHANGED attempts /\ state' = "FAILED"

NextAttemptTooMany(d, otherwise) ==
    IF ~shutdown /\ attempts <= MaxAttempts
    THEN Goto(d, "asleep") /\ attempts' = attempts + 1 /\ state' = otherwise
    ELSE Goto(d, "ended") /\ UNCHANGED attempts /\ state' = "FAILED"

\* The head of the loop and what is behind it; FAILED is set during a shutdown, too.
NextAttempt(d, otherwise) ==
    IF ~shutdown /\ attempts < MaxAttempts
    THEN Goto(d, "asleep") /\ attempts' = attempts + 1 /\ state' = otherwise
    ELSE Goto(d, "ended") /\ UNCHANGED attempts /\ state' = "FAILED"

Reconnect(d) ==
    /\ \/ At(d, "begin") /\ NextAttempt(d, "RECONNECTING")
       \/ At(d, "denied") /\ NextAttempt(d, state)
    /\ UNCHANGED <<shutdown, ws, receiveTask, reconnectTask, again, reading, outside, closing>>

\* The delay is over.
Wake(d) ==
    /\ At(d, "asleep")
    /\ Enter(d)
    /\ UNCHANGED <<shutdown, attempts, ws, receiveTask, reconnectTask, again, reading, outside, closing>>

-----------------------------------------------------------------------------
(* disconnect().                                                           *)

\* A task that self._receive_task or self._reconnect_task is, and is not done.
LiveReceive(d) == d # 0 /\ stage[d] \in Listening
LiveReconnect(d) ==
    /\ d # 0 /\ again[d]
    /\ stage[d] \in {"begin", "asleep", "denied", "dialing", "connected"}

\* The tasks are looked up once, and the heartbeat task is the first to go.
Disconnect ==
    /\ stop = "no" /\ ~Waiting
    /\ shutdown' = TRUE
    /\ stop' = "receive"
    /\ toCancel' = [receive |-> IF LiveReceive(receiveTask) THEN receiveTask ELSE 0,
                    reconnect |-> IF LiveReconnect(reconnectTask) THEN reconnectTask ELSE 0]
    /\ UNCHANGED <<state, attempts, ws, receiveTask, reconnectTask, drivers, outside>>

\* A cancelled task does nothing any more, not even what is behind its loop.
Cancelled(d, alive) ==
    /\ stage' = [e \in Drivers |-> IF e = d /\ alive THEN "ended" ELSE stage[e]]
    /\ reading' = [e \in Drivers |-> IF e = d /\ alive THEN 0 ELSE reading[e]]

CancelReceive ==
    /\ stop = "receive"
    /\ Cancelled(toCancel.receive, LiveReceive(toCancel.receive))
    /\ stop' = "reconnect"
    /\ UNCHANGED <<manager, again, outside, toCancel>>

\* A bug CancelReconnect could have: it forgets to cancel.
CancelReconnectNot ==
    /\ stop = "reconnect"
    /\ stop' = "close"
    /\ UNCHANGED <<manager, drivers, outside, toCancel>>

CancelReconnect ==
    /\ stop = "reconnect"
    /\ Cancelled(toCancel.reconnect, LiveReconnect(toCancel.reconnect))
    /\ stop' = "close"
    /\ UNCHANGED <<manager, again, outside, toCancel>>

Close ==
    /\ stop = "close"
    /\ socket' = [s \in Sockets |-> IF s = ws THEN "closed" ELSE socket[s]]
    /\ stop' = "closing"
    /\ UNCHANGED <<manager, drivers, aged, losses, toCancel>>

Closed ==
    /\ stop = "closing"
    /\ state' = "DISCONNECTED"
    /\ stop' = "done"
    /\ UNCHANGED <<shutdown, attempts, ws, receiveTask, reconnectTask, drivers, outside, toCancel>>

-----------------------------------------------------------------------------
(* The network and the clock.                                              *)

Lose == losses < MaxLosses /\ losses' = losses + 1

Drop(s) ==
    /\ Lose
    /\ socket[s] = "open"
    /\ socket' = [socket EXCEPT ![s] = "dropped"]
    /\ UNCHANGED <<manager, drivers, aged, closing>>

Age ==
    /\ Lose
    /\ ws # 0 /\ ~aged
    /\ aged' = TRUE
    /\ UNCHANGED <<manager, drivers, socket, closing>>

DriverStep(d) ==
    \/ DialSucceeds(d) \/ DialFails(d) \/ StartTasks(d)
    \/ Listen(d) \/ Hear(d) \/ HearClose(d) \/ HearNothing(d)
    \/ Reconnect(d) \/ Wake(d)

DisconnectStep == CancelReceive \/ CancelReconnect \/ Close \/ Closed

\* Nothing need happen once disconnect() has returned.
Rest == stop = "done" /\ UNCHANGED vars

Next ==
    \/ \E d \in Drivers : Connect(d) \/ DriverStep(d)
    \/ Disconnect \/ DisconnectStep
    \/ \E s \in Sockets : Drop(s)
    \/ Age
    \/ Rest

Spec == Init /\ [][Next]_vars

\* asyncio runs every ready task; dialing, receive() and close() have timeouts.
FairSpec ==
    /\ Spec
    /\ \A d \in Drivers : WF_vars(DriverStep(d))
    /\ WF_vars(DisconnectStep)

-----------------------------------------------------------------------------
(* Properties.                                                             *)

\* A manager that calls itself CONNECTED has a task that listens or is about to:
\* no step of another task leaves a connection nobody would miss when it drops.
ConnectedIsServed ==
    state = "CONNECTED" /\ stop = "no" =>
        \E d \in Drivers : stage[d] \in Listening \union {"connected"}

\* The manager gives up after reconnect_max_attempts failures in a row and for no
\* other reason.
GivesUpLast == state = "FAILED" /\ ~shutdown => attempts = MaxAttempts

\* disconnect() is final, also when it meets a reconnection half done: nothing is
\* connected afterwards, and no task is left that could change that.
DisconnectIsFinal ==
    stop = "done" =>
        /\ state = "DISCONNECTED"
        /\ ws # 0 => socket[ws] = "closed"
        /\ \A d \in Drivers : stage[d] \in {"new", "loop", "ended"}

\* A connection dropped under a manager that has not noticed yet, or has just.
Interrupted ==
    \/ state = "CONNECTED" /\ socket[ws] = "dropped"
    \/ \E d \in Drivers : At(d, "begin")

\* "Auto-reconnection with exponential backoff" (docstring of WebSocketManager): a
\* connection that was lost is established again, unless the attempts run out or
\* disconnect() is called.
AutoReconnects ==
    Interrupted ~>
        \/ state = "CONNECTED" /\ socket[ws] = "open"
        \/ state = "FAILED" \/ shutdown
=============================================================================
