--------------------------- MODULE WebSocketProofs ---------------------------
(***************************************************************************)
(* Proofs about WebSocketManager, for any number of calls of connect(), of *)
(* attempts, sockets and losses: the types, that a connection is served,   *)
(* and that disconnect() is final.                                         *)
(*                                                                         *)
(* That disconnect() is final needs an application that does not call      *)
(* connect() during a reconnection (~Eager).  Then one driver is active at *)
(* a time (OneActive): connect() does nothing in a manager that is         *)
(* CONNECTED, and a driver that listens is one in a manager that is        *)
(* (StateFits).  Hence _receive_task and _reconnect_task name all there is *)
(* to cancel (TasksNamed).                                                 *)
(***************************************************************************)
EXTENDS WebSocketManager, TLAPS

\* Where a driver is part of its chain, and where it is the task of _reconnect().
Serving == {"connected", "loop", "receiving"}
Active(d) == stage[d] \notin {"new", "ended"}
Returning == {"begin", "asleep", "denied", "dialing", "connected"}

Flagged == shutdown <=> stop # "no"

OneActive == \A d, e \in Drivers : Active(d) /\ Active(e) => d = e

\* What the state says of a driver that is active.
Fits(d) ==
    /\ stage[d] = "dialing" => state = "CONNECTING"
    /\ stage[d] \in Serving => state = "CONNECTED"
    /\ stage[d] \in {"begin", "denied"} => state = "DISCONNECTED"
    /\ stage[d] = "asleep" => state \in {"DISCONNECTED", "RECONNECTING"}

StateFits == stop = "no" => \A d \in Drivers : Fits(d)

\* A task that is alive is the one the manager knows.
Named(d) ==
    /\ stage[d] = "new" => ~again[d]
    /\ stage[d] \in Listening => receiveTask = d
    /\ stage[d] \in Returning /\ again[d] => reconnectTask = d
    /\ stage[d] \in {"begin", "asleep", "denied"} => again[d]

TasksNamed == \A d \in Drivers : Named(d)

\* What disconnect() has still to do with a task, at each of its awaits.
Doomed(d) ==
    /\ stop # "no" /\ stage[d] \in Returning => again[d]
    /\ stop = "receive" /\ stage[d] = "receiving" => toCancel.receive = d
    /\ stop \in {"receive", "reconnect"} /\ stage[d] \in Returning => toCancel.reconnect = d
    /\ stop \notin {"no", "receive"} => stage[d] # "receiving"
    /\ stop \in {"close", "closing", "done"} => stage[d] \in {"new", "loop", "ended"}

ToCancel == \A d \in Drivers : Doomed(d)

AllClosed ==
    /\ stop \in {"closing", "done"} /\ ws # 0 => socket[ws] = "closed"
    /\ stop = "done" => state = "DISCONNECTED"

\* The invariant of any application, and that of one that is not eager.
Served == Flagged /\ ConnectedIsServed
IInv == TypeOK /\ Flagged /\ OneActive /\ StateFits /\ TasksNamed /\ ToCancel /\ AllClosed

-----------------------------------------------------------------------------
(* Types.                                                                  *)

LEMMA InitType == Init => TypeOK
<1> SUFFICES ASSUME Init PROVE TypeOK
  OBVIOUS
<1>1. attempts \in 0..MaxAttempts /\ losses \in 0..MaxLosses
  BY WebSocketAssumption DEF Init
<1>2. /\ stage \in [Drivers -> Stage] /\ again \in [Drivers -> BOOLEAN]
      /\ reading \in [Drivers -> Sockets \union {0}]
      /\ socket \in [Sockets -> {"unused", "open", "dropped", "closed"}]
  BY DEF Init, Stage
<1> QED BY <1>1, <1>2 DEF Init, TypeOK, WSState

\* A driver that moves on stays where drivers are.
LEMMA GotoType ==
    ASSUME TypeOK, NEW d \in Drivers, NEW there \in Stage, Goto(d, there)
    PROVE  stage' \in [Drivers -> Stage]
BY DEF TypeOK, Goto

LEMMA EnterType ==
    ASSUME TypeOK, NEW d \in Drivers, Enter(d)
    PROVE  stage' \in [Drivers -> Stage] /\ state' \in WSState
BY GotoType DEF TypeOK, Enter, Stage, WSState

LEMMA LostType ==
    ASSUME TypeOK, NEW d \in Drivers, Lost(d)
    PROVE  /\ stage' \in [Drivers -> Stage] /\ state' \in WSState
           /\ reconnectTask' \in Drivers \union {0} /\ again' \in [Drivers -> BOOLEAN]
           /\ reading' \in [Drivers -> Sockets \union {0}]
<1>1. stage' \in [Drivers -> Stage]
  BY GotoType DEF Lost, Stage
<1> QED BY <1>1 DEF TypeOK, Lost, WSState

LEMMA DriverType == ASSUME TypeOK, NEW d \in Drivers, Connect(d) \/ DriverStep(d) PROVE TypeOK'
<1>1. CASE Connect(d) \/ Wake(d)
  BY <1>1, EnterType DEF TypeOK, Connect, Wake, outside, closing
<1>2. CASE DialSucceeds(d)
  <2>1. stage' \in [Drivers -> Stage]
    BY <1>2, GotoType DEF DialSucceeds, Stage
  <2>2. attempts' \in 0..MaxAttempts
    BY <1>2, WebSocketAssumption DEF DialSucceeds
  <2> QED BY <1>2, <2>1, <2>2 DEF TypeOK, DialSucceeds, WSState, closing
<1>3. CASE DialFails(d) \/ StartTasks(d)
  <2>1. stage' \in [Drivers -> Stage]
    BY <1>3, GotoType DEF DialFails, StartTasks, Stage
  <2> QED BY <1>3, <2>1 DEF TypeOK, DialFails, StartTasks, WSState, outside, closing
<1>4. CASE Listen(d)
  <2>1. CASE Lost(d)
    BY <1>4, <2>1, LostType DEF TypeOK, Listen, outside, closing
  <2>2. CASE ws # 0 /\ Goto(d, "receiving") /\ reading' = [reading EXCEPT ![d] = ws]
             /\ UNCHANGED <<state, reconnectTask, again>>
    <3>1. stage' \in [Drivers -> Stage]
      BY <2>2, GotoType DEF Stage
    <3> QED BY <1>4, <2>2, <3>1 DEF TypeOK, Listen, outside, closing
  <2> QED BY <1>4, <2>1, <2>2 DEF Listen
<1>5. CASE Hear(d)
  <2>1. stage' \in [Drivers -> Stage]
    BY <1>5, GotoType DEF Hear, Stage
  <2> QED BY <1>5, <2>1 DEF TypeOK, Hear, manager, outside, closing
<1>6. CASE HearClose(d)
  <2>1. socket' \in [Sockets -> {"unused", "open", "dropped", "closed"}]
    BY <1>6 DEF TypeOK, HearClose
  <2>2. CASE Lost(d)
    BY <1>6, <2>1, <2>2, LostType DEF TypeOK, HearClose, closing
  <2>3. CASE Goto(d, "loop") /\ reading' = [reading EXCEPT ![d] = 0]
             /\ UNCHANGED <<state, reconnectTask, again>>
    <3>1. stage' \in [Drivers -> Stage]
      BY <2>3, GotoType DEF Stage
    <3> QED BY <1>6, <2>1, <2>3, <3>1 DEF TypeOK, HearClose, closing
  <2> QED BY <1>6, <2>2, <2>3 DEF HearClose
<1>7. CASE HearNothing(d)
  BY <1>7, LostType DEF TypeOK, HearNothing, outside, closing
<1>8. CASE Reconnect(d)
  <2>1. PICK otherwise \in WSState : NextAttempt(d, otherwise)
    BY <1>8 DEF Reconnect, TypeOK, WSState
  <2>2. stage' \in [Drivers -> Stage]
    BY <2>1, GotoType DEF NextAttempt, Stage
  <2>3. attempts' \in 0..MaxAttempts /\ state' \in WSState
    BY <2>1, WebSocketAssumption DEF TypeOK, NextAttempt, WSState
  <2> QED BY <1>8, <2>2, <2>3 DEF TypeOK, Reconnect, outside, closing
<1> QED BY <1>1, <1>2, <1>3, <1>4, <1>5, <1>6, <1>7, <1>8 DEF DriverStep

LEMMA DisconnectType == ASSUME TypeOK, Disconnect \/ DisconnectStep PROVE TypeOK'
<1>1. CASE Disconnect
  <2>1. toCancel' \in [receive : Drivers \union {0}, reconnect : Drivers \union {0}]
    BY <1>1 DEF TypeOK, Disconnect
  <2> QED BY <1>1, <2>1 DEF TypeOK, Disconnect, drivers, outside
<1>2. ASSUME NEW c, NEW alive \in BOOLEAN, Cancelled(c, alive)
      PROVE  stage' \in [Drivers -> Stage] /\ reading' \in [Drivers -> Sockets \union {0}]
  BY <1>2 DEF TypeOK, Cancelled, Stage
<1>3. CASE CancelReceive \/ CancelReconnect
  <2>1. stage' \in [Drivers -> Stage] /\ reading' \in [Drivers -> Sockets \union {0}]
    BY <1>2, <1>3 DEF CancelReceive, CancelReconnect, LiveReceive, LiveReconnect
  <2> QED BY <1>3, <2>1 DEF TypeOK, CancelReceive, CancelReconnect, manager, outside
<1>4. CASE Close \/ Closed
  BY <1>4 DEF TypeOK, Close, Closed, WSState, manager, drivers, outside
<1> QED BY <1>1, <1>3, <1>4 DEF DisconnectStep

LEMMA NextType == TypeOK /\ [Next]_vars => TypeOK'
<1> SUFFICES ASSUME TypeOK, [Next]_vars PROVE TypeOK'
  OBVIOUS
<1>1. CASE UNCHANGED vars
  BY <1>1 DEF vars, manager, drivers, outside, closing, TypeOK
<1>2. ASSUME NEW s \in Sockets, Drop(s) PROVE TypeOK'
  BY <1>2, WebSocketAssumption DEF TypeOK, Drop, Lose, manager, drivers, closing
<1>3. CASE Age
  BY <1>3, WebSocketAssumption DEF TypeOK, Age, Lose, manager, drivers, closing
<1> QED BY <1>1, <1>2, <1>3, DriverType, DisconnectType DEF Next, Rest

\* The fields of the manager, its tasks and its sockets keep their types, and the attempts in
\* a row never exceed reconnect_max_attempts.
THEOREM TypeCorrect == Spec => []TypeOK
BY InitType, NextType, PTL DEF Spec

-----------------------------------------------------------------------------
(* A connection is served, whatever the application does.                  *)

\* disconnect() sets the flag first and nothing resets it.
LEMMA NextFlagged == ASSUME Flagged, [Next]_vars PROVE Flagged'
<1>1. CASE UNCHANGED <<shutdown, stop>>
  BY <1>1 DEF Flagged
<1>2. CASE Disconnect \/ DisconnectStep
  BY <1>2 DEF Flagged, Disconnect, DisconnectStep, CancelReceive, CancelReconnect, Close, Closed, manager
<1>3. ASSUME NEW d \in Drivers, Connect(d) \/ DriverStep(d) PROVE UNCHANGED <<shutdown, stop>>
  BY <1>3 DEF Connect, DriverStep, DialSucceeds, DialFails, StartTasks, Listen, Hear, HearClose,
              HearNothing, Reconnect, Wake, closing, manager
<1>4. ASSUME Age \/ Rest \/ UNCHANGED vars \/ \E s \in Sockets : Drop(s)
      PROVE  UNCHANGED <<shutdown, stop>>
  BY <1>4 DEF Age, Rest, Drop, vars, manager, closing
<1> QED BY <1>1, <1>2, <1>3, <1>4 DEF Next

\* Only DialSucceeds makes the manager CONNECTED, and who stops to listen to it says so.
LEMMA NextServed == ASSUME TypeOK, Served, [Next]_vars PROVE Served'
<1>1. Flagged'
  BY NextFlagged DEF Served
<1>2. SUFFICES ASSUME state' = "CONNECTED", stop' = "no"
               PROVE  \E d \in Drivers : stage'[d] \in Serving
  BY <1>1 DEF Served, ConnectedIsServed, Serving, Listening
<1>3. state = "CONNECTED" /\ stop = "no" => \E d \in Drivers : stage[d] \in Serving
  BY DEF Served, ConnectedIsServed, Serving, Listening
<1>4. ASSUME state = "CONNECTED", stop = "no",
             \A d \in Drivers : stage[d] \in Serving => stage'[d] \in Serving
      PROVE  \E d \in Drivers : stage'[d] \in Serving
  BY <1>3, <1>4
<1>5. ASSUME NEW d \in Drivers, Connect(d) \/ DriverStep(d)
      PROVE  \E e \in Drivers : stage'[e] \in Serving
  <2>0. /\ \A e \in Drivers : e # d => stage'[e] = stage[e]
        /\ UNCHANGED <<shutdown, stop>> /\ ~shutdown
    BY <1>1, <1>2, <1>5 DEF TypeOK, Flagged, Connect, DriverStep, DialSucceeds, DialFails, StartTasks,
       Listen, Hear, HearClose, HearNothing, Reconnect, Wake, NextAttempt, Enter, Lost, Goto, closing, manager
  <2>1. ASSUME Lost(d) PROVE FALSE
    BY <1>2, <2>0, <2>1 DEF Lost
  <2>2. CASE Connect(d)
    BY <1>2, <1>4, <2>0, <2>2 DEF Connect, Enter, At, Goto, Serving
  <2>3. CASE DialSucceeds(d) \/ StartTasks(d)
    BY <2>3 DEF TypeOK, DialSucceeds, StartTasks, Goto, Serving
  <2>4. CASE DialFails(d)
    BY <1>2, <2>4 DEF DialFails
  <2>5. CASE Listen(d) \/ Hear(d) \/ HearClose(d) \/ HearNothing(d)
    BY <2>1, <2>5 DEF TypeOK, Listen, Hear, HearClose, HearNothing, Goto, Serving
  <2>6. CASE Reconnect(d)
    <3>1. state = "CONNECTED" /\ stage[d] \notin Serving
      BY <1>2, <2>6 DEF Reconnect, NextAttempt, At, Serving
    <3> QED BY <1>2, <1>4, <2>0, <3>1
  <2>7. CASE Wake(d)
    BY <1>2, <1>4, <2>0, <2>7 DEF Wake, Enter, At, Goto, Serving
  <2> QED BY <1>5, <2>2, <2>3, <2>4, <2>5, <2>6, <2>7 DEF DriverStep
<1>6. CASE Disconnect \/ DisconnectStep
  BY <1>2, <1>6 DEF Disconnect, DisconnectStep, CancelReceive, CancelReconnect, Close, Closed
<1>7. CASE Age \/ Rest \/ UNCHANGED vars \/ \E s \in Sockets : Drop(s)
  BY <1>2, <1>3, <1>7 DEF Age, Rest, Drop, vars, manager, drivers, closing
<1> QED BY <1>5, <1>6, <1>7 DEF Next

\* While the manager calls itself CONNECTED a receive task listens, or is about to: whatever
\* calls of connect(), reconnections, losses and timeouts overlap.
THEOREM ConnectionIsServed == Spec => []ConnectedIsServed
<1>1. Init => Served
  BY DEF Init, Served, Flagged, ConnectedIsServed
<1>2. Served => ConnectedIsServed
  BY DEF Served
<1> QED BY <1>1, <1>2, NextServed, TypeCorrect, PTL DEF Spec

-----------------------------------------------------------------------------
(* disconnect() is final.                                                  *)

LEMMA InitIInv == Init => IInv
<1> SUFFICES ASSUME Init PROVE IInv
  OBVIOUS
<1>1. Flagged /\ OneActive /\ StateFits /\ AllClosed
  BY DEF Init, Flagged, OneActive, Active, StateFits, Fits, Serving, AllClosed
<1>2. TasksNamed /\ ToCancel
  BY DEF Init, TasksNamed, Named, ToCancel, Doomed, Listening, Returning
<1> QED BY <1>1, <1>2, InitType DEF IInv

\* A step of one driver while the others rest: what there is to show is about that one.
LEMMA AloneIInv ==
    ASSUME IInv, NEW d \in Drivers, TypeOK', UNCHANGED <<shutdown, stop, toCancel>>,
           \A e \in Drivers : e # d =>
              stage'[e] = stage[e] /\ again'[e] = again[e] /\ stage[e] \in {"new", "ended"},
           stop = "no" => Fits(d)', Named(d)', Doomed(d)', AllClosed'
    PROVE  IInv'
<1>1. \A e \in Drivers : e # d => Fits(e)' /\ Named(e)' /\ Doomed(e)'
  BY DEF IInv, TasksNamed, Fits, Named, Doomed, Serving, Listening, Returning
<1>2. OneActive'
  BY DEF OneActive, Active
<1> QED BY <1>1, <1>2 DEF IInv, Flagged, StateFits, TasksNamed, ToCancel

\* The others rest while a driver is active.
LEMMA OthersRest ==
    ASSUME IInv, NEW d \in Drivers, Active(d)
    PROVE  \A e \in Drivers : e # d => stage[e] \in {"new", "ended"}
BY DEF IInv, OneActive, Active

\* A driver that becomes active finds no other one.
LEMMA ConnectIInv == ASSUME ~Eager, IInv, NEW d \in Drivers, Connect(d) PROVE IInv'
<1>1. TypeOK' /\ TypeOK
  BY DriverType DEF IInv
<1>2. /\ stage[d] = "new" /\ stop = "no" /\ ~Waiting /\ ~Busy
      /\ UNCHANGED <<shutdown, stop, toCancel, ws, socket, again, receiveTask, reconnectTask>>
      /\ \A e \in Drivers : e # d => stage'[e] = stage[e]
  BY <1>1 DEF Connect, At, Enter, Goto, outside, closing, TypeOK
<1>3. CASE stage'[d] = "ended" /\ state' = state
  BY <1>1, <1>2, <1>3 DEF IInv, Flagged, OneActive, Active, StateFits, Fits, Serving, TasksNamed, Named,
                          ToCancel, Doomed, AllClosed, Listening, Returning
<1>4. CASE stage'[d] = "dialing" /\ state' = "CONNECTING" /\ state # "CONNECTED"
  <2>1. \A e \in Drivers : e # d => stage[e] \in {"new", "ended"}
    BY <1>1, <1>2, <1>4 DEF IInv, StateFits, Fits, Busy, Serving, TypeOK, Stage
  <2>2. Fits(d)' /\ Named(d)' /\ Doomed(d)' /\ AllClosed'
    BY <1>1, <1>2, <1>4 DEF IInv, TasksNamed, Fits, Named, Doomed, AllClosed, Serving, Listening, Returning
  <2> QED BY <1>1, <1>2, <2>1, <2>2, AloneIInv
<1>5. \/ stage'[d] = "ended" /\ state' = state
      \/ stage'[d] = "dialing" /\ state' = "CONNECTING" /\ state # "CONNECTED"
  BY <1>1 DEF Connect, Enter, Goto, TypeOK
<1> QED BY <1>3, <1>4, <1>5

\* The steps of the active driver.
LEMMA DriverIInv == ASSUME IInv, NEW d \in Drivers, DriverStep(d) PROVE IInv'
<1>0. TypeOK' /\ TypeOK
  BY DriverType DEF IInv
<1>1. /\ UNCHANGED <<shutdown, stop, toCancel>> /\ Active(d)
      /\ \A e \in Drivers : e # d => stage'[e] = stage[e] /\ again'[e] = again[e]
  BY <1>0 DEF DriverStep, DialSucceeds, DialFails, StartTasks, Listen, Hear, HearClose, HearNothing,
     Reconnect, Wake, NextAttempt, Enter, Lost, At, Goto, Active, closing, manager, TypeOK
<1>2. SUFFICES (stop = "no" => Fits(d)') /\ Named(d)' /\ Doomed(d)' /\ AllClosed'
  BY <1>0, <1>1, OthersRest, AloneIInv
<1>3. Fits(d) \/ stop # "no"
  BY DEF IInv, StateFits
<1>4. Named(d) /\ Doomed(d) /\ AllClosed /\ Flagged
  BY DEF IInv, TasksNamed, ToCancel
<1> USE DEF Fits, Named, Doomed, Serving, Listening, Returning
<1>5. CASE DialSucceeds(d)
  <2>1. /\ stage[d] = "dialing" /\ stage'[d] = "connected" /\ state' = "CONNECTED"
        /\ UNCHANGED <<receiveTask, reconnectTask, again>>
    BY <1>0, <1>5 DEF DialSucceeds, At, Goto, TypeOK
  <2> QED BY <1>1, <1>4, <2>1 DEF AllClosed
<1>6. CASE DialFails(d)
  <2>1. /\ stage[d] = "dialing" /\ stage'[d] = (IF again[d] THEN "denied" ELSE "ended")
        /\ state' = "DISCONNECTED" /\ UNCHANGED <<ws, socket, receiveTask, reconnectTask, again>>
    BY <1>0, <1>6 DEF DialFails, At, Goto, TypeOK, outside
  <2> QED BY <1>1, <1>4, <2>1 DEF AllClosed
<1>7. CASE StartTasks(d)
  <2>1. /\ stage[d] = "connected" /\ stage'[d] = "loop" /\ receiveTask' = d
        /\ UNCHANGED <<state, ws, socket, reconnectTask, again>>
    BY <1>0, <1>7 DEF StartTasks, At, Goto, TypeOK, outside
  <2> QED BY <1>1, <1>3, <1>4, <2>1 DEF AllClosed
<1>8. ASSUME Lost(d), stage[d] \in Listening, UNCHANGED <<ws, receiveTask>>,
             \A s \in Sockets : socket[s] = "closed" => socket'[s] = "closed"
      PROVE  (stop = "no" => Fits(d)') /\ Named(d)' /\ Doomed(d)' /\ AllClosed'
  <2>1. \/ shutdown /\ stage'[d] = "ended" /\ UNCHANGED <<state, reconnectTask, again>>
        \/ /\ ~shutdown /\ stage'[d] = "begin" /\ state' = "DISCONNECTED"
           /\ reconnectTask' = d /\ again'[d]
    BY <1>0, <1>8 DEF Lost, Goto, TypeOK
  <2> QED BY <1>0, <1>1, <1>4, <1>8, <2>1 DEF AllClosed, Flagged, TypeOK
<1>9. ASSUME stage'[d] \in Listening, stage'[d] = "receiving" => stage[d] = "receiving" \/ stop = "no",
             stage[d] \in Listening, UNCHANGED <<state, ws, receiveTask, reconnectTask, again>>,
             \A s \in Sockets : socket[s] = "closed" => socket'[s] = "closed"
      PROVE  (stop = "no" => Fits(d)') /\ Named(d)' /\ Doomed(d)' /\ AllClosed'
  BY <1>0, <1>1, <1>3, <1>4, <1>9 DEF AllClosed, TypeOK
<1>10. CASE Listen(d)
  <2>1. /\ stage[d] = "loop" /\ UNCHANGED <<ws, receiveTask, socket>>
        /\ \/ Lost(d)
           \/ ~shutdown /\ stage'[d] = "receiving" /\ UNCHANGED <<state, reconnectTask, again>>
    BY <1>0, <1>10 DEF Listen, At, Goto, TypeOK, outside
  <2> QED BY <1>4, <1>8, <1>9, <2>1 DEF Flagged
<1>11. CASE Hear(d)
  <2>1. /\ stage[d] = "receiving" /\ stage'[d] = "loop"
        /\ UNCHANGED <<state, ws, receiveTask, reconnectTask, again, socket>>
    BY <1>0, <1>11 DEF Hear, At, Goto, TypeOK, outside, manager
  <2> QED BY <1>9, <2>1
<1>12. CASE HearClose(d)
  <2>1. /\ stage[d] = "receiving" /\ UNCHANGED <<ws, receiveTask>>
        /\ \/ Lost(d)
           \/ stage'[d] = "loop" /\ UNCHANGED <<state, reconnectTask, again>>
        /\ \A s \in Sockets : socket[s] = "closed" => socket'[s] = "closed"
    BY <1>0, <1>12 DEF HearClose, At, Goto, TypeOK
  <2> QED BY <1>8, <1>9, <2>1
<1>13. CASE HearNothing(d)
  <2>1. stage[d] = "receiving" /\ UNCHANGED <<ws, receiveTask, socket>> /\ Lost(d)
    BY <1>13 DEF HearNothing, At, outside
  <2> QED BY <1>8, <2>1
<1>14. CASE Reconnect(d)
  <2>1. /\ stage[d] \in {"begin", "denied"} /\ UNCHANGED <<ws, socket, receiveTask, reconnectTask, again>>
        /\ \/ stage'[d] = "asleep" /\ state' \in {state, "RECONNECTING"}
           \/ stage'[d] = "ended"
    BY <1>0, <1>14 DEF Reconnect, NextAttempt, At, Goto, TypeOK, outside
  <2> QED BY <1>1, <1>3, <1>4, <2>1 DEF AllClosed
<1>15. CASE Wake(d)
  <2>1. /\ stage[d] = "asleep" /\ UNCHANGED <<ws, socket, receiveTask, reconnectTask, again>>
        /\ stage'[d] = "ended" \/ (stage'[d] = "dialing" /\ state' = "CONNECTING")
    BY <1>0, <1>15 DEF Wake, Enter, At, Goto, TypeOK, outside
  <2> QED BY <1>1, <1>3, <1>4, <2>1 DEF AllClosed
<1> QED BY <1>5, <1>6, <1>7, <1>10, <1>11, <1>12, <1>13, <1>14, <1>15 DEF DriverStep

\* A task that disconnect() cancels ends, the others stay.
LEMMA CancelledRests ==
    ASSUME TypeOK, NEW c, NEW alive \in BOOLEAN, Cancelled(c, alive), NEW d \in Drivers
    PROVE  stage'[d] = IF d = c /\ alive THEN "ended" ELSE stage[d]
BY DEF TypeOK, Cancelled

LEMMA DisconnectIInv == ASSUME IInv, Disconnect \/ DisconnectStep PROVE IInv'
<1>0. TypeOK' /\ TypeOK /\ Flagged'
  BY DisconnectType, NextFlagged DEF IInv, Next
<1>1. CASE Disconnect
  <2>1. /\ stop = "no" /\ stop' = "receive" /\ UNCHANGED <<state, ws, receiveTask, reconnectTask>>
        /\ UNCHANGED <<stage, again>> /\ ~Waiting
        /\ toCancel'.receive = (IF LiveReceive(receiveTask) THEN receiveTask ELSE 0)
        /\ toCancel'.reconnect = (IF LiveReconnect(reconnectTask) THEN reconnectTask ELSE 0)
    BY <1>1 DEF Disconnect, drivers
  <2>2. OneActive' /\ StateFits' /\ AllClosed'
    BY <2>1 DEF IInv, OneActive, Active, StateFits, AllClosed
  <2>3. ASSUME NEW d \in Drivers PROVE Named(d)' /\ Doomed(d)'
    <3>1. Named(d)
      BY DEF IInv, TasksNamed
    <3>2. d # 0
      BY DEF Drivers
    <3>3. stage[d] \in Returning => again[d]
      BY <2>1, <3>1 DEF Waiting, Named, Returning
    <3> QED BY <2>1, <3>1, <3>2, <3>3 DEF Named, Doomed, LiveReceive, LiveReconnect, Listening, Returning
  <2> QED BY <1>0, <2>2, <2>3 DEF IInv, TasksNamed, ToCancel
<1>2. CASE CancelReceive
  <2>1. /\ stop = "receive" /\ stop' = "reconnect"
        /\ UNCHANGED <<state, ws, receiveTask, reconnectTask, again, socket, toCancel>>
        /\ \A d \in Drivers : stage'[d] =
              IF d = toCancel.receive /\ LiveReceive(toCancel.receive) THEN "ended" ELSE stage[d]
    BY <1>0, <1>2, CancelledRests DEF CancelReceive, LiveReceive, manager, outside
  <2>2. OneActive' /\ StateFits' /\ AllClosed'
    BY <2>1 DEF IInv, OneActive, Active, StateFits, AllClosed
  <2>3. ASSUME NEW d \in Drivers PROVE Named(d)' /\ Doomed(d)'
    <3>1. Named(d) /\ Doomed(d) /\ d # 0
      BY DEF IInv, TasksNamed, ToCancel, Drivers
    <3> QED BY <2>1, <3>1 DEF Named, Doomed, LiveReceive, Listening, Returning
  <2> QED BY <1>0, <2>2, <2>3 DEF IInv, TasksNamed, ToCancel
<1>3. CASE CancelReconnect
  <2>1. /\ stop = "reconnect" /\ stop' = "close"
        /\ UNCHANGED <<state, ws, receiveTask, reconnectTask, again, socket, toCancel>>
        /\ \A d \in Drivers : stage'[d] =
              IF d = toCancel.reconnect /\ LiveReconnect(toCancel.reconnect) THEN "ended" ELSE stage[d]
    BY <1>0, <1>3, CancelledRests DEF CancelReconnect, LiveReconnect, manager, outside
  <2>2. OneActive' /\ StateFits' /\ AllClosed'
    BY <2>1 DEF IInv, OneActive, Active, StateFits, AllClosed
  <2>3. ASSUME NEW d \in Drivers PROVE Named(d)' /\ Doomed(d)'
    <3>1. Named(d) /\ Doomed(d) /\ d # 0 /\ stage[d] \in Stage
      BY <1>0 DEF IInv, TasksNamed, ToCancel, Drivers, TypeOK
    <3> QED BY <2>1, <3>1 DEF Named, Doomed, LiveReconnect, Listening, Returning, Stage
  <2> QED BY <1>0, <2>2, <2>3 DEF IInv, TasksNamed, ToCancel
<1>4. CASE Close \/ Closed
  <2>1. /\ stop \in {"close", "closing"} /\ UNCHANGED <<ws, receiveTask, reconnectTask, stage, again, toCancel>>
        /\ stop' = (IF stop = "close" THEN "closing" ELSE "done")
    BY <1>4 DEF Close, Closed, manager, drivers
  <2>2. OneActive' /\ StateFits' /\ TasksNamed' /\ ToCancel'
    BY <2>1 DEF IInv, OneActive, Active, StateFits, TasksNamed, Named, ToCancel, Doomed, Listening, Returning
  <2>3. AllClosed'
    <3>1. CASE Close
      BY <1>0, <3>1 DEF AllClosed, TypeOK, Close, manager
    <3>2. CASE Closed
      BY <3>2 DEF IInv, AllClosed, Closed, outside
    <3> QED BY <1>4, <3>1, <3>2
  <2> QED BY <1>0, <2>2, <2>3 DEF IInv
<1> QED BY <1>1, <1>2, <1>3, <1>4 DEF DisconnectStep

LEMMA NextIInv == ASSUME ~Eager, IInv, [Next]_vars PROVE IInv'
<1>0. TypeOK /\ TypeOK'
  BY NextType DEF IInv
<1>1. ASSUME UNCHANGED <<manager, stage, again, closing>>,
             \A s \in Sockets : socket[s] = "closed" => socket'[s] = "closed"
      PROVE  IInv'
  BY <1>0, <1>1 DEF manager, closing, IInv, Flagged, OneActive, Active, StateFits, Fits, TasksNamed, Named,
                    ToCancel, Doomed, AllClosed, TypeOK
<1>2. CASE Age \/ Rest \/ UNCHANGED vars \/ \E s \in Sockets : Drop(s)
  <2>1. UNCHANGED <<manager, stage, again, closing>>
    BY <1>2 DEF Age, Rest, Drop, vars, manager, drivers, closing
  <2>2. \A s \in Sockets : socket[s] = "closed" => socket'[s] = "closed"
    BY <1>0, <1>2 DEF Age, Rest, Drop, vars, outside, TypeOK
  <2> QED BY <1>1, <2>1, <2>2
<1> QED BY <1>2, ConnectIInv, DriverIInv, DisconnectIInv DEF Next

\* When disconnect() has returned nothing is connected and no task is left that could change
\* that, whatever reconnection it met and however far that was: for an application that does
\* not call connect() during a reconnection.
THEOREM DisconnectStays == ASSUME ~Eager PROVE Spec => []DisconnectIsFinal
<1>1. IInv => DisconnectIsFinal
  BY DEF IInv, ToCancel, Doomed, AllClosed, DisconnectIsFinal
<1>2. IInv /\ [Next]_vars => IInv'
  BY NextIInv
<1> QED BY <1>1, <1>2, InitIInv, PTL DEF Spec
=============================================================================
