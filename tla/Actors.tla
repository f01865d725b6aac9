------------------------------- MODULE Actors -------------------------------
(***************************************************************************)
(* Actors and their router (engine/actor/base.py, engine/actor/router.py). *)
(*                                                                         *)
(* A mailbox is the list heapq works on, ordered by priority and then by   *)
(* the time of the message, which here is its number n.  No critical       *)
(* section of the two files awaits anything that suspends, so a whole      *)
(* routing call is one step; what suspends is a handler, the sleep of an   *)
(* idle processor and a stop() that waits for the processor it cancelled.  *)
(* Each start makes a new processor task, numbered by the start.  The time *)
(* a message expires is free: its ttl is the sender's choice.              *)
(***************************************************************************)
EXTENDS Integers, Sequences, FiniteSets, SequencesExt

CONSTANTS
    Members,        \* identifiers of actors
    Stoppers,       \* callers of stop()
    Priorities,     \* values of MessagePriority in use, a set of naturals
    MailboxSize,
    MaxMessages,    \* bound: messages made
    MaxStarts       \* bound: starts of one actor

Runs == 1..MaxStarts
Kinds == {"work", "stop"}
Message == [n : 1..MaxMessages, priority : Priorities, kind : Kinds]
NoMessage == [n |-> 0, priority |-> 0, kind |-> "work"]
Nobody == "nobody"
Callers == Stoppers \union (Members \X Runs)     \* handlers call stop() too

VARIABLES
    registered,     \* the actors the router knows
    mailbox,        \* _mailbox of each actor
    expired,        \* numbers of the messages whose ttl is over
    made,           \* messages made so far
    processing, stopped,    \* the two flags of each actor
    run,            \* its number of starts; the last is _background_task
    task,           \* state of each of its processors
    hand,           \* the message each processor works on
    handled,        \* pairs of an actor and the number of a message a handler got
    waits           \* the processor each caller of stop() waits for

actors == <<mailbox, processing, stopped, run, task, hand, handled>>
vars == <<registered, expired, made, actors, waits>>

TypeOK ==
    /\ registered \subseteq Members
    /\ mailbox \in [Members -> Seq(Message)]
    /\ \A a \in Members : Len(mailbox[a]) <= MailboxSize
    /\ expired \subseteq 1..MaxMessages /\ made \in 0..MaxMessages
    /\ processing \in [Members -> BOOLEAN] /\ stopped \in [Members -> BOOLEAN]
    /\ run \in [Members -> 0..MaxStarts]
    /\ task \in [Members -> [Runs -> {"none", "idle", "busy", "cancelled", "ended"}]]
    /\ hand \in [Members -> [Runs -> Message \union {NoMessage}]]
    /\ handled \subseteq Members \X (1..MaxMessages)
    /\ waits \in [Callers -> [actor : Members \union {Nobody}, run : 0..MaxStarts]]

Idle == [actor |-> Nobody, run |-> 0]

Init ==
    /\ registered = {} /\ expired = {} /\ made = 0
    /\ mailbox = [a \in Members |-> <<>>]
    /\ processing = [a \in Members |-> FALSE] /\ stopped = [a \in Members |-> FALSE]
    /\ run = [a \in Members |-> 0]
    /\ task = [a \in Members |-> [r \in Runs |-> "none"]]
    /\ hand = [a \in Members |-> [r \in Runs |-> NoMessage]]
    /\ handled = {} /\ waits = [c \in Callers |-> Idle]

-----------------------------------------------------------------------------
(* The mailbox.                                                            *)

\* ActorMessage.__lt__
Before(m, n) == m.priority < n.priority \/ (m.priority = n.priority /\ m.n < n.n)

\* The item at position i of the heap h moves up while it goes before its parent.
Rise(h, i) ==
    LET up[k \in 1..i] ==
            IF k > 1 /\ Before(h[i], h[k \div 2]) THEN {k} \union up[k \div 2] ELSE {k}
        path == up[i]
        top == CHOOSE j \in path : \A k \in path : j <= k
    IN [k \in DOMAIN h |-> IF k = top THEN h[i] ELSE IF k \in path THEN h[k \div 2] ELSE h[k]]

Push(h, m) == Rise(Append(h, m), Len(h) + 1)

\* heappop: the way down from the root by the smaller children, along which they move
\* up; the last item goes to its end and rises.
WayDown(h) ==
    LET n == Len(h)
        child(i) == IF 2 * i + 1 <= n /\ ~Before(h[2 * i], h[2 * i + 1])
                    THEN 2 * i + 1 ELSE 2 * i
        down[i \in 1..n] == IF 2 * i > n THEN {i} ELSE {i} \union down[child(i)]
    IN down[1]

Pop(h) ==
    IF Len(h) = 1 THEN <<>> ELSE
    LET rest == Front(h)
        way == WayDown(rest)
        leaf == CHOOSE i \in way : \A j \in way : j <= i
        last == Last(h)
        moved == [i \in DOMAIN rest |->
                    IF i = leaf THEN last
                    ELSE IF i \in way THEN rest[CHOOSE j \in way : j \div 2 = i] ELSE rest[i]]
    IN Rise(moved, leaf)

\* What is left when the expired messages at the head are popped.
DropExpired(h) ==
    LET left[k \in 0..Len(h)] ==
            IF k = 0 THEN h
            ELSE IF left[k - 1] # <<>> /\ left[k - 1][1].n \in expired THEN Pop(left[k - 1])
            ELSE left[k - 1]
    IN left[Len(h)]

\* What is left of the list without the expired messages.
Purged(h) ==
    LET kept[k \in 0..Len(h)] ==
            IF k = 0 THEN <<>>
            ELSE IF h[k].n \in expired THEN kept[k - 1] ELSE Append(kept[k - 1], h[k])
    IN kept[Len(h)]

\* enqueue(): a full mailbox refuses before it is purged, and purging keeps the order of
\* the list.
Accepts(a) == Len(mailbox[a]) < MailboxSize
Enqueued(a, m) == IF Accepts(a) THEN Push(Purged(mailbox[a]), m) ELSE mailbox[a]

-----------------------------------------------------------------------------
(* The router.                                                             *)

RegisterActor(a) ==
    /\ a \notin registered
    /\ registered' = registered \union {a}
    /\ UNCHANGED <<expired, made, actors, waits>>

UnregisterActor(a) ==
    /\ a \in registered
    /\ registered' = registered \ {a}
    /\ UNCHANGED <<expired, made, actors, waits>>

\* route_message() to one actor, broadcast_message() to all but the sender.
Deliver(to, p, k) ==
    /\ made < MaxMessages
    /\ made' = made + 1
    /\ mailbox' = [a \in Members |->
            IF a \in to THEN Enqueued(a, [n |-> made', priority |-> p, kind |-> k])
                        ELSE mailbox[a]]
    /\ UNCHANGED <<registered, expired, processing, stopped, run, task, hand, handled, waits>>

RouteMessage(a, p, k) == a \in registered /\ Deliver({a}, p, k)

BroadcastMessage(sender, p) ==
    /\ registered \ {sender} # {}
    /\ Deliver(registered \ {sender}, p, "work")

Expires(n) ==
    /\ n \in 1..made \ expired
    /\ \E a \in Members : \E i \in DOMAIN mailbox[a] : mailbox[a][i].n = n
    /\ expired' = expired \union {n}
    /\ UNCHANGED <<registered, made, actors, waits>>

-----------------------------------------------------------------------------
(* The processor of a mailbox, and the calls that start and stop it.       *)

SetTask(a, r, state) == task' = [task EXCEPT ![a][r] = state]

Start(a) ==
    /\ run[a] < MaxStarts /\ ~processing[a]
    /\ processing' = [processing EXCEPT ![a] = TRUE]
    /\ stopped' = [stopped EXCEPT ![a] = FALSE]
    /\ run' = [run EXCEPT ![a] = @ + 1]
    /\ SetTask(a, run'[a], "idle")
    /\ UNCHANGED <<registered, expired, made, mailbox, hand, handled, waits>>

\* As TakeFrom below, leaving the message where it is.
TakeFromPeeking(a, r, rest) ==
    /\ hand' = [hand EXCEPT ![a][r] = rest[1]]
    /\ handled' = handled \union {<<a, rest[1].n>>}
    /\ mailbox' = [mailbox EXCEPT ![a] = rest]
    /\ SetTask(a, r, "busy")

\* One round of _mailbox_processor() that finds no message ends with a sleep, and one that
\* finds _stopped ends the task; otherwise it takes the head of the list to its handler.
TakeFrom(a, r, rest) ==
    /\ hand' = [hand EXCEPT ![a][r] = rest[1]]
    /\ handled' = handled \union {<<a, rest[1].n>>}
    /\ mailbox' = [mailbox EXCEPT ![a] = Pop(rest)]
    /\ SetTask(a, r, "busy")

Round(a, r) ==
    /\ task[a][r] = "idle"
    /\ IF stopped[a]
       THEN SetTask(a, r, "ended") /\ UNCHANGED <<mailbox, hand, handled>>
       ELSE LET rest == DropExpired(mailbox[a]) IN
            IF rest # <<>> THEN TakeFrom(a, r, rest)
            ELSE /\ mailbox[a] # rest
                 /\ mailbox' = [mailbox EXCEPT ![a] = rest]
                 /\ UNCHANGED <<task, hand, handled>>
    /\ UNCHANGED <<registered, expired, made, processing, stopped, run, waits>>

\* A handler ends, with or without an exception, which the processor only logs.  That of
\* "stop" calls stop() inside the processor.  If the processor is _background_task, Python
\* turns its wait for itself into the CancelledError stop() catches, and the loop ends.
HandlerEnds(a, r) ==
    /\ task[a][r] = "busy" /\ waits[<<a, r>>] = Idle
    /\ hand[a][r].kind = "work" \/ ~processing[a]
    /\ hand' = [hand EXCEPT ![a][r] = NoMessage]
    /\ SetTask(a, r, "idle")
    /\ UNCHANGED <<registered, expired, made, mailbox, processing, stopped, run, handled, waits>>

StopsItself(a, r) ==
    /\ task[a][r] = "busy" /\ hand[a][r].kind = "stop" /\ processing[a] /\ r = run[a]
    /\ hand' = [hand EXCEPT ![a][r] = NoMessage]
    /\ stopped' = [stopped EXCEPT ![a] = TRUE]
    /\ processing' = [processing EXCEPT ![a] = FALSE]
    /\ SetTask(a, r, "ended")
    /\ UNCHANGED <<registered, expired, made, mailbox, run, handled, waits>>

\* A cancelled task ends at its next step, with the message it had in hand.
CancelledEnds(a, r) ==
    /\ task[a][r] = "cancelled"
    /\ hand' = [hand EXCEPT ![a][r] = NoMessage]
    /\ SetTask(a, r, "ended")
    /\ UNCHANGED <<registered, expired, made, mailbox, processing, stopped, run, handled, waits>>

\* stop() up to its wait, by a task outside or by the handler of a processor that is no
\* longer _background_task.
StopBegins(c, a) ==
    /\ waits[c] = Idle /\ processing[a]
    /\ stopped' = [stopped EXCEPT ![a] = TRUE]
    /\ task' = [task EXCEPT ![a][run[a]] = IF @ = "ended" THEN @ ELSE "cancelled"]
    /\ waits' = [waits EXCEPT ![c] = [actor |-> a, run |-> run[a]]]
    /\ UNCHANGED <<registered, expired, made, mailbox, processing, run, hand, handled>>

HandlerStops(a, r) ==
    /\ task[a][r] = "busy" /\ hand[a][r].kind = "stop" /\ r # run[a]
    /\ StopBegins(<<a, r>>, a)

\* The rest of stop(), once the task has ended.
StopReturns(c) ==
    LET a == waits[c].actor IN
    /\ waits[c] # Idle /\ task[a][waits[c].run] = "ended"
    /\ processing' = [processing EXCEPT ![a] = FALSE]
    /\ waits' = [waits EXCEPT ![c] = Idle]
    /\ IF c \in Stoppers THEN UNCHANGED <<task, hand>>
       ELSE SetTask(a, c[2], "idle") /\ hand' = [hand EXCEPT ![a][c[2]] = NoMessage]
    /\ UNCHANGED <<registered, expired, made, mailbox, stopped, run, handled>>

Next ==
    \/ \E a \in Members : RegisterActor(a) \/ UnregisterActor(a) \/ Start(a)
    \/ \E a \in Members, p \in Priorities, k \in Kinds : RouteMessage(a, p, k)
    \/ \E a \in Members \union {Nobody}, p \in Priorities : BroadcastMessage(a, p)
    \/ \E n \in 1..MaxMessages : Expires(n)
    \/ \E a \in Members, r \in Runs :
          Round(a, r) \/ HandlerEnds(a, r) \/ StopsItself(a, r) \/ CancelledEnds(a, r)
    \/ \E a \in Members, r \in Runs : HandlerStops(a, r)
    \/ \E s \in Stoppers, a \in Members : StopBegins(s, a)
    \/ \E c \in Callers : StopReturns(c)

Spec == Init /\ [][Next]_vars

-----------------------------------------------------------------------------
(* Properties.                                                             *)

\* A message is handled at most once by each actor it was sent to: what a processor has
\* taken is in no mailbox of that actor again, whatever the purge has done to the order of
\* the list and however many processors a stop and a start have left.
HandledOnce ==
    \A a \in Members :
        /\ \A i, j \in DOMAIN mailbox[a] : i # j => mailbox[a][i].n # mailbox[a][j].n
        /\ \A i \in DOMAIN mailbox[a] : <<a, mailbox[a][i].n>> \notin handled
        /\ \A r, q \in Runs : r # q /\ hand[a][r] # NoMessage => hand[a][r] # hand[a][q]

\* The priority queue of an actor serves its most urgent message next (base.py:38).  Purging
\* expired messages breaks this.
UrgentFirst ==
    [][\A a \in Members, r \in Runs :
          hand[a][r] = NoMessage /\ hand'[a][r] # NoMessage =>
              \A i \in DOMAIN mailbox'[a] :
                  mailbox'[a][i].n \in expired \/ ~Before(mailbox'[a][i], hand'[a][r])]_vars

\* An actor has one processor at most.  Two stops and a start break this.
OneProcessor ==
    \A a \in Members : Cardinality({r \in Runs : task[a][r] \in {"idle", "busy"}}) <= 1
=============================================================================
