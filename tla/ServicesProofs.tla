--------------------------- MODULE ServicesProofs ---------------------------
(***************************************************************************)
(* What the services promise, for every value of their parameters.         *)
(***************************************************************************)
EXTENDS MCServices, FiniteSetTheorems, SequenceTheorems, WellFoundedInduction, TLAPS

\* A set of numbers that is not empty has a least one.
LEMMA LeastExists ==
    ASSUME NEW S \in SUBSET Nat, S # {}
    PROVE  \E x \in S : \A y \in S : x <= y
<1>1. PICK x \in S : \A y \in S : <<y, x>> \notin OpToRel(<, Nat)
    BY NatLessThanWellFounded, WFMin
<1>2. \A y \in S : ~(y < x)
    BY <1>1, Zenon DEF OpToRel
<1> QED BY <1>2

\* Of finitely many things in an order without cycles one is first.
LEMMA FirstOfFinite ==
    ASSUME NEW S, IsFiniteSet(S), S # {}, NEW R,
           \A x \in S : <<x, x>> \notin R,
           \A x, y, z \in S : <<x, y>> \in R /\ <<y, z>> \in R => <<x, z>> \in R
    PROVE  \E x \in S : \A y \in S : <<y, x>> \notin R
<1> DEFINE Below(x) == {y \in S : <<y, x>> \in R}
           N == {Cardinality(Below(x)) : x \in S}
<1>1. \A x \in S : IsFiniteSet(Below(x)) /\ Cardinality(Below(x)) \in Nat
    <2>1. \A x \in S : Below(x) \in SUBSET S
        OBVIOUS
    <2> HIDE DEF Below
    <2> QED BY <2>1, FS_Subset, FS_CardinalityType
<1>2. ASSUME NEW x \in S, NEW y \in S, <<y, x>> \in R
      PROVE  Cardinality(Below(y)) < Cardinality(Below(x))
    <2>1. Below(y) \in SUBSET Below(x) /\ Below(y) # Below(x)
        BY <1>2
    <2> HIDE DEF Below
    <2>2. Cardinality(Below(y)) <= Cardinality(Below(x)) /\ Cardinality(Below(y)) # Cardinality(Below(x))
        BY <1>1, <2>1, FS_Subset
    <2> QED BY <1>1, <2>2
<1> HIDE DEF Below
<1>3. N \in SUBSET Nat /\ N # {}
    BY <1>1
<1>4. PICK n \in N : \A m \in N : n <= m
    <2> HIDE DEF N
    <2> QED BY <1>3, LeastExists
<1>5. PICK x \in S : n = Cardinality(Below(x))
    OBVIOUS
<1>6. \A y \in S : Cardinality(Below(x)) <= Cardinality(Below(y))
    BY <1>4, <1>5
<1>7. \A y \in S : <<y, x>> \notin R
    BY <1>1, <1>2, <1>6
<1> QED BY <1>7

-----------------------------------------------------------------------------
(* The streaming server.                                                   *)

\* A registered socket is registered under its own id and has a handler that leaves.
HandlerLeaves ==
    \A c \in Stream!Registered :
        id[conn[c]] = c /\ handler[conn[c]] \in {"welcome", "loop", "leaving"}

\* A socket that is greeted or served and did not have to share its id is the only one that
\* uses it, and is in the registry, with no sweep about to take it out, unless one found it.
GreetedIsRegistered ==
    \A s \in Stream!Sockets \ shared : Stream!Uses(s, id[s]) =>
        /\ \A q \in Stream!Sockets : Stream!Uses(q, id[s]) => q = s
        /\ s \notin found => \A p \in Stream!Sweepers : id[s] \notin failed[p]
        /\ running /\ s \notin found => conn[id[s]] = s

StreamInv ==
    /\ Stream!TypeOK
    /\ HandlerLeaves
    /\ GreetedIsRegistered
    /\ Stream!CapacityKept

\* The server counts with the Cardinality of its own FiniteSets.
LEMMA SameCount == \A S : Stream!Cardinality(S) = Cardinality(S)
BY Zenon DEF Stream!Cardinality, Cardinality

LEMMA SocketsType == Stream!None \notin Stream!Sockets /\ \A s \in Stream!Sockets : s \in Nat
BY DEF Stream!Sockets, Stream!None

LEMMA StreamInit == ASSUME Stream!Init PROVE StreamInv
<1>1. Stream!Registered = {}
    BY DEF Stream!Init, Stream!Registered
<1>2. Stream!TypeOK
    BY StreamParameters DEF Stream!Init, Stream!TypeOK, Stream!Living
<1>3. HandlerLeaves /\ GreetedIsRegistered
    BY <1>1 DEF Stream!Init, HandlerLeaves, GreetedIsRegistered, Stream!Uses
<1>4. Stream!CapacityKept
    BY <1>1, FS_EmptySet, SameCount, StreamParameters DEF Stream!CapacityKept
<1> QED BY <1>2, <1>3, <1>4 DEF StreamInv

\* A step after which nobody else is registered keeps the limit.
LEMMA FewerKept ==
    ASSUME Stream!CapacityKept, Stream!Registered' \subseteq Stream!Registered
    PROVE  Stream!CapacityKept'
<1>1. IsFiniteSet(Stream!Registered)
    BY StreamParameters, FS_Subset DEF Stream!Registered
<1>2. Cardinality(Stream!Registered') <= Cardinality(Stream!Registered)
    BY <1>1, FS_Subset
<1>3. Cardinality(Stream!Registered) \in Nat /\ Cardinality(Stream!Registered') \in Nat
    BY <1>1, FS_Subset, FS_CardinalityType
<1> QED BY <1>2, <1>3, SameCount, StreamParameters DEF Stream!CapacityKept

\* Registering a socket keeps the limit, because it is checked when the socket is filed.
LEMMA RegisterCapacity ==
    ASSUME Stream!CapacityKept, NEW c \in Ids, NEW s, Stream!Register(c, s),
           conn \in [Ids -> Stream!Sockets \union {Stream!None}]
    PROVE  Stream!CapacityKept'
<1>1. IsFiniteSet(Stream!Registered)
    BY StreamParameters, FS_Subset DEF Stream!Registered
<1>2. Stream!Registered' \subseteq Stream!Registered \union {c}
    BY DEF Stream!Register, Stream!Registered
<1>3. /\ IsFiniteSet(Stream!Registered \union {c}) /\ Cardinality(Stream!Registered) \in Nat
      /\ Cardinality(Stream!Registered \union {c}) <= Cardinality(Stream!Registered) + 1
    <2>1. Cardinality(Stream!Registered) \in Nat
        BY <1>1, FS_CardinalityType
    <2>2. /\ IsFiniteSet(Stream!Registered \union {c})
          /\ Cardinality(Stream!Registered \union {c}) =
                IF c \in Stream!Registered THEN Cardinality(Stream!Registered)
                ELSE Cardinality(Stream!Registered) + 1
        BY <1>1, FS_AddElement
    <2> QED BY <2>1, <2>2
<1>4. Cardinality(Stream!Registered') <= Cardinality(Stream!Registered \union {c})
    BY <1>2, <1>3, FS_Subset
<1>5. Cardinality(Stream!Registered') \in Nat /\ Cardinality(Stream!Registered \union {c}) \in Nat
    BY <1>2, <1>3, FS_Subset, FS_CardinalityType
<1>6. Cardinality(Stream!Registered) < MaxConnections
    BY SameCount DEF Stream!Register
<1> QED BY <1>3, <1>4, <1>5, <1>6, SameCount, StreamParameters DEF Stream!CapacityKept

\* What only moves a handler between being greeted, being served and leaving, or breaks a socket.
LEMMA HandlerKeeps ==
    ASSUME StreamInv, NEW s \in Stream!Sockets,
           Stream!Accept(s) \/ Stream!Welcome(s) \/ Stream!Disconnected(s) \/ Stream!Break(s)
    PROVE  StreamInv'
<1> USE DEF StreamInv, Stream!TypeOK, Stream!Goto, Stream!tables, Stream!handlers, Stream!sweeps,
            Stream!Living
<1>1. UNCHANGED <<running, shared, conn, wants, active, count, aged, id, failed, found, queue, events,
                  beats>>
    BY DEF Stream!Accept, Stream!Welcome, Stream!Disconnected, Stream!Break
<1>2. /\ handler' \in [Stream!Sockets -> Stream!Living \union {"none", "ended"}]
      /\ broken' \subseteq Stream!Sockets
    BY DEF Stream!Accept, Stream!Welcome, Stream!Disconnected, Stream!Break
<1>3. Stream!Registered' = Stream!Registered
    BY <1>1 DEF Stream!Registered
<1>4. Stream!TypeOK' /\ Stream!CapacityKept'
    BY <1>1, <1>2, <1>3, FewerKept
<1>5. HandlerLeaves' /\ GreetedIsRegistered'
    BY <1>1, <1>3 DEF Stream!Accept, Stream!Welcome, Stream!Disconnected, Stream!Break,
       HandlerLeaves, GreetedIsRegistered, Stream!Registered, Stream!Uses
<1> QED BY <1>4, <1>5

\* What concerns subscriptions, activity and events leaves the registry as it is.
LEMMA TalkKeeps ==
    ASSUME StreamInv,
           \/ \E s \in Stream!Sockets : Stream!Subscribe(s) \/ Stream!Pong(s)
           \/ \E c \in Ids : Stream!Age(c)
           \/ Stream!QueueEvent \/ Stream!Rest
    PROVE  StreamInv'
<1> USE StreamParameters
    DEF StreamInv, Stream!TypeOK, Stream!tables, Stream!handlers, Stream!sweeps, Stream!Wishes
<1>1. UNCHANGED <<running, shared, conn, count, id, handler, broken, failed, found, beats>>
    BY DEF Stream!Subscribe, Stream!Pong, Stream!Age, Stream!QueueEvent, Stream!Rest, Stream!vars
<1>2. /\ wants' \in [Ids -> SUBSET Topics] /\ aged' \subseteq Ids /\ active' \subseteq Ids
      /\ queue' \subseteq Topics /\ events' \in 0..MaxEvents
    BY DEF Stream!Subscribe, Stream!Pong, Stream!Age, Stream!QueueEvent, Stream!Rest, Stream!vars
<1>3. Stream!Registered' = Stream!Registered
    BY <1>1 DEF Stream!Registered
<1>4. Stream!TypeOK' /\ Stream!CapacityKept'
    BY <1>1, <1>2, <1>3, FewerKept
<1>5. HandlerLeaves' /\ GreetedIsRegistered'
    BY <1>1, <1>3 DEF HandlerLeaves, GreetedIsRegistered, Stream!Uses
<1> QED BY <1>4, <1>5

LEMMA AdmitKeeps ==
    ASSUME StreamInv, NEW s \in Stream!Sockets, Stream!Admit(s) PROVE StreamInv'
<1> USE DEF StreamInv, Stream!TypeOK, Stream!Goto, Stream!tables, Stream!sweeps, Stream!Living
<1>1. UNCHANGED <<running, id, broken, failed, found, queue, events, beats>>
    BY DEF Stream!Admit
<1>2. CASE /\ Stream!Register(id[s], s) /\ Stream!Goto(s, "welcome")
           /\ shared' = IF Stream!Rivals(s) # {} \/ Stream!Awaited(s)
                        THEN shared \union {s} \union Stream!Rivals(s) ELSE shared
    <2>1. id[s] \in Ids /\ s # Stream!None
        BY SocketsType
    <2>a. shared' = IF Stream!Rivals(s) # {} \/ Stream!Awaited(s)
                    THEN shared \union {s} \union Stream!Rivals(s) ELSE shared
        BY <1>2
    <2>b. shared' \subseteq Stream!Sockets
        BY <2>a DEF Stream!Rivals
    <2>2. Stream!TypeOK'
        BY <1>1, <1>2, <2>1, <2>b, StreamParameters DEF Stream!Register
    <2>3. Stream!CapacityKept'
        BY <1>2, <2>1, RegisterCapacity
    <2>4. conn' = [conn EXCEPT ![id[s]] = s] /\ handler' = [handler EXCEPT ![s] = "welcome"]
        BY <1>2 DEF Stream!Register
    <2>5. HandlerLeaves'
        BY <1>1, <2>1, <2>4 DEF HandlerLeaves, Stream!Registered
    <2>6. handler[s] = "accepted"
        BY DEF Stream!Admit
    <2>7. \A q \in Stream!Sockets, c \in Ids :
             Stream!Uses(q, c)' <=> Stream!Uses(q, c) \/ (q = s /\ c = id[s])
        BY <1>1, <2>4 DEF Stream!Uses
    <2>8. ASSUME NEW q \in Stream!Sockets \ shared', Stream!Uses(q, id[q])', q # s
          PROVE  /\ id[q] # id[s] /\ q \notin shared /\ Stream!Uses(q, id[q])
        <3>1. Stream!Uses(q, id[q]) /\ q \notin shared
            BY <1>1, <2>6, <2>a, <2>8, <2>7
        <3>2. q \notin Stream!Rivals(s)
            BY <2>8, <2>a
        <3>3. id[q] # id[s]
            BY <2>8, <3>1, <3>2 DEF Stream!Rivals
        <3> QED BY <3>1, <3>3
    <2>9. ASSUME s \notin shared'
          PROVE  /\ \A q \in Stream!Sockets : ~(q # s /\ Stream!Uses(q, id[s]))
                 /\ \A p \in Stream!Sweepers : id[s] \notin failed[p]
        BY <2>9, <2>a DEF Stream!Rivals, Stream!Awaited
    <2>10. GreetedIsRegistered'
        <3> SUFFICES ASSUME NEW q \in Stream!Sockets \ shared', Stream!Uses(q, id[q])'
                     PROVE  /\ \A t \in Stream!Sockets : Stream!Uses(t, id[q])' => t = q
                            /\ q \notin found => \A p \in Stream!Sweepers : id[q] \notin failed[p]
                            /\ running /\ q \notin found => conn'[id[q]] = q
            BY <1>1 DEF GreetedIsRegistered, Stream!Uses
        <3>1. CASE q = s
            BY <1>1, <2>1, <2>4, <2>7, <2>9, <3>1
        <3>2. CASE q # s
            BY <1>1, <2>4, <2>7, <2>8, <3>2 DEF GreetedIsRegistered
        <3> QED BY <3>1, <3>2
    <2> QED BY <2>2, <2>3, <2>5, <2>10
<1>3. CASE Stream!Goto(s, "ended") /\ UNCHANGED <<conn, wants, active, count, aged, shared>>
    <2>1. handler[s] = "accepted"
        BY DEF Stream!Admit
    <2>2. Stream!Registered' = Stream!Registered
        BY <1>3 DEF Stream!Registered
    <2>3. Stream!TypeOK' /\ Stream!CapacityKept'
        BY <1>1, <1>3, <2>2, FewerKept
    <2>4. HandlerLeaves' /\ GreetedIsRegistered'
        BY <1>1, <1>3, <2>1, <2>2
           DEF HandlerLeaves, GreetedIsRegistered, Stream!Registered, Stream!Uses
    <2> QED BY <2>3, <2>4
<1> QED BY <1>2, <1>3 DEF Stream!Admit

\* Whoever unregisters an id, for a socket that leaves or behind a sweep, takes the right one:
\* the id of a socket that is served under an id of its own is not among them.
LEMMA UnregisterKeeps ==
    ASSUME StreamInv, NEW c \in Ids, Stream!Unregister(c)
    PROVE  /\ conn' \in [Ids -> Stream!Sockets \union {Stream!None}]
           /\ wants' \in [Ids -> SUBSET Topics]
           /\ aged' \subseteq Ids /\ active' \subseteq Ids
           /\ count' \in [Ids -> 0..RateLimit + 1]
           /\ Stream!CapacityKept'
           /\ Stream!Registered' = Stream!Registered \ {c}
           /\ \A d \in Ids \ {c} : conn'[d] = conn[d]
<1> USE DEF StreamInv, Stream!TypeOK, Stream!Unregister
<1>1. Stream!Registered' = Stream!Registered \ {c}
    BY DEF Stream!Registered
<1>2. Stream!CapacityKept'
    BY <1>1, FewerKept
<1> QED BY <1>1, <1>2, StreamParameters

LEMMA LeaveKeeps ==
    ASSUME StreamInv, NEW s \in Stream!Sockets, Stream!Leave(s) PROVE StreamInv'
<1> USE DEF Stream!TypeOK, Stream!Goto, Stream!sweeps
<1>1. id[s] \in Ids /\ handler[s] = "leaving"
    BY DEF StreamInv, Stream!Leave
<1>2. /\ handler' = [handler EXCEPT ![s] = "ended"]
      /\ UNCHANGED <<running, shared, id, broken, failed, found, queue, events, beats>>
    BY DEF Stream!Leave
<1>3. /\ conn' \in [Ids -> Stream!Sockets \union {Stream!None}]
      /\ wants' \in [Ids -> SUBSET Topics]
      /\ aged' \subseteq Ids /\ active' \subseteq Ids
      /\ count' \in [Ids -> 0..RateLimit + 1]
      /\ Stream!CapacityKept'
      /\ Stream!Registered' = Stream!Registered \ {id[s]}
      /\ \A d \in Ids \ {id[s]} : conn'[d] = conn[d]
    BY <1>1, UnregisterKeeps DEF Stream!Leave
<1>4. Stream!TypeOK'
    BY <1>2, <1>3 DEF StreamInv
<1>5. HandlerLeaves'
    BY <1>2, <1>3 DEF StreamInv, HandlerLeaves, Stream!Registered
<1>6. GreetedIsRegistered'
    BY <1>1, <1>2, <1>3 DEF StreamInv, GreetedIsRegistered, Stream!Uses
<1> QED BY <1>3, <1>4, <1>5, <1>6 DEF StreamInv

LEMMA CleanUpKeeps ==
    ASSUME StreamInv, NEW p \in Stream!Sweepers, Stream!CleanUp(p) PROVE StreamInv'
<1> USE DEF Stream!TypeOK, Stream!handlers
<1>1. PICK c \in failed[p] :
        Stream!Unregister(c) /\ failed' = [failed EXCEPT ![p] = failed[p] \ {c}]
    BY DEF Stream!CleanUp
<1>2. c \in Ids
    BY <1>1 DEF StreamInv
<1>3. UNCHANGED <<running, shared, id, handler, broken, found, queue, events, beats>>
    BY DEF Stream!CleanUp
<1>4. /\ conn' \in [Ids -> Stream!Sockets \union {Stream!None}]
      /\ wants' \in [Ids -> SUBSET Topics]
      /\ aged' \subseteq Ids /\ active' \subseteq Ids
      /\ count' \in [Ids -> 0..RateLimit + 1]
      /\ Stream!CapacityKept'
      /\ Stream!Registered' = Stream!Registered \ {c}
      /\ \A d \in Ids \ {c} : conn'[d] = conn[d]
    BY <1>1, <1>2, UnregisterKeeps
<1>5. Stream!TypeOK'
    BY <1>1, <1>3, <1>4 DEF StreamInv
<1>6. HandlerLeaves'
    BY <1>3, <1>4 DEF StreamInv, HandlerLeaves, Stream!Registered
<1>7. \A q \in Stream!Sweepers : failed'[q] \subseteq failed[q]
    BY <1>1 DEF StreamInv
<1>8. GreetedIsRegistered'
    BY <1>1, <1>3, <1>4, <1>7 DEF StreamInv, GreetedIsRegistered, Stream!Uses
<1> QED BY <1>4, <1>5, <1>6, <1>8 DEF StreamInv

\* A sweep finds sockets under the ids it will unregister.
LEMMA SweepKeeps ==
    ASSUME StreamInv, NEW p \in Stream!Sweepers, NEW lost \in SUBSET Stream!Registered,
           failed' = [failed EXCEPT ![p] = lost],
           found' = found \union {conn[c] : c \in lost},
           UNCHANGED <<running, shared, conn, id, handler, broken>>
    PROVE  /\ failed' \in [Stream!Sweepers -> SUBSET Ids] /\ found' \subseteq Stream!Sockets
           /\ HandlerLeaves' /\ GreetedIsRegistered' /\ Stream!CapacityKept'
<1> USE DEF StreamInv, Stream!TypeOK, Stream!Registered
<1>1. failed' \in [Stream!Sweepers -> SUBSET Ids] /\ found' \subseteq Stream!Sockets
    OBVIOUS
<1>2. HandlerLeaves'
    BY DEF HandlerLeaves
<1>3. GreetedIsRegistered'
    <2>1. ASSUME NEW s \in Stream!Sockets \ shared, Stream!Uses(s, id[s]), s \notin found',
                 NEW q \in Stream!Sweepers, id[s] \in failed'[q]
          PROVE  FALSE
        <3>1. id[s] \in lost
            BY <2>1 DEF GreetedIsRegistered
        <3>2. conn[id[s]] \in found' /\ conn[id[s]] \in Stream!Sockets
            BY <3>1
        <3>3. Stream!Uses(conn[id[s]], id[s])
            BY <3>1 DEF HandlerLeaves, Stream!Uses
        <3> QED BY <2>1, <3>2, <3>3 DEF GreetedIsRegistered
    <2> QED BY <2>1 DEF GreetedIsRegistered, Stream!Uses
<1>4. Stream!CapacityKept'
    BY FewerKept
<1> QED BY <1>1, <1>2, <1>3, <1>4

LEMMA BroadcastKeeps == ASSUME StreamInv, Stream!Broadcast PROVE StreamInv'
<1>1. PICK t \in queue :
        LET to == {c \in Stream!Registered : Stream!Interested(c, t)}
            lost == {c \in to : conn[c] \in broken} IN
        /\ queue' = queue \ {t}
        /\ count' = [c \in Ids |-> IF c \in to \ lost THEN count[c] + 1 ELSE count[c]]
        /\ active' = active \union (to \ lost) /\ aged' = aged \ (to \ lost)
        /\ failed' = [failed EXCEPT !["events"] = lost]
        /\ found' = found \union {conn[c] : c \in lost}
    BY DEF Stream!Broadcast
<1> DEFINE to == {c \in Stream!Registered : Stream!Interested(c, t)}
           lost == {c \in to : conn[c] \in broken}
<1>2. UNCHANGED <<running, shared, conn, wants, id, handler, broken, events, beats>>
    BY DEF Stream!Broadcast, Stream!handlers
<1>3. count' \in [Ids -> 0..RateLimit + 1]
    BY <1>1, StreamParameters DEF Stream!Interested, StreamInv, Stream!TypeOK
<1>4. queue' \subseteq Topics /\ active' \subseteq Ids /\ aged' \subseteq Ids
    BY <1>1 DEF StreamInv, Stream!TypeOK, Stream!Registered
<1>5. /\ failed' \in [Stream!Sweepers -> SUBSET Ids] /\ found' \subseteq Stream!Sockets
      /\ HandlerLeaves' /\ GreetedIsRegistered' /\ Stream!CapacityKept'
    BY <1>1, <1>2, SweepKeeps DEF Stream!Sweepers
<1> QED BY <1>2, <1>3, <1>4, <1>5 DEF StreamInv, Stream!TypeOK

LEMMA HeartbeatKeeps == ASSUME StreamInv, Stream!Heartbeat PROVE StreamInv'
<1> DEFINE silent == {c \in Stream!Registered : c \in aged \/ c \notin active}
           pinged == Stream!Registered \ silent
           lost == silent \union {c \in pinged : conn[c] \in broken}
<1>1. /\ count' = [c \in Ids |-> IF c \in pinged THEN 0 ELSE count[c]]
      /\ failed' = [failed EXCEPT !["heartbeat"] = lost]
      /\ found' = found \union {conn[c] : c \in lost}
    BY DEF Stream!Heartbeat
<1>2. UNCHANGED <<running, shared, conn, wants, active, aged, id, handler, broken, queue, events>>
    BY DEF Stream!Heartbeat, Stream!handlers
<1>3. count' \in [Ids -> 0..RateLimit + 1]
    BY <1>1, StreamParameters DEF StreamInv, Stream!TypeOK
<1>4. beats' \in 0..MaxBeats
    BY StreamParameters DEF Stream!Heartbeat, StreamInv, Stream!TypeOK
<1>5. /\ failed' \in [Stream!Sweepers -> SUBSET Ids] /\ found' \subseteq Stream!Sockets
      /\ HandlerLeaves' /\ GreetedIsRegistered' /\ Stream!CapacityKept'
    BY <1>1, <1>2, SweepKeeps DEF Stream!Sweepers
<1> QED BY <1>2, <1>3, <1>4, <1>5 DEF StreamInv, Stream!TypeOK

LEMMA StopKeeps == ASSUME StreamInv, Stream!Stop PROVE StreamInv'
<1> USE DEF StreamInv, Stream!TypeOK, Stream!Stop
<1>1. Stream!Registered' = {}
    BY DEF Stream!Registered
<1>2. Stream!TypeOK'
    <2>1. broken' \subseteq Stream!Sockets
        BY DEF Stream!Registered
    <2>2. /\ conn' \in [Ids -> Stream!Sockets \union {Stream!None}]
          /\ wants' \in [Ids -> SUBSET Topics]
          /\ failed' \in [Stream!Sweepers -> SUBSET Ids]
        OBVIOUS
    <2> QED BY <2>1, <2>2
<1>3. Stream!CapacityKept'
    BY <1>1, FewerKept
<1>4. HandlerLeaves' /\ GreetedIsRegistered'
    BY <1>1 DEF HandlerLeaves, GreetedIsRegistered, Stream!Uses
<1> QED BY <1>2, <1>3, <1>4

LEMMA StreamNext == ASSUME StreamInv, [Stream!Next]_streamVars PROVE StreamInv'
<1>1. CASE UNCHANGED streamVars
    BY <1>1, TalkKeeps
       DEF Stream!Rest, streamVars, StreamInv, Stream!TypeOK, HandlerLeaves, GreetedIsRegistered,
           Stream!Uses, Stream!Registered, Stream!CapacityKept
<1>2. CASE Stream!Next
    BY <1>2, HandlerKeeps, TalkKeeps, AdmitKeeps, LeaveKeeps, CleanUpKeeps, BroadcastKeeps,
       HeartbeatKeeps, StopKeeps
       DEF Stream!Next, Stream!HandlerStep
<1> QED BY <1>1, <1>2

-----------------------------------------------------------------------------
(* The job queue.                                                          *)

QueueInv ==
    /\ now \in Nat /\ created \in [QueuedJobs -> Nat]
    /\ taken = [j \in QueuedJobs |-> taken[j]] /\ queueQueue \subseteq QueuedJobs
    /\ waiting \subseteq QueuedJobs

LEMMA QueueInit == ASSUME Queue!Init PROVE QueueInv
BY QueueParameters DEF Queue!Init, Queue!Never, QueueInv

LEMMA QueueNext == ASSUME QueueInv, [Queue!Next]_queueVars PROVE QueueInv'
<1> USE DEF QueueInv
<1>1. CASE UNCHANGED queueVars
    BY <1>1 DEF queueVars
<1>2. ASSUME NEW j \in QueuedJobs, Queue!Enqueue(j) \/ Queue!Put(j) \/ Queue!EnqueueTimeout(j)
      PROVE  QueueInv'
    BY <1>2 DEF Queue!Enqueue, Queue!Put, Queue!EnqueueTimeout, Queue!consumerVars
<1>3. ASSUME NEW c \in Consumers, Queue!Dequeue(c) \/ Queue!Wake(c) PROVE QueueInv'
    BY <1>3 DEF Queue!Dequeue, Queue!Wake
<1>4. ASSUME NEW c \in Consumers, NEW j \in QueuedJobs, Queue!Get(c, j) PROVE QueueInv'
    BY <1>4 DEF Queue!Get
<1>5. CASE Queue!Tick
    BY <1>5 DEF Queue!Tick, Queue!consumerVars
<1> QED BY <1>1, <1>2, <1>3, <1>4, <1>5 DEF Queue!Next

LEMMA FirstMadeImplied ==
    ASSUME QueueInv, [Queue!Next]_queueVars, NEW j \in QueuedJobs, NEW k \in QueuedJobs,
           taken[j] = Queue!Never, taken'[j] # Queue!Never, k \in queueQueue,
           JobPriority[j] = JobPriority[k]
    PROVE  created[j] <= created[k]
<1>1. taken' # taken
    OBVIOUS
<1>2. PICK c \in Consumers, i \in QueuedJobs : Queue!Get(c, i)
    BY <1>1 DEF Queue!Next, queueVars, Queue!Enqueue, Queue!Put, Queue!EnqueueTimeout,
       Queue!Dequeue, Queue!Wake, Queue!Tick
<1>3. i = j
    BY <1>2 DEF Queue!Get, QueueInv
<1>4. ~Queue!Before(k, j)
    BY <1>2, <1>3 DEF Queue!Get
<1> QED BY <1>4, QueueParameters DEF Queue!Before, QueueInv

-----------------------------------------------------------------------------
(* The genetic optimizer.                                                  *)

\* While run() runs the population has its size, and each chromosome its fitness.
GeneticInv ==
    phase \in {"evaluate", "score", "check", "evolve"} =>
        /\ DOMAIN population = 1..PopulationSize
        /\ \A i \in 1..PopulationSize :
            /\ population[i] = [genes |-> population[i].genes, fitness |-> population[i].fitness]
            /\ population[i].fitness \in Nat

LEMMA GeneticInit == ASSUME Genetic!Init PROVE GeneticInv
BY DEF Genetic!Init, GeneticInv

\* Nobody in the next population has been evaluated.
LEMMA EvolvedIsNew ==
    ASSUME NEW p, NEW q \in Genetic!Evolved(p), NEW n \in 1..PopulationSize
    PROVE  \E g : q[n] = Genetic!Copy(g)
<1> DEFINE half == (PopulationSize - EliteCount + 1) \div 2
           m == n - EliteCount
<1>1. PICK pairs \in [1..half -> Genetic!Offspring(p)] :
            q[n] = IF m <= 0 THEN Genetic!Elite(p)[n] ELSE pairs[(m + 1) \div 2][2 - (m % 2)]
    BY DEF Genetic!Evolved
<1>2. CASE m <= 0
    <2>1. n \in 1..EliteCount
        BY <1>2, GeneticParameters
    <2> QED BY <1>1, <1>2, <2>1 DEF Genetic!Elite
<1>3. CASE ~(m <= 0)
    <2>1. (m + 1) \div 2 \in 1..half /\ 2 - (m % 2) \in {1, 2}
        <3>1. /\ PopulationSize \in Nat \ {0} /\ EliteCount \in Nat \ {0}
              /\ EliteCount <= PopulationSize
            BY GeneticParameters
        <3> QED BY <1>3, <3>1
    <2>2. pairs[(m + 1) \div 2] \in Genetic!Offspring(p)
        BY <2>1
    <2>3. PICK c, d : pairs[(m + 1) \div 2] = <<Genetic!Copy(c), Genetic!Copy(d)>>
        BY <2>2 DEF Genetic!Offspring
    <2> QED BY <1>1, <1>3, <2>1, <2>3
<1> QED BY <1>2, <1>3

LEMMA GeneticNext == ASSUME GeneticInv, [Genetic!Next]_geneticVars PROVE GeneticInv'
<1> USE DEF GeneticInv
<1>1. CASE UNCHANGED geneticVars
    BY <1>1 DEF geneticVars
<1>2. CASE Genetic!InitializePopulation
    BY <1>2 DEF Genetic!InitializePopulation, Genetic!Copy
<1>3. CASE Genetic!EvaluatePopulation
    <2>1. PICK fitness \in [1..PopulationSize -> 0..MaxFitness] :
                population' = [i \in 1..PopulationSize |-> [population[i] EXCEPT !.fitness = fitness[i]]]
        BY <1>3 DEF Genetic!EvaluatePopulation
    <2>2. ASSUME NEW i \in 1..PopulationSize
          PROVE  population'[i] = [genes |-> population[i].genes, fitness |-> fitness[i]]
        BY <1>3, <2>1 DEF Genetic!EvaluatePopulation
    <2>3. \A i \in 1..PopulationSize : fitness[i] \in Nat
        BY GeneticParameters
    <2> QED BY <1>3, <2>1, <2>2, <2>3 DEF Genetic!EvaluatePopulation
<1>4. CASE Genetic!UpdateBest
    BY <1>4 DEF Genetic!UpdateBest
<1>5. CASE Genetic!CheckConvergence
    BY <1>5 DEF Genetic!CheckConvergence
<1>6. CASE Genetic!EvolveGeneration
    <2>1. population' \in Genetic!Evolved(population) /\ phase' = "evaluate"
        BY <1>6 DEF Genetic!EvolveGeneration
    <2>2. DOMAIN population' = 1..PopulationSize
        BY <2>1 DEF Genetic!Evolved
    <2>3. ASSUME NEW i \in 1..PopulationSize
          PROVE  \E g : population'[i] = Genetic!Copy(g)
        BY <2>1, EvolvedIsNew
    <2> QED BY <2>1, <2>2, <2>3 DEF Genetic!Copy
<1>7. CASE Genetic!SaveState \/ Genetic!LoadState \/ Genetic!Crash
    BY <1>7 DEF Genetic!SaveState, Genetic!LoadState, Genetic!Crash
<1> QED BY <1>1, <1>2, <1>3, <1>4, <1>5, <1>6, <1>7 DEF Genetic!Next

LEMMA GeneticCount == \A S : Genetic!Cardinality(S) = Cardinality(S)
BY Zenon DEF Genetic!Cardinality, Cardinality

\* The first of the sorted population is a fittest one.
LEMMA FirstIsFittest ==
    ASSUME GeneticInv, phase = "evolve"
    PROVE  \E i \in Genetic!Fittest(population) : Genetic!Sorted(population)[1] = population[i]
<1> DEFINE D == 1..PopulationSize
           Above(a, b) == \/ population[a].fitness > population[b].fitness
                          \/ population[a].fitness = population[b].fitness /\ a < b
           R == {p \in D \X D : Above(p[1], p[2])}
<1>1. /\ DOMAIN population = D /\ 1 \in D /\ D \subseteq Nat
      /\ \A i \in D : population[i].fitness \in Nat
    BY GeneticParameters DEF GeneticInv
<1>2. IsFiniteSet(D)
    BY GeneticParameters, FS_Interval
<1>3. PICK i \in D : \A k \in D : ~Above(k, i)
    <2>1. /\ \A x \in D : <<x, x>> \notin R
          /\ \A x, y, z \in D : <<x, y>> \in R /\ <<y, z>> \in R => <<x, z>> \in R
        BY <1>1
    <2> HIDE DEF D
    <2>2. \E i \in D : \A k \in D : <<k, i>> \notin R
        <3>1. D # {}
            BY <1>1
        <3> HIDE DEF R
        <3> QED BY <1>2, <2>1, <3>1, FirstOfFinite
    <2> QED BY <2>2
<1>4. Cardinality({k \in D : Above(k, i)}) = 0
    <2>1. {k \in D : Above(k, i)} = {}
        BY <1>3
    <2> QED BY <2>1, FS_EmptySet
<1> DEFINE Top == CHOOSE x \in D : Genetic!Cardinality({k \in D : Above(k, x)}) = 1 - 1
<1>5. Top \in D /\ Cardinality({k \in D : Above(k, Top)}) = 0
    <2> HIDE DEF Above, D
    <2> QED BY <1>4, GeneticCount
<1>6. Genetic!Sorted(population)[1] = population[Top]
    BY <1>1 DEF Genetic!Sorted
<1> HIDE DEF Top
<1>7. {k \in D : Above(k, Top)} = {}
    <2>1. IsFiniteSet({k \in D : Above(k, Top)})
        <3> HIDE DEF D, Above
        <3>1. {k \in D : Above(k, Top)} \subseteq D
            OBVIOUS
        <3> QED BY <1>2, <3>1, FS_Subset
    <2> QED BY <1>5, <2>1, FS_EmptySet
<1>8. Top \in Genetic!Fittest(population)
    BY <1>1, <1>5, <1>7 DEF Genetic!Fittest
<1> QED BY <1>6, <1>8

LEMMA EliteImplied ==
    ASSUME GeneticInv, [Genetic!Next]_geneticVars, phase = "evolve", phase' = "evaluate"
    PROVE  \E i \in Genetic!Fittest(population), k \in 1..PopulationSize :
                population'[k].genes = population[i].genes
<1>1. population' \in Genetic!Evolved(population)
    BY DEF Genetic!Next, geneticVars, Genetic!InitializePopulation, Genetic!EvaluatePopulation,
       Genetic!UpdateBest, Genetic!CheckConvergence, Genetic!EvolveGeneration, Genetic!SaveState,
       Genetic!LoadState, Genetic!Crash
<1>2. 1 \in 1..PopulationSize /\ 1 \in 1..EliteCount /\ 1 - EliteCount <= 0
    BY GeneticParameters
<1>3. population'[1] = Genetic!Elite(population)[1]
    BY <1>1, <1>2 DEF Genetic!Evolved
<1>4. Genetic!Elite(population)[1].genes = Genetic!Sorted(population)[1].genes
    BY <1>2 DEF Genetic!Elite, Genetic!Copy
<1> QED BY <1>2, <1>3, <1>4, FirstIsFittest

-----------------------------------------------------------------------------
(* The tests of variants.                                                  *)

TrialInv ==
    /\ DOMAIN results = 1..Len(results) /\ Len(results) \in Nat
    /\ \A v \in DOMAIN results :
        /\ results[v].total \in Nat /\ results[v].successful \in Nat
        /\ results[v].time \in 0..MaxTime /\ results[v].spread \in 0..MaxTime

\* A finite set of numbers that is not empty has a greatest one.
LEMMA GreatestIsMember ==
    ASSUME NEW S \in SUBSET Nat, IsFiniteSet(S), S # {}
    PROVE  Trial!Max(S) \in S /\ \A x \in S : x <= Trial!Max(S)
<1> DEFINE R == {p \in S \X S : p[1] > p[2]}
<1>1. /\ \A x \in S : <<x, x>> \notin R
      /\ \A x, y, z \in S : <<x, y>> \in R /\ <<y, z>> \in R => <<x, z>> \in R
    OBVIOUS
<1>2. PICK x \in S : \A y \in S : <<y, x>> \notin R
    <2> HIDE DEF R
    <2> QED BY <1>1, FirstOfFinite
<1>3. \A y \in S : ~(y > x)
    <2> TAKE y \in S
    <2> QED BY <1>2
<1>4. \A y \in S : x >= y
    BY <1>3
<1> QED BY <1>4 DEF Trial!Max

LEMMA TrialInit == ASSUME Trial!Init PROVE TrialInv
BY DEF Trial!Init, TrialInv

LEMMA TrialNext == ASSUME TrialInv, [Trial!Next]_trialVars PROVE TrialInv'
<1>1. CASE UNCHANGED results
    BY <1>1 DEF TrialInv
<1>2. ASSUME NEW n \in Counts, Trial!Measure(n) PROVE TrialInv'
    <2>1. Trial!Max(Counts) \in Nat
        BY GreatestIsMember, TrialParameters
    <2>2. PICK r \in Trial!Result : results' = Append(results, r)
        BY <1>2 DEF Trial!Measure
    <2>3. /\ r.total \in Nat /\ r.successful \in Nat
          /\ r.time \in 0..MaxTime /\ r.spread \in 0..MaxTime
        <3>1. r \in [total : Counts, successful : 0..Trial!Max(Counts), time : 0..MaxTime,
                     spread : 0..MaxTime]
            BY DEF Trial!Result
        <3>2. /\ r.total \in Counts /\ r.successful \in 0..Trial!Max(Counts)
              /\ r.time \in 0..MaxTime /\ r.spread \in 0..MaxTime
            BY <3>1, Zenon
        <3>3. r.total \in Nat
            BY <3>2, TrialParameters
        <3>4. r.successful \in Nat
            BY <2>1, <3>2
        <3> QED BY <3>2, <3>3, <3>4
    <2>4. /\ Len(results') = Len(results) + 1 /\ DOMAIN results' = 1..Len(results')
          /\ \A v \in DOMAIN results' : results'[v] = IF v \in DOMAIN results THEN results[v] ELSE r
        BY <2>2 DEF TrialInv
    <2> QED BY <2>3, <2>4 DEF TrialInv
<1> QED BY <1>1, <1>2 DEF Trial!Next, Trial!TestNext, Trial!ExperimentNext, Trial!Analyze,
        Trial!CreateExperiment, Trial!Test, Trial!StopExperiment, Trial!Record, Trial!testVars,
        trialVars

\* A factor that is positive can be taken away on both sides.
LEMMA Cancelled ==
    ASSUME NEW x \in Int, NEW y \in Int, NEW k \in Nat \ {0}, x * k <= y * k PROVE x <= y
<1> SUFFICES ASSUME x >= y + 1 PROVE FALSE
    OBVIOUS
<1>1. (x - y) * k >= k
    OBVIOUS
<1>2. (x - y) * k = x * k - y * k
    OBVIOUS
<1> QED BY <1>1, <1>2

\* At the same rate and spread the score that is not lower is not slower.
LEMMA FasterScores ==
    ASSUME NEW a \in Nat, NEW b \in Nat, NEW n \in Nat \ {0}, NEW m \in Nat \ {0},
           NEW T \in Nat \ {0}, NEW S \in Nat \ {0}, NEW t \in Nat, NEW u \in Nat, NEW s \in Nat,
           a * m = b * n,
           (5 * a * T * S + (3 * (T - t) * S + 2 * (S - s) * T) * n) * m
                <= (5 * b * T * S + (3 * (T - u) * S + 2 * (S - s) * T) * m) * n
    PROVE  u <= t
<1> DEFINE X == 3 * (T - t) * S + 2 * (S - s) * T
           Y == 3 * (T - u) * S + 2 * (S - s) * T
           A == 5 * a * T * S
           B == 5 * b * T * S
<1>1. X \in Int /\ Y \in Int /\ A \in Int /\ B \in Int /\ n * m \in Nat \ {0}
    OBVIOUS
<1>2. A * m = B * n
    <2>1. A * m = (a * m) * (5 * T * S) /\ B * n = (b * n) * (5 * T * S)
        OBVIOUS
    <2> QED BY <2>1
<1>3. X * (n * m) <= Y * (n * m)
    <2>1. (A + X * n) * m <= (B + Y * m) * n
        OBVIOUS
    <2> HIDE DEF X, Y, A, B
    <2>2. (A + X * n) * m = A * m + X * (n * m)
        BY <1>1
    <2>3. (B + Y * m) * n = B * n + Y * (n * m)
        BY <1>1
    <2>4. X * (n * m) \in Int /\ Y * (n * m) \in Int /\ A * m \in Int /\ B * n \in Int
        BY <1>1
    <2> QED BY <1>2, <2>1, <2>2, <2>3, <2>4
<1>4. X <= Y
    <2> HIDE DEF X, Y
    <2> QED BY <1>1, <1>3, Cancelled
<1>5. (T - t) * S <= (T - u) * S
    <2>1. (T - t) * S \in Int /\ (T - u) * S \in Int /\ 2 * (S - s) * T \in Int
        OBVIOUS
    <2>2. 3 * (T - t) * S = 3 * ((T - t) * S) /\ 3 * (T - u) * S = 3 * ((T - u) * S)
        OBVIOUS
    <2> QED BY <1>4, <2>1, <2>2
<1>6. T - t <= T - u
    BY <1>5, Cancelled
<1> QED BY <1>6

LEMMA WinnerImplied ==
    ASSUME TrialInv, [Trial!Next]_trialVars, winner' # winner, NEW v \in Trial!Valid(results),
           results[v].successful * results[winner'].total
                = results[winner'].successful * results[v].total,
           results[v].spread = results[winner'].spread
    PROVE  results[winner'].time <= results[v].time
<1> DEFINE V == Trial!Valid(results)
           NoBetter(x, y) ==
                Trial!Score(results, x) * results[y].total <= Trial!Score(results, y) * results[x].total
           highest == {y \in V : \A x \in V : NoBetter(x, y)}
<1>1. winner = 0 /\ winner' = Trial!Winner(results)
    BY DEF Trial!Next, Trial!TestNext, Trial!ExperimentNext, Trial!Analyze, Trial!Measure,
       Trial!CreateExperiment, Trial!Test, Trial!StopExperiment, Trial!Record, Trial!testVars,
       trialVars
<1>2. V \subseteq Nat
    BY DEF TrialInv, Trial!Valid
<1>3. winner' \in highest
    <2>1. winner' = IF highest = {} THEN 0 ELSE Trial!Min(highest)
        BY <1>1 DEF Trial!Winner
    <2>2. highest # {} /\ winner' = Trial!Min(highest) /\ highest \in SUBSET Nat
        BY <1>1, <1>2, <2>1
    <2> HIDE DEF highest
    <2>3. \E x \in highest : \A y \in highest : x <= y
        BY <2>2, LeastExists
    <2> QED BY <2>2, <2>3 DEF Trial!Min
<1>4. \A x \in V : /\ results[x].total \in Nat \ {0} /\ results[x].successful \in Nat
                   /\ results[x].time \in 0..MaxTime /\ results[x].spread \in 0..MaxTime
    BY DEF TrialInv, Trial!Valid
<1> DEFINE time == Trial!OrOne(Trial!Longest(results))
           spread == Trial!OrOne(Trial!Widest(results))
<1>5. time \in Nat \ {0} /\ spread \in Nat \ {0}
    <2> DEFINE times == {results[x].time : x \in V} \union {0}
               spreads == {results[x].spread : x \in V} \union {0}
    <2>1. times \subseteq 0..MaxTime /\ spreads \subseteq 0..MaxTime /\ times # {} /\ spreads # {}
        BY <1>4, TrialParameters
    <2>2. IsFiniteSet(0..MaxTime) /\ 0..MaxTime \subseteq Nat
        <3>1. 0 \in Int /\ MaxTime \in Int
            BY TrialParameters
        <3> QED BY <3>1, FS_Interval
    <2> HIDE DEF times, spreads
    <2>3. Trial!Max(times) \in Nat /\ Trial!Max(spreads) \in Nat
        BY <2>1, <2>2, FS_Subset, GreatestIsMember
    <2> QED BY <2>3 DEF Trial!OrOne, Trial!Longest, Trial!Widest, times, spreads
<1>6. NoBetter(v, winner')
    BY <1>3
<1>7. /\ Trial!Score(results, v) = 5 * results[v].successful * time * spread
            + (3 * (time - results[v].time) * spread + 2 * (spread - results[v].spread) * time) * results[v].total
      /\ Trial!Score(results, winner') = 5 * results[winner'].successful * time * spread
            + (3 * (time - results[winner'].time) * spread
               + 2 * (spread - results[v].spread) * time) * results[winner'].total
    BY DEF Trial!Score
<1>8. v \in V /\ winner' \in V /\ results[v].time \in Nat /\ results[winner'].time \in Nat
      /\ results[v].spread \in Nat
    BY <1>3, <1>4, TrialParameters
<1> HIDE DEF time, spread, V
<1>9. results[v].total \in Nat \ {0} /\ results[winner'].total \in Nat \ {0}
      /\ results[v].successful \in Nat /\ results[winner'].successful \in Nat
    BY <1>4, <1>8
<1> DEFINE n == results[v].total
           m == results[winner'].total
           a == results[v].successful
           b == results[winner'].successful
           t == results[v].time
           u == results[winner'].time
           s == results[v].spread
<1>10. (5 * a * time * spread + (3 * (time - t) * spread + 2 * (spread - s) * time) * n) * m
        <= (5 * b * time * spread + (3 * (time - u) * spread + 2 * (spread - s) * time) * m) * n
    BY <1>6, <1>7, Zenon
<1>11. a * m = b * n
    OBVIOUS
<1>12. /\ a \in Nat /\ b \in Nat /\ n \in Nat \ {0} /\ m \in Nat \ {0}
       /\ t \in Nat /\ u \in Nat /\ s \in Nat
    BY <1>8, <1>9
<1> HIDE DEF n, m, a, b, t, u, s
<1>13. u <= t
    BY <1>5, <1>10, <1>11, <1>12, FasterScores
<1> QED BY <1>13 DEF t, u

-----------------------------------------------------------------------------
(* The dead letters.                                                       *)

LEMMA LettersCount == \A S : Letters!Cardinality(S) = Cardinality(S)
BY Zenon DEF Letters!Cardinality, Cardinality

\* Finitely many things with keys that differ have an order: a thing's place is the number of
\* keys up to its own.
LEMMA OrderExists ==
    ASSUME NEW S, IsFiniteSet(S), NEW key, \A x \in S : key[x] \in Nat,
           \A x, y \in S : key[x] = key[y] => x = y
    PROVE  \E s \in Letters!SetToSeqs(S) : \A i, k \in DOMAIN s : i < k => key[s[i]] < key[s[k]]
<1> DEFINE N == Cardinality(S)
           Below(x) == {y \in S : key[y] <= key[x]}
           place == [x \in S |-> Cardinality(Below(x))]
<1>1. N \in Nat
    BY FS_CardinalityType
<1>2. ASSUME NEW x \in S PROVE IsFiniteSet(Below(x)) /\ place[x] \in 1..N
    <2>1. Below(x) \in SUBSET S /\ x \in Below(x)
        OBVIOUS
    <2>2. IsFiniteSet(Below(x)) /\ Cardinality(Below(x)) <= N /\ Cardinality(Below(x)) \in Nat
        <3> HIDE DEF Below
        <3> QED BY <2>1, FS_Subset, FS_CardinalityType
    <2>3. Cardinality(Below(x)) # 0
        BY <2>1, <2>2, FS_EmptySet
    <2> HIDE DEF Below
    <2> QED BY <1>1, <2>2, <2>3
<1>3. ASSUME NEW x \in S, NEW y \in S, key[x] < key[y] PROVE place[x] < place[y]
    <2>1. Below(x) \in SUBSET Below(y) /\ Below(x) # Below(y)
        BY <1>3
    <2>2. IsFiniteSet(Below(y)) /\ place[x] \in 1..N /\ place[y] \in 1..N
        BY <1>2
    <2>3. Cardinality(Below(x)) <= Cardinality(Below(y)) /\ Cardinality(Below(x)) # Cardinality(Below(y))
        <3> HIDE DEF Below
        <3> QED BY <2>1, <2>2, FS_Subset
    <2>4. place[x] = Cardinality(Below(x)) /\ place[y] = Cardinality(Below(y))
        OBVIOUS
    <2> HIDE DEF Below, place
    <2> QED BY <1>1, <2>2, <2>3, <2>4
<1>4. place \in [S -> 1..N]
    BY <1>2
<1> HIDE DEF Below, place
<1>5. \A x, y \in S : place[x] = place[y] => x = y
    BY <1>1, <1>3, <1>4
<1>6. \A n \in 1..N : \E x \in S : place[x] = n
    <2>1. IsFiniteSet(1..N) /\ Cardinality(1..N) = N
        BY <1>1, FS_Interval
    <2>2. place \in Injection(S, 1..N)
        BY <1>4, <1>5 DEF Injection, IsInjective
    <2>3. place \in Surjection(S, 1..N)
        BY <2>1, <2>2, FS_Injection
    <2> QED BY <2>3 DEF Surjection
<1> DEFINE s == [n \in 1..N |-> CHOOSE x \in S : place[x] = n]
<1>7. \A n \in 1..N : s[n] \in S /\ place[s[n]] = n
    BY <1>6
<1>8. s \in [1..N -> S]
    BY <1>7
<1> HIDE DEF s
<1>9. s \in Letters!SetToSeqs(S)
    <2>1. \A i, k \in 1..N : i # k => s[i] # s[k]
        BY <1>7
    <2> QED BY <1>8, <2>1, LettersCount, Zenon DEF Letters!SetToSeqs
<1>10. ASSUME NEW i \in 1..N, NEW k \in 1..N, i < k PROVE key[s[i]] < key[s[k]]
    <2>1. SUFFICES ASSUME key[s[k]] < key[s[i]] PROVE FALSE
        BY <1>7, <1>10
    <2>2. place[s[k]] < place[s[i]]
        BY <1>3, <1>7, <2>1
    <2> QED BY <1>1, <1>7, <1>10, <2>2
<1> QED BY <1>8, <1>9, <1>10

\* What is put in order is all there is, in the order of the keys.
LEMMA Ordered ==
    ASSUME NEW S, IsFiniteSet(S), NEW key, DOMAIN key = S, \A x \in S : key[x] \in Nat,
           \A x, y \in S : key[x] = key[y] => x = y
    PROVE  LET s == Letters!InOrder(key) IN
           /\ Cardinality(S) \in Nat /\ s \in [1..Cardinality(S) -> S]
           /\ \A x \in S : \E n \in 1..Cardinality(S) : s[n] = x
           /\ \A i, k \in 1..Cardinality(S) : i < k => key[s[i]] < key[s[k]]
<1> DEFINE s == Letters!InOrder(key)
           N == Cardinality(S)
<1>1. s \in Letters!SetToSeqs(S) /\ \A i, k \in DOMAIN s : i < k => key[s[i]] < key[s[k]]
    <2>1. \E z \in Letters!SetToSeqs(S) : \A i, k \in DOMAIN z : i < k => key[z[i]] < key[z[k]]
        BY OrderExists
    <2> QED BY <2>1, Zenon DEF Letters!InOrder
<1> HIDE DEF s
<1>2. s \in [1..N -> S] /\ \A i, k \in 1..N : i # k => s[i] # s[k]
    BY <1>1, LettersCount, Zenon DEF Letters!SetToSeqs
<1>3. N \in Nat /\ IsFiniteSet(1..N) /\ Cardinality(1..N) = N
    <2>1. N \in Nat
        BY FS_CardinalityType
    <2> QED BY <2>1, FS_Interval
<1>4. s \in Surjection(1..N, S)
    <2>1. s \in Injection(1..N, S)
        BY <1>2 DEF Injection, IsInjective
    <2> QED BY <1>3, <2>1, FS_Injection
<1> QED BY <1>1, <1>2, <1>3, <1>4 DEF Surjection, s

Letter == [job : FailedJobs, number : Nat \ {0}]

\* Entries are numbered as they are made, and a file holds a number of one.
LettersInv ==
    /\ lettersMade \in Nat /\ old \in Nat
    /\ entries \in Seq(Letter) /\ \A i \in DOMAIN entries : entries[i].number <= lettersMade
    /\ files \in [FailedJobs -> {-1, 0} \union 1..lettersMade]
    /\ Letters!OldestFirst
    /\ Letters!RemovedStaysAway

\* No two files hold the same entry.
FilesDiffer(fs) ==
    \A j, k \in Letters!Whole(fs) : fs[j] = fs[k] => j = k

LEMMA LettersInit == ASSUME Letters!Init PROVE LettersInv
BY DEF Letters!Init, LettersInv, Letters!OldestFirst, Letters!RemovedStaysAway, Letters!Whole

LEMMA EntryType ==
    ASSUME LettersInv, NEW i \in DOMAIN entries
    PROVE  /\ i \in 1..Len(entries) /\ entries[i].job \in FailedJobs
           /\ entries[i].number \in 1..lettersMade
<1>1. /\ entries[i] \in Letter /\ i \in 1..Len(entries) /\ lettersMade \in Nat
      /\ entries[i].number <= lettersMade
    BY DEF LettersInv
<1>2. entries[i].job \in FailedJobs /\ entries[i].number \in Nat \ {0}
    BY <1>1, Zenon DEF Letter
<1> QED BY <1>1, <1>2

LEMMA InvDiffers == ASSUME LettersInv PROVE FilesDiffer(files)
<1> SUFFICES ASSUME NEW j \in Letters!Whole(files), NEW k \in Letters!Whole(files),
                    files[j] = files[k]
             PROVE  j = k
    BY DEF FilesDiffer
<1>1. PICK i \in DOMAIN entries : entries[i] = Letters!Read(files, j)
    BY DEF LettersInv, Letters!RemovedStaysAway
<1>2. PICK n \in DOMAIN entries : entries[n] = Letters!Read(files, k)
    BY DEF LettersInv, Letters!RemovedStaysAway
<1>3. entries[i].number = entries[n].number /\ entries[i].job = j /\ entries[n].job = k
    BY <1>1, <1>2 DEF Letters!Read
<1>4. entries[i].number \in Nat /\ i \in Nat /\ n \in Nat
    BY EntryType DEF LettersInv
<1>5. i = n
    BY <1>3, <1>4 DEF LettersInv, Letters!OldestFirst
<1> QED BY <1>3, <1>5

\* The queue that is read from files that differ: each of them, in the order of their numbers.
LEMMA Loads ==
    ASSUME NEW fs, NEW n \in Nat, fs \in [FailedJobs -> {-1, 0} \union 1..n], FilesDiffer(fs)
    PROVE  LET loaded == Letters!Loaded(fs) IN
           /\ loaded \in Seq(Letter) /\ \A i \in DOMAIN loaded : loaded[i].number <= n
           /\ \A i, k \in DOMAIN loaded : i < k => loaded[i].number < loaded[k].number
           /\ \A j \in Letters!Whole(fs) : \E i \in DOMAIN loaded : loaded[i] = Letters!Read(fs, j)
<1> DEFINE S == {Letters!Read(fs, j) : j \in Letters!Whole(fs)}
           key == [e \in S |-> e.number]
           loaded == Letters!Loaded(fs)
<1>1. \A j \in Letters!Whole(fs) : j \in FailedJobs /\ fs[j] \in 1..n
    BY DEF Letters!Whole
<1>2. \A e \in S : \E j \in Letters!Whole(fs) : e = Letters!Read(fs, j) /\ e.number = fs[j]
    BY DEF Letters!Read
<1>3. IsFiniteSet(S)
    <2>1. IsFiniteSet(FailedJobs \X (1..n))
        <3>1. IsFiniteSet(1..n)
            <4>1. 1 \in Int /\ n \in Int
                OBVIOUS
            <4> QED BY <4>1, FS_Interval
        <3> QED BY <3>1, LettersParameters, FS_Product
    <2> DEFINE P == {<<j, fs[j]>> : j \in Letters!Whole(fs)}
               f == [p \in P |-> [job |-> p[1], number |-> p[2]]]
    <2>2. P \in SUBSET (FailedJobs \X (1..n))
        <3>1. \A j \in Letters!Whole(fs) : <<j, fs[j]>> \in FailedJobs \X (1..n)
            BY <1>1
        <3> QED BY <3>1
    <2>3. IsFiniteSet(P)
        <3> HIDE DEF P
        <3> QED BY <2>1, <2>2, FS_Subset
    <2>4. f \in Surjection(P, S)
        <3>1. \A j \in Letters!Whole(fs) : f[<<j, fs[j]>>] = Letters!Read(fs, j)
            BY DEF Letters!Read
        <3>2. \A p \in P : \E j \in Letters!Whole(fs) : p = <<j, fs[j]>>
            OBVIOUS
        <3> HIDE DEF f
        <3>3. \A p \in P : f[p] \in S
            BY <3>1, <3>2
        <3>4. \A e \in S : \E p \in P : f[p] = e
            BY <3>1
        <3>5. f \in [P -> S]
            <4> HIDE DEF P, S
            <4> QED BY <3>3 DEF f
        <3> QED BY <3>4, <3>5 DEF Surjection
    <2> HIDE DEF P, S, f
    <2> QED BY <2>3, <2>4, FS_Surjection
<1>4. \A e \in S : key[e] \in Nat
    BY <1>1, <1>2
<1>5. \A x, y \in S : key[x] = key[y] => x = y
    BY <1>2 DEF FilesDiffer
<1>6. loaded = Letters!InOrder(key)
    BY DEF Letters!Loaded
<1>7. S \subseteq Letter /\ \A e \in S : e.number <= n
    <2>1. ASSUME NEW j \in Letters!Whole(fs) PROVE Letters!Read(fs, j) \in Letter
        <3>1. j \in FailedJobs /\ fs[j] \in Nat \ {0}
            BY <1>1
        <3> QED BY <3>1, Zenon DEF Letter, Letters!Read
    <2> QED BY <1>1, <1>2, <2>1
<1> DEFINE N == Cardinality(S)
<1>8. /\ N \in Nat /\ loaded \in [1..N -> S]
      /\ \A x \in S : \E i \in 1..N : loaded[i] = x
      /\ \A i, k \in 1..N : i < k => key[loaded[i]] < key[loaded[k]]
    <2>1. DOMAIN key = S
        OBVIOUS
    <2> HIDE DEF S, key, loaded
    <2> QED BY <1>3, <1>4, <1>5, <1>6, <2>1, Ordered
<1> HIDE DEF loaded, N
<1>9. loaded \in Seq(Letter) /\ \A i \in DOMAIN loaded : loaded[i].number <= n
    <2> HIDE DEF S
    <2> QED BY <1>7, <1>8
<1> QED BY <1>8, <1>9 DEF loaded

LEMMA AddKeeps == ASSUME LettersInv, NEW j \in FailedJobs, Letters!Add(j) PROVE LettersInv'
<1> DEFINE e == [job |-> j, number |-> lettersMade + 1]
           appended == Append(entries, e)
           n == lettersMade + 1
<1>1. /\ lettersMade' = n /\ n \in Nat /\ old' = old /\ old \in Nat
      /\ IF Len(appended) > MaxEntries
            THEN entries' = Tail(appended) /\ files' = Letters!Removed(Letters!Persisted(j), Head(appended))
            ELSE entries' = appended /\ files' = Letters!Persisted(j)
    BY DEF Letters!Add, LettersInv
<1>2. /\ appended \in Seq(Letter) /\ Len(appended) = Len(entries) + 1
      /\ e.job = j /\ e.number = n
    <2>1. e \in Letter
        <3>1. n \in Nat \ {0}
            BY DEF LettersInv
        <3> HIDE DEF n
        <3> QED BY <3>1, Zenon DEF Letter, n
    <2> HIDE DEF e
    <2>2. appended \in Seq(Letter) /\ Len(appended) = Len(entries) + 1
        BY <2>1 DEF LettersInv
    <2> QED BY <2>2 DEF e
<1>3. /\ appended[Len(appended)] = e
      /\ \A i \in 1..Len(entries) : appended[i] = entries[i]
      /\ Len(entries) \in Nat /\ DOMAIN entries = 1..Len(entries)
    BY DEF LettersInv
<1>4. \A i, k \in 1..Len(appended) : i < k => appended[i].number < appended[k].number
    <2>1. \A i \in 1..Len(entries) : entries[i].number \in 1..lettersMade
        BY <1>3, EntryType
    <2>2. \A i, k \in 1..Len(entries) : i < k => entries[i].number < entries[k].number
        BY <1>3 DEF LettersInv, Letters!OldestFirst
    <2> HIDE DEF appended, e
    <2>3. lettersMade \in Nat /\ \A i \in 1..Len(appended) : i \in 1..Len(entries) \/ i = Len(entries) + 1
        BY <1>2, <1>3 DEF LettersInv
    <2> SUFFICES ASSUME NEW i \in 1..Len(appended), NEW k \in 1..Len(appended), i < k
                 PROVE  appended[i].number < appended[k].number
        OBVIOUS
    <2>4. i \in 1..Len(entries)
        BY <1>2, <1>3
    <2>5. CASE k \in 1..Len(entries)
        BY <1>3, <2>2, <2>4, <2>5
    <2>6. CASE k = Len(appended)
        BY <1>2, <1>3, <2>1, <2>3, <2>4, <2>6
    <2> QED BY <1>2, <2>3, <2>5, <2>6
<1>5. Letters!Persisted(j) = [files EXCEPT ![j] = n]
    BY DEF Letters!Persisted
<1>6. \A k \in FailedJobs : Letters!Persisted(j)[k] > 0 =>
        \E i \in 1..Len(appended) : appended[i] = [job |-> k, number |-> Letters!Persisted(j)[k]]
    <2> TAKE k \in FailedJobs
    <2> HAVE Letters!Persisted(j)[k] > 0
    <2>1. CASE k = j
        BY <1>2, <1>3, <1>5, <2>1 DEF LettersInv
    <2>2. CASE k # j
        <3>1. k \in Letters!Whole(files)
            BY <1>5, <2>2 DEF Letters!Whole, LettersInv
        <3>2. PICK i \in DOMAIN entries : entries[i] = Letters!Read(files, k)
            BY <3>1 DEF LettersInv, Letters!RemovedStaysAway
        <3>3. i \in 1..Len(entries)
            BY DEF LettersInv
        <3>4. appended[i] = [job |-> k, number |-> files[k]] /\ i \in 1..Len(appended)
            BY <1>2, <1>3, <3>2, <3>3 DEF Letters!Read
        <3> QED BY <1>5, <2>2, <3>4 DEF LettersInv
    <2> QED BY <2>1, <2>2
<1>7. \A i \in 1..Len(appended) : appended[i].number <= n
    <2>1. \A i \in 1..Len(entries) : entries[i].number \in 1..lettersMade
        BY <1>3, EntryType
    <2>2. \A i \in 1..Len(appended) : i \in 1..Len(entries) \/ i = Len(appended)
        BY <1>2, <1>3
    <2>3. lettersMade \in Nat
        BY DEF LettersInv
    <2> HIDE DEF appended, e
    <2> QED BY <1>2, <1>3, <2>1, <2>2, <2>3
<1> HIDE DEF appended, e
<1>8. CASE entries' = appended /\ files' = Letters!Persisted(j)
    <2>1. files' \in [FailedJobs -> {-1, 0} \union 1..n]
        BY <1>1, <1>5, <1>8 DEF LettersInv
    <2>2. Letters!OldestFirst'
        BY <1>2, <1>4, <1>8 DEF Letters!OldestFirst
    <2>3. Letters!RemovedStaysAway'
        <3> SUFFICES ASSUME NEW k \in FailedJobs, files'[k] > 0
                     PROVE  \E i \in DOMAIN entries' : entries'[i] = [job |-> k, number |-> files'[k]]
            BY DEF Letters!RemovedStaysAway, Letters!Whole, Letters!Read
        <3>1. DOMAIN appended = 1..Len(appended)
            BY <1>2
        <3> QED BY <1>6, <1>8, <3>1
    <2>4. \A i \in DOMAIN entries' : entries'[i].number <= n
        BY <1>2, <1>8, <1>7
    <2> QED BY <1>1, <1>2, <1>8, <2>1, <2>2, <2>3, <2>4 DEF LettersInv
<1>9. CASE /\ entries' = Tail(appended)
           /\ files' = Letters!Removed(Letters!Persisted(j), Head(appended))
    <2>1. files' = [Letters!Persisted(j) EXCEPT ![appended[1].job] = 0]
        <3>1. Head(appended) = appended[1]
            BY <1>2, <1>3
        <3> QED BY <1>9, <3>1 DEF Letters!Removed
    <2>2. files' \in [FailedJobs -> {-1, 0} \union 1..n]
        <3>1. Letters!Persisted(j) \in [FailedJobs -> {-1, 0} \union 1..n]
            BY <1>1, <1>5 DEF LettersInv
        <3> QED BY <2>1, <3>1
    <2>3. /\ entries' \in Seq(Letter)
          /\ Len(entries') = Len(appended) - 1
          /\ \A i \in 1..Len(entries') : entries'[i] = appended[i + 1] /\ i + 1 \in 1..Len(appended)
        BY <1>2, <1>3, <1>9
    <2>4. Letters!OldestFirst'
        BY <1>4, <2>3 DEF Letters!OldestFirst
    <2>5. Letters!RemovedStaysAway'
        <3> SUFFICES ASSUME NEW k \in FailedJobs, files'[k] > 0
                     PROVE  \E i \in DOMAIN entries' : entries'[i] = [job |-> k, number |-> files'[k]]
            BY DEF Letters!RemovedStaysAway, Letters!Whole, Letters!Read
        <3>1. k # appended[1].job /\ files'[k] = Letters!Persisted(j)[k]
            BY <1>5, <2>1 DEF LettersInv
        <3>2. PICK i \in 1..Len(appended) : appended[i] = [job |-> k, number |-> files'[k]]
            BY <1>6, <3>1
        <3>3. i # 1
            BY <3>1, <3>2
        <3>4. i - 1 \in 1..Len(entries')
            BY <1>2, <2>3, <3>3
        <3>5. entries'[i - 1] = appended[i]
            BY <2>3, <3>4
        <3> QED BY <2>3, <3>2, <3>4, <3>5
    <2>6. \A i \in DOMAIN entries' : entries'[i].number <= n
        BY <1>7, <2>3
    <2> QED BY <1>1, <2>2, <2>3, <2>4, <2>5, <2>6 DEF LettersInv
<1> QED BY <1>1, <1>8, <1>9

\* What is kept of the queue is in its order, and has every entry that a file still holds.
LEMMA CleanupKeeps == ASSUME LettersInv, Letters!Cleanup PROVE LettersInv'
<1> DEFINE K == {i \in DOMAIN entries : entries[i].number > old}
           key == [i \in K |-> i]
           kept == Letters!InOrder(key)
           N == Cardinality(K)
<1>1. /\ entries' = [n \in DOMAIN kept |-> entries[kept[n]]]
      /\ files' = [j \in FailedJobs |-> IF j \in Letters!Outdated THEN 0 ELSE files[j]]
      /\ lettersMade' = lettersMade /\ old' = old
    BY DEF Letters!Cleanup
<1>2. K \subseteq 1..Len(entries) /\ Len(entries) \in Nat /\ DOMAIN entries = 1..Len(entries)
    BY DEF LettersInv
<1>3. IsFiniteSet(K)
    <2>1. 1 \in Int /\ Len(entries) \in Int
        BY <1>2
    <2>2. IsFiniteSet(1..Len(entries))
        BY <2>1, FS_Interval
    <2> HIDE DEF K
    <2> QED BY <1>2, <2>2, FS_Subset
<1>4. /\ N \in Nat /\ kept \in [1..N -> K]
      /\ \A x \in K : \E n \in 1..N : kept[n] = x
      /\ \A i, k \in 1..N : i < k => kept[i] < kept[k]
    <2>1. DOMAIN key = K /\ \A x \in K : key[x] = x
        OBVIOUS
    <2>2. \A x \in K : key[x] \in Nat
        BY <1>2, <2>1
    <2>3. \A x, y \in K : key[x] = key[y] => x = y
        BY <2>1
    <2> HIDE DEF K, key, kept
    <2>4. /\ N \in Nat /\ kept \in [1..N -> K]
          /\ \A x \in K : \E n \in 1..N : kept[n] = x
          /\ \A i, k \in 1..N : i < k => key[kept[i]] < key[kept[k]]
        BY <1>3, <2>1, <2>2, <2>3, Ordered DEF kept
    <2> QED BY <2>1, <2>4
<1> HIDE DEF kept, N
<1>5. entries' \in Seq(Letter) /\ \A i \in DOMAIN entries' : entries'[i].number <= lettersMade
    <2>1. \A n \in 1..N : entries[kept[n]] \in Letter /\ entries[kept[n]].number <= lettersMade
        BY <1>4 DEF LettersInv
    <2> QED BY <1>1, <1>4, <2>1
<1>6. files' \in [FailedJobs -> {-1, 0} \union 1..lettersMade]
    BY <1>1 DEF LettersInv
<1>7. Letters!OldestFirst'
    BY <1>1, <1>4 DEF LettersInv, Letters!OldestFirst
<1>8. Letters!RemovedStaysAway'
    <2> SUFFICES ASSUME NEW j \in FailedJobs, files'[j] > 0
                 PROVE  \E i \in DOMAIN entries' : entries'[i] = [job |-> j, number |-> files'[j]]
        BY DEF Letters!RemovedStaysAway, Letters!Whole, Letters!Read
    <2>1. files'[j] = files[j] /\ j \notin Letters!Outdated /\ j \in Letters!Whole(files)
        BY <1>1 DEF Letters!Whole
    <2>2. PICK i \in DOMAIN entries : entries[i] = [job |-> j, number |-> files[j]]
        BY <2>1 DEF LettersInv, Letters!RemovedStaysAway, Letters!Read
    <2>3. i \in K
        <3>1. ~(entries[i].number <= old) /\ entries[i].job = j
            BY <2>1, <2>2 DEF Letters!Outdated
        <3>2. entries[i].number > old
            BY <3>1, EntryType DEF LettersInv
        <3> QED BY <3>2
    <2>4. PICK n \in 1..N : kept[n] = i
        BY <1>4, <2>3
    <2> QED BY <1>1, <1>4, <2>1, <2>2, <2>4
<1> QED BY <1>1, <1>5, <1>6, <1>7, <1>8 DEF LettersInv

\* A start from files that differ: after a crash some are gone, or one is broken or newer.
LEMMA StartKeeps ==
    ASSUME LettersInv, lettersMade' \in Nat, old' = old, FilesDiffer(files'),
           files' \in [FailedJobs -> {-1, 0} \union 1..lettersMade'],
           entries' = Letters!Loaded(files')
    PROVE  LettersInv'
<1>1. /\ entries' \in Seq(Letter) /\ \A i \in DOMAIN entries' : entries'[i].number <= lettersMade'
      /\ \A i, k \in DOMAIN entries' : i < k => entries'[i].number < entries'[k].number
      /\ \A j \in Letters!Whole(files') :
            \E i \in DOMAIN entries' : entries'[i] = Letters!Read(files', j)
    BY Loads
<1> QED BY <1>1 DEF LettersInv, Letters!OldestFirst, Letters!RemovedStaysAway, Letters!Whole,
        Letters!Read

LEMMA LoadKeeps == ASSUME LettersInv, Letters!Load PROVE LettersInv'
<1>1. /\ files' = files /\ lettersMade' = lettersMade /\ old' = old
      /\ entries' = Letters!Loaded(files')
    BY DEF Letters!Load
<1>2. FilesDiffer(files')
    BY <1>1, InvDiffers DEF FilesDiffer
<1> QED BY <1>1, <1>2, StartKeeps DEF LettersInv

LEMMA CrashKeeps == ASSUME LettersInv, Letters!Crash PROVE LettersInv' /\ FilesDiffer(files')
<1>1. FilesDiffer(files) /\ lettersMade \in Nat
    BY InvDiffers DEF LettersInv
<1>2. entries' = Letters!Loaded(files') /\ old' = old
    BY DEF Letters!Crash
<1>3. ASSUME NEW js \in SUBSET Letters!Outdated, lettersMade' = lettersMade,
             files' = [j \in FailedJobs |-> IF j \in js THEN 0 ELSE files[j]]
      PROVE  LettersInv' /\ FilesDiffer(files')
    <2>1. files' \in [FailedJobs -> {-1, 0} \union 1..lettersMade']
        BY <1>3 DEF LettersInv
    <2>2. FilesDiffer(files')
        BY <1>1, <1>3 DEF FilesDiffer, Letters!Whole
    <2> QED BY <1>1, <1>2, <1>3, <2>1, <2>2, StartKeeps
<1>4. ASSUME NEW j \in FailedJobs, lettersMade' = lettersMade + 1,
             files' \in {[files EXCEPT ![j] = -1], Letters!Persisted(j)}
      PROVE  LettersInv' /\ FilesDiffer(files')
    <2>1. PICK n \in {-1, lettersMade + 1} : files' = [files EXCEPT ![j] = n]
        BY <1>4 DEF Letters!Persisted
    <2>2. files' \in [FailedJobs -> {-1, 0} \union 1..lettersMade']
        BY <1>1, <1>4, <2>1 DEF LettersInv
    <2>3. FilesDiffer(files')
        BY <1>1, <2>1 DEF LettersInv, FilesDiffer, Letters!Whole
    <2> QED BY <1>1, <1>2, <1>4, <2>2, <2>3, StartKeeps
<1> QED BY <1>3, <1>4 DEF Letters!Crash

LEMMA LettersNext == ASSUME LettersInv, [Letters!Next]_lettersVars PROVE LettersInv'
<1>1. CASE UNCHANGED <<entries, files, lettersMade>> /\ (old' = old \/ old' = old + 1)
    BY <1>1 DEF LettersInv, Letters!OldestFirst, Letters!RemovedStaysAway, Letters!Whole,
       Letters!Read
<1>2. ASSUME NEW j \in FailedJobs, Letters!Add(j) PROVE LettersInv'
    BY <1>2, AddKeeps
<1>3. CASE Letters!Cleanup \/ Letters!Load \/ Letters!Crash
    BY <1>3, CleanupKeeps, LoadKeeps, CrashKeeps
<1> QED BY <1>1, <1>2, <1>3
        DEF Letters!Next, Letters!Replay, Letters!Replayed, Letters!Age, lettersVars

-----------------------------------------------------------------------------
(* The runs of the engine.                                                 *)

\* What each stage of run_batch() has of the session, the jobs and their results.
StageFits ==
    /\ stage \in {"down", "up", "batch", "outputs", "finish", "close"}
    /\ runRun = 0 => stage = "down"
    /\ stage \in {"down", "up"} => session = Run!Idle /\ saves = 0
    /\ stage \notin {"down", "up"} => session \in Run!Sessions
    /\ stage \in {"batch", "outputs", "finish"} => manifest[session] # "completed"
    /\ stage \in {"outputs", "finish", "close"} => Run!With("pending") = {}
    /\ stage \in {"finish", "close"} => Run!With("completed") \subseteq Run!Handled

\* What is tracked, and whatever else has completed in this run, the session has completed.
TrackedFits ==
    /\ tracked.completed \intersect tracked.failed = {}
    /\ session \in Run!Sessions =>
        tracked.completed \union Run!With("completed") \subseteq completed[session]

RunInv ==
    /\ runRun \in 0..MaxRuns
    /\ result \in [BatchJobs -> {"pending", "completed", "error"}]
    /\ DOMAIN manifest = Run!Sessions /\ DOMAIN completed = Run!Sessions
    /\ \A f \in runFiles : f.pending = {} /\ f.run \in Run!Runs
    /\ StageFits
    /\ TrackedFits
    /\ Run!CheckpointIsHonest

LEMMA SessionsType == Run!Idle \notin Run!Sessions
BY DEF Run!Idle, Run!Sessions, Run!SessionId, Run!Runs

LEMMA RunInit == ASSUME Run!Init PROVE RunInv
BY RunParameters DEF Run!Init, RunInv, StageFits, TrackedFits, Run!CheckpointIsHonest,
   Run!NoneTracked, Run!With, Run!Sessions, Run!SessionId, Run!Runs, Run!Idle

\* A job is not completed at the end of a run unless it was downloaded or reported as failed.
LEMMA CompletedImplied == ASSUME RunInv PROVE Run!CompletedIsWhole
BY SessionsType DEF RunInv, StageFits, Run!CompletedIsWhole, Run!With, Run!Handled

\* The process goes: nothing of the batch is left, and the disk is as it was.
LEMMA GoneKeeps ==
    ASSUME RunInv, Run!Gone, UNCHANGED <<runRun, manifest, runFiles, completed>> PROVE RunInv'
<1>1. session' = Run!Idle /\ stage' = "down" /\ saves' = 0
    BY DEF Run!Gone
<1>2. tracked' = Run!NoneTracked /\ result' = [j \in BatchJobs |-> "pending"]
    BY DEF Run!Gone
<1>3. StageFits'
    BY <1>1 DEF StageFits
<1>4. TrackedFits'
    BY <1>1, <1>2, SessionsType DEF TrackedFits, Run!NoneTracked
<1> QED BY <1>2, <1>3, <1>4 DEF RunInv, Run!CheckpointIsHonest

LEMMA LaunchKeeps == ASSUME RunInv, Run!Launch PROVE RunInv'
<1>1. /\ stage = "down" /\ stage' \in {"up", "down"} /\ runRun' \in 1..MaxRuns
      /\ UNCHANGED <<session, result, tracked, saves, manifest, runFiles, completed>>
    BY RunParameters DEF Run!Launch, Run!batch, Run!disk, Run!history, RunInv
<1>2. StageFits'
    BY <1>1 DEF StageFits, RunInv
<1>3. TrackedFits'
    BY <1>1 DEF TrackedFits, RunInv, Run!With
<1> QED BY <1>1, <1>2, <1>3 DEF RunInv, Run!CheckpointIsHonest

\* Some file of a session is the latest, and nothing is pending in it.
LEMMA NothingRemains == ASSUME RunInv, NEW s PROVE Run!RemainingConfigs(s) = {}
<1> DEFINE fs == Run!ResumeFiles(s)
           ages == {MaxRuns - f.run : f \in fs}
<1>1. fs \subseteq runFiles
    BY DEF Run!ResumeFiles, Run!Matching
<1> HIDE DEF fs
<1>2. ASSUME fs # {} PROVE Run!Latest(fs).pending = {}
    <2>1. \A f \in fs : f.run \in 1..MaxRuns
        BY <1>1 DEF RunInv, Run!Runs
    <2>2. ages \in SUBSET Nat /\ ages # {}
        BY <1>2, <2>1, RunParameters
    <2>3. PICK n \in ages : \A m \in ages : n <= m
        <3> HIDE DEF ages
        <3> QED BY <2>2, LeastExists
    <2>4. PICK f \in fs : n = MaxRuns - f.run
        BY <2>3
    <2>5. \A g \in fs : g.run <= f.run
        <3> TAKE g \in fs
        <3>1. n <= MaxRuns - g.run
            BY <2>3
        <3> QED BY <2>1, <2>4, <3>1, RunParameters
    <2>6. Run!Latest(fs) \in fs
        BY <2>5 DEF Run!Latest
    <2> QED BY <1>1, <2>6 DEF RunInv
<1> QED BY <1>2 DEF Run!RemainingConfigs, fs

LEMMA RunBatchKeeps == ASSUME RunInv, NEW resumed \in BOOLEAN, Run!RunBatch(resumed) PROVE RunInv'
<1>1. /\ stage = "up" /\ stage' = "batch"
      /\ UNCHANGED <<runRun, saves, runFiles, completed>>
    BY DEF Run!RunBatch, Run!history
<1>2. PICK s \in IF resumed THEN {Run!SessionId(r) : r \in 1..runRun} ELSE {Run!SessionId(runRun)} :
        /\ Run!StartBatch(s)
        /\ result' = [j \in BatchJobs |->
                        IF Run!RemainingConfigs(s) = {} \/ j \in Run!RemainingConfigs(s)
                        THEN "pending" ELSE "completed"]
    BY DEF Run!RunBatch
<1>3. s \in Run!Sessions
    <2>1. runRun \in 1..MaxRuns
        BY <1>1, RunParameters DEF RunInv, StageFits
    <2> QED BY <2>1, RunParameters DEF Run!Sessions, Run!Runs
<1>4. result' = [j \in BatchJobs |-> "pending"]
    BY <1>2, NothingRemains
<1>5. /\ session' = s /\ manifest' = [manifest EXCEPT ![s] = "running"]
      /\ tracked' = Run!NoneTracked
    BY <1>2 DEF Run!StartBatch
<1>6. StageFits'
    BY <1>1, <1>3, <1>5 DEF StageFits, RunInv
<1>7. TrackedFits'
    BY <1>4, <1>5 DEF TrackedFits, Run!NoneTracked, Run!With
<1> QED BY <1>1, <1>4, <1>5, <1>6, <1>7 DEF RunInv, Run!CheckpointIsHonest

\* In the batch: a job ends.
LEMMA EndJobKeeps ==
    ASSUME RunInv, NEW j \in BatchJobs, NEW r \in {"completed", "error"}, Run!EndJob(j, r)
    PROVE  RunInv'
<1>1. /\ stage = "batch" /\ result' = [result EXCEPT ![j] = r]
      /\ completed' = IF r = "completed" THEN [completed EXCEPT ![session] = @ \union {j}]
                      ELSE completed
      /\ UNCHANGED <<runRun, stage, session, tracked, saves, manifest, runFiles, outputs, gone>>
    BY DEF Run!EndJob, Run!disk
<1>2. session \in Run!Sessions
    BY <1>1 DEF RunInv, StageFits
<1>3. result' \in [BatchJobs -> {"pending", "completed", "error"}]
    BY <1>1 DEF RunInv
<1>4. /\ DOMAIN completed' = DOMAIN completed
      /\ \A s \in Run!Sessions : completed[s] \subseteq completed'[s]
      /\ r = "completed" => j \in completed'[session]
    BY <1>1, <1>2 DEF RunInv
<1>5. StageFits'
    BY <1>1 DEF RunInv, StageFits
<1>6. TrackedFits'
    BY <1>1, <1>4 DEF RunInv, TrackedFits, Run!With
<1>7. Run!CheckpointIsHonest'
    BY <1>1, <1>4 DEF RunInv, Run!CheckpointIsHonest
<1> QED BY <1>1, <1>3, <1>4, <1>5, <1>6, <1>7 DEF RunInv

\* After the batch: what has ended is tracked.
LEMMA UpdateProgressKeeps == ASSUME RunInv, Run!UpdateProgress PROVE RunInv'
<1>1. /\ stage = "batch" /\ Run!With("pending") = {}
      /\ tracked' = [completed |-> Run!With("completed"), failed |-> Run!With("error")]
      /\ stage' = IF Run!With("completed") # {} THEN "outputs" ELSE "finish"
      /\ UNCHANGED <<runRun, session, result, manifest, runFiles, outputs, gone, completed>>
    BY DEF Run!UpdateProgress, Run!disk, Run!history
<1>2. Run!With("completed") \intersect Run!With("error") = {}
    BY DEF Run!With
<1>3. StageFits'
    BY <1>1 DEF RunInv, StageFits, Run!With, Run!Handled
<1>4. TrackedFits'
    BY <1>1, <1>2 DEF RunInv, TrackedFits, Run!With
<1> QED BY <1>1, <1>3, <1>4 DEF RunInv, Run!CheckpointIsHonest

LEMMA SaveCheckpointKeeps == ASSUME RunInv, Run!SaveCheckpoint PROVE RunInv'
<1>1. /\ saves # 0 /\ runFiles' = Run!Overwrite(Run!SavedAs(FALSE))
      /\ UNCHANGED <<runRun, stage, session, result, tracked, manifest, outputs, gone, completed>>
    BY DEF Run!SaveCheckpoint, Run!history
<1>2. stage \notin {"down", "up"} /\ session \in Run!Sessions
    BY <1>1 DEF RunInv, StageFits
<1>3. runRun \in Run!Runs
    BY <1>2, RunParameters DEF RunInv, StageFits, Run!Runs
<1> DEFINE saved == Run!SavedAs(FALSE)
<1>4. /\ saved.pending = {} /\ saved.run \in Run!Runs
      /\ saved.completed = tracked.completed /\ saved.failed = tracked.failed
    BY <1>3 DEF Run!SavedAs
<1>5. runFiles' \subseteq runFiles \union {saved}
    BY <1>1 DEF Run!Overwrite
<1> HIDE DEF saved
<1>6. \A f \in runFiles' : f.pending = {} /\ f.run \in Run!Runs
    BY <1>4, <1>5 DEF RunInv
<1>7. Run!CheckpointIsHonest'
    BY <1>1, <1>2, <1>4, <1>5 DEF RunInv, TrackedFits, Run!CheckpointIsHonest
<1>8. StageFits' /\ TrackedFits'
    BY <1>1, <1>2 DEF RunInv, StageFits, TrackedFits, Run!With, Run!Handled
<1> QED BY <1>1, <1>6, <1>7, <1>8 DEF RunInv

\* The outputs: what was downloaded or has failed stays so.
LEMMA OutputsKeep ==
    ASSUME RunInv, NEW j \in BatchJobs, Run!Fetch(j) \/ Run!Fetched(j) PROVE RunInv'
<1>1. /\ outputs \subseteq outputs' /\ gone \subseteq gone'
      /\ UNCHANGED <<runRun, stage, session, result, tracked, saves, manifest, runFiles, completed>>
    BY DEF Run!Fetch, Run!Fetched, Run!disk, Run!history
<1>2. StageFits' /\ TrackedFits'
    BY <1>1 DEF RunInv, StageFits, TrackedFits, Run!With, Run!Handled
<1> QED BY <1>1, <1>2 DEF RunInv, Run!CheckpointIsHonest

\* The end of a run, and of the checkpoint files that belong to it.
LEMMA FinishKeeps ==
    ASSUME RunInv, Run!ProcessBatch \/ Run!Finalize \/ \E f \in runFiles : Run!CleanUp(f)
    PROVE  RunInv'
<1>1. /\ runFiles' \subseteq runFiles
      /\ UNCHANGED <<runRun, session, result, tracked, saves, outputs, gone, completed>>
    BY DEF Run!ProcessBatch, Run!Finalize, Run!CleanUp, Run!batch, Run!disk, Run!history
<1>2. StageFits'
    BY <1>1 DEF RunInv, StageFits, Run!With, Run!Handled, Run!ProcessBatch, Run!Finalize,
       Run!CleanUp, Run!disk
<1>3. DOMAIN manifest' = DOMAIN manifest
    BY DEF Run!ProcessBatch, Run!Finalize, Run!CleanUp, Run!disk
<1>4. TrackedFits' /\ Run!CheckpointIsHonest'
    BY <1>1 DEF RunInv, TrackedFits, Run!CheckpointIsHonest, Run!With
<1> QED BY <1>1, <1>2, <1>3, <1>4 DEF RunInv

LEMMA RunNext == ASSUME RunInv, [Run!Next]_runVars PROVE RunInv'
<1>1. CASE UNCHANGED runVars
    BY <1>1 DEF runVars, RunInv, StageFits, TrackedFits, Run!CheckpointIsHonest, Run!With,
       Run!Handled
<1>2. CASE Run!Launch
    BY <1>2, LaunchKeeps
<1>3. CASE Run!Die \/ Run!Close
    BY <1>3, GoneKeeps DEF Run!Die, Run!Close, Run!disk, Run!history
<1>4. CASE Run!Signal \/ Run!NoMoreRuns
    BY <1>4 DEF Run!Signal, Run!NoMoreRuns, Run!vars, Run!batch, Run!disk, Run!history, RunInv,
       StageFits, TrackedFits, Run!CheckpointIsHonest, Run!With, Run!Handled
<1>5. ASSUME NEW resumed \in BOOLEAN, Run!RunBatch(resumed) PROVE RunInv'
    BY <1>5, RunBatchKeeps
<1>6. ASSUME NEW j \in BatchJobs, NEW r \in {"completed", "error"}, Run!EndJob(j, r) PROVE RunInv'
    BY <1>6, EndJobKeeps
<1>7. CASE Run!UpdateProgress \/ Run!SaveCheckpoint
    BY <1>7, UpdateProgressKeeps, SaveCheckpointKeeps
<1>8. ASSUME NEW j \in BatchJobs, Run!Fetch(j) \/ Run!Fetched(j) PROVE RunInv'
    BY <1>8, OutputsKeep
<1>9. CASE Run!ProcessBatch \/ Run!Finalize \/ \E f \in runFiles : Run!CleanUp(f)
    BY <1>9, FinishKeeps
<1> QED BY <1>1, <1>2, <1>3, <1>4, <1>5, <1>6, <1>7, <1>8, <1>9 DEF Run!Next

-----------------------------------------------------------------------------
(* The repository.                                                         *)

\* As long as every .gitignore met was in force: none of the outputs is staged, or tracked and
\* so within the reach of `git add`, and .gitignore holds while a synchronisation looks.
Unexposed ==
    /\ staged \intersect Git!Outputs = {}
    /\ "kept" \notin changed
    /\ step \in {"status", "add"} => ignore.mentioned /\ ignore.inForce

GitInv ==
    /\ ignore \in [mentioned : BOOLEAN, inForce : BOOLEAN]
    /\ exposed = TRUE \/ Unexposed
    /\ Git!OutputsStayOut

LEMMA GitInit == ASSUME Git!Init PROVE GitInv
<1>1. DOMAIN commits = {} /\ staged = {} /\ "kept" \notin changed /\ step = "idle"
    BY DEF Git!Init
<1> QED BY <1>1 DEF Git!Init, GitInv, Unexposed, Git!OutputsStayOut

LEMMA CommitKeeps ==
    ASSUME Git!OutputsStayOut, NEW kinds, Git!Committed(kinds),
           exposed' = TRUE \/ (exposed # TRUE /\ kinds \intersect Git!Outputs = {})
    PROVE  Git!OutputsStayOut'
<1>1. PICK n : commits' = Git!With(commits, n, kinds)
    BY DEF Git!Committed
<1> QED BY <1>1 DEF Git!OutputsStayOut, Git!With

\* A .gitignore that has the patterns, all in force, shows no new output.
LEMMA RulesHide ==
    ASSUME NEW kinds, "kept" \notin kinds, NEW rules, rules.mentioned, rules.inForce
    PROVE  Git!Shown(kinds, rules) \intersect Git!Outputs = {}
BY DEF Git!Shown, Git!Outputs

LEMMA WithRulesFits ==
    ASSUME GitInv
    PROVE  /\ Git!WithRules \in [mentioned : BOOLEAN, inForce : BOOLEAN]
           /\ Git!WithRules.mentioned /\ Git!WithRules.inForce = ignore.inForce
           /\ "kept" \in Git!WithIgnore => "kept" \in changed
BY DEF GitInv, Git!WithRules, Git!WithIgnore

LEMMA GitNext == ASSUME GitInv, [Git!Next]_gitVars PROVE GitInv'
<1>1. CASE UNCHANGED gitVars
    BY <1>1 DEF gitVars, GitInv, Unexposed, Git!OutputsStayOut
<1>2. CASE Git!InitRepo
    <2> DEFINE shown == Git!Shown(Git!WithIgnore, Git!WithRules)
    <2>1. /\ ignore' = Git!WithRules /\ exposed' = (exposed \/ ~ignore.inForce)
          /\ step = "idle" /\ step' = "idle" /\ changed' \subseteq Git!WithIgnore
          /\ \/ staged' \in {{}, shown} /\ UNCHANGED commits
             \/ staged' = {} /\ Git!Committed(shown)
        BY <1>2 DEF Git!InitRepo
    <2>2. exposed' = TRUE \/ (exposed # TRUE /\ ignore.inForce)
        BY <2>1 DEF GitInv
    <2>3. exposed' = TRUE \/ (exposed # TRUE /\ shown \intersect Git!Outputs = {} /\ "kept" \notin changed')
        <3>1. CASE exposed # TRUE /\ ignore.inForce
            <4>1. "kept" \notin Git!WithIgnore
                BY <3>1, WithRulesFits DEF GitInv, Unexposed
            <4> QED BY <2>1, <3>1, <4>1, WithRulesFits, RulesHide
        <3> QED BY <2>2, <3>1
    <2>4. Git!OutputsStayOut'
        <3>1. CASE UNCHANGED commits
            BY <2>3, <3>1 DEF GitInv, Git!OutputsStayOut
        <3>2. CASE Git!Committed(shown)
            BY <2>3, <3>2, CommitKeeps DEF GitInv
        <3> QED BY <2>1, <3>1, <3>2
    <2>5. exposed' = TRUE \/ Unexposed'
        BY <2>1, <2>3 DEF Unexposed
    <2> QED BY <2>1, <2>4, <2>5, WithRulesFits DEF GitInv
<1>3. CASE Git!EditIgnore
    BY <1>3 DEF Git!EditIgnore, GitInv, Unexposed, Git!OutputsStayOut, Git!repoVars
<1>4. CASE Git!EnsureGitignore
    <2>1. /\ ignore' = Git!WithRules /\ exposed' = (exposed \/ ~ignore.inForce)
          /\ changed' = Git!WithIgnore /\ UNCHANGED <<staged, commits>>
        BY <1>4 DEF Git!EnsureGitignore, Git!repoVars
    <2>2. exposed' = TRUE \/ (exposed # TRUE /\ ignore.inForce)
        BY <2>1 DEF GitInv
    <2>3. exposed' = TRUE \/ Unexposed'
        BY <2>1, <2>2, WithRulesFits DEF GitInv, Unexposed
    <2>4. Git!OutputsStayOut'
        BY <2>1, <2>2 DEF GitInv, Git!OutputsStayOut
    <2> QED BY <2>1, <2>3, <2>4, WithRulesFits DEF GitInv
<1>5. CASE Git!Fail
    BY <1>5 DEF Git!Fail, GitInv, Unexposed, Git!OutputsStayOut, Git!repoVars, Git!fileVars
<1>6. CASE Git!GetGitStatus
    BY <1>6 DEF Git!GetGitStatus, GitInv, Unexposed, Git!OutputsStayOut, Git!repoVars, Git!fileVars
<1>7. ASSUME step = "add", step' = "commit", staged' = staged \union Git!Visible,
             changed' = changed \ Git!Visible, UNCHANGED <<Git!repoVars, ignore, exposed, remote, gitResult>>
      PROVE  GitInv'
    <2>1. CASE exposed = TRUE
        BY <1>7, <2>1 DEF GitInv, Git!OutputsStayOut, Git!repoVars
    <2>2. CASE exposed # TRUE
        <3>1. Git!Visible \intersect Git!Outputs = {}
            BY <1>7, <2>2, RulesHide DEF GitInv, Unexposed, Git!Visible
        <3>2. UNCHANGED <<ignore, exposed, commits>>
            BY <1>7 DEF Git!repoVars
        <3>3. Unexposed'
            BY <1>7, <2>2, <3>1 DEF GitInv, Unexposed
        <3>4. Git!OutputsStayOut'
            BY <3>2 DEF GitInv, Git!OutputsStayOut
        <3>5. ignore' \in [mentioned : BOOLEAN, inForce : BOOLEAN]
            BY <3>2 DEF GitInv
        <3> QED BY <3>3, <3>4, <3>5 DEF GitInv
    <2> QED BY <2>1, <2>2
<1>8. ASSUME step = "commit", Git!Committed(staged), staged' = {}, step' = "branch",
             UNCHANGED <<ignore, exposed, changed>>
      PROVE  GitInv'
    <2>1. Git!OutputsStayOut'
        BY <1>8, CommitKeeps DEF GitInv, Unexposed
    <2> QED BY <1>8, <2>1 DEF GitInv, Unexposed
<1>9. CASE Git!EnsureBranch
    BY <1>5, <1>9 DEF Git!EnsureBranch, GitInv, Unexposed, Git!OutputsStayOut, Git!repoVars,
       Git!fileVars
<1>10. CASE Git!PushTarget
    BY <1>10 DEF Git!PushTarget, GitInv, Unexposed, Git!OutputsStayOut, Git!repoVars, Git!fileVars
<1>11. ASSUME NEW kind \in Git!Kinds, Git!Change(kind) PROVE GitInv'
    <2>1. /\ changed' = changed \union {kind} /\ UNCHANGED <<step, commits, ignore, exposed, staged>>
          /\ kind = "kept" => "output" \in staged \/ \E n \in DOMAIN commits : "output" \in commits[n]
        BY <1>11 DEF Git!Change, Git!repoVars
    <2>2. exposed = TRUE \/ kind # "kept"
        BY <2>1 DEF GitInv, Unexposed, Git!OutputsStayOut, Git!Outputs
    <2> QED BY <2>1, <2>2 DEF GitInv, Unexposed, Git!OutputsStayOut
<1>12. ASSUME NEW b \in Branches, Git!Checkout(b) PROVE GitInv'
    BY <1>12 DEF Git!Checkout, GitInv, Unexposed, Git!OutputsStayOut, Git!fileVars
<1> QED BY <1>1, <1>2, <1>3, <1>4, <1>5, <1>6, <1>7, <1>8, <1>9, <1>10, <1>11, <1>12
        DEF Git!Next, Git!AddAll, Git!Commit

-----------------------------------------------------------------------------
(* The model cache.                                                        *)

\* Whoever loads knows the model, and holds none; whoever is about to file one holds an object
\* that nobody else has, that no entry refers to, and that was not unloaded.
LoadersFit ==
    \A t \in CacheCallers :
        /\ at[t] \in {"loading", "insert"} => name[t] \in Names
        /\ at[t] = "loading" => held[t] = Cache!None
        /\ at[t] = "insert" =>
            /\ held[t] \in Cache!Objects \ unloaded
            /\ \A n \in Cache!ToSet(cache) : ref[n] # held[t]
            /\ \A s \in Cache!Tasks \ {t} : held[s] # held[t]

\* Whoever waits for an unloader has the lock, and the model is in the cache all the while.
UnloadersLock ==
    \A u \in {Cache!Monitor, Cache!Closer} :
        at[u] = "unloading" => lock = u /\ Cache!Cached(Head(victims[u]))

CacheInv ==
    /\ cache \in Seq(Names) /\ \A i, k \in DOMAIN cache : cache[i] = cache[k] => i = k
    /\ ref \in [Names -> Cache!Objects \union {Cache!None}]
    /\ held \in [Cache!Tasks -> Cache!Objects \union {Cache!None}]
    /\ DOMAIN at = Cache!Tasks /\ DOMAIN name = CacheCallers
    /\ DOMAIN victims = {Cache!Monitor, Cache!Closer}
    /\ \A n, m \in Cache!ToSet(cache) : ref[n] = ref[m] => n = m
    /\ LoadersFit
    /\ UnloadersLock
    /\ Cache!MemoryAccounted
    /\ Cache!CachedIsLoaded

LEMMA CacheCount == \A S : Cache!Cardinality(S) = Cardinality(S)
BY Zenon DEF Cache!Cardinality, Cardinality

LEMMA TasksFinite ==
    /\ IsFiniteSet(Cache!Tasks) /\ CacheCallers \subseteq Cache!Tasks
    /\ {Cache!Monitor, Cache!Closer} \subseteq Cache!Tasks
    /\ Cache!Monitor \notin CacheCallers /\ Cache!Closer \notin CacheCallers
    /\ Cache!Monitor # Cache!Closer /\ Cache!Free \notin Cache!Tasks
<1>1. /\ IsFiniteSet(CacheCallers \union {Cache!Monitor})
      /\ IsFiniteSet((CacheCallers \union {Cache!Monitor}) \union {Cache!Closer})
    BY CacheParameters, FS_AddElement
<1>2. Cache!Tasks = (CacheCallers \union {Cache!Monitor}) \union {Cache!Closer}
    BY DEF Cache!Tasks
<1> QED BY <1>1, <1>2, CacheParameters DEF Cache!Monitor, Cache!Closer, Cache!Free

\* What has as many values as arguments at most.
LEMMA ImageBound ==
    ASSUME NEW S, IsFiniteSet(S), NEW f, S \subseteq DOMAIN f
    PROVE  /\ IsFiniteSet({f[x] : x \in S}) /\ Cardinality({f[x] : x \in S}) \in Nat
           /\ Cardinality({f[x] : x \in S}) <= Cardinality(S)
<1> DEFINE T == {f[x] : x \in S}
           g == [x \in S |-> f[x]]
<1>1. g \in Surjection(S, T)
    BY DEF Surjection
<1> HIDE DEF g, T
<1>2. IsFiniteSet(T) /\ Cardinality(T) <= Cardinality(S)
    BY <1>1, FS_Surjection
<1> QED BY <1>2, FS_CardinalityType DEF T

\* A loader gets an object that is not in use: there is one more than can be.
LEMMA FreshIsFree ==
    ASSUME CacheInv, NEW t \in Cache!Tasks, held[t] = Cache!None
    PROVE  /\ Cache!Fresh \in Cache!Objects /\ ~Cache!Alive(Cache!Fresh)
           /\ \A n \in Cache!ToSet(cache) : ref[n] # Cache!Fresh
<1> DEFINE others == Cache!Tasks \ {t}
           H == {held[s] : s \in others}
           R == {ref[n] : n \in Names}
           free == {m \in Cache!Objects : ~Cache!Alive(m) /\ \A n \in Cache!ToSet(cache) : ref[n] # m}
<1>1. Cache!None \notin Cache!Objects /\ Cache!Objects \in SUBSET Nat
    BY TasksFinite, CacheParameters, CacheCount, FS_CardinalityType DEF Cache!Objects, Cache!None
<1>2. Cache!ToSet(cache) \subseteq Names
    BY DEF CacheInv, Cache!ToSet
<1>3. free # {}
    <2> SUFFICES ASSUME free = {} PROVE FALSE
        OBVIOUS
    <2>1. Cache!Objects \subseteq H \union R
        BY <1>1, <1>2 DEF Cache!Alive
    <2>2. IsFiniteSet(others) /\ Cardinality(others) = Cardinality(Cache!Tasks) - 1
          /\ Cardinality(Cache!Tasks) \in Nat /\ Cardinality(Names) \in Nat
        BY TasksFinite, CacheParameters, FS_RemoveElement, FS_CardinalityType
    <2>3. IsFiniteSet(H) /\ Cardinality(H) \in Nat /\ Cardinality(H) <= Cardinality(others)
        <3>1. others \subseteq DOMAIN held
            BY DEF CacheInv
        <3> HIDE DEF others
        <3> QED BY <2>2, <3>1, ImageBound
    <2>4. IsFiniteSet(R) /\ Cardinality(R) \in Nat /\ Cardinality(R) <= Cardinality(Names)
        <3>1. Names \subseteq DOMAIN ref
            BY DEF CacheInv
        <3> QED BY <3>1, CacheParameters, ImageBound
    <2> HIDE DEF H, R, others, free
    <2>5. IsFiniteSet(H \union R) /\ IsFiniteSet(H \intersect R)
          /\ Cardinality(H \union R) = Cardinality(H) + Cardinality(R) - Cardinality(H \intersect R)
        BY <2>3, <2>4, FS_Union, FS_Intersection
    <2>6. Cardinality(H \intersect R) \in Nat /\ Cardinality(H \union R) \in Nat
        BY <2>5, FS_CardinalityType
    <2>7. Cardinality(Cache!Objects) <= Cardinality(H \union R)
        BY <2>1, <2>5, FS_Subset
    <2>8. Cardinality(Cache!Objects) = Cardinality(Cache!Tasks) + Cardinality(Names)
        <3> DEFINE k == Cardinality(Cache!Tasks) + Cardinality(Names)
        <3>1. 1 \in Int /\ k \in Nat
            BY <2>2
        <3>2. Cache!Objects = 1..k
            BY CacheCount DEF Cache!Objects
        <3> HIDE DEF k
        <3>3. Cardinality(1..k) = k
            BY <3>1, FS_Interval
        <3> QED BY <3>2, <3>3 DEF k
    <2> QED BY <2>2, <2>3, <2>4, <2>5, <2>6, <2>7, <2>8
<1>4. Cache!Fresh \in free
    <2>1. free \in SUBSET Nat
        BY <1>1
    <2> HIDE DEF free
    <2>2. \E x \in free : \A y \in free : x <= y
        BY <1>3, <2>1, LeastExists
    <2>3. Cache!Fresh = Cache!Min(free)
        BY DEF Cache!Fresh, free
    <2> QED BY <2>2, <2>3 DEF Cache!Min
<1> QED BY <1>4

\* Taking a key out of its place takes out just that key.
LEMMA WithoutKey ==
    ASSUME cache \in Seq(Names), \A i, k \in DOMAIN cache : cache[i] = cache[k] => i = k,
           NEW n, Cache!Cached(n)
    PROVE  LET s == Cache!Without(n) IN
           /\ s \in Seq(Names) /\ \A i, k \in DOMAIN s : s[i] = s[k] => i = k
           /\ Cache!ToSet(s) = Cache!ToSet(cache) \ {n}
<1> DEFINE p == CHOOSE i \in DOMAIN cache : cache[i] = n
           s == Cache!Without(n)
<1>1. p \in DOMAIN cache /\ cache[p] = n
    BY DEF Cache!Cached, Cache!ToSet
<1>2. s = SubSeq(cache, 1, p - 1) \o SubSeq(cache, p + 1, Len(cache))
    BY DEF Cache!Without, Cache!RemoveAt
<1> HIDE DEF p, s
<1>3. p \in 1..Len(cache) /\ Len(cache) \in Nat /\ DOMAIN cache = 1..Len(cache)
    BY <1>1
<1>4. /\ SubSeq(cache, 1, p - 1) \in Seq(Names) /\ Len(SubSeq(cache, 1, p - 1)) = p - 1
      /\ \A i \in 1..p - 1 : SubSeq(cache, 1, p - 1)[i] = cache[i]
    BY <1>3
<1>5. /\ SubSeq(cache, p + 1, Len(cache)) \in Seq(Names)
      /\ Len(SubSeq(cache, p + 1, Len(cache))) = Len(cache) - p
      /\ \A i \in 1..Len(cache) - p : SubSeq(cache, p + 1, Len(cache))[i] = cache[i + p]
    <2> DEFINE m == p + 1
               k == Len(cache)
    <2>1. m \in Int /\ k \in Int /\ \A i \in m..k : cache[i] \in Names
        BY <1>3
    <2>2. k - m + 1 = k - p /\ p <= k
        BY <1>3
    <2> HIDE DEF m, k
    <2>3. /\ SubSeq(cache, m, k) \in Seq(Names)
          /\ Len(SubSeq(cache, m, k)) = IF m <= k THEN k - m + 1 ELSE 0
          /\ \A i \in 1..k - m + 1 : SubSeq(cache, m, k)[i] = cache[m + i - 1]
        BY <2>1, SubSeqProperties
    <2>4. \A i \in 1..k - p : m + i - 1 = i + p
        BY <1>3 DEF m, k
    <2>5. Len(SubSeq(cache, m, k)) = k - p
        BY <1>3, <2>1, <2>2, <2>3 DEF m
    <2> QED BY <2>2, <2>3, <2>4, <2>5 DEF m, k
<1>6. /\ s \in Seq(Names) /\ Len(s) = Len(cache) - 1
      /\ \A i \in 1..Len(s) : s[i] = IF i < p THEN cache[i] ELSE cache[i + 1]
    <2> DEFINE a == SubSeq(cache, 1, p - 1)
               b == SubSeq(cache, p + 1, Len(cache))
    <2>1. /\ a \in Seq(Names) /\ b \in Seq(Names) /\ Len(a) = p - 1 /\ Len(b) = Len(cache) - p
          /\ \A i \in 1..p - 1 : a[i] = cache[i]
          /\ \A i \in 1..Len(cache) - p : b[i] = cache[i + p]
        BY <1>4, <1>5
    <2> HIDE DEF a, b
    <2>2. s = a \o b
        BY <1>2 DEF a, b
    <2>3. /\ s \in Seq(Names) /\ Len(s) = Len(a) + Len(b)
          /\ \A i \in 1..Len(a) + Len(b) : s[i] = IF i <= Len(a) THEN a[i] ELSE b[i - Len(a)]
        BY <2>1, <2>2, ConcatProperties
    <2>4. \A i \in 1..Len(s) : i >= p => i - Len(a) \in 1..Len(cache) - p /\ i - Len(a) + p = i + 1
        BY <1>3, <2>1, <2>3
    <2> QED BY <1>3, <2>1, <2>3, <2>4
<1>7. DOMAIN s = 1..Len(s)
    BY <1>6
<1>8. \A i, k \in DOMAIN s : s[i] = s[k] => i = k
    BY <1>3, <1>6, <1>7
<1>9. Cache!ToSet(s) = Cache!ToSet(cache) \ {n}
    <2>1. \A i \in DOMAIN s : s[i] \in Cache!ToSet(cache) /\ s[i] # n
        BY <1>1, <1>3, <1>6, <1>7 DEF Cache!ToSet
    <2>2. ASSUME NEW m \in Cache!ToSet(cache), m # n PROVE m \in Cache!ToSet(s)
        <3>1. PICK i \in DOMAIN cache : cache[i] = m
            BY DEF Cache!ToSet
        <3>2. i # p
            BY <1>1, <2>2, <3>1
        <3>3. CASE i < p
            BY <1>3, <1>6, <1>7, <3>1, <3>3 DEF Cache!ToSet
        <3>4. CASE i > p
            <4>1. i - 1 \in DOMAIN s /\ s[i - 1] = cache[i]
                BY <1>3, <1>6, <1>7, <3>4
            <4> QED BY <3>1, <4>1 DEF Cache!ToSet
        <3> QED BY <1>3, <3>2, <3>3, <3>4
    <2> QED BY <2>1, <2>2 DEF Cache!ToSet
<1> QED BY <1>6, <1>8, <1>9 DEF s

LEMMA AppendedKey ==
    ASSUME NEW s \in Seq(Names), \A i, k \in DOMAIN s : s[i] = s[k] => i = k,
           NEW n \in Names, n \notin Cache!ToSet(s)
    PROVE  /\ Append(s, n) \in Seq(Names)
           /\ \A i, k \in DOMAIN Append(s, n) : Append(s, n)[i] = Append(s, n)[k] => i = k
           /\ Cache!ToSet(Append(s, n)) = Cache!ToSet(s) \union {n}
<1>1. /\ Append(s, n) \in Seq(Names) /\ DOMAIN Append(s, n) = DOMAIN s \union {Len(s) + 1}
      /\ \A i \in DOMAIN s : Append(s, n)[i] = s[i] /\ i # Len(s) + 1
      /\ Append(s, n)[Len(s) + 1] = n
    OBVIOUS
<1>2. \A i, k \in DOMAIN Append(s, n) : Append(s, n)[i] = Append(s, n)[k] => i = k
    BY <1>1 DEF Cache!ToSet
<1>3. Cache!ToSet(Append(s, n)) = Cache!ToSet(s) \union {n}
    <2> DEFINE z == Append(s, n)
               D == DOMAIN z
    <2>1. D = DOMAIN s \union {Len(s) + 1} /\ z[Len(s) + 1] = n /\ \A i \in DOMAIN s : z[i] = s[i]
        BY <1>1
    <2> HIDE DEF z
    <2>2. {z[i] : i \in D} = {s[i] : i \in DOMAIN s} \union {n}
        BY <2>1
    <2> QED BY <2>2 DEF Cache!ToSet, z
<1> QED BY <1>1, <1>2, <1>3

\* The memory of models.
Units(S) == UNION {{n} \X (1..ModelSize[n]) : n \in S}

LEMMA UnitsOfOne ==
    ASSUME NEW m \in Names
    PROVE  /\ IsFiniteSet({m} \X (1..ModelSize[m]))
           /\ Cardinality({m} \X (1..ModelSize[m])) = ModelSize[m]
<1> DEFINE k == ModelSize[m]
<1>1. k \in Nat /\ 1 \in Int
    BY CacheParameters
<1> HIDE DEF k
<1>2. IsFiniteSet(1..k) /\ Cardinality(1..k) = k
    BY <1>1, FS_Interval
<1>3. IsFiniteSet({m}) /\ Cardinality({m}) = 1
    BY FS_Singleton
<1>4. IsFiniteSet({m} \X (1..k)) /\ Cardinality({m} \X (1..k)) = 1 * k
    BY <1>2, <1>3, FS_Product
<1> QED BY <1>1, <1>4 DEF k

LEMMA UnitsFinite == ASSUME NEW S \in SUBSET Names PROVE IsFiniteSet(Units(S))
<1> DEFINE of(m) == {m} \X (1..ModelSize[m])
           f == [m \in S |-> of(m)]
<1>1. IsFiniteSet(S)
    BY CacheParameters, FS_Subset
<1>2. IsFiniteSet({f[m] : m \in S})
    <2>1. S \subseteq DOMAIN f
        OBVIOUS
    <2> HIDE DEF f
    <2> QED BY <1>1, <2>1, ImageBound
<1>3. IsFiniteSet({of(m) : m \in S})
    <2>1. {f[m] : m \in S} = {of(m) : m \in S}
        OBVIOUS
    <2> QED BY <1>2, <2>1
<1>4. \A T \in {of(m) : m \in S} : IsFiniteSet(T)
    BY UnitsOfOne
<1> HIDE DEF of, f
<1>5. IsFiniteSet(UNION {of(m) : m \in S})
    BY <1>3, <1>4, FS_UNION
<1> QED BY <1>5 DEF Units, of

\* One more model takes as much more as its size.
LEMMA UnitsAdded ==
    ASSUME NEW S \in SUBSET Names, NEW n \in Names \ S
    PROVE  /\ Cardinality(Units(S)) \in Nat
           /\ Cardinality(Units(S \union {n})) = Cardinality(Units(S)) + ModelSize[n]
<1> DEFINE of(m) == {m} \X (1..ModelSize[m])
<1>1. IsFiniteSet(of(n)) /\ Cardinality(of(n)) = ModelSize[n]
    BY UnitsOfOne
<1>2. IsFiniteSet(Units(S))
    BY UnitsFinite
<1>3. Units(S \union {n}) = Units(S) \union of(n)
    BY DEF Units
<1>4. Units(S) \intersect of(n) = {}
    <2>1. \A u \in Units(S) : u[1] \in S
        BY DEF Units
    <2>2. \A u \in of(n) : u[1] = n
        OBVIOUS
    <2> QED BY <2>1, <2>2
<1> HIDE DEF of
<1>5. Cardinality(Units(S) \union of(n)) = Cardinality(Units(S)) + Cardinality(of(n)) - Cardinality({})
    BY <1>1, <1>2, <1>4, FS_Union
<1>6. Cardinality({}) = 0 /\ ModelSize[n] \in Nat /\ Cardinality(Units(S)) \in Nat
    BY <1>2, FS_EmptySet, FS_CardinalityType, CacheParameters
<1>7. Cardinality(Units(S \union {n})) = Cardinality(Units(S)) + ModelSize[n] - 0
    BY <1>1, <1>3, <1>5, <1>6
<1> QED BY <1>6, <1>7

LEMMA MemoryUnits == Cache!MemoryAccounted <=> memory = Cardinality(Units(Cache!ToSet(cache)))
BY CacheCount DEF Cache!MemoryAccounted, Units

\* What an entry takes is given back with it.
LEMMA DeleteKeeps ==
    ASSUME CacheInv, NEW n, Cache!Cached(n), Cache!Delete(n)
    PROVE  /\ cache' \in Seq(Names) /\ \A i, k \in DOMAIN cache' : cache'[i] = cache'[k] => i = k
           /\ Cache!ToSet(cache') = Cache!ToSet(cache) \ {n}
           /\ ref' \in [Names -> Cache!Objects \union {Cache!None}]
           /\ \A m \in Cache!ToSet(cache') : ref'[m] = ref[m]
           /\ Cache!MemoryAccounted'
<1>1. /\ cache' = Cache!Without(n) /\ memory' = memory - ModelSize[n]
      /\ ref' = [ref EXCEPT ![n] = Cache!None]
    BY DEF Cache!Delete
<1>2. /\ cache' \in Seq(Names) /\ \A i, k \in DOMAIN cache' : cache'[i] = cache'[k] => i = k
      /\ Cache!ToSet(cache') = Cache!ToSet(cache) \ {n}
    BY <1>1, WithoutKey DEF CacheInv
<1>3. n \in Cache!ToSet(cache) /\ Cache!ToSet(cache) \subseteq Names
    BY DEF Cache!Cached, Cache!ToSet, CacheInv
<1>4. Cache!MemoryAccounted'
    <2> DEFINE S == Cache!ToSet(cache) \ {n}
    <2>1. S \in SUBSET Names /\ n \in Names \ S /\ S \union {n} = Cache!ToSet(cache)
        BY <1>3
    <2> HIDE DEF S
    <2>2. /\ Cardinality(Units(S)) \in Nat
          /\ Cardinality(Units(S \union {n})) = Cardinality(Units(S)) + ModelSize[n]
        BY <2>1, UnitsAdded
    <2>3. memory = Cardinality(Units(S)) + ModelSize[n]
        BY <2>1, <2>2, MemoryUnits DEF CacheInv
    <2>4. memory' = Cardinality(Units(S)) /\ S = Cache!ToSet(cache')
        <3>1. ModelSize[n] \in Nat
            BY <1>3, CacheParameters
        <3> QED BY <1>1, <1>2, <2>2, <2>3, <3>1 DEF S
    <2> QED BY <2>4, MemoryUnits, CacheCount DEF Cache!MemoryAccounted, Units
<1> QED BY <1>1, <1>2, <1>3, <1>4 DEF CacheInv

\* Whoever gets a model from the cache has one that nobody is about to file.
LEMMA ReturnKeeps ==
    ASSUME CacheInv, NEW t \in CacheCallers, NEW m,
           m = Cache!None \/ \E n \in Cache!ToSet(cache) : m = ref[n],
           Cache!Return(t, m), UNCHANGED <<ref, unloaded>>,
           Cache!ToSet(cache') \subseteq Cache!ToSet(cache),
           \A s \in CacheCallers \ {t} : name'[s] = name[s]
    PROVE  /\ held' \in [Cache!Tasks -> Cache!Objects \union {Cache!None}]
           /\ DOMAIN at' = Cache!Tasks /\ LoadersFit'
           /\ \A s \in Cache!Tasks \ {t} : at'[s] = at[s]
<1>1. /\ at' = [at EXCEPT ![t] = "idle"]
      /\ \E x \in {m, Cache!None} : held' = [held EXCEPT ![t] = x]
    BY DEF Cache!Return, Cache!Goto
<1>2. Cache!ToSet(cache) \subseteq Names /\ t \in Cache!Tasks
    BY TasksFinite DEF Cache!ToSet, CacheInv
<1>3. m \in Cache!Objects \union {Cache!None}
    BY <1>2 DEF CacheInv
<1>4. held' \in [Cache!Tasks -> Cache!Objects \union {Cache!None}]
    BY <1>1, <1>3 DEF CacheInv
<1>5. Cache!None \notin Cache!Objects
    BY DEF Cache!None, Cache!Objects
<1>6. ASSUME NEW s \in CacheCallers PROVE LoadersFit!(s)'
    <2>1. CASE s = t
        BY <1>1, <1>2, <2>1 DEF CacheInv
    <2>2. CASE s # t
        <3>1. at'[s] = at[s] /\ held'[s] = held[s] /\ name'[s] = name[s]
            BY <1>1, <2>2, TasksFinite DEF CacheInv
        <3>2. at[s] = "insert" => held[s] # m /\ held[s] # Cache!None
            BY <1>2, <1>5 DEF CacheInv, LoadersFit
        <3>3. \A z \in Cache!Tasks \ {s} : held'[z] \in {held[z], m, Cache!None}
            BY <1>1 DEF CacheInv
        <3> QED BY <3>1, <3>2, <3>3 DEF CacheInv, LoadersFit
    <2> QED BY <2>1, <2>2
<1>7. LoadersFit'
    BY <1>6 DEF LoadersFit
<1> QED BY <1>1, <1>2, <1>4, <1>7 DEF CacheInv

\* Nothing that an unloader or the limit depends on changes for a task that calls get_model().
LEMMA CallerKeeps ==
    ASSUME CacheInv, NEW t \in CacheCallers, UNCHANGED <<lock, victims>>,
           \A s \in Cache!Tasks \ {t} : at'[s] = at[s],
           Cache!ToSet(cache) \subseteq Cache!ToSet(cache')
    PROVE  /\ UnloadersLock'
           /\ at'[Cache!Monitor] = at[Cache!Monitor]
           /\ \A u \in {Cache!Monitor, Cache!Closer} : at'[u] = at[u]
BY TasksFinite DEF CacheInv, UnloadersLock, Cache!Cached

LEMMA GetModelKeeps ==
    ASSUME CacheInv, NEW t \in CacheCallers, Cache!GetModel(t) PROVE CacheInv'
<1>1. /\ UNCHANGED <<ref, memory, lock, unloaded, victims>> /\ t \in Cache!Tasks
      /\ at[t] = "idle" /\ held[t] = Cache!None
    BY TasksFinite DEF Cache!GetModel
<1>2. PICK n \in Names : Cache!Hit(t, n) \/ Cache!Miss(t, n)
    BY DEF Cache!GetModel
<1>3. CASE Cache!Hit(t, n)
    <2>1. Cache!Cached(n) /\ n \in Cache!ToSet(cache)
        BY <1>3 DEF Cache!Hit, Cache!Cached
    <2>2. /\ Cache!Without(n) \in Seq(Names)
          /\ \A i, k \in DOMAIN Cache!Without(n) : Cache!Without(n)[i] = Cache!Without(n)[k] => i = k
          /\ Cache!ToSet(Cache!Without(n)) = Cache!ToSet(cache) \ {n}
        BY <2>1, WithoutKey DEF CacheInv
    <2>3. cache' = Append(Cache!Without(n), n) /\ Cache!Return(t, Cache!Model(n)) /\ name' = name
        BY <1>3 DEF Cache!Hit
    <2>4. /\ cache' \in Seq(Names) /\ \A i, k \in DOMAIN cache' : cache'[i] = cache'[k] => i = k
          /\ Cache!ToSet(cache') = Cache!ToSet(cache)
        <3>1. n \notin Cache!ToSet(Cache!Without(n))
            BY <2>2
        <3> HIDE DEF Cache!Without
        <3>2. Cache!ToSet(cache') = Cache!ToSet(Cache!Without(n)) \union {n}
            BY <2>2, <2>3, <3>1, AppendedKey
        <3> QED BY <2>1, <2>2, <2>3, <3>1, <3>2, AppendedKey
    <2>5. Cache!Model(n) = Cache!None \/ Cache!Model(n) = ref[n]
        BY DEF Cache!Model
    <2>6. /\ held' \in [Cache!Tasks -> Cache!Objects \union {Cache!None}]
          /\ DOMAIN at' = Cache!Tasks /\ LoadersFit'
          /\ \A s \in Cache!Tasks \ {t} : at'[s] = at[s]
        BY <1>1, <2>1, <2>3, <2>4, <2>5, ReturnKeeps
    <2>7. /\ UnloadersLock' /\ at'[Cache!Monitor] = at[Cache!Monitor]
          /\ \A u \in {Cache!Monitor, Cache!Closer} : at'[u] = at[u]
        BY <1>1, <2>4, <2>6, CallerKeeps
    <2>8. Cache!MemoryAccounted' /\ Cache!CachedIsLoaded'
        BY <1>1, <2>4, <2>7 DEF CacheInv, Cache!MemoryAccounted, Cache!CachedIsLoaded
    <2> QED BY <1>1, <2>3, <2>4, <2>6, <2>7, <2>8 DEF CacheInv
<1>4. CASE Cache!Miss(t, n)
    <2>1. /\ at' = [at EXCEPT ![t] = "loading"] /\ name' = [name EXCEPT ![t] = n]
          /\ UNCHANGED <<cache, held>>
        BY <1>4 DEF Cache!Miss, Cache!Goto
    <2>2. \A s \in Cache!Tasks \ {t} : at'[s] = at[s]
        BY <2>1 DEF CacheInv
    <2>3. LoadersFit'
        BY <1>1, <2>1, TasksFinite DEF CacheInv, LoadersFit
    <2>4. /\ UnloadersLock' /\ at'[Cache!Monitor] = at[Cache!Monitor]
          /\ \A u \in {Cache!Monitor, Cache!Closer} : at'[u] = at[u]
        BY <1>1, <2>1, <2>2, CallerKeeps
    <2>5. Cache!MemoryAccounted' /\ Cache!CachedIsLoaded'
        BY <1>1, <2>1, <2>4 DEF CacheInv, Cache!MemoryAccounted, Cache!CachedIsLoaded
    <2> QED BY <1>1, <2>1, <2>3, <2>4, <2>5 DEF CacheInv
<1> QED BY <1>2, <1>3, <1>4

LEMMA FileKeeps == ASSUME CacheInv, NEW t \in CacheCallers, Cache!Load(t) PROVE CacheInv'
<1>1. /\ at[t] = "loading" /\ held[t] = Cache!None /\ t \in Cache!Tasks
      /\ UNCHANGED <<cache, ref, memory, lock, victims>>
    BY TasksFinite DEF Cache!Load, Cache!entries, CacheInv, LoadersFit
<1>2. CASE /\ held' = [held EXCEPT ![t] = Cache!Fresh]
           /\ unloaded' = unloaded \ {Cache!Fresh}
           /\ at' = [at EXCEPT ![t] = "insert"] /\ name' = name
    <2>1. /\ Cache!Fresh \in Cache!Objects /\ \A s \in Cache!Tasks : held[s] # Cache!Fresh
          /\ \A n \in Cache!ToSet(cache) : ref[n] # Cache!Fresh
        BY <1>1, FreshIsFree DEF Cache!Alive
    <2>2. \A s \in Cache!Tasks \ {t} : at'[s] = at[s] /\ held'[s] = held[s]
        BY <1>2 DEF CacheInv
    <2>3. at'[t] = "insert" /\ held'[t] = Cache!Fresh /\ name[t] \in Names
        BY <1>1, <1>2 DEF CacheInv, LoadersFit
    <2>4. LoadersFit'
        <3> SUFFICES ASSUME NEW s \in CacheCallers PROVE LoadersFit!(s)'
            BY DEF LoadersFit
        <3>1. CASE s = t
            BY <1>1, <1>2, <2>1, <2>2, <2>3, <3>1
        <3>2. CASE s # t
            BY <1>1, <1>2, <2>1, <2>2, <2>3, <3>2, TasksFinite DEF CacheInv, LoadersFit
        <3> QED BY <3>1, <3>2
    <2>5. /\ UnloadersLock' /\ at'[Cache!Monitor] = at[Cache!Monitor]
          /\ \A u \in {Cache!Monitor, Cache!Closer} : at'[u] = at[u]
        BY <1>1, <2>2, CallerKeeps
    <2>6. Cache!MemoryAccounted' /\ Cache!CachedIsLoaded'
        BY <1>1, <1>2, <2>5 DEF CacheInv, Cache!MemoryAccounted, Cache!CachedIsLoaded
    <2>7. held' \in [Cache!Tasks -> Cache!Objects \union {Cache!None}] /\ DOMAIN at' = Cache!Tasks
        BY <1>2, <2>1 DEF CacheInv
    <2> QED BY <1>1, <1>2, <2>4, <2>5, <2>6, <2>7 DEF CacheInv
<1>3. CASE Cache!Return(t, Cache!None) /\ name' = [name EXCEPT ![t] = ""] /\ unloaded' = unloaded
    <2>1. \A s \in CacheCallers \ {t} : name'[s] = name[s]
        BY <1>3 DEF CacheInv
    <2>2. /\ held' \in [Cache!Tasks -> Cache!Objects \union {Cache!None}]
          /\ DOMAIN at' = Cache!Tasks /\ LoadersFit'
          /\ \A s \in Cache!Tasks \ {t} : at'[s] = at[s]
        BY <1>1, <1>3, <2>1, ReturnKeeps
    <2>3. /\ UnloadersLock' /\ at'[Cache!Monitor] = at[Cache!Monitor]
          /\ \A u \in {Cache!Monitor, Cache!Closer} : at'[u] = at[u]
        BY <1>1, <2>2, CallerKeeps
    <2>4. Cache!MemoryAccounted' /\ Cache!CachedIsLoaded'
        BY <1>1, <1>3, <2>3 DEF CacheInv, Cache!MemoryAccounted, Cache!CachedIsLoaded
    <2> QED BY <1>1, <1>3, <2>2, <2>3, <2>4 DEF CacheInv
<1> QED BY <1>2, <1>3 DEF Cache!Load, Cache!Goto

\* A loader that comes second unloads its own object, which no entry refers to.
LEMMA CacheInsertKeeps == ASSUME CacheInv, NEW t \in CacheCallers, Cache!Insert(t) PROVE CacheInv'
<1> DEFINE n == name[t]
<1>1. /\ at[t] = "insert" /\ lock = Cache!Free /\ t \in Cache!Tasks /\ n \in Names
      /\ name' = [name EXCEPT ![t] = ""] /\ victims' = victims
    BY TasksFinite DEF Cache!Insert, CacheInv, LoadersFit
<1>2. /\ held[t] \in Cache!Objects \ unloaded
      /\ \A m \in Cache!ToSet(cache) : ref[m] # held[t]
      /\ \A s \in Cache!Tasks \ {t} : held[s] # held[t]
    BY <1>1 DEF CacheInv, LoadersFit
<1>3. DOMAIN name' = CacheCallers /\ \A s \in CacheCallers \ {t} : name'[s] = name[s]
    BY <1>1 DEF CacheInv
<1>4. \A u \in {Cache!Monitor, Cache!Closer} : at[u] # "unloading" /\ u # t
    <2> TAKE u \in {Cache!Monitor, Cache!Closer}
    <2>1. u \in Cache!Tasks /\ u \notin CacheCallers /\ Cache!Free \notin Cache!Tasks
        BY TasksFinite
    <2>2. at[u] = "unloading" => lock = u
        BY DEF CacheInv, UnloadersLock
    <2> QED BY <1>1, <2>1, <2>2
<1>5. CASE /\ Cache!Cached(n) /\ unloaded' = unloaded \union {held[t]}
           /\ Cache!Return(t, Cache!Model(n)) /\ UNCHANGED <<cache, ref, memory, lock>>
    <2>1. /\ at' = [at EXCEPT ![t] = "idle"]
          /\ \E x \in {ref[n], Cache!None} : held' = [held EXCEPT ![t] = x]
        BY <1>5 DEF Cache!Return, Cache!Goto, Cache!Model
    <2>2. n \in Cache!ToSet(cache) /\ Cache!None \notin Cache!Objects
        BY <1>5 DEF Cache!Cached, Cache!None, Cache!Objects
    <2>3. held' \in [Cache!Tasks -> Cache!Objects \union {Cache!None}]
        BY <1>1, <2>1 DEF CacheInv
    <2>4. \A s \in Cache!Tasks \ {t} : at'[s] = at[s] /\ held'[s] = held[s]
        BY <2>1 DEF CacheInv
    <2>5. LoadersFit'
        <3> SUFFICES ASSUME NEW s \in CacheCallers PROVE LoadersFit!(s)'
            BY DEF LoadersFit
        <3>1. CASE s = t
            BY <1>1, <2>1, <3>1 DEF CacheInv
        <3>2. CASE s # t
            <4>1. at'[s] = at[s] /\ held'[s] = held[s] /\ name'[s] = name[s] /\ s \in Cache!Tasks
                BY <1>3, <2>4, <3>2, TasksFinite
            <4>2. at[s] = "insert" => held[s] # ref[n] /\ held[s] # Cache!None /\ held[s] # held[t]
                BY <1>1, <1>2, <2>2, <3>2, <4>1 DEF CacheInv, LoadersFit
            <4>3. \A z \in Cache!Tasks \ {s} : held'[z] \in {held[z], ref[n], Cache!None}
                BY <2>1, <2>4
            <4> QED BY <1>5, <4>1, <4>2, <4>3 DEF CacheInv, LoadersFit
        <3> QED BY <3>1, <3>2
    <2>6. /\ UnloadersLock' /\ at'[Cache!Monitor] = at[Cache!Monitor]
          /\ \A u \in {Cache!Monitor, Cache!Closer} : at'[u] = at[u]
        BY <1>1, <1>5, <2>4, CallerKeeps
    <2>7. Cache!MemoryAccounted' /\ Cache!CachedIsLoaded'
        BY <1>1, <1>2, <1>5, <2>6 DEF CacheInv, Cache!MemoryAccounted, Cache!CachedIsLoaded
    <2>8. DOMAIN at' = Cache!Tasks
        BY <2>1 DEF CacheInv
    <2> QED BY <1>1, <1>3, <1>5, <2>3, <2>5, <2>6, <2>7, <2>8 DEF CacheInv
<1>6. CASE lock' = t /\ Cache!Goto(t, "stuck") /\ UNCHANGED <<cache, ref, memory, held, unloaded>>
    <2>1. \A s \in Cache!Tasks \ {t} : at'[s] = at[s]
        BY <1>6 DEF CacheInv, Cache!Goto
    <2>2. at'[t] = "stuck" /\ DOMAIN at' = Cache!Tasks
        BY <1>1, <1>6 DEF CacheInv, Cache!Goto
    <2>3. LoadersFit'
        BY <1>3, <1>6, <2>1, <2>2, TasksFinite DEF CacheInv, LoadersFit
    <2>4. \A u \in {Cache!Monitor, Cache!Closer} : at'[u] = at[u] /\ at'[u] # "unloading"
        BY <1>4, <2>1, TasksFinite
    <2>5. UnloadersLock' /\ Cache!CachedIsLoaded'
        BY <1>1, <1>4, <1>6, <2>4 DEF CacheInv, UnloadersLock, Cache!CachedIsLoaded
    <2> QED BY <1>1, <1>3, <1>6, <2>2, <2>3, <2>5 DEF CacheInv, Cache!MemoryAccounted
<1>7. CASE /\ ~Cache!Cached(n) /\ cache' = Append(cache, n) /\ ref' = [ref EXCEPT ![n] = held[t]]
           /\ memory' = memory + ModelSize[n] /\ Cache!Return(t, held[t])
           /\ UNCHANGED <<lock, unloaded>>
    <2>1. n \notin Cache!ToSet(cache) /\ Cache!ToSet(cache) \subseteq Names
        BY <1>7 DEF CacheInv, Cache!Cached, Cache!ToSet
    <2>2. /\ cache' \in Seq(Names) /\ \A i, k \in DOMAIN cache' : cache'[i] = cache'[k] => i = k
          /\ Cache!ToSet(cache') = Cache!ToSet(cache) \union {n}
        BY <1>1, <1>7, <2>1, AppendedKey DEF CacheInv
    <2>3. /\ ref' \in [Names -> Cache!Objects \union {Cache!None}] /\ ref'[n] = held[t]
          /\ \A m \in Cache!ToSet(cache) : ref'[m] = ref[m]
        BY <1>1, <1>2, <1>7, <2>1 DEF CacheInv
    <2>4. \A m, k \in Cache!ToSet(cache') : ref'[m] = ref'[k] => m = k
        BY <1>2, <2>2, <2>3 DEF CacheInv
    <2>5. /\ at' = [at EXCEPT ![t] = "idle"]
          /\ \E x \in {held[t], Cache!None} : held' = [held EXCEPT ![t] = x]
        BY <1>7 DEF Cache!Return, Cache!Goto
    <2>6. /\ held' \in [Cache!Tasks -> Cache!Objects \union {Cache!None}] /\ DOMAIN at' = Cache!Tasks
          /\ \A s \in Cache!Tasks \ {t} : at'[s] = at[s] /\ held'[s] = held[s]
        BY <1>1, <1>2, <2>5 DEF CacheInv
    <2>7. LoadersFit'
        <3> SUFFICES ASSUME NEW s \in CacheCallers PROVE LoadersFit!(s)'
            BY DEF LoadersFit
        <3>1. CASE s = t
            BY <1>1, <2>5, <3>1 DEF CacheInv
        <3>2. CASE s # t
            <4>1. at'[s] = at[s] /\ held'[s] = held[s] /\ name'[s] = name[s] /\ s \in Cache!Tasks
                BY <1>3, <2>6, <3>2, TasksFinite
            <4>2. at[s] = "insert" => held[s] # Cache!None /\ held[s] # held[t]
                <5>1. Cache!None \notin Cache!Objects
                    BY DEF Cache!None, Cache!Objects
                <5>2. at[s] = "insert" => held[s] \in Cache!Objects /\ held[t] # held[s]
                    BY <1>1, <3>2, <4>1 DEF CacheInv, LoadersFit
                <5> QED BY <5>1, <5>2
            <4>3. \A z \in Cache!Tasks \ {s} : held'[z] \in {held[z], Cache!None}
                BY <2>5, <2>6
            <4> QED BY <1>7, <2>2, <2>3, <4>1, <4>2, <4>3 DEF CacheInv, LoadersFit
        <3> QED BY <3>1, <3>2
    <2>8. /\ UnloadersLock' /\ at'[Cache!Monitor] = at[Cache!Monitor]
          /\ \A u \in {Cache!Monitor, Cache!Closer} : at'[u] = at[u]
        BY <1>1, <1>7, <2>2, <2>6, CallerKeeps
    <2>9. Cache!CachedIsLoaded'
        <3> SUFFICES ASSUME NEW m \in Cache!ToSet(cache'), ref'[m] \in unloaded
                     PROVE  at[Cache!Monitor] = "ended"
            BY <1>7, <2>8 DEF Cache!CachedIsLoaded
        <3>1. m \in Cache!ToSet(cache) /\ ref[m] \in unloaded
            BY <1>2, <2>2, <2>3
        <3> QED BY <1>4, <3>1 DEF CacheInv, Cache!CachedIsLoaded
    <2>10. Cache!MemoryAccounted'
        <3> DEFINE S == Cache!ToSet(cache)
        <3>1. S \in SUBSET Names /\ n \in Names \ S
            BY <1>1, <2>1
        <3> HIDE DEF S
        <3>2. Cardinality(Units(S \union {n})) = Cardinality(Units(S)) + ModelSize[n]
            BY <3>1, UnitsAdded
        <3>3. memory' = Cardinality(Units(Cache!ToSet(cache')))
            BY <1>7, <2>2, <3>2, MemoryUnits DEF S, CacheInv
        <3> QED BY <3>3, CacheCount DEF Cache!MemoryAccounted, Units
    <2> QED BY <1>1, <1>3, <2>2, <2>3, <2>4, <2>6, <2>7, <2>8, <2>9, <2>10 DEF CacheInv
<1> QED BY <1>5, <1>6, <1>7 DEF Cache!Insert, Cache!entries

LEMMA DropKeeps == ASSUME CacheInv, NEW t \in CacheCallers, Cache!Drop(t) PROVE CacheInv'
<1>1. /\ at[t] = "idle" /\ held' = [held EXCEPT ![t] = Cache!None]
      /\ UNCHANGED <<cache, ref, memory, lock, at, name, unloaded, victims>>
    BY DEF Cache!Drop, Cache!entries
<1>2. held' \in [Cache!Tasks -> Cache!Objects \union {Cache!None}]
    BY <1>1 DEF CacheInv
<1>3. Cache!None \notin Cache!Objects /\ \A s \in Cache!Tasks : held'[s] \in {held[s], Cache!None}
    BY <1>1 DEF CacheInv, Cache!None, Cache!Objects
<1>4. LoadersFit'
    BY <1>1, <1>2, <1>3 DEF CacheInv, LoadersFit
<1> QED BY <1>1, <1>2, <1>4
        DEF CacheInv, UnloadersLock, Cache!Cached, Cache!MemoryAccounted, Cache!CachedIsLoaded

\* A task that unloads changes nothing for those that load.
LEMMA UnloaderKeeps ==
    ASSUME CacheInv, NEW u \in {Cache!Monitor, Cache!Closer}, UNCHANGED name,
           \A s \in CacheCallers : at'[s] = at[s] /\ held'[s] = held[s],
           \A s \in Cache!Tasks : held'[s] \in {held[s], Cache!None}
              \/ \E n \in Cache!ToSet(cache) : held'[s] = ref[n],
           unloaded' \subseteq unloaded \union {ref[n] : n \in Cache!ToSet(cache)},
           Cache!ToSet(cache') \subseteq Cache!ToSet(cache),
           \A m \in Cache!ToSet(cache') : ref'[m] = ref[m]
    PROVE  LoadersFit'
<1> SUFFICES ASSUME NEW s \in CacheCallers PROVE LoadersFit!(s)'
    BY DEF LoadersFit
<1>1. at'[s] = at[s] /\ held'[s] = held[s] /\ name'[s] = name[s]
    OBVIOUS
<1>2. ASSUME at[s] = "insert"
      PROVE  /\ held[s] \in Cache!Objects \ unloaded' /\ held[s] # Cache!None
             /\ \A n \in Cache!ToSet(cache) : ref[n] # held[s]
             /\ \A z \in Cache!Tasks \ {s} : held'[z] # held[s]
    <2>1. /\ held[s] \in Cache!Objects \ unloaded
          /\ \A n \in Cache!ToSet(cache) : ref[n] # held[s]
          /\ \A z \in Cache!Tasks \ {s} : held[z] # held[s]
        BY <1>2 DEF CacheInv, LoadersFit
    <2>2. Cache!None \notin Cache!Objects
        BY DEF Cache!None, Cache!Objects
    <2> QED BY <2>1, <2>2
<1> QED BY <1>1, <1>2 DEF CacheInv, LoadersFit

LEMMA CacheUnloadKeeps ==
    ASSUME CacheInv, NEW u \in {Cache!Monitor, Cache!Closer}, Cache!Unload(u) PROVE CacheInv'
<1> DEFINE n == Head(victims[u])
<1>1. /\ at[u] = "unload" /\ lock = Cache!Free /\ u \in Cache!Tasks /\ u \notin CacheCallers
      /\ name' = name /\ Cache!Free \notin Cache!Tasks
    BY TasksFinite DEF Cache!Unload
<1>2. \A v \in {Cache!Monitor, Cache!Closer} : at[v] # "unloading"
    BY <1>1, TasksFinite DEF CacheInv, UnloadersLock
<1>3. \A m \in Cache!ToSet(cache) : ref[m] \in unloaded => at[Cache!Monitor] = "ended"
    BY <1>2 DEF CacheInv, Cache!CachedIsLoaded
<1>4. CASE /\ Cache!Cached(n) /\ unloaded' = unloaded \union {ref[n]}
           /\ held' = [held EXCEPT ![u] = ref[n]] /\ lock' = u /\ at' = [at EXCEPT ![u] = "unloading"]
           /\ UNCHANGED <<cache, ref, memory, victims>>
    <2>1. n \in Cache!ToSet(cache) /\ n \in Names
        BY <1>4 DEF CacheInv, Cache!Cached, Cache!ToSet
    <2>2. /\ \A s \in Cache!Tasks \ {u} : at'[s] = at[s] /\ held'[s] = held[s]
          /\ held'[u] = ref[n] /\ at'[u] = "unloading" /\ DOMAIN at' = Cache!Tasks
          /\ held' \in [Cache!Tasks -> Cache!Objects \union {Cache!None}]
        BY <1>1, <1>4, <2>1 DEF CacheInv
    <2>3. LoadersFit'
        <3>1. \A s \in CacheCallers : at'[s] = at[s] /\ held'[s] = held[s]
            BY <1>1, <2>2, TasksFinite
        <3>2. \A s \in Cache!Tasks : held'[s] \in {held[s], Cache!None}
              \/ \E m \in Cache!ToSet(cache) : held'[s] = ref[m]
            BY <2>1, <2>2
        <3>3. unloaded' \subseteq unloaded \union {ref[m] : m \in Cache!ToSet(cache)}
            BY <1>4, <2>1
        <3> QED BY <1>1, <1>4, <3>1, <3>2, <3>3, UnloaderKeeps
    <2>4. UnloadersLock'
        BY <1>2, <1>4, <2>2, TasksFinite DEF UnloadersLock, Cache!Cached
    <2>5. Cache!CachedIsLoaded'
        <3> SUFFICES ASSUME NEW m \in Cache!ToSet(cache), ref[m] \in unloaded', m # n
                     PROVE  at'[Cache!Monitor] = "ended"
            BY <1>4, <2>2 DEF Cache!CachedIsLoaded
        <3>1. ref[m] \in unloaded
            BY <1>4, <2>1 DEF CacheInv
        <3>2. at[Cache!Monitor] = "ended"
            BY <1>3, <3>1
        <3> QED BY <1>1, <2>2, <3>2, TasksFinite
    <2> QED BY <1>1, <1>4, <2>2, <2>3, <2>4, <2>5 DEF CacheInv, Cache!MemoryAccounted
<1>5. CASE /\ IF Cache!Cached(n) THEN Cache!Delete(n) ELSE UNCHANGED <<cache, ref, memory>>
           /\ Cache!Next1(u) /\ Cache!Done1(u) /\ UNCHANGED <<lock, held, unloaded>>
    <2>1. /\ cache' \in Seq(Names) /\ \A i, k \in DOMAIN cache' : cache'[i] = cache'[k] => i = k
          /\ Cache!ToSet(cache') \subseteq Cache!ToSet(cache)
          /\ ref' \in [Names -> Cache!Objects \union {Cache!None}]
          /\ \A m \in Cache!ToSet(cache') : ref'[m] = ref[m]
          /\ Cache!MemoryAccounted'
        <3>1. CASE Cache!Cached(n)
            <4> HIDE DEF n
            <4> QED BY <1>5, <3>1, DeleteKeeps
        <3>2. CASE UNCHANGED <<cache, ref, memory>>
            BY <3>2 DEF CacheInv, Cache!MemoryAccounted
        <3> QED BY <1>5, <3>1, <3>2
    <2>2. /\ \A s \in Cache!Tasks \ {u} : at'[s] = at[s]
          /\ at'[u] \in {"unload", "ended", "idle"} /\ DOMAIN at' = Cache!Tasks
          /\ DOMAIN victims' = {Cache!Monitor, Cache!Closer}
        BY <1>1, <1>5 DEF CacheInv, Cache!Next1, Cache!Done1, Cache!Goto
    <2>3. LoadersFit'
        <3>1. \A s \in CacheCallers : at'[s] = at[s] /\ held'[s] = held[s]
            BY <1>1, <1>5, <2>2, TasksFinite
        <3> QED BY <1>1, <1>5, <2>1, <3>1, UnloaderKeeps
    <2>4. \A v \in {Cache!Monitor, Cache!Closer} : at'[v] # "unloading"
        BY <1>2, <2>2, TasksFinite
    <2>5. Cache!CachedIsLoaded'
        <3> SUFFICES ASSUME NEW m \in Cache!ToSet(cache'), ref'[m] \in unloaded'
                     PROVE  at'[Cache!Monitor] = "ended"
            BY DEF Cache!CachedIsLoaded
        <3>1. at[Cache!Monitor] = "ended"
            BY <1>3, <1>5, <2>1
        <3> QED BY <1>1, <2>2, <3>1, TasksFinite
    <2> QED BY <1>1, <1>5, <2>1, <2>2, <2>3, <2>4, <2>5 DEF CacheInv, UnloadersLock
<1> QED BY <1>4, <1>5 DEF Cache!Unload, Cache!entries, Cache!Goto

LEMMA UnloadedKeeps ==
    ASSUME CacheInv, NEW u \in {Cache!Monitor, Cache!Closer}, Cache!Unloaded(u) PROVE CacheInv'
<1> DEFINE n == Head(victims[u])
<1>1. /\ at[u] = "unloading" /\ lock = u /\ Cache!Cached(n) /\ u \in Cache!Tasks /\ u \notin CacheCallers
      /\ Cache!Delete(n) /\ held' = [held EXCEPT ![u] = Cache!None] /\ lock' = Cache!Free
      /\ Cache!Next1(u) /\ Cache!Done1(u) /\ UNCHANGED <<name, unloaded>>
    BY TasksFinite DEF Cache!Unloaded, CacheInv, UnloadersLock
<1>2. \A v \in {Cache!Monitor, Cache!Closer} : at[v] = "unloading" => v = u
    BY <1>1 DEF CacheInv, UnloadersLock
<1>3. /\ cache' \in Seq(Names) /\ \A i, k \in DOMAIN cache' : cache'[i] = cache'[k] => i = k
      /\ Cache!ToSet(cache') = Cache!ToSet(cache) \ {n}
      /\ ref' \in [Names -> Cache!Objects \union {Cache!None}]
      /\ \A m \in Cache!ToSet(cache') : ref'[m] = ref[m]
      /\ Cache!MemoryAccounted'
    <2> HIDE DEF n
    <2> QED BY <1>1, DeleteKeeps
<1>4. /\ \A s \in Cache!Tasks \ {u} : at'[s] = at[s] /\ held'[s] = held[s]
      /\ at'[u] \in {"unload", "ended", "idle"} /\ DOMAIN at' = Cache!Tasks
      /\ DOMAIN victims' = {Cache!Monitor, Cache!Closer} /\ held'[u] = Cache!None
      /\ held' \in [Cache!Tasks -> Cache!Objects \union {Cache!None}]
    BY <1>1 DEF CacheInv, Cache!Next1, Cache!Done1, Cache!Goto
<1>5. LoadersFit'
    <2>1. \A s \in CacheCallers : at'[s] = at[s] /\ held'[s] = held[s]
        BY <1>1, <1>4, TasksFinite
    <2>2. \A s \in Cache!Tasks : held'[s] \in {held[s], Cache!None}
        BY <1>4
    <2> QED BY <1>1, <1>3, <2>1, <2>2, UnloaderKeeps
<1>6. \A v \in {Cache!Monitor, Cache!Closer} : at'[v] # "unloading"
    BY <1>2, <1>4, TasksFinite
<1>7. Cache!CachedIsLoaded'
    <2> SUFFICES ASSUME NEW m \in Cache!ToSet(cache'), ref'[m] \in unloaded'
                 PROVE  at'[Cache!Monitor] = "ended"
        BY DEF Cache!CachedIsLoaded
    <2>1. m \in Cache!ToSet(cache) /\ m # n /\ ref[m] \in unloaded
        BY <1>1, <1>3
    <2>2. at[Cache!Monitor] = "ended"
        BY <1>2, <2>1 DEF CacheInv, Cache!CachedIsLoaded
    <2> QED BY <1>1, <1>4, <2>2, TasksFinite
<1> QED BY <1>1, <1>3, <1>4, <1>5, <1>6, <1>7 DEF CacheInv, UnloadersLock

\* The monitor and shutdown() choose what to unload.
LEMMA ChooseKeeps ==
    ASSUME CacheInv, Cache!Squeeze \/ Cache!StopMonitor \/ Cache!Clear \/ Cache!Rest PROVE CacheInv'
<1> USE DEF CacheInv, Cache!Goto, Cache!entries
<1>1. CASE Cache!Squeeze \/ Cache!Clear
    <2>1. /\ UNCHANGED <<cache, ref, memory, lock, name, held, unloaded>> /\ lock = Cache!Free
          /\ \E u \in {Cache!Monitor, Cache!Closer} : \E v :
                /\ victims' = [victims EXCEPT ![u] = v] /\ at[u] = "idle"
                /\ \E x \in {"unload", "idle", "ended"} : at' = [at EXCEPT ![u] = x]
        <3>1. CASE Cache!Squeeze
            BY <3>1 DEF Cache!Squeeze
        <3>2. CASE Cache!Clear
            BY <3>2 DEF Cache!Clear
        <3> QED BY <1>1, <3>1, <3>2
    <2>2. PICK u \in {Cache!Monitor, Cache!Closer} :
            /\ at[u] = "idle" /\ DOMAIN victims' = DOMAIN victims
            /\ \E x \in {"unload", "idle", "ended"} : at' = [at EXCEPT ![u] = x]
        BY <2>1
    <2>3. u \in Cache!Tasks /\ u \notin CacheCallers
        BY TasksFinite
    <2>4. /\ DOMAIN at' = Cache!Tasks /\ at'[u] \in {"unload", "idle", "ended"}
          /\ \A s \in Cache!Tasks \ {u} : at'[s] = at[s]
        BY <2>2, <2>3
    <2>5. LoadersFit'
        <3>1. \A s \in CacheCallers : at'[s] = at[s]
            BY <2>3, <2>4, TasksFinite
        <3> QED BY <2>1, <3>1 DEF LoadersFit
    <2>6. \A v \in {Cache!Monitor, Cache!Closer} : at[v] # "unloading"
        BY <2>1, TasksFinite DEF UnloadersLock
    <2>7. \A v \in {Cache!Monitor, Cache!Closer} : at'[v] # "unloading"
        BY <2>4, <2>6, TasksFinite
    <2>8. Cache!CachedIsLoaded'
        <3> SUFFICES ASSUME NEW m \in Cache!ToSet(cache), ref[m] \in unloaded
                     PROVE  at'[Cache!Monitor] = "ended"
            BY <2>1 DEF Cache!CachedIsLoaded
        <3>1. at[Cache!Monitor] = "ended"
            BY <2>6 DEF Cache!CachedIsLoaded
        <3> QED BY <2>2, <2>4, <3>1, TasksFinite
    <2> QED BY <2>1, <2>2, <2>4, <2>5, <2>7, <2>8 DEF UnloadersLock, Cache!MemoryAccounted
<1>2. CASE Cache!StopMonitor
    <2>1. /\ UNCHANGED <<cache, ref, memory, name, unloaded>> /\ at[Cache!Closer] = "idle"
          /\ at' = [at EXCEPT ![Cache!Monitor] = "ended"]
          /\ held' = [held EXCEPT ![Cache!Monitor] = Cache!None]
          /\ DOMAIN victims' = DOMAIN victims
        BY <1>2 DEF Cache!StopMonitor
    <2>2. Cache!Monitor \in Cache!Tasks /\ Cache!Monitor \notin CacheCallers
        BY TasksFinite
    <2>3. /\ DOMAIN at' = Cache!Tasks /\ at'[Cache!Monitor] = "ended"
          /\ held' \in [Cache!Tasks -> Cache!Objects \union {Cache!None}]
          /\ \A s \in Cache!Tasks \ {Cache!Monitor} : at'[s] = at[s] /\ held'[s] = held[s]
          /\ held'[Cache!Monitor] = Cache!None
        BY <2>1, <2>2
    <2>4. LoadersFit'
        <3>1. \A s \in CacheCallers : at'[s] = at[s] /\ held'[s] = held[s]
            BY <2>2, <2>3, TasksFinite
        <3>2. \A s \in Cache!Tasks : held'[s] \in {held[s], Cache!None}
            BY <2>3
        <3> HIDE DEF CacheInv
        <3> QED BY <2>1, <3>1, <3>2, UnloaderKeeps
    <2>5. \A v \in {Cache!Monitor, Cache!Closer} : at'[v] # "unloading"
        BY <2>1, <2>3, TasksFinite
    <2> QED BY <2>1, <2>3, <2>4, <2>5
            DEF UnloadersLock, Cache!MemoryAccounted, Cache!CachedIsLoaded
<1>3. CASE Cache!Rest
    BY <1>3 DEF Cache!Rest, Cache!vars, LoadersFit, UnloadersLock, Cache!Cached,
       Cache!MemoryAccounted, Cache!CachedIsLoaded
<1> QED BY <1>1, <1>2, <1>3

LEMMA CacheInit == ASSUME Cache!Init PROVE CacheInv
<1>1. cache = <<>> /\ memory = 0 /\ ref = [n \in Names |-> Cache!None]
    BY DEF Cache!Init
<1>2. Cache!ToSet(cache) = {}
    BY <1>1 DEF Cache!ToSet
<1>3. Cache!MemoryAccounted
    <2>1. Units({}) = {}
        BY DEF Units
    <2> QED BY <1>1, <1>2, <2>1, FS_EmptySet, MemoryUnits
<1>4. /\ at = [t \in Cache!Tasks |-> "idle"] /\ name = [t \in CacheCallers |-> ""]
      /\ held = [t \in Cache!Tasks |-> Cache!None]
      /\ victims = [u \in {Cache!Monitor, Cache!Closer} |-> <<>>]
    BY DEF Cache!Init
<1>5. \A t \in Cache!Tasks : at[t] = "idle"
    BY <1>4
<1>6. LoadersFit
    <2>1. \A t \in CacheCallers : at[t] = "idle"
        BY <1>5, TasksFinite
    <2> QED BY <2>1 DEF LoadersFit
<1>7. UnloadersLock
    <2>1. \A u \in {Cache!Monitor, Cache!Closer} : at[u] = "idle"
        BY <1>5, TasksFinite
    <2> QED BY <2>1 DEF UnloadersLock
<1>8. cache \in Seq(Names) /\ \A i, k \in DOMAIN cache : cache[i] = cache[k] => i = k
    BY <1>1
<1>9. /\ ref \in [Names -> Cache!Objects \union {Cache!None}]
      /\ held \in [Cache!Tasks -> Cache!Objects \union {Cache!None}]
    BY <1>1, <1>4
<1>10. DOMAIN at = Cache!Tasks /\ DOMAIN name = CacheCallers
       /\ DOMAIN victims = {Cache!Monitor, Cache!Closer}
    BY <1>4
<1>11. Cache!CachedIsLoaded /\ \A n, m \in Cache!ToSet(cache) : ref[n] = ref[m] => n = m
    BY <1>2 DEF Cache!CachedIsLoaded
<1> QED BY <1>3, <1>6, <1>7, <1>8, <1>9, <1>10, <1>11 DEF CacheInv

LEMMA CacheNext == ASSUME CacheInv, [Cache!Next]_cacheVars PROVE CacheInv'
<1>1. CASE UNCHANGED cacheVars
    BY <1>1 DEF cacheVars, CacheInv, LoadersFit, UnloadersLock, Cache!Cached,
       Cache!MemoryAccounted, Cache!CachedIsLoaded
<1>2. ASSUME NEW t \in CacheCallers,
             Cache!GetModel(t) \/ Cache!Load(t) \/ Cache!Insert(t) \/ Cache!Drop(t)
      PROVE  CacheInv'
    BY <1>2, GetModelKeeps, FileKeeps, CacheInsertKeeps, DropKeeps
<1>3. ASSUME NEW u \in {Cache!Monitor, Cache!Closer}, Cache!Unload(u) \/ Cache!Unloaded(u)
      PROVE  CacheInv'
    BY <1>3, CacheUnloadKeeps, UnloadedKeeps
<1>4. CASE Cache!Squeeze \/ Cache!StopMonitor \/ Cache!Clear \/ Cache!Rest
    BY <1>4, ChooseKeeps
<1> QED BY <1>1, <1>2, <1>3, <1>4 DEF Cache!Next

-----------------------------------------------------------------------------
(* The batch accumulator.                                                  *)

\* What was read is somewhere, as many times as it was read; who hands nothing on has no batch.
BatchInv ==
    /\ read \in Nat
    /\ {delivered, batchFailed, buffer, mainBatch, watcherBatch} \subseteq Seq(Nat)
    /\ read = Len(delivered) + Len(batchFailed) + Len(buffer) + Len(mainBatch) + Len(watcherBatch)
    /\ 1..read = Batch!ToSet(delivered) \union Batch!ToSet(batchFailed) \union Batch!ToSet(buffer)
                    \union Batch!ToSet(mainBatch) \union Batch!ToSet(watcherBatch)
    /\ main \notin {"batch", "last"} => mainBatch = <<>>
    /\ watcher # "batch" => watcherBatch = <<>>

LEMMA JoinedItems ==
    ASSUME NEW s \in Seq(Nat), NEW t \in Seq(Nat)
    PROVE  /\ s \o t \in Seq(Nat) /\ Len(s \o t) = Len(s) + Len(t)
           /\ Batch!ToSet(s \o t) = Batch!ToSet(s) \union Batch!ToSet(t)
<1>1. /\ s \o t \in Seq(Nat) /\ Len(s \o t) = Len(s) + Len(t)
      /\ \A i \in 1..(Len(s) + Len(t)) : (s \o t)[i] = IF i <= Len(s) THEN s[i] ELSE t[i - Len(s)]
    BY ConcatProperties
<1>2. \A i \in DOMAIN s : i \in DOMAIN (s \o t) /\ (s \o t)[i] = s[i]
    BY <1>1
<1>3. \A i \in DOMAIN t : Len(s) + i \in DOMAIN (s \o t) /\ (s \o t)[Len(s) + i] = t[i]
    BY <1>1
<1>4. \A i \in DOMAIN (s \o t) : (s \o t)[i] \in Batch!ToSet(s) \union Batch!ToSet(t)
    BY <1>1 DEF Batch!ToSet
<1>5. Batch!ToSet(s) \union Batch!ToSet(t) \subseteq Batch!ToSet(s \o t)
    BY <1>2, <1>3, Zenon DEF Batch!ToSet
<1>6. Batch!ToSet(s \o t) \subseteq Batch!ToSet(s) \union Batch!ToSet(t)
    BY <1>4, Zenon DEF Batch!ToSet
<1> QED BY <1>1, <1>5, <1>6

LEMMA AppendedItem ==
    ASSUME NEW s \in Seq(Nat), NEW x \in Nat
    PROVE  /\ Append(s, x) \in Seq(Nat) /\ Len(Append(s, x)) = Len(s) + 1
           /\ Batch!ToSet(Append(s, x)) = Batch!ToSet(s) \union {x}
<1>1. <<x>> \in Seq(Nat) /\ Len(<<x>>) = 1 /\ Batch!ToSet(<<x>>) = {x}
    BY DEF Batch!ToSet
<1>2. Append(s, x) = s \o <<x>>
    BY AppendIsConcat
<1> QED BY <1>1, <1>2, JoinedItems

LEMMA OneMore == \A r \in Nat : 1..(r + 1) = (1..r) \union {r + 1}
<1> SUFFICES ASSUME NEW r \in Nat, NEW x PROVE x \in 1..(r + 1) <=> x \in 1..r \/ x = r + 1
    BY Zenon
<1> QED OBVIOUS

LEMMA NoItems == <<>> \in Seq(Nat) /\ Len(<<>>) = 0 /\ Batch!ToSet(<<>>) = {}
BY DEF Batch!ToSet

LEMMA EachIsSomewhere == ASSUME BatchInv PROVE Batch!EachItemOnce
<1> DEFINE two == delivered \o batchFailed
           three == two \o buffer
           four == three \o mainBatch
           five == four \o watcherBatch
<1>1. /\ two \in Seq(Nat) /\ Len(two) = Len(delivered) + Len(batchFailed)
      /\ Batch!ToSet(two) = Batch!ToSet(delivered) \union Batch!ToSet(batchFailed)
    BY JoinedItems DEF BatchInv
<1> HIDE DEF two
<1>2. /\ three \in Seq(Nat) /\ Len(three) = Len(two) + Len(buffer)
      /\ Batch!ToSet(three) = Batch!ToSet(two) \union Batch!ToSet(buffer)
    BY <1>1, JoinedItems DEF BatchInv
<1> HIDE DEF three
<1>3. /\ four \in Seq(Nat) /\ Len(four) = Len(three) + Len(mainBatch)
      /\ Batch!ToSet(four) = Batch!ToSet(three) \union Batch!ToSet(mainBatch)
    BY <1>2, JoinedItems DEF BatchInv
<1> HIDE DEF four
<1>4. /\ five \in Seq(Nat) /\ Len(five) = Len(four) + Len(watcherBatch)
      /\ Batch!ToSet(five) = Batch!ToSet(four) \union Batch!ToSet(watcherBatch)
    BY <1>3, JoinedItems DEF BatchInv
<1> HIDE DEF five
<1>5. {Len(delivered), Len(batchFailed), Len(buffer), Len(mainBatch), Len(watcherBatch)} \subseteq Nat
    BY DEF BatchInv
<1>6. Len(five) = read /\ Batch!ToSet(five) = 1..read
    BY <1>1, <1>2, <1>3, <1>4, <1>5 DEF BatchInv
<1> QED BY <1>6 DEF Batch!EachItemOnce, five, four, three, two

\* A step adds what it reads, and moves the rest from one place to another.
LEMMA BatchNext == ASSUME BatchInv, [Batch!Next]_batchVars PROVE BatchInv'
<1>0. \A s \in Seq(Nat) : Len(s) \in Nat
    OBVIOUS
<1>10. /\ Len(delivered) \in Nat /\ Len(batchFailed) \in Nat /\ Len(buffer) \in Nat
      /\ Len(mainBatch) \in Nat /\ Len(watcherBatch) \in Nat
      /\ read = Len(delivered) + Len(batchFailed) + Len(buffer) + Len(mainBatch) + Len(watcherBatch)
    BY <1>0 DEF BatchInv
<1>1. ASSUME Batch!Add PROVE BatchInv'
    <2>1. /\ buffer' = Append(buffer, read + 1) /\ read' = read + 1
          /\ UNCHANGED <<main, mainBatch, watcher, watcherBatch, delivered, batchFailed>>
        BY <1>1 DEF Batch!Add
    <2>2. /\ buffer' \in Seq(Nat) /\ Len(buffer') = Len(buffer) + 1
          /\ Batch!ToSet(buffer') = Batch!ToSet(buffer) \union {read + 1}
        BY <2>1, AppendedItem DEF BatchInv
    <2>3. 1..(read + 1) = (1..read) \union {read + 1}
        BY OneMore DEF BatchInv
    <2> QED BY <1>0, <2>1, <2>2, <2>3 DEF BatchInv
<1>2. ASSUME Batch!AddLast PROVE BatchInv'
    <2>1. /\ mainBatch' = Append(buffer, read + 1) /\ read' = read + 1 /\ buffer' = <<>>
          /\ main = "source" /\ main' = "batch"
          /\ UNCHANGED <<watcher, watcherBatch, delivered, batchFailed>>
        BY <1>2 DEF Batch!AddLast, Batch!Take
    <2>2. /\ mainBatch' \in Seq(Nat) /\ Len(mainBatch') = Len(buffer) + 1
          /\ Batch!ToSet(mainBatch') = Batch!ToSet(buffer) \union {read + 1}
        BY <2>1, AppendedItem DEF BatchInv
    <2>3. 1..(read + 1) = (1..read) \union {read + 1}
        BY OneMore DEF BatchInv
    <2>4. mainBatch = <<>>
        BY <2>1 DEF BatchInv
    <2> QED BY <1>0, <2>1, <2>2, <2>3, <2>4, NoItems DEF BatchInv
<1>3. ASSUME Batch!SourceEnds PROVE BatchInv'
    <2>1. /\ mainBatch' = buffer /\ buffer' = <<>> /\ main = "source"
          /\ main' = IF buffer = <<>> THEN "closing" ELSE "last"
          /\ UNCHANGED <<read, watcher, watcherBatch, delivered, batchFailed>>
        BY <1>3 DEF Batch!SourceEnds, Batch!Take
    <2>2. mainBatch = <<>>
        BY <2>1 DEF BatchInv
    <2> QED BY <1>0, <2>1, <2>2, NoItems DEF BatchInv
<1>4. ASSUME Batch!MainDelivers PROVE BatchInv'
    <2>1. /\ mainBatch' = <<>> /\ main' \notin {"batch", "last"}
          /\ \/ delivered' = delivered \o mainBatch /\ UNCHANGED batchFailed
             \/ batchFailed' = batchFailed \o mainBatch /\ UNCHANGED delivered
          /\ UNCHANGED <<read, buffer, watcher, watcherBatch>>
        BY <1>4 DEF Batch!MainDelivers
    <2>2. /\ {delivered \o mainBatch, batchFailed \o mainBatch} \subseteq Seq(Nat)
          /\ Len(delivered \o mainBatch) = Len(delivered) + Len(mainBatch)
          /\ Len(batchFailed \o mainBatch) = Len(batchFailed) + Len(mainBatch)
          /\ Batch!ToSet(delivered \o mainBatch) = Batch!ToSet(delivered) \union Batch!ToSet(mainBatch)
          /\ Batch!ToSet(batchFailed \o mainBatch) = Batch!ToSet(batchFailed) \union Batch!ToSet(mainBatch)
        BY JoinedItems DEF BatchInv
    <2>3. {delivered', batchFailed', buffer', mainBatch', watcherBatch'} \subseteq Seq(Nat)
        BY <2>1, <2>2, NoItems DEF BatchInv
    <2>4. read' = Len(delivered') + Len(batchFailed') + Len(buffer') + Len(mainBatch') + Len(watcherBatch')
        <3>1. Len(mainBatch') = 0 /\ Len(buffer') = Len(buffer)
            BY <2>1, NoItems
        <3>2. CASE delivered' = delivered \o mainBatch /\ UNCHANGED batchFailed
            BY <1>10, <2>1, <2>2, <3>1, <3>2
        <3>3. CASE batchFailed' = batchFailed \o mainBatch /\ UNCHANGED delivered
            BY <1>10, <2>1, <2>2, <3>1, <3>3
        <3> QED BY <2>1, <3>2, <3>3
    <2>5. 1..read' = Batch!ToSet(delivered') \union Batch!ToSet(batchFailed') \union Batch!ToSet(buffer')
                    \union Batch!ToSet(mainBatch') \union Batch!ToSet(watcherBatch')
        BY <2>1, <2>2, NoItems DEF BatchInv
    <2> QED BY <2>1, <2>3, <2>4, <2>5 DEF BatchInv
<1>5. ASSUME Batch!Close PROVE BatchInv'
    <2>1. /\ watcherBatch' = <<>> /\ main \notin {"batch", "last"}
          /\ watcher' # "batch"
          /\ batchFailed' = IF watcher = "batch" THEN batchFailed \o watcherBatch ELSE batchFailed
          /\ UNCHANGED <<read, buffer, mainBatch, delivered>>
        BY <1>5 DEF Batch!Close
    <2>2. /\ batchFailed \o watcherBatch \in Seq(Nat)
          /\ Len(batchFailed \o watcherBatch) = Len(batchFailed) + Len(watcherBatch)
          /\ Batch!ToSet(batchFailed \o watcherBatch)
                = Batch!ToSet(batchFailed) \union Batch!ToSet(watcherBatch)
        BY JoinedItems DEF BatchInv
    <2>3. mainBatch = <<>>
        BY <2>1 DEF BatchInv
    <2>4. ASSUME watcher # "batch" PROVE watcherBatch = <<>>
        BY <2>4 DEF BatchInv
    <2>5. {delivered', batchFailed', buffer', mainBatch', watcherBatch'} \subseteq Seq(Nat)
        BY <2>1, <2>2, NoItems DEF BatchInv
    <2>6. read' = Len(delivered') + Len(batchFailed') + Len(buffer') + Len(mainBatch') + Len(watcherBatch')
        <3>1. Len(watcherBatch') = 0
            BY <2>1, NoItems
        <3>2. CASE watcher = "batch"
            BY <1>10, <2>1, <2>2, <3>1, <3>2
        <3>3. CASE watcher # "batch"
            BY <1>10, <2>1, <2>4, <3>1, <3>3, NoItems
        <3> QED BY <3>2, <3>3
    <2>7. 1..read' = Batch!ToSet(delivered') \union Batch!ToSet(batchFailed') \union Batch!ToSet(buffer')
                    \union Batch!ToSet(mainBatch') \union Batch!ToSet(watcherBatch')
        BY <2>1, <2>2, <2>4, NoItems DEF BatchInv
    <2> QED BY <2>1, <2>3, <2>5, <2>6, <2>7 DEF BatchInv
<1>6. ASSUME Batch!WatcherSleeps PROVE BatchInv'
    BY <1>6 DEF Batch!WatcherSleeps, BatchInv
<1>7. ASSUME Batch!WatcherFlushes PROVE BatchInv'
    <2>1. /\ watcherBatch' = buffer /\ buffer' = <<>> /\ watcher = "sleep"
          /\ watcher' = IF buffer = <<>> THEN "wait" ELSE "batch"
          /\ UNCHANGED <<read, main, mainBatch, delivered, batchFailed>>
        BY <1>7 DEF Batch!WatcherFlushes, Batch!Take
    <2>2. watcherBatch = <<>>
        BY <2>1 DEF BatchInv
    <2> QED BY <1>0, <2>1, <2>2, NoItems DEF BatchInv
<1>8. ASSUME Batch!WatcherDelivers PROVE BatchInv'
    <2>1. /\ watcherBatch' = <<>> /\ watcher' # "batch"
          /\ \/ delivered' = delivered \o watcherBatch /\ UNCHANGED batchFailed
             \/ batchFailed' = batchFailed \o watcherBatch /\ UNCHANGED delivered
          /\ UNCHANGED <<read, buffer, main, mainBatch>>
        BY <1>8 DEF Batch!WatcherDelivers
    <2>2. /\ {delivered \o watcherBatch, batchFailed \o watcherBatch} \subseteq Seq(Nat)
          /\ Len(delivered \o watcherBatch) = Len(delivered) + Len(watcherBatch)
          /\ Len(batchFailed \o watcherBatch) = Len(batchFailed) + Len(watcherBatch)
          /\ Batch!ToSet(delivered \o watcherBatch)
                = Batch!ToSet(delivered) \union Batch!ToSet(watcherBatch)
          /\ Batch!ToSet(batchFailed \o watcherBatch)
                = Batch!ToSet(batchFailed) \union Batch!ToSet(watcherBatch)
        BY JoinedItems DEF BatchInv
    <2>3. {delivered', batchFailed', buffer', mainBatch', watcherBatch'} \subseteq Seq(Nat)
        BY <2>1, <2>2, NoItems DEF BatchInv
    <2>4. read' = Len(delivered') + Len(batchFailed') + Len(buffer') + Len(mainBatch') + Len(watcherBatch')
        <3>1. Len(watcherBatch') = 0 /\ Len(buffer') = Len(buffer)
            BY <2>1, NoItems
        <3>2. CASE delivered' = delivered \o watcherBatch /\ UNCHANGED batchFailed
            BY <1>10, <2>1, <2>2, <3>1, <3>2
        <3>3. CASE batchFailed' = batchFailed \o watcherBatch /\ UNCHANGED delivered
            BY <1>10, <2>1, <2>2, <3>1, <3>3
        <3> QED BY <2>1, <3>2, <3>3
    <2>5. 1..read' = Batch!ToSet(delivered') \union Batch!ToSet(batchFailed') \union Batch!ToSet(buffer')
                    \union Batch!ToSet(mainBatch') \union Batch!ToSet(watcherBatch')
        BY <2>1, <2>2, NoItems DEF BatchInv
    <2> QED BY <2>1, <2>3, <2>4, <2>5 DEF BatchInv
<1>9. CASE UNCHANGED batchVars
    BY <1>9 DEF batchVars, BatchInv
<1> QED BY <1>1, <1>2, <1>3, <1>4, <1>5, <1>6, <1>7, <1>8, <1>9 DEF Batch!Next

LEMMA BatchInit == ASSUME Batch!Init PROVE BatchInv
<1>1. 1..0 = {}
    OBVIOUS
<1> QED BY <1>1, NoItems DEF Batch!Init, BatchInv

-----------------------------------------------------------------------------
(* The mailboxes of the actors.                                            *)

LEMMA Halves ==
    /\ \A k \in Nat : k > 1 => k \div 2 \in Nat /\ 1 <= k \div 2 /\ k \div 2 < k
    /\ \A j, k \in Nat : 1 <= j /\ j <= k \div 2 => j \div 2 < k \div 2
OBVIOUS

\* A function that takes its value from that at half the argument, where B says so, exists.
LEMMA HalvingExists ==
    ASSUME NEW i \in Nat, NEW B \in SUBSET (Nat \ {0, 1})
    PROVE  \E f : f = [k \in 1..i |-> IF k \in B THEN {k} \union f[k \div 2] ELSE {k}]
<1> DEFINE Is(f, m) == f = [k \in 1..m |-> IF k \in B THEN {k} \union f[k \div 2] ELSE {k}]
           Without == {m \in Nat : ~\E f : Is(f, m)}
<1> SUFFICES ASSUME Without # {} PROVE FALSE
    BY DEF Without
<1>1. PICK m \in Without : \A x \in Without : m <= x
    <2> HIDE DEF Without
    <2>1. Without \in SUBSET Nat
        BY DEF Without
    <2> QED BY <2>1, LeastExists
<1>2. m \in Nat /\ ~\E f : Is(f, m)
    BY <1>1 DEF Without
<1>3. m # 0
    <2>1. Is([k \in 1..0 |-> {}], 0)
        OBVIOUS
    <2> QED BY <1>2, <2>1
<1>4. PICK f : Is(f, m - 1)
    <2>1. m - 1 \in Nat /\ ~(m <= m - 1)
        BY <1>2, <1>3
    <2> QED BY <1>1, <2>1 DEF Without
<1> DEFINE g == [k \in 1..m |-> IF k = m THEN IF k \in B THEN {k} \union f[k \div 2] ELSE {k}
                                ELSE f[k]]
<1>5. \A k \in 1..(m - 1) : g[k] = f[k]
    BY <1>2, <1>3
<1>6. ASSUME NEW k \in 1..m
      PROVE  g[k] = IF k \in B THEN {k} \union g[k \div 2] ELSE {k}
    <2>1. k \in B => k \div 2 \in 1..(m - 1)
        BY <1>2, <1>3, Halves
    <2>2. CASE k = m
        BY <1>5, <2>1, <2>2
    <2>3. CASE k # m
        <3>1. k \in 1..(m - 1)
            BY <1>2, <2>3
        <3>2. f[k] = IF k \in B THEN {k} \union f[k \div 2] ELSE {k}
            BY <1>4, <3>1
        <3> QED BY <1>5, <2>1, <3>1, <3>2
    <2> QED BY <2>2, <2>3
<1>7. Is(g, m)
    <2> HIDE DEF g
    <2>1. DOMAIN g = 1..m /\ g = [k \in 1..m |-> g[k]]
        BY DEF g
    <2> QED BY <1>6, <2>1
<1> QED BY <1>2, <1>7

\* The numbers on the way of halving from k, as far as it goes.
IsHalving(S, k) ==
    /\ k \in S /\ S \subseteq 1..k
    /\ \A j \in S : (\E l \in S : l < j) => j \div 2 \in S
    /\ \A j, l \in S : j < l => j <= l \div 2

LEMMA HalvingWay ==
    ASSUME NEW i \in Nat, NEW B \in SUBSET (Nat \ {0, 1}), NEW f,
           \A k \in 1..i : /\ k \in B => f[k] = {k} \union f[k \div 2]
                           /\ k \notin B => f[k] = {k}
    PROVE  \A k \in 1..i : IsHalving(f[k], k)
<1> USE DEF IsHalving
<1> DEFINE Right(k) == IsHalving(f[k], k)
           Wrong == {k \in 1..i : ~Right(k)}
<1> SUFFICES ASSUME Wrong # {} PROVE FALSE
    BY DEF Wrong
<1>1. PICK k \in Wrong : \A x \in Wrong : k <= x
    <2> HIDE DEF Wrong
    <2>1. Wrong \in SUBSET Nat
        BY DEF Wrong
    <2> QED BY <2>1, LeastExists
<1>2. k \in 1..i /\ ~Right(k)
    BY <1>1 DEF Wrong
<1>3. /\ k \in B => f[k] = {k} \union f[k \div 2]
      /\ k \notin B => f[k] = {k}
    <2> HIDE DEF Right, Wrong
    <2> QED BY <1>2
<1>4. k \in B
    <2> SUFFICES ASSUME k \notin B PROVE Right(k)
        BY <1>2
    <2>1. f[k] = {k}
        BY <1>3
    <2> QED BY <1>2, <2>1
<1>5. k \div 2 \in 1..i /\ k \div 2 < k
    BY <1>2, <1>4, Halves
<1>6. Right(k \div 2)
    <2>1. k \div 2 \notin Wrong
        <3> HIDE DEF Wrong
        <3> QED BY <1>1, <1>2, <1>5
    <2> QED BY <1>5, <2>1 DEF Wrong
<1> HIDE DEF Wrong
<1>7. f[k] = {k} \union f[k \div 2]
    BY <1>3, <1>4
<1>8. k \in f[k] /\ f[k] \subseteq 1..k
    BY <1>2, <1>5, <1>6, <1>7
<1>9. ASSUME NEW j \in f[k], NEW l \in f[k], l < j PROVE j \div 2 \in f[k]
    <2>1. CASE j = k
        BY <1>6, <1>7, <2>1
    <2>2. CASE j # k
        <3>1. j \in f[k \div 2] /\ l # k
            BY <1>2, <1>7, <1>8, <1>9, <2>2
        <3> QED BY <1>6, <1>7, <1>9, <3>1
    <2> QED BY <2>1, <2>2
<1>10. ASSUME NEW j \in f[k], NEW l \in f[k], j < l PROVE j <= l \div 2
    <2>1. CASE l = k
        <3>1. j \in f[k \div 2]
            BY <1>2, <1>7, <1>10, <2>1
        <3> QED BY <1>6, <2>1, <3>1
    <2>2. CASE l # k
        <3>1. l \in f[k \div 2] /\ j # k
            BY <1>2, <1>7, <1>8, <1>10, <2>2
        <3> QED BY <1>6, <1>7, <1>10, <3>1
    <2> QED BY <2>1, <2>2
<1> QED BY <1>2, <1>8, <1>9, <1>10

\* The messages of a list at some of its places, in some order.
Picked(h, p) == [k \in DOMAIN p |-> h[p[k]]]
IsPick(p, n, P) == p \in [1..n -> P] /\ \A j, k \in 1..n : p[j] = p[k] => j = k

\* What moves up moves down those it passes.
LEMMA RiseIsPicked ==
    ASSUME NEW h, NEW n \in Nat, DOMAIN h = 1..n, NEW i \in 1..n
    PROVE  \E p : IsPick(p, n, 1..n) /\ Actor!Rise(h, i) = Picked(h, p)
<1> DEFINE B == {k \in 1..i : k > 1 /\ Actor!Before(h[i], h[k \div 2])}
           up == CHOOSE up : up = [k \in 1..i |->
                    IF k > 1 /\ Actor!Before(h[i], h[k \div 2]) THEN {k} \union up[k \div 2]
                    ELSE {k}]
           path == up[i]
           top == CHOOSE j \in path : \A k \in path : j <= k
           p == [k \in 1..n |-> IF k = top THEN i ELSE IF k \in path THEN k \div 2 ELSE k]
<1>1. Actor!Rise(h, i) = [k \in 1..n |-> IF k = top THEN h[i]
                                       ELSE IF k \in path THEN h[k \div 2] ELSE h[k]]
    BY DEF Actor!Rise
<1>2. \A f : [k \in 1..i |-> IF k > 1 /\ Actor!Before(h[i], h[k \div 2])
                             THEN {k} \union f[k \div 2] ELSE {k}]
           = [k \in 1..i |-> IF k \in B THEN {k} \union f[k \div 2] ELSE {k}]
    OBVIOUS
<1>3. B \in SUBSET (Nat \ {0, 1}) /\ i \in Nat
    OBVIOUS
<1> HIDE DEF B
<1>4. up = [k \in 1..i |-> IF k \in B THEN {k} \union up[k \div 2] ELSE {k}]
    <2>1. PICK f : f = [k \in 1..i |-> IF k \in B THEN {k} \union f[k \div 2] ELSE {k}]
        BY <1>3, HalvingExists
    <2>2. f = [k \in 1..i |-> IF k > 1 /\ Actor!Before(h[i], h[k \div 2])
                             THEN {k} \union f[k \div 2] ELSE {k}]
        BY <1>2, <2>1, Zenon
    <2>3. up = [k \in 1..i |-> IF k > 1 /\ Actor!Before(h[i], h[k \div 2])
                             THEN {k} \union up[k \div 2] ELSE {k}]
        BY <2>2, Zenon
    <2> HIDE DEF up
    <2> QED BY <1>2, <2>3
<1> HIDE DEF up
<1>5. /\ i \in path /\ path \subseteq 1..i
      /\ \A j \in path : (\E l \in path : l < j) => j \div 2 \in path
      /\ \A j, l \in path : j < l => j <= l \div 2
    <2>1. i \in 1..i
        OBVIOUS
    <2>2. \A k \in 1..i : /\ k \in B => up[k] = {k} \union up[k \div 2]
                          /\ k \notin B => up[k] = {k}
        BY <1>4
    <2>3. \A k \in 1..i : IsHalving(up[k], k)
        BY <1>3, <2>2, HalvingWay
    <2> QED BY <2>1, <2>3 DEF IsHalving
<1> HIDE DEF path
<1>6. top \in path /\ \A k \in path : top <= k
    <2>1. path \in SUBSET Nat /\ path # {}
        BY <1>5
    <2>2. \E j \in path : \A k \in path : j <= k
        BY <2>1, LeastExists
    <2> QED BY <2>2, Zenon
<1> HIDE DEF top
<1>7. \A k \in path : k # top => k \div 2 \in path /\ k \div 2 < k
    <2> SUFFICES ASSUME NEW k \in path, k # top PROVE k \div 2 \in path /\ k \div 2 < k
        OBVIOUS
    <2>1. top \in path /\ top < k /\ k \in Nat /\ k > 1
        BY <1>5, <1>6
    <2> QED BY <1>5, <2>1, Halves
<1>8. p \in [1..n -> 1..n]
    BY <1>5, <1>7
<1>9. ASSUME NEW j \in 1..n, NEW k \in 1..n, p[j] = p[k] PROVE j = k
    <2>1. \A x \in path : p[x] \in path
        BY <1>5, <1>6, <1>7
    <2>2. \A x \in 1..n \ path : p[x] = x
        BY <1>6
    <2>3. CASE j \notin path \/ k \notin path
        BY <1>9, <2>1, <2>2, <2>3
    <2>4. CASE j \in path /\ k \in path /\ (j = top \/ k = top)
        <3>1. p[top] = i /\ \A x \in path : x # top => p[x] < i
            BY <1>5, <1>6, <1>7
        <3> QED BY <1>5, <1>9, <2>4, <3>1
    <2>5. CASE j \in path /\ k \in path /\ j # top /\ k # top
        <3>1. j \div 2 = k \div 2
            BY <1>9, <2>5
        <3>2. ASSUME NEW x \in path, NEW y \in path, x < y PROVE x \div 2 < y \div 2
            <4>1. x \in Nat /\ y \in Nat /\ 1 <= x /\ x <= y \div 2
                BY <1>5, <3>2
            <4> QED BY <4>1, Halves
        <3>3. ~(j < k) /\ ~(k < j)
            BY <1>5, <2>5, <3>1, <3>2
        <3> QED BY <3>3
    <2> QED BY <2>3, <2>4, <2>5
<1>10. Actor!Rise(h, i) = Picked(h, p)
    BY <1>1 DEF Picked
<1> HIDE DEF p
<1> QED BY <1>8, <1>9, <1>10 DEF IsPick

LEMMA Doubles ==
    /\ \A k, c \in Nat : c \in {2 * k, 2 * k + 1} => c \div 2 = k
    /\ \A k, n \in Nat : 1 <= k /\ 2 * k <= n => k < n /\ k < 2 * k
OBVIOUS

\* A function that takes its value from that of a greater argument, where B says so, exists.
Climbs(f, n, B, c) == f = [k \in 1..n |-> IF k \in B THEN {k} \union f[c[k]] ELSE {k}]

LEMMA ClimbingExists ==
    ASSUME NEW n \in Nat, NEW B \in SUBSET (1..n), NEW c, \A k \in B : c[k] \in (k + 1)..n
    PROVE  \E f : Climbs(f, n, B, c)
<1> USE DEF Climbs
<1> DEFINE Is(f, m) == f = [k \in m..n |-> IF k \in B THEN {k} \union f[c[k]] ELSE {k}]
           Without == {d \in 0..n : ~\E f : Is(f, n + 1 - d)}
<1>1. SUFFICES ASSUME Without # {} PROVE FALSE
    <2>1. n \in 0..n /\ n + 1 - n = 1
        OBVIOUS
    <2>2. n \notin Without => \E f : Is(f, 1)
        BY <2>1 DEF Without
    <2> HIDE DEF Without
    <2> QED BY <2>2
<1>2. PICK d \in Without : \A x \in Without : d <= x
    <2> HIDE DEF Without
    <2>1. Without \in SUBSET Nat
        BY DEF Without
    <2> QED BY <1>1, <2>1, LeastExists
<1> DEFINE m == n + 1 - d
<1>3. d \in 0..n /\ ~\E f : Is(f, m)
    BY <1>2 DEF Without
<1>4. d # 0
    <2> SUFFICES ASSUME d = 0 PROVE FALSE
        OBVIOUS
    <2>1. m = n + 1 /\ m..n = {}
        OBVIOUS
    <2>2. Is([k \in {} |-> {}], m)
        BY <2>1
    <2> QED BY <1>3, <2>2
<1>5. PICK f : Is(f, m + 1)
    <2>1. d - 1 \in 0..n /\ ~(d <= d - 1) /\ n + 1 - (d - 1) = m + 1
        BY <1>3, <1>4
    <2>2. d - 1 \notin Without
        <3> HIDE DEF Without
        <3> QED BY <1>2, <2>1
    <2>3. \E f : Is(f, n + 1 - (d - 1))
        <3> HIDE DEF Is
        <3> QED BY <2>1, <2>2 DEF Without
    <2> QED BY <2>1, <2>3
<1>6. m \in 1..n /\ m..n = {m} \union ((m + 1)..n)
    BY <1>3, <1>4
<1> HIDE DEF m, Without
<1> DEFINE g == [k \in m..n |-> IF k = m THEN IF k \in B THEN {k} \union f[c[k]] ELSE {k} ELSE f[k]]
<1>7. \A k \in (m + 1)..n : k \in m..n /\ k # m /\ g[k] = f[k]
    BY <1>6
<1>8. ASSUME NEW k \in m..n
      PROVE  g[k] = IF k \in B THEN {k} \union g[c[k]] ELSE {k}
    <2>1. k \in B => c[k] \in (m + 1)..n
        BY <1>6
    <2>2. CASE k = m
        BY <1>7, <2>1, <2>2
    <2>3. CASE k # m
        <3>1. k \in (m + 1)..n
            BY <1>6, <2>3
        <3>2. f[k] = IF k \in B THEN {k} \union f[c[k]] ELSE {k}
            BY <1>5, <3>1
        <3> QED BY <1>7, <2>1, <3>1, <3>2
    <2> QED BY <2>2, <2>3
<1>9. Is(g, m)
    <2> HIDE DEF g
    <2>1. DOMAIN g = m..n /\ g = [k \in m..n |-> g[k]]
        BY DEF g
    <2> QED BY <1>8, <2>1
<1> QED BY <1>3, <1>9

\* The positions on a way down from k, each a child of the one before it.
IsClimbing(S, k, n) ==
    /\ k \in S /\ S \subseteq k..n
    /\ \E l \in S : /\ \A j \in S : j <= l
                    /\ \A j \in S : j # l => \E i \in S : i \div 2 = j

LEMMA ClimbingWay ==
    ASSUME NEW n \in Nat, NEW B \in SUBSET (1..n), NEW c,
           \A k \in B : c[k] \in (k + 1)..n /\ c[k] \div 2 = k,
           NEW f, \A k \in 1..n : /\ k \in B => f[k] = {k} \union f[c[k]]
                                  /\ k \notin B => f[k] = {k}
    PROVE  \A k \in 1..n : IsClimbing(f[k], k, n)
<1> USE DEF IsClimbing
<1> DEFINE Right(k) == IsClimbing(f[k], k, n)
           Wrong == {d \in 0..n : \E k \in 1..n : d = n - k /\ ~Right(k)}
<1>1. SUFFICES ASSUME Wrong # {} PROVE FALSE
    <2>1. \A k \in 1..n : n - k \in 0..n
        OBVIOUS
    <2>2. \A k \in 1..n : ~Right(k) => n - k \in Wrong
        BY <2>1 DEF Wrong
    <2> HIDE DEF Wrong
    <2> QED BY <2>2
<1>2. PICK d \in Wrong : \A x \in Wrong : d <= x
    <2> HIDE DEF Wrong
    <2>1. Wrong \in SUBSET Nat
        BY DEF Wrong
    <2> QED BY <1>1, <2>1, LeastExists
<1>3. PICK k \in 1..n : d = n - k /\ ~Right(k)
    BY <1>2 DEF Wrong
<1>4. /\ k \in B => f[k] = {k} \union f[c[k]]
      /\ k \notin B => f[k] = {k}
    <2> HIDE DEF Right, Wrong
    <2> QED OBVIOUS
<1>5. k \in B
    <2> SUFFICES ASSUME k \notin B PROVE Right(k)
        BY <1>3
    <2>1. f[k] = {k} /\ {k} \subseteq k..n
        BY <1>4
    <2> QED BY <2>1
<1>6. c[k] \in (k + 1)..n /\ c[k] \in 1..n /\ c[k] \div 2 = k
    <2> HIDE DEF Right, Wrong
    <2> QED BY <1>5
<1>7. Right(c[k])
    <2>1. n - c[k] \in 0..n /\ ~(d <= n - c[k])
        <3> HIDE DEF Right, Wrong
        <3> QED BY <1>3, <1>6
    <2>2. n - c[k] \notin Wrong
        BY <1>2, <2>1, Zenon
    <2> HIDE DEF Right
    <2> QED BY <1>6, <2>1, <2>2 DEF Wrong
<1> HIDE DEF Wrong
<1>8. f[k] = {k} \union f[c[k]]
    BY <1>4, <1>5
<1>9. k \in f[k] /\ f[k] \subseteq k..n
    BY <1>6, <1>7, <1>8
<1>10. PICK l \in f[c[k]] : /\ \A j \in f[c[k]] : j <= l
                            /\ \A j \in f[c[k]] : j # l => \E i \in f[c[k]] : i \div 2 = j
    BY <1>7
<1>11. l \in f[k] /\ \A j \in f[k] : j <= l
    BY <1>6, <1>7, <1>8, <1>10
<1>12. ASSUME NEW j \in f[k], j # l PROVE \E i \in f[k] : i \div 2 = j
    <2>1. CASE j = k
        BY <1>6, <1>7, <1>8, <2>1
    <2>2. CASE j # k
        <3>1. j \in f[c[k]]
            BY <1>8, <2>2
        <3> QED BY <1>8, <1>10, <1>12, <3>1
    <2> QED BY <2>1, <2>2
<1> QED BY <1>3, <1>9, <1>11, <1>12

\* No two messages of a list have a number; what is left of a list comes from it.
Distinct(h) == \A j, k \in DOMAIN h : j # k => h[j].n # h[k].n
LeftOf(g, h) ==
    /\ g \in Seq(Actor!Message)
    /\ \A j \in DOMAIN g : \E k \in DOMAIN h : g[j] = h[k]
    /\ Distinct(h) => Distinct(g)

OnlyFrom(g, h, P) == \A j \in DOMAIN g : \E k \in P : g[j] = h[k]

LEMMA PickedIsLeft ==
    ASSUME NEW h \in Seq(Actor!Message), NEW n \in Nat, NEW P \in SUBSET (DOMAIN h), NEW p,
           IsPick(p, n, P)
    PROVE  LeftOf(Picked(h, p), h) /\ OnlyFrom(Picked(h, p), h, P)
<1> DEFINE g == Picked(h, p)
<1>1. DOMAIN p = 1..n /\ \A j \in 1..n : p[j] \in P /\ p[j] \in DOMAIN h /\ h[p[j]] \in Actor!Message
    BY DEF IsPick
<1>2. DOMAIN g = 1..n /\ \A j \in 1..n : g[j] = h[p[j]]
    BY <1>1 DEF Picked
<1>3. g \in Seq(Actor!Message)
    <2>1. g = [j \in 1..n |-> h[p[j]]]
        BY <1>1 DEF Picked
    <2> HIDE DEF g
    <2> QED BY <1>1, <2>1
<1> HIDE DEF g
<1>4. ASSUME Distinct(h) PROVE Distinct(g)
    <2> SUFFICES ASSUME NEW j \in 1..n, NEW k \in 1..n, j # k PROVE g[j].n # g[k].n
        BY <1>2 DEF Distinct
    <2>1. p[j] # p[k] /\ p[j] \in DOMAIN h /\ p[k] \in DOMAIN h
        BY <1>1 DEF IsPick
    <2>2. h[p[j]].n # h[p[k]].n
        BY <1>4, <2>1 DEF Distinct
    <2> QED BY <1>2, <2>2
<1>5. \A j \in DOMAIN g : \E k \in P : g[j] = h[k]
    BY <1>1, <1>2
<1> QED BY <1>3, <1>4, <1>5 DEF LeftOf, OnlyFrom, g

LEMMA PickOfPick ==
    ASSUME NEW h, NEW n \in Nat, NEW P, NEW p, IsPick(p, n, P), NEW q, IsPick(q, n, 1..n)
    PROVE  \E r : IsPick(r, n, P) /\ Picked(h, r) = Picked(Picked(h, p), q)
<1> DEFINE r == [k \in 1..n |-> p[q[k]]]
<1>1. \A k \in 1..n : q[k] \in 1..n /\ p[q[k]] \in P
    BY DEF IsPick
<1>2. DOMAIN p = 1..n /\ DOMAIN r = 1..n /\ DOMAIN q = 1..n
    BY DEF IsPick
<1>3. r \in [1..n -> P] /\ \A k \in 1..n : r[k] = p[q[k]]
    BY <1>1
<1> HIDE DEF r
<1>4. \A j, k \in 1..n : r[j] = r[k] => j = k
    BY <1>1, <1>3 DEF IsPick
<1>5. Picked(h, r) = Picked(Picked(h, p), q)
    BY <1>1, <1>2, <1>3 DEF Picked
<1> QED BY <1>3, <1>4, <1>5 DEF IsPick

LEMMA LeftOfLeft ==
    ASSUME NEW f, NEW g, NEW h, LeftOf(f, g), LeftOf(g, h) PROVE LeftOf(f, h)
BY DEF LeftOf

\* A message that is pushed comes to the others.
LEMMA PushAdds ==
    ASSUME NEW h \in Seq(Actor!Message), NEW m \in Actor!Message
    PROVE  LeftOf(Actor!Push(h, m), Append(h, m))
<1> DEFINE g == Append(h, m)
           n == Len(h) + 1
<1>1. g \in Seq(Actor!Message) /\ n \in Nat /\ DOMAIN g = 1..n /\ n \in 1..n
    OBVIOUS
<1> HIDE DEF g, n
<1>2. PICK q : IsPick(q, n, 1..n) /\ Actor!Rise(g, n) = Picked(g, q)
    BY <1>1, RiseIsPicked
<1>3. LeftOf(Picked(g, q), g)
    BY <1>1, <1>2, PickedIsLeft
<1>4. Actor!Push(h, m) = Actor!Rise(g, n)
    BY DEF Actor!Push, g, n
<1> QED BY <1>2, <1>3, <1>4 DEF g

\* All but the first are left when the first is popped.
LEMMA PopRemoves ==
    ASSUME NEW h \in Seq(Actor!Message), h # <<>>
    PROVE  \E p : IsPick(p, Len(h) - 1, 2..Len(h)) /\ Actor!Pop(h) = Picked(h, p)
<1> DEFINE n == Len(h) - 1
           rest == Actor!Front(h)
<1>1. n \in Nat /\ Len(h) = n + 1 /\ DOMAIN h = 1..(n + 1)
    OBVIOUS
<1>2. CASE n = 0
    <2>1. Actor!Pop(h) = <<>>
        BY <1>1, <1>2 DEF Actor!Pop
    <2>2. <<>> \in [1..0 -> 2..Len(h)] /\ 1..0 = {}
        OBVIOUS
    <2>3. IsPick(<<>>, n, 2..Len(h))
        <3> HIDE DEF n
        <3> QED BY <1>2, <2>2 DEF IsPick
    <2>4. Picked(h, <<>>) = <<>>
        BY DEF Picked
    <2> QED BY <2>1, <2>3, <2>4
<1>3. CASE n # 0
    <2> HIDE DEF n
    <2>1. Len(rest) = n /\ DOMAIN rest = 1..n /\ \A k \in 1..n : rest[k] = h[k]
        BY <1>1, SubSeqProperties DEF Actor!Front, n
    <2> HIDE DEF rest
    <2> DEFINE child(i) == IF 2 * i + 1 <= n /\ ~Actor!Before(rest[2 * i], rest[2 * i + 1])
                           THEN 2 * i + 1 ELSE 2 * i
               down == CHOOSE down : down = [i \in 1..n |->
                            IF 2 * i > n THEN {i} ELSE {i} \union down[child(i)]]
               way == Actor!WayDown(rest)
               leaf == CHOOSE i \in way : \A j \in way : j <= i
               below(i) == CHOOSE j \in way : j \div 2 = i
               p == [i \in 1..n |-> IF i = leaf THEN n + 1 ELSE IF i \in way THEN below(i) ELSE i]
    <2>2. way = down[1]
        BY <2>1 DEF Actor!WayDown
    <2> DEFINE B == {i \in 1..n : ~(2 * i > n)}
               c == [i \in 1..n |-> child(i)]
    <2>3. \A i \in B : c[i] \in (i + 1)..n /\ c[i] \div 2 = i
        <3> SUFFICES ASSUME NEW i \in B PROVE c[i] \in (i + 1)..n /\ c[i] \div 2 = i
            OBVIOUS
        <3>1. i \in Nat /\ 1 <= i /\ 2 * i <= n /\ c[i] = child(i)
            BY <1>1
        <3>2. child(i) \in {2 * i, 2 * i + 1} /\ child(i) <= n
            BY <1>1, <3>1
        <3> HIDE DEF child, c
        <3>3. c[i] \in Nat /\ i < c[i] /\ c[i] <= n
            BY <1>1, <3>1, <3>2, Doubles
        <3> QED BY <1>1, <3>1, <3>2, <3>3, Doubles
    <2>4. B \in SUBSET (1..n)
        OBVIOUS
    <2>5. \A f : [i \in 1..n |-> IF 2 * i > n THEN {i} ELSE {i} \union f[child(i)]]
               = [i \in 1..n |-> IF i \in B THEN {i} \union f[c[i]] ELSE {i}]
        OBVIOUS
    <2> HIDE DEF B, c, child
    <2>6. down = [i \in 1..n |-> IF i \in B THEN {i} \union down[c[i]] ELSE {i}]
        <3>1. PICK f : Climbs(f, n, B, c)
            <4>1. \A i \in B : c[i] \in (i + 1)..n
                BY <2>3
            <4> QED BY <1>1, <2>4, <4>1, ClimbingExists
        <3>2. f = [i \in 1..n |-> IF 2 * i > n THEN {i} ELSE {i} \union f[child(i)]]
            BY <2>5, <3>1, Zenon DEF Climbs
        <3>3. down = [i \in 1..n |-> IF 2 * i > n THEN {i} ELSE {i} \union down[child(i)]]
            BY <3>2, Zenon
        <3> HIDE DEF down
        <3> QED BY <2>5, <3>3
    <2> HIDE DEF down, way
    <2>7. \A i \in 1..n : IsClimbing(down[i], i, n)
        <3>1. \A i \in 1..n : /\ i \in B => down[i] = {i} \union down[c[i]]
                              /\ i \notin B => down[i] = {i}
            BY <2>6
        <3> QED BY <1>1, <2>3, <2>4, <3>1, ClimbingWay
    <2>8. /\ 1 \in way /\ way \subseteq 1..n
          /\ \E l \in way : /\ \A j \in way : j <= l
                            /\ \A j \in way : j # l => \E i \in way : i \div 2 = j
        BY <1>1, <1>3, <2>2, <2>7 DEF IsClimbing
    <2>9. leaf \in way /\ \A j \in way : j <= leaf
        BY <2>8, Zenon
    <2> HIDE DEF leaf
    <2>10. \A j \in way : j # leaf => \E i \in way : i \div 2 = j
        <3>1. PICK l \in way : /\ \A j \in way : j <= l
                               /\ \A j \in way : j # l => \E i \in way : i \div 2 = j
            BY <2>8
        <3>2. leaf = l
            BY <2>8, <2>9, <3>1
        <3> QED BY <3>1, <3>2
    <2>11. \A j \in way : j # leaf => below(j) \in way /\ below(j) \div 2 = j
        BY <2>10, Zenon
    <2> HIDE DEF below
    <2>12. \A j \in way : j # leaf => below(j) \in 2..n
        <3> SUFFICES ASSUME NEW j \in way, j # leaf PROVE below(j) \in 2..n
            OBVIOUS
        <3>1. below(j) \in 1..n /\ below(j) \div 2 = j /\ j \in 1..n
            BY <2>8, <2>11
        <3>2. below(j) # 1
            BY <3>1
        <3> QED BY <1>1, <3>1, <3>2
    <2>13. \A i \in 1..n \ way : i \in 2..n
        BY <2>8
    <2>14. p \in [1..n -> 2..(n + 1)]
        BY <1>1, <1>3, <2>8, <2>9, <2>12, <2>13
    <2>15. ASSUME NEW i \in 1..n, NEW j \in 1..n, p[i] = p[j] PROVE i = j
        <3>1. /\ p[leaf] = n + 1 /\ \A x \in way : x # leaf => p[x] = below(x)
              /\ \A x \in 1..n \ way : p[x] = x
            BY <2>8, <2>9
        <3> HIDE DEF p
        <3>2. CASE i = leaf \/ j = leaf
            BY <1>1, <2>8, <2>9, <2>12, <2>15, <3>1, <3>2
        <3>3. CASE i # leaf /\ j # leaf
            BY <2>11, <2>15, <3>1, <3>3
        <3> QED BY <3>2, <3>3
    <2> DEFINE moved == [i \in DOMAIN rest |-> IF i = leaf THEN Actor!Last(h)
                            ELSE IF i \in way THEN rest[CHOOSE j \in way : j \div 2 = i] ELSE rest[i]]
    <2>16. Actor!Pop(h) = Actor!Rise(moved, leaf)
        BY <1>1, <1>3 DEF Actor!Pop, way, leaf, rest
    <2>17. moved = Picked(h, p)
        <3>1. \A i \in 1..n : moved[i] = h[p[i]]
            BY <1>1, <2>1, <2>8, <2>12 DEF Actor!Last, below
        <3>2. DOMAIN moved = 1..n /\ DOMAIN p = 1..n
            BY <2>1
        <3> QED BY <2>1, <3>1, <3>2 DEF Picked
    <2> HIDE DEF moved, p
    <2>18. IsPick(p, n, 2..(n + 1)) /\ DOMAIN moved = 1..n
        BY <2>14, <2>15, <2>17 DEF IsPick, Picked
    <2>19. PICK q : IsPick(q, n, 1..n) /\ Actor!Rise(moved, leaf) = Picked(moved, q)
        BY <1>1, <2>8, <2>9, <2>18, RiseIsPicked
    <2>20. \E r : IsPick(r, n, 2..(n + 1)) /\ Picked(h, r) = Picked(moved, q)
        BY <1>1, <2>17, <2>18, <2>19, PickOfPick
    <2> QED BY <1>1, <2>16, <2>19, <2>20 DEF n
<1> QED BY <1>2, <1>3

\* What takes its value from that of the number before exists.
Chain(f, n, z, G) == f = [k \in 0..n |-> IF k = 0 THEN z ELSE G[<<k, f[k - 1]>>]]

LEMMA ChainExists ==
    ASSUME NEW n \in Nat, NEW z, NEW G
    PROVE  \E f : Chain(f, n, z, G)
<1> DEFINE Without == {m \in Nat : ~\E f : Chain(f, m, z, G)}
<1> SUFFICES ASSUME Without # {} PROVE FALSE
    BY DEF Without
<1>1. PICK m \in Without : \A x \in Without : m <= x
    <2> HIDE DEF Without
    <2>1. Without \in SUBSET Nat
        BY DEF Without
    <2> QED BY <2>1, LeastExists
<1>2. m \in Nat /\ ~\E f : Chain(f, m, z, G)
    BY <1>1 DEF Without
<1>3. m # 0
    <2>1. Chain([k \in 0..0 |-> z], 0, z, G)
        BY DEF Chain
    <2> QED BY <1>2, <2>1
<1>4. PICK f : Chain(f, m - 1, z, G)
    <2>1. m - 1 \in Nat /\ ~(m <= m - 1)
        BY <1>2, <1>3
    <2>2. m - 1 \notin Without
        <3> HIDE DEF Without
        <3> QED BY <1>1, <2>1
    <2> QED BY <2>1, <2>2 DEF Without
<1> HIDE DEF Without
<1> DEFINE g == [k \in 0..m |-> IF k = m THEN G[<<k, f[k - 1]>>] ELSE f[k]]
<1>5. \A k \in 0..(m - 1) : k \in 0..m /\ g[k] = f[k]
    BY <1>2, <1>3
<1>6. ASSUME NEW k \in 0..m PROVE g[k] = IF k = 0 THEN z ELSE G[<<k, g[k - 1]>>]
    <2>1. CASE k = 0
        <3>1. 0 \in 0..(m - 1)
            BY <1>2, <1>3
        <3>2. f[0] = z
            BY <1>4, <3>1 DEF Chain
        <3> QED BY <1>5, <2>1, <3>1, <3>2
    <2>2. CASE k = m
        <3>1. m - 1 \in 0..(m - 1)
            BY <1>2, <1>3
        <3> QED BY <1>3, <1>5, <2>2, <3>1
    <2>3. CASE k # m /\ k # 0
        <3>1. k \in 0..(m - 1) /\ k - 1 \in 0..(m - 1)
            BY <1>2, <2>3
        <3>2. f[k] = G[<<k, f[k - 1]>>]
            BY <1>4, <2>3, <3>1 DEF Chain
        <3> QED BY <1>5, <2>3, <3>1, <3>2
    <2> QED BY <2>1, <2>2, <2>3
<1>7. Chain(g, m, z, G)
    <2> HIDE DEF g
    <2>1. DOMAIN g = 0..m /\ g = [k \in 0..m |-> g[k]]
        BY DEF g
    <2> QED BY <1>6, <2>1 DEF Chain
<1> QED BY <1>2, <1>7

\* Each list of a chain has what holds of the first and of the next one.
LEMMA ChainHolds ==
    ASSUME NEW n \in Nat, NEW S, 0 \in S, \A k \in 1..n : k - 1 \in S => k \in S
    PROVE  0..n \subseteq S
<1> DEFINE Wrong == {k \in 0..n : k \notin S}
<1> SUFFICES ASSUME Wrong # {} PROVE FALSE
    BY DEF Wrong
<1>1. PICK k \in Wrong : \A x \in Wrong : k <= x
    <2> HIDE DEF Wrong
    <2>1. Wrong \in SUBSET Nat
        BY DEF Wrong
    <2> QED BY <2>1, LeastExists
<1>2. k \in 1..n /\ k \notin S
    BY <1>1 DEF Wrong
<1>3. k - 1 \in 0..n /\ ~(k <= k - 1)
    BY <1>2
<1>4. k - 1 \notin Wrong
    <2> HIDE DEF Wrong
    <2> QED BY <1>1, <1>3
<1> QED BY <1>2, <1>3, <1>4 DEF Wrong

LEMMA LeftOfItself == ASSUME NEW h \in Seq(Actor!Message) PROVE LeftOf(h, h)
BY DEF LeftOf

LEMMA PopIsLeft ==
    ASSUME NEW h \in Seq(Actor!Message), h # <<>>
    PROVE  LeftOf(Actor!Pop(h), h) /\ OnlyFrom(Actor!Pop(h), h, 2..Len(h))
<1>1. PICK p : IsPick(p, Len(h) - 1, 2..Len(h)) /\ Actor!Pop(h) = Picked(h, p)
    BY PopRemoves
<1> DEFINE n == Len(h) - 1
           P == 2..Len(h)
<1>2. n \in Nat /\ P \in SUBSET (DOMAIN h) /\ IsPick(p, n, P)
    BY <1>1
<1> HIDE DEF n, P
<1>3. LeftOf(Picked(h, p), h) /\ OnlyFrom(Picked(h, p), h, P)
    BY <1>2, PickedIsLeft
<1> QED BY <1>1, <1>3 DEF P

LEMMA DropIsLeft ==
    ASSUME NEW h \in Seq(Actor!Message) PROVE LeftOf(Actor!DropExpired(h), h)
<1> DEFINE M == Seq(Actor!Message)
           n == Len(h)
           Shorter(x) == IF x # <<>> /\ x[1].n \in expired THEN Actor!Pop(x) ELSE x
           G == [z \in (1..n) \X M |-> Shorter(z[2])]
           left == CHOOSE left : left = [k \in 0..n |->
                        IF k = 0 THEN h
                        ELSE IF left[k - 1] # <<>> /\ left[k - 1][1].n \in expired
                             THEN Actor!Pop(left[k - 1])
                        ELSE left[k - 1]]
<1>1. Actor!DropExpired(h) = left[n]
    BY DEF Actor!DropExpired
<1>2. n \in Nat
    OBVIOUS
<1> HIDE DEF n, M
<1>3. \A x \in M : LeftOf(Shorter(x), x) /\ Shorter(x) \in M
    <2> SUFFICES ASSUME NEW x \in M PROVE LeftOf(Shorter(x), x)
        BY DEF LeftOf, M
    <2> QED BY PopIsLeft, LeftOfItself DEF M
<1>4. \A f : [k \in 0..n |-> IF k = 0 THEN h
                        ELSE IF f[k - 1] # <<>> /\ f[k - 1][1].n \in expired
                             THEN Actor!Pop(f[k - 1])
                        ELSE f[k - 1]]
           = [k \in 0..n |-> IF k = 0 THEN h ELSE Shorter(f[k - 1])]
    OBVIOUS
<1> HIDE DEF Shorter
<1>5. PICK f : Chain(f, n, h, G)
    BY <1>2, ChainExists
<1>6. \A k \in 1..n : k - 1 \in 0..n /\ k \in 0..n
    BY <1>2
<1>7. \A k \in 1..n, x \in M : G[<<k, x>>] = Shorter(x)
    OBVIOUS
<1> HIDE DEF G
<1>8. \A k \in 0..n : f[k] = IF k = 0 THEN h ELSE G[<<k, f[k - 1]>>]
    BY <1>5 DEF Chain
<1>9. \A k \in 0..n : f[k] \in M
    <2>0. 0 \in 0..n /\ h \in M
        BY <1>2 DEF M
    <2> DEFINE S == {k \in 0..n : f[k] \in M}
    <2>1. 0 \in S
        BY <2>0, <1>8
    <2>2. \A k \in 1..n : k - 1 \in S => k \in S
        <3> SUFFICES ASSUME NEW k \in 1..n, f[k - 1] \in M PROVE f[k] \in M
            BY <1>6
        <3>1. f[k] = G[<<k, f[k - 1]>>]
            BY <1>6, <1>8
        <3> QED BY <1>3, <1>7, <3>1
    <2> HIDE DEF S
    <2>3. 0..n \subseteq S
        BY <1>2, <2>1, <2>2, ChainHolds
    <2> QED BY <2>3 DEF S
<1>10. \A k \in 0..n : f[k] = IF k = 0 THEN h ELSE Shorter(f[k - 1])
    <2> SUFFICES ASSUME NEW k \in 1..n PROVE f[k] = Shorter(f[k - 1])
        <3>1. \A k \in 0..n : k = 0 \/ k \in 1..n
            BY <1>2
        <3> QED BY <1>8, <3>1
    <2>1. f[k] = G[<<k, f[k - 1]>>] /\ f[k - 1] \in M
        BY <1>6, <1>8, <1>9
    <2> QED BY <1>7, <2>1
<1>11. f = [k \in 0..n |-> IF k = 0 THEN h ELSE Shorter(f[k - 1])]
    <2>1. DOMAIN f = 0..n /\ f = [k \in 0..n |-> f[k]]
        BY <1>5 DEF Chain
    <2> QED BY <1>10, <2>1
<1>12. left = [k \in 0..n |-> IF k = 0 THEN h ELSE Shorter(left[k - 1])]
    <2>1. f = [k \in 0..n |-> IF k = 0 THEN h
                        ELSE IF f[k - 1] # <<>> /\ f[k - 1][1].n \in expired
                             THEN Actor!Pop(f[k - 1])
                        ELSE f[k - 1]]
        BY <1>4, <1>11, Zenon
    <2>2. left = [k \in 0..n |-> IF k = 0 THEN h
                        ELSE IF left[k - 1] # <<>> /\ left[k - 1][1].n \in expired
                             THEN Actor!Pop(left[k - 1])
                        ELSE left[k - 1]]
        BY <2>1, Zenon
    <2> HIDE DEF left
    <2> QED BY <1>4, <2>2, Zenon
<1> HIDE DEF left
<1>13. left[0] = h /\ \A k \in 1..n : left[k] = Shorter(left[k - 1])
    BY <1>2, <1>6, <1>12
<1>14. \A k \in 0..n : LeftOf(left[k], h)
    <2> DEFINE S == {k \in 0..n : LeftOf(left[k], h)}
    <2>1. 0 \in S
        BY <1>2, <1>13, LeftOfItself
    <2>2. \A k \in 1..n : k - 1 \in S => k \in S
        <3> SUFFICES ASSUME NEW k \in 1..n, LeftOf(left[k - 1], h) PROVE LeftOf(left[k], h)
            BY <1>6
        <3>1. left[k - 1] \in M
            BY DEF LeftOf, M
        <3>2. LeftOf(left[k], left[k - 1])
            BY <1>3, <1>13, <3>1
        <3> QED BY <3>2, LeftOfLeft
    <2> HIDE DEF S
    <2>3. 0..n \subseteq S
        BY <1>2, <2>1, <2>2, ChainHolds
    <2> QED BY <2>3 DEF S
<1> QED BY <1>1, <1>2, <1>14

LEMMA PurgedIsLeft ==
    ASSUME NEW h \in Seq(Actor!Message) PROVE LeftOf(Actor!Purged(h), h)
<1> DEFINE M == Seq(Actor!Message)
           n == Len(h)
           G == [z \in (1..n) \X M |->
                    IF h[z[1]].n \in expired THEN z[2] ELSE Append(z[2], h[z[1]])]
           kept == CHOOSE kept : kept = [k \in 0..n |->
                        IF k = 0 THEN <<>>
                        ELSE IF h[k].n \in expired THEN kept[k - 1] ELSE Append(kept[k - 1], h[k])]
<1>1. Actor!Purged(h) = kept[n]
    BY DEF Actor!Purged
<1>2. n \in Nat /\ \A k \in 1..n : k \in DOMAIN h /\ h[k] \in Actor!Message
    OBVIOUS
<1> HIDE DEF n, M
<1>3. PICK f : Chain(f, n, <<>>, G)
    BY <1>2, ChainExists
<1>4. \A k \in 1..n : k - 1 \in 0..n /\ k \in 0..n
    BY <1>2
<1>5. \A k \in 1..n, x \in M :
        G[<<k, x>>] = IF h[k].n \in expired THEN x ELSE Append(x, h[k])
    OBVIOUS
<1> HIDE DEF G
<1>6. \A k \in 0..n : f[k] = IF k = 0 THEN <<>> ELSE G[<<k, f[k - 1]>>]
    BY <1>3 DEF Chain
<1>7. \A x \in M, k \in 1..n : Append(x, h[k]) \in M
    BY <1>2 DEF M
<1>8. \A k \in 0..n : f[k] \in M
    <2>0. 0 \in 0..n /\ <<>> \in M
        BY <1>2 DEF M
    <2> DEFINE S == {k \in 0..n : f[k] \in M}
    <2>1. 0 \in S
        BY <2>0, <1>6
    <2>2. \A k \in 1..n : k - 1 \in S => k \in S
        <3> SUFFICES ASSUME NEW k \in 1..n, f[k - 1] \in M PROVE f[k] \in M
            BY <1>4
        <3>1. f[k] = G[<<k, f[k - 1]>>]
            BY <1>4, <1>6
        <3> QED BY <1>5, <1>7, <3>1
    <2> HIDE DEF S
    <2>3. 0..n \subseteq S
        BY <1>2, <2>1, <2>2, ChainHolds
    <2> QED BY <2>3 DEF S
<1>9. \A k \in 0..n : f[k] = IF k = 0 THEN <<>>
                        ELSE IF h[k].n \in expired THEN f[k - 1] ELSE Append(f[k - 1], h[k])
    <2> SUFFICES ASSUME NEW k \in 1..n
                 PROVE  f[k] = IF h[k].n \in expired THEN f[k - 1] ELSE Append(f[k - 1], h[k])
        <3>1. \A k \in 0..n : k = 0 \/ k \in 1..n
            BY <1>2
        <3> QED BY <1>6, <3>1
    <2>1. f[k] = G[<<k, f[k - 1]>>] /\ f[k - 1] \in M
        BY <1>4, <1>6, <1>8
    <2> QED BY <1>5, <2>1
<1>10. f = [k \in 0..n |-> IF k = 0 THEN <<>>
                        ELSE IF h[k].n \in expired THEN f[k - 1] ELSE Append(f[k - 1], h[k])]
    <2>1. DOMAIN f = 0..n /\ f = [k \in 0..n |-> f[k]]
        BY <1>3 DEF Chain
    <2> QED BY <1>9, <2>1
<1>11. kept = [k \in 0..n |-> IF k = 0 THEN <<>>
                   ELSE IF h[k].n \in expired THEN kept[k - 1] ELSE Append(kept[k - 1], h[k])]
    BY <1>10, Zenon
<1> HIDE DEF kept
<1>12. kept[0] = <<>> /\ \A k \in 1..n : kept[k] \in {kept[k - 1], Append(kept[k - 1], h[k])}
    <2>1. \A k \in 0..n : kept[k] = IF k = 0 THEN <<>>
                   ELSE IF h[k].n \in expired THEN kept[k - 1] ELSE Append(kept[k - 1], h[k])
        BY <1>11
    <2>2. 0 \in 0..n /\ \A k \in 1..n : k \in 0..n /\ k # 0
        BY <1>2
    <2> QED BY <2>1, <2>2
<1> DEFINE Fine(g, k) == /\ g \in M /\ OnlyFrom(g, h, 1..k)
                         /\ Distinct(h) => Distinct(g)
<1>13. \A k \in 0..n : Fine(kept[k], k)
    <2> DEFINE S == {k \in 0..n : Fine(kept[k], k)}
    <2>1. 0 \in S
        <3>1. 0 \in 0..n /\ <<>> \in M /\ DOMAIN <<>> = {}
            BY <1>2 DEF M
        <3>2. OnlyFrom(<<>>, h, 1..0) /\ Distinct(<<>>)
            BY <3>1 DEF OnlyFrom, Distinct
        <3> QED BY <1>12, <3>1, <3>2
    <2>2. \A k \in 1..n : k - 1 \in S => k \in S
        <3> SUFFICES ASSUME NEW k \in 1..n, Fine(kept[k - 1], k - 1) PROVE Fine(kept[k], k)
            BY <1>4
        <3>0. \A j \in 1..(k - 1) : j \in 1..k /\ j # k /\ j \in DOMAIN h
            BY <1>2 DEF n
        <3>1. CASE kept[k] = kept[k - 1]
            BY <3>0, <3>1 DEF OnlyFrom
        <3>2. CASE kept[k] = Append(kept[k - 1], h[k])
            <4> DEFINE g == kept[k - 1]
                       a == kept[k]
            <4>1. /\ g \in Seq(Actor!Message) /\ h[k] \in Actor!Message /\ k \in DOMAIN h
                  /\ a = Append(g, h[k])
                BY <1>2, <3>2 DEF M
            <4>2. \A j \in 1..(k - 1) : h[j].n # h[k].n \/ ~Distinct(h)
                BY <1>2, <3>0, <4>1 DEF Distinct
            <4>3. OnlyFrom(g, h, 1..(k - 1)) /\ (Distinct(h) => Distinct(g))
                OBVIOUS
            <4> HIDE DEF g, a, n, M, Fine
            <4>4. /\ a \in Seq(Actor!Message) /\ DOMAIN a = 1..(Len(g) + 1) /\ a[Len(g) + 1] = h[k]
                  /\ \A j \in 1..Len(g) : a[j] = g[j]
                BY <4>1, AppendProperties
            <4>5. Len(g) \in Nat /\ DOMAIN g = 1..Len(g)
                BY <4>1
            <4>6. \A j \in DOMAIN a : j = Len(g) + 1 \/ j \in DOMAIN g
                BY <4>4, <4>5
            <4>7. ASSUME NEW j \in DOMAIN a PROVE \E i \in 1..k : a[j] = h[i]
                <5>1. CASE j = Len(g) + 1
                    BY <4>4, <5>1
                <5>2. CASE j \in DOMAIN g
                    BY <3>0, <4>3, <4>4, <4>5, <5>2 DEF OnlyFrom
                <5> QED BY <4>6, <5>1, <5>2
            <4>8. ASSUME Distinct(h), NEW i \in DOMAIN a, NEW j \in DOMAIN a, i # j
                  PROVE  a[i].n # a[j].n
                <5>1. \A l \in DOMAIN g : g[l].n # h[k].n
                    BY <4>2, <4>3, <4>8 DEF OnlyFrom
                <5>2. CASE i \in DOMAIN g /\ j \in DOMAIN g
                    BY <4>3, <4>4, <4>5, <4>8, <5>2 DEF Distinct
                <5>3. CASE i = Len(g) + 1
                    BY <4>4, <4>5, <4>6, <4>8, <5>1, <5>3
                <5>4. CASE j = Len(g) + 1
                    BY <4>4, <4>5, <4>6, <4>8, <5>1, <5>4
                <5> QED BY <4>6, <5>2, <5>3, <5>4
            <4> QED BY <4>4, <4>7, <4>8 DEF OnlyFrom, Distinct, Fine, M, a
        <3> QED BY <1>12, <3>1, <3>2
    <2> HIDE DEF S
    <2>3. 0..n \subseteq S
        BY <1>2, <2>1, <2>2, ChainHolds
    <2> QED BY <2>3 DEF S
<1>14. Fine(kept[n], n)
    BY <1>2, <1>13
<1>15. OnlyFrom(kept[n], h, DOMAIN h)
    <2>1. DOMAIN h = 1..n
        BY DEF n
    <2> QED BY <1>14, <2>1
<1> QED BY <1>1, <1>14, <1>15 DEF LeftOf, OnlyFrom, M

\* The messages in the mailbox of an actor have numbers that were given away, each another, and
\* none a number it has handled.
MailboxFits(a, h) ==
    /\ h \in Seq(Actor!Message) /\ Distinct(h)
    /\ \A j \in DOMAIN h : h[j].n <= made /\ <<a, h[j].n>> \notin handled

\* The messages in the hands of its processors are different ones that it has handled.
HandsFit(a) ==
    /\ \A r \in Actor!Runs :
          hand[a][r] # Actor!NoMessage =>
              hand[a][r] \in Actor!Message /\ <<a, hand[a][r].n>> \in handled
    /\ \A r, q \in Actor!Runs :
          r # q /\ hand[a][r] # Actor!NoMessage => hand[a][r] # hand[a][q]

ActorInv ==
    /\ made \in Nat
    /\ DOMAIN mailbox = Members /\ \A a \in Members : MailboxFits(a, mailbox[a])
    /\ DOMAIN hand = Members
    /\ \A a \in Members : DOMAIN hand[a] = Actor!Runs /\ HandsFit(a)
    /\ \A a \in Members : \A n \in Nat : <<a, n>> \in handled => n <= made

LEMMA HandledFits == ASSUME ActorInv PROVE Actor!HandledOnce
BY DEF ActorInv, MailboxFits, HandsFit, Distinct, Actor!HandledOnce

LEMMA MessageNumbers ==
    /\ \A m \in Actor!Message : m.n \in 1..MaxMessages /\ m.n \in Nat \ {0} /\ m # Actor!NoMessage
    /\ \A n \in 1..MaxMessages, p \in Priorities, k \in Actor!Kinds :
          [n |-> n, priority |-> p, kind |-> k] \in Actor!Message
BY ActorParameters DEF Actor!Message, Actor!NoMessage

LEMMA MailboxOfLeft ==
    ASSUME NEW a, NEW g, NEW h, MailboxFits(a, h), LeftOf(g, h) PROVE MailboxFits(a, g)
BY DEF MailboxFits, LeftOf

\* Most steps take no message, and make nothing of one.
LEMMA LeavesMail ==
    ASSUME ActorInv, UNCHANGED <<mailbox, made, handled>>,
           \/ UNCHANGED hand
           \/ \E a, r : hand' = [hand EXCEPT ![a][r] = Actor!NoMessage]
    PROVE  ActorInv'
<1>1. /\ DOMAIN hand' = Members
      /\ \A a \in Members : /\ DOMAIN hand'[a] = Actor!Runs
                            /\ \A r \in Actor!Runs : hand'[a][r] \in {hand[a][r], Actor!NoMessage}
    <2>1. CASE UNCHANGED hand
        BY <2>1 DEF ActorInv
    <2>2. ASSUME NEW a, NEW r, hand' = [hand EXCEPT ![a][r] = Actor!NoMessage]
          PROVE  /\ DOMAIN hand' = Members
                 /\ \A b \in Members :
                       /\ DOMAIN hand'[b] = Actor!Runs
                       /\ \A q \in Actor!Runs : hand'[b][q] \in {hand[b][q], Actor!NoMessage}
        <3>1. DOMAIN hand' = DOMAIN hand
            BY <2>2
        <3>2. ASSUME NEW b \in Members
              PROVE  /\ DOMAIN hand'[b] = DOMAIN hand[b]
                     /\ \A q \in Actor!Runs : hand'[b][q] \in {hand[b][q], Actor!NoMessage}
            <4>1. hand'[b] = IF b = a THEN [hand[b] EXCEPT ![r] = Actor!NoMessage] ELSE hand[b]
                BY <2>2 DEF ActorInv
            <4>2. DOMAIN hand[b] = Actor!Runs
                BY DEF ActorInv
            <4> QED BY <4>1, <4>2
        <3> QED BY <3>1, <3>2 DEF ActorInv
    <2> QED BY <2>1, <2>2
<1>2. \A a \in Members : HandsFit(a)'
    BY <1>1 DEF ActorInv, HandsFit
<1>3. \A a \in Members : MailboxFits(a, mailbox[a])'
    BY DEF ActorInv, MailboxFits, Distinct
<1> QED BY <1>1, <1>2, <1>3 DEF ActorInv

LEMMA DeliverKeeps ==
    ASSUME ActorInv, NEW to, NEW p \in Priorities, NEW k \in Actor!Kinds, Actor!Deliver(to, p, k)
    PROVE  ActorInv'
<1> DEFINE m == [n |-> made + 1, priority |-> p, kind |-> k]
<1>1. /\ made < MaxMessages /\ made' = made + 1 /\ UNCHANGED <<hand, handled>>
      /\ mailbox' = [a \in Members |-> IF a \in to THEN Actor!Enqueued(a, m) ELSE mailbox[a]]
    BY DEF Actor!Deliver
<1>2. made \in Nat /\ made + 1 \in 1..MaxMessages
    BY <1>1, ActorParameters DEF ActorInv
<1>3. m \in Actor!Message /\ m.n = made + 1
    BY <1>2, MessageNumbers
<1> HIDE DEF m
<1>4. ASSUME NEW a \in Members PROVE MailboxFits(a, mailbox[a])'
    <2>1. MailboxFits(a, mailbox[a])
        BY DEF ActorInv
    <2>2. CASE mailbox'[a] = mailbox[a]
        <3>1. \A j \in DOMAIN mailbox[a] : mailbox[a][j].n \in Nat
            BY <2>1, MessageNumbers DEF MailboxFits
        <3>2. \A j \in DOMAIN mailbox[a] :
                  mailbox[a][j].n <= made + 1 /\ <<a, mailbox[a][j].n>> \notin handled
            <4> SUFFICES ASSUME NEW j \in DOMAIN mailbox[a]
                         PROVE  mailbox[a][j].n <= made + 1 /\ <<a, mailbox[a][j].n>> \notin handled
                OBVIOUS
            <4>1. mailbox[a][j].n \in Nat /\ mailbox[a][j].n <= made
                  /\ <<a, mailbox[a][j].n>> \notin handled
                BY <2>1, <3>1 DEF MailboxFits
            <4> QED BY <1>2, <4>1
        <3>3. mailbox[a] \in Seq(Actor!Message) /\ Distinct(mailbox[a])
            BY <2>1 DEF MailboxFits
        <3> QED BY <1>1, <2>2, <3>2, <3>3 DEF MailboxFits, Distinct
    <2>3. CASE mailbox'[a] = Actor!Push(Actor!Purged(mailbox[a]), m)
        <3> DEFINE h == Actor!Purged(mailbox[a])
                   g == Append(h, m)
        <3>1. MailboxFits(a, h)
            BY <2>1, PurgedIsLeft, MailboxOfLeft DEF MailboxFits
        <3>2. h \in Seq(Actor!Message)
            BY <3>1 DEF MailboxFits
        <3>3. LeftOf(mailbox'[a], g)
            BY <1>3, <2>3, <3>2, PushAdds
        <3> HIDE DEF h
        <3>4. /\ g \in Seq(Actor!Message) /\ DOMAIN g = 1..(Len(h) + 1) /\ g[Len(h) + 1] = m
              /\ \A j \in 1..Len(h) : g[j] = h[j]
            BY <1>3, <3>2, AppendProperties
        <3> HIDE DEF g
        <3>5. Len(h) \in Nat /\ DOMAIN h = 1..Len(h)
            BY <3>2
        <3>6. \A j \in DOMAIN g : j = Len(h) + 1 \/ j \in DOMAIN h
            BY <3>4, <3>5
        <3>7. \A j \in DOMAIN h : h[j].n \in Nat /\ h[j].n <= made /\ h[j].n # made + 1
            <4> SUFFICES ASSUME NEW j \in DOMAIN h
                         PROVE  h[j].n \in Nat /\ h[j].n <= made /\ h[j].n # made + 1
                OBVIOUS
            <4>1. h[j] \in Actor!Message
                BY <3>2
            <4>2. h[j].n <= made
                BY <3>1 DEF MailboxFits
            <4>3. h[j].n \in Nat
                BY <4>1, MessageNumbers
            <4> QED BY <1>2, <4>2, <4>3
        <3>8. Distinct(g)
            <4> SUFFICES ASSUME NEW i \in DOMAIN g, NEW j \in DOMAIN g, i # j PROVE g[i].n # g[j].n
                BY DEF Distinct
            <4>1. CASE i \in DOMAIN h /\ j \in DOMAIN h
                BY <3>1, <3>4, <3>5, <4>1 DEF MailboxFits, Distinct
            <4>2. CASE i = Len(h) + 1
                BY <1>3, <3>4, <3>5, <3>6, <3>7, <4>2
            <4>3. CASE j = Len(h) + 1
                BY <1>3, <3>4, <3>5, <3>6, <3>7, <4>3
            <4> QED BY <3>6, <4>1, <4>2, <4>3
        <3>9. <<a, made + 1>> \notin handled
            BY <1>2 DEF ActorInv
        <3>10. \A j \in DOMAIN g : g[j].n <= made + 1 /\ <<a, g[j].n>> \notin handled
            <4> SUFFICES ASSUME NEW j \in DOMAIN g
                         PROVE  g[j].n <= made + 1 /\ <<a, g[j].n>> \notin handled
                OBVIOUS
            <4>1. CASE j = Len(h) + 1
                BY <1>2, <1>3, <3>4, <3>9, <4>1
            <4>2. CASE j \in DOMAIN h
                BY <1>2, <3>1, <3>4, <3>5, <3>7, <4>2 DEF MailboxFits
            <4> QED BY <3>6, <4>1, <4>2
        <3> QED BY <1>1, <3>3, <3>8, <3>10 DEF LeftOf, MailboxFits, Distinct
    <2> QED BY <1>1, <2>2, <2>3 DEF Actor!Enqueued
<1>5. \A a \in Members : HandsFit(a)'
    BY <1>1 DEF ActorInv, HandsFit
<1>6. \A a \in Members : \A n \in Nat : <<a, n>> \in handled' => n <= made'
    BY <1>1, <1>2 DEF ActorInv
<1> QED BY <1>1, <1>2, <1>4, <1>5, <1>6 DEF ActorInv

\* What a processor takes leaves the mailbox, and is not handled before.
LEMMA RoundKeeps ==
    ASSUME ActorInv, NEW a \in Members, NEW r \in Actor!Runs, Actor!Round(a, r) PROVE ActorInv'
<1> DEFINE h == mailbox[a]
           rest == Actor!DropExpired(h)
<1>1. made' = made
    BY DEF Actor!Round
<1>2. MailboxFits(a, h) /\ h \in Seq(Actor!Message)
    BY DEF ActorInv, MailboxFits
<1> HIDE DEF h
<1>3. MailboxFits(a, rest) /\ rest \in Seq(Actor!Message)
    BY <1>2, DropIsLeft, MailboxOfLeft DEF MailboxFits
<1>4. CASE UNCHANGED <<mailbox, hand, handled>>
    BY <1>1, <1>4, LeavesMail
<1> HIDE DEF rest
<1>5. CASE mailbox' = [mailbox EXCEPT ![a] = rest] /\ UNCHANGED <<hand, handled>>
    <2>1. /\ DOMAIN mailbox' = Members
          /\ \A b \in Members : mailbox'[b] = IF b = a THEN rest ELSE mailbox[b]
        BY <1>5 DEF ActorInv
    <2>2. \A b \in Members : MailboxFits(b, mailbox[b])'
        BY <1>1, <1>3, <1>5, <2>1 DEF ActorInv, MailboxFits, Distinct
    <2>3. \A b \in Members : HandsFit(b)'
        BY <1>5 DEF ActorInv, HandsFit
    <2> QED BY <1>1, <1>5, <2>1, <2>2, <2>3 DEF ActorInv
<1>6. CASE rest # <<>> /\ Actor!TakeFrom(a, r, rest)
    <2> DEFINE m == rest[1]
               left == Actor!Pop(rest)
    <2>1. /\ hand' = [hand EXCEPT ![a][r] = m] /\ handled' = handled \union {<<a, m.n>>}
          /\ mailbox' = [mailbox EXCEPT ![a] = left]
        BY <1>6 DEF Actor!TakeFrom
    <2>2. 1 \in DOMAIN rest /\ Len(rest) \in Nat /\ DOMAIN rest = 1..Len(rest)
        BY <1>3, <1>6
    <2>3. m \in Actor!Message
        BY <1>3, <2>2
    <2>4. m.n \in Nat /\ m.n <= made /\ <<a, m.n>> \notin handled /\ m # Actor!NoMessage
        BY <1>3, <2>2, <2>3, MessageNumbers DEF MailboxFits
    <2>5. LeftOf(left, rest) /\ OnlyFrom(left, rest, 2..Len(rest))
        BY <1>3, <1>6, PopIsLeft
    <2>6. MailboxFits(a, left)
        BY <1>3, <2>5, MailboxOfLeft
    <2> HIDE DEF left
    <2>7. \A j \in DOMAIN left : left[j].n # m.n
        <3> SUFFICES ASSUME NEW j \in DOMAIN left PROVE left[j].n # m.n
            OBVIOUS
        <3>1. PICK k \in 2..Len(rest) : left[j] = rest[k]
            BY <2>5 DEF OnlyFrom
        <3>2. k \in DOMAIN rest /\ k # 1
            BY <2>2
        <3> QED BY <1>3, <2>2, <3>1, <3>2 DEF MailboxFits, Distinct
    <2> HIDE DEF m
    <2>8. /\ DOMAIN mailbox' = Members
          /\ \A b \in Members : mailbox'[b] = IF b = a THEN left ELSE mailbox[b]
        BY <2>1 DEF ActorInv
    <2>9. \A b \in Members : MailboxFits(b, mailbox[b])'
        <3> SUFFICES ASSUME NEW b \in Members PROVE MailboxFits(b, mailbox[b])'
            OBVIOUS
        <3>1. CASE b = a
            BY <1>1, <2>1, <2>6, <2>7, <2>8, <3>1 DEF MailboxFits, Distinct
        <3>2. CASE b # a
            BY <1>1, <2>1, <2>8, <3>2 DEF ActorInv, MailboxFits, Distinct
        <3> QED BY <3>1, <3>2
    <2>10. /\ DOMAIN hand' = Members
           /\ \A b \in Members : DOMAIN hand'[b] = Actor!Runs
           /\ \A b \in Members, q \in Actor!Runs :
                 hand'[b][q] = IF b = a /\ q = r THEN m ELSE hand[b][q]
        BY <2>1 DEF ActorInv
    <2>11. \A b \in Members : HandsFit(b)'
        <3> SUFFICES ASSUME NEW b \in Members PROVE HandsFit(b)'
            OBVIOUS
        <3>1. HandsFit(b)
            BY DEF ActorInv
        <3>2. CASE b # a
            BY <2>1, <2>10, <3>1, <3>2 DEF HandsFit
        <3>3. CASE b = a
            <4>1. \A q \in Actor!Runs : hand[a][q] # m
                BY <2>4, <3>1, <3>3 DEF HandsFit
            <4> QED BY <2>1, <2>3, <2>4, <2>10, <3>1, <3>3, <4>1 DEF HandsFit
        <3> QED BY <3>2, <3>3
    <2>12. \A b \in Members : \A n \in Nat : <<b, n>> \in handled' => n <= made'
        BY <1>1, <2>1, <2>4 DEF ActorInv
    <2> QED BY <1>1, <2>8, <2>9, <2>10, <2>11, <2>12 DEF ActorInv
<1>7. \/ UNCHANGED <<mailbox, hand, handled>>
      \/ mailbox' = [mailbox EXCEPT ![a] = rest] /\ UNCHANGED <<hand, handled>>
      \/ rest # <<>> /\ Actor!TakeFrom(a, r, rest)
    BY DEF Actor!Round, rest, h
<1> QED BY <1>4, <1>5, <1>6, <1>7

LEMMA ActorInit == ASSUME Actor!Init PROVE ActorInv
<1>1. /\ made = 0 /\ handled = {} /\ mailbox = [a \in Members |-> <<>>]
      /\ hand = [a \in Members |-> [r \in Actor!Runs |-> Actor!NoMessage]]
    BY DEF Actor!Init
<1>2. \A a \in Members : MailboxFits(a, mailbox[a])
    <2>1. <<>> \in Seq(Actor!Message) /\ DOMAIN <<>> = {}
        OBVIOUS
    <2> QED BY <1>1, <2>1 DEF MailboxFits, Distinct
<1>3. \A a \in Members : DOMAIN hand[a] = Actor!Runs /\ HandsFit(a)
    BY <1>1 DEF HandsFit
<1> QED BY <1>1, <1>2, <1>3 DEF ActorInv

LEMMA ActorNext == ASSUME ActorInv, [Actor!Next]_actorVars PROVE ActorInv'
<1>1. CASE UNCHANGED actorVars
    BY <1>1, LeavesMail DEF actorVars
<1>2. ASSUME NEW a \in Members, Actor!RegisterActor(a) \/ Actor!UnregisterActor(a) \/ Actor!Start(a)
      PROVE  ActorInv'
    BY <1>2, LeavesMail DEF Actor!RegisterActor, Actor!UnregisterActor, Actor!Start, Actor!actors
<1>3. ASSUME NEW a, NEW p \in Priorities, NEW k \in Actor!Kinds, Actor!RouteMessage(a, p, k)
      PROVE  ActorInv'
    BY <1>3, DeliverKeeps DEF Actor!RouteMessage
<1>4. ASSUME NEW a, NEW p \in Priorities, Actor!BroadcastMessage(a, p) PROVE ActorInv'
    BY <1>4, DeliverKeeps DEF Actor!BroadcastMessage, Actor!Kinds
<1>5. ASSUME NEW n, Actor!Expires(n) PROVE ActorInv'
    BY <1>5, LeavesMail DEF Actor!Expires, Actor!actors
<1>6. ASSUME NEW a \in Members, NEW r \in Actor!Runs,
             \/ Actor!HandlerEnds(a, r) \/ Actor!StopsItself(a, r) \/ Actor!CancelledEnds(a, r)
             \/ Actor!HandlerStops(a, r)
      PROVE  ActorInv'
    BY <1>6, LeavesMail DEF Actor!HandlerEnds, Actor!StopsItself, Actor!CancelledEnds,
       Actor!HandlerStops, Actor!StopBegins
<1>7. ASSUME NEW s, NEW a, Actor!StopBegins(s, a) PROVE ActorInv'
    BY <1>7, LeavesMail DEF Actor!StopBegins
<1>8. ASSUME NEW c, Actor!StopReturns(c) PROVE ActorInv'
    BY <1>8, LeavesMail DEF Actor!StopReturns
<1> QED BY <1>1, <1>2, <1>3, <1>4, <1>5, <1>6, <1>7, <1>8, RoundKeeps DEF Actor!Next

-----------------------------------------------------------------------------
(* The services together.                                                  *)

\* Whichever service is in focus, each takes a step of its own or none.
LEMMA Steps ==
    ASSUME [Next]_vars
    PROVE  /\ [Cache!Next]_cacheVars /\ [Stream!Next]_streamVars /\ [Actor!Next]_actorVars
           /\ [Letters!Next]_lettersVars /\ [Batch!Next]_batchVars /\ [Queue!Next]_queueVars
           /\ [Run!Next]_runVars /\ [Genetic!Next]_geneticVars /\ [Trial!Next]_trialVars
           /\ [Git!Next]_gitVars
BY DEF Next, CacheStep, StreamStep, ActorStep, LettersStep, BatchStep, QueueStep, RunStep,
       GeneticStep, TestStep, ExperimentStep, GitStep, Only, vars, Trial!Next

\* For any number of clients, sockets, topics and broadcasts: while the server runs, a socket
\* in the registry has a handler that will take it out; a socket that is served, that no sweep
\* has found dead and that came when no earlier use of its id was left is the one registered
\* under it, unless another came under that id; and no more clients are registered than there is
\* room for (register_connection() to _heartbeat_loop(), websocket_stream.py:123-306).
THEOREM ServedAndRegistered == Spec => []ServedIsRegistered
<1>1. Init => StreamInv
    BY StreamInit DEF Init
<1>2. StreamInv /\ [Next]_vars => StreamInv'
    BY Steps, StreamNext
<1>3. StreamInv => Stream!RegisteredIsServed
    BY DEF StreamInv, HandlerLeaves, Stream!RegisteredIsServed
<1>4. StreamInv => Stream!ServedIsRegistered
    BY DEF StreamInv, GreetedIsRegistered, Stream!ServedIsRegistered, Stream!Uses
<1>5. StreamInv => Stream!CapacityKept
    BY DEF StreamInv
<1> QED BY <1>1, <1>2, <1>3, <1>4, <1>5, PTL DEF Spec, ServedIsRegistered

\* For any jobs, populations and variants: a job that is dequeued is not younger than one of the
\* same priority in the queue (PrioritizedJob, queue.py), the genes of a fittest chromosome are in
\* the next population (evolve_generation(), genetic_optimizer.py), and no variant that has been
\* as successful and as consistent as the winner of a test was faster (analyze_results(),
\* ab_testing.py).
THEOREM FirstStaysTaken == Spec => FirstIsTaken
<1> DEFINE Inv == QueueInv /\ GeneticInv /\ TrialInv
<1>1. Init => Inv
    BY QueueInit, GeneticInit, TrialInit DEF Init
<1>2. Inv /\ [Next]_vars => Inv'
    BY Steps, QueueNext, GeneticNext, TrialNext
<1>3. Inv /\ [Next]_vars =>
        [\A j, k \in QueuedJobs :
            taken[j] = Queue!Never /\ taken'[j] # Queue!Never /\ k \in queueQueue
                /\ JobPriority[j] = JobPriority[k]
                => created[j] <= created[k]]_(Queue!vars)
    BY Steps, FirstMadeImplied
<1>4. Inv /\ [Next]_vars =>
        [winner' # winner =>
            \A v \in Trial!Valid(results) :
                LET r == results[v] s == results[winner'] IN
                r.successful * s.total = s.successful * r.total /\ r.spread = s.spread
                    => s.time <= r.time]_(Trial!vars)
    BY Steps, WinnerImplied
<1>5. Inv /\ [Next]_vars =>
        [phase = "evolve" /\ phase' = "evaluate" =>
            \E i \in Genetic!Fittest(population), k \in 1..PopulationSize :
                population'[k].genes = population[i].genes]_(Genetic!vars)
    BY Steps, EliteImplied
<1> HIDE DEF Inv
<1> QED BY <1>1, <1>2, <1>3, <1>4, <1>5, PTL
        DEF Spec, FirstIsTaken, Queue!FirstMadeFirst, Trial!WinnerIsFastest, Genetic!EliteLives

\* For any jobs, runs, failures and branches: the manifest of the session that runs says
\* "completed" only of a batch whose jobs have ended and whose outputs were fetched or reported
\* (run_batch(), main.py), a checkpoint file lists as completed what a session has completed, what is
\* on disk of the dead letters is in their queue and the first of it is the oldest, after a crash
\* too (load_from_disk(), dead_letter_queue.py), and no commit has an output in it, new or tracked,
\* so long as every .gitignore that was met has its patterns in force (sync_to_git(), git_sync.py).
THEOREM DiskStaysTrue == Spec => []DiskIsTrue
<1> DEFINE Inv == RunInv /\ LettersInv /\ GitInv
<1>1. Init => Inv
    BY RunInit, LettersInit, GitInit DEF Init
<1>2. Inv /\ [Next]_vars => Inv'
    BY Steps, RunNext, LettersNext, GitNext
<1>3. Inv => DiskIsTrue
    BY CompletedImplied DEF RunInv, LettersInv, GitInv, DiskIsTrue
<1> HIDE DEF Inv
<1> QED BY <1>1, <1>2, <1>3, PTL DEF Spec

\* For any tasks, models, batches and actors: the memory the cache counts is that of its models,
\* and what is in the cache was not unloaded (model_cache.py); every item that was read is in one
\* place (batch.py); a message is handled once by each actor and by one of its processors
\* (enqueue(), _mailbox_processor(), actor/base.py).
THEOREM NothingCountedTwice == Spec => []NothingTwice
<1> DEFINE Inv == CacheInv /\ BatchInv /\ ActorInv
<1>1. Init => Inv
    BY CacheInit, BatchInit, ActorInit DEF Init
<1>2. Inv /\ [Next]_vars => Inv'
    BY Steps, CacheNext, BatchNext, ActorNext
<1>3. Inv => NothingTwice
    BY EachIsSomewhere, HandledFits DEF CacheInv, NothingTwice
<1> HIDE DEF Inv
<1> QED BY <1>1, <1>2, <1>3, PTL DEF Spec

-----------------------------------------------------------------------------
(* Types: what the invariants above leave out, each with what it rests on. *)

\* A queue that is full takes nothing, so that it is finite.
QueueTypes ==
    /\ now \in 0..QueueTime /\ lastDequeue \in Queue!Time
    /\ created \in [QueuedJobs -> Queue!Time] /\ taken \in [QueuedJobs -> Queue!Time]
    /\ IsFiniteSet(queueQueue) /\ Queue!Cardinality(queueQueue) <= QueueSize
    /\ refused \subseteq QueuedJobs
    /\ consumer \in [Consumers -> {"idle", "paused", "waiting"}]
    /\ until \in [Consumers -> 0..QueueTime + RateInterval]

LEMMA QueueTyped == ASSUME QueueInv, QueueTypes PROVE Queue!TypeOK
BY DEF QueueInv, QueueTypes, Queue!TypeOK

LEMMA QueueCount == \A S : Queue!Cardinality(S) = Cardinality(S)
BY Zenon DEF Queue!Cardinality, Cardinality

LEMMA QueueTypesInit == ASSUME Queue!Init PROVE QueueTypes
BY QueueParameters, QueueCount, FS_EmptySet DEF Queue!Init, Queue!Never, Queue!Time, QueueTypes

LEMMA QueueGrows ==
    ASSUME QueueTypes, NEW j, Queue!Cardinality(queueQueue) < QueueSize
    PROVE  IsFiniteSet(queueQueue \union {j}) /\ Queue!Cardinality(queueQueue \union {j}) <= QueueSize
<1>1. IsFiniteSet(queueQueue \union {j})
    BY FS_AddElement DEF QueueTypes
<1>2. Cardinality(queueQueue \union {j}) \in {Cardinality(queueQueue), Cardinality(queueQueue) + 1}
    BY FS_AddElement DEF QueueTypes
<1>3. Cardinality(queueQueue) \in Nat
    BY FS_CardinalityType DEF QueueTypes
<1> QED BY <1>1, <1>2, <1>3, QueueCount, QueueParameters

LEMMA QueueShrinks ==
    ASSUME QueueTypes, NEW j
    PROVE  IsFiniteSet(queueQueue \ {j}) /\ Queue!Cardinality(queueQueue \ {j}) <= QueueSize
<1>1. queueQueue \ {j} \in SUBSET queueQueue
    OBVIOUS
<1>2. /\ IsFiniteSet(queueQueue \ {j})
      /\ Cardinality(queueQueue \ {j}) <= Cardinality(queueQueue)
    BY <1>1, FS_Subset DEF QueueTypes
<1>3. Cardinality(queueQueue) \in Nat /\ Cardinality(queueQueue \ {j}) \in Nat
    BY <1>2, FS_CardinalityType DEF QueueTypes
<1> QED BY <1>2, <1>3, QueueCount, QueueParameters DEF QueueTypes

LEMMA QueueTypesNext ==
    ASSUME QueueInv, QueueTypes, [Queue!Next]_queueVars PROVE QueueTypes'
<1>1. CASE UNCHANGED queueVars
    BY <1>1 DEF queueVars, QueueTypes
<1>2. ASSUME NEW j \in QueuedJobs, Queue!Enqueue(j) \/ Queue!Put(j) PROVE QueueTypes'
    <2>1. /\ \/ UNCHANGED queueQueue
             \/ queueQueue' = queueQueue \union {j} /\ Queue!Cardinality(queueQueue) < QueueSize
          /\ UNCHANGED <<now, lastDequeue, taken, refused, consumer, until>>
        BY <1>2 DEF Queue!Enqueue, Queue!Put, Queue!consumerVars
    <2>2. IsFiniteSet(queueQueue') /\ Queue!Cardinality(queueQueue') <= QueueSize
        BY <2>1, QueueGrows DEF QueueTypes
    <2>3. created' \in [QueuedJobs -> Queue!Time]
        BY <1>2, QueueParameters DEF Queue!Enqueue, Queue!Put, QueueTypes, Queue!Time
    <2> QED BY <2>1, <2>2, <2>3 DEF QueueTypes
<1>3. ASSUME NEW j \in QueuedJobs, Queue!EnqueueTimeout(j) PROVE QueueTypes'
    BY <1>3 DEF Queue!EnqueueTimeout, Queue!consumerVars, QueueTypes
<1>4. ASSUME NEW c \in Consumers, Queue!Dequeue(c) \/ Queue!Wake(c) PROVE QueueTypes'
    <2>1. UNCHANGED <<now, created, queueQueue, refused, taken, lastDequeue>>
        BY <1>4 DEF Queue!Dequeue, Queue!Wake
    <2>2. consumer' \in [Consumers -> {"idle", "paused", "waiting"}]
        BY <1>4 DEF Queue!Dequeue, Queue!Wake, QueueTypes
    <2>3. until' \in [Consumers -> 0..QueueTime + RateInterval]
        BY <1>4, QueueParameters DEF Queue!Dequeue, Queue!Wake, QueueTypes, Queue!Time, Queue!Never
    <2> QED BY <2>1, <2>2, <2>3 DEF QueueTypes
<1>5. ASSUME NEW c \in Consumers, NEW j \in QueuedJobs, Queue!Get(c, j) PROVE QueueTypes'
    <2>1. IsFiniteSet(queueQueue') /\ Queue!Cardinality(queueQueue') <= QueueSize
        BY <1>5, QueueShrinks DEF Queue!Get
    <2>2. now \in Queue!Time
        BY QueueParameters DEF QueueTypes, Queue!Time
    <2> QED BY <1>5, <2>1, <2>2 DEF Queue!Get, QueueTypes
<1>6. CASE Queue!Tick
    <2>1. now' \in 0..QueueTime
        BY <1>6, QueueParameters DEF Queue!Tick, QueueTypes
    <2> QED BY <1>6, <2>1 DEF Queue!Tick, Queue!consumerVars, QueueTypes
<1> QED BY <1>1, <1>2, <1>3, <1>4, <1>5, <1>6 DEF Queue!Next

\* No more is read than there is, and what is handed on was read.
BatchTypes ==
    /\ read \in 0..NumItems /\ dirty \in BOOLEAN
    /\ main \in {"source", "batch", "last", "closing", "raising", "done", "raised"}
    /\ watcher \in {"wait", "sleep", "batch", "dead", "cancelled"}
    /\ {buffer, mainBatch, watcherBatch, delivered, batchFailed} \subseteq Batch!Items

LEMMA BatchTyped == ASSUME BatchTypes PROVE Batch!TypeOK
BY DEF BatchTypes, Batch!TypeOK

LEMMA BatchTypesInit == ASSUME Batch!Init PROVE BatchTypes
<1>1. <<>> \in Batch!Items
    BY DEF Batch!Items
<1>2. {buffer, mainBatch, watcherBatch, delivered, batchFailed} \subseteq Batch!Items
    BY <1>1 DEF Batch!Init
<1>3. read \in 0..NumItems
    BY BatchParameters DEF Batch!Init
<1> QED BY <1>2, <1>3 DEF Batch!Init, BatchTypes

LEMMA ItemsJoin ==
    ASSUME NEW s \in Batch!Items, NEW t \in Batch!Items PROVE s \o t \in Batch!Items
BY DEF Batch!Items

LEMMA BatchTypesNext == ASSUME BatchTypes, [Batch!Next]_batchVars PROVE BatchTypes'
<1>1. CASE UNCHANGED batchVars
    BY <1>1 DEF batchVars, BatchTypes
<1>2. <<>> \in Batch!Items
    BY DEF Batch!Items
<1>3. CASE Batch!Add \/ Batch!AddLast
    <2>1. read' = read + 1 /\ read < NumItems /\ main = "source"
        BY <1>3 DEF Batch!Add, Batch!AddLast
    <2>2. read' \in 1..NumItems
        BY <2>1, BatchParameters DEF BatchTypes
    <2>3. Append(buffer, read') \in Batch!Items
        BY <2>2 DEF BatchTypes, Batch!Items
    <2>4. {buffer', mainBatch'} \subseteq Batch!Items
        BY <1>2, <1>3, <2>3 DEF Batch!Add, Batch!AddLast, Batch!Take, BatchTypes
    <2>5. UNCHANGED <<watcher, watcherBatch, delivered, batchFailed>>
        BY <1>3 DEF Batch!Add, Batch!AddLast
    <2>6. dirty' \in BOOLEAN /\ main' \in {"source", "batch"}
        BY <1>3, <2>1 DEF Batch!Add, Batch!AddLast, Batch!Take
    <2>7. read' \in 0..NumItems
        BY <2>2
    <2> QED BY <2>4, <2>5, <2>6, <2>7 DEF BatchTypes
<1>4. CASE Batch!SourceEnds \/ Batch!WatcherSleeps \/ Batch!WatcherFlushes
    BY <1>2, <1>4
       DEF Batch!SourceEnds, Batch!WatcherSleeps, Batch!WatcherFlushes, Batch!Take, BatchTypes
<1>5. CASE Batch!MainDelivers \/ Batch!WatcherDelivers
    <2>1. {delivered', batchFailed', mainBatch', watcherBatch'} \subseteq Batch!Items
        BY <1>2, <1>5, ItemsJoin DEF Batch!MainDelivers, Batch!WatcherDelivers, BatchTypes
    <2> QED BY <1>5, <2>1 DEF Batch!MainDelivers, Batch!WatcherDelivers, BatchTypes
<1>6. CASE Batch!Close
    <2>1. {batchFailed', watcherBatch'} \subseteq Batch!Items
        BY <1>2, <1>6, ItemsJoin DEF Batch!Close, BatchTypes
    <2> QED BY <1>6, <2>1 DEF Batch!Close, BatchTypes
<1> QED BY <1>1, <1>3, <1>4, <1>5, <1>6 DEF Batch!Next

\* The population is evaluated before it evolves, and there are generations left when it does;
\* what a file holds is as good as what was saved.
GeneticTypes ==
    /\ Genetic!TypeOK
    /\ phase \in {"evaluate", "score", "check", "evolve"} => Len(population) = PopulationSize
    /\ phase = "evolve" => generation < Generations
    /\ file.population \in Seq(Genetic!Chromosome) /\ Len(file.population) \in {0, PopulationSize}
    /\ file.bestFitness \in 0..MaxFitness /\ file.generation \in 0..Generations
    /\ file.stagnation \in 0..MaxStagnation

LEMMA GeneticTypesInit == ASSUME Genetic!Init PROVE GeneticTypes
<1>1. 0 \in 0..MaxFitness /\ 0 \in 0..Generations /\ 0 \in 0..MaxStagnation
    BY GeneticParameters
<1>2. <<>> \in Seq(Genetic!Chromosome) /\ Len(<<>>) = 0
    OBVIOUS
<1> QED BY <1>1, <1>2 DEF Genetic!Init, GeneticTypes, Genetic!TypeOK, Genetic!NoFile

\* A function on 1..n is a sequence of its values.
LEMMA GeneticSequence ==
    ASSUME NEW n \in Nat, NEW S, NEW f, DOMAIN f = 1..n, f = [i \in 1..n |-> f[i]],
           \A i \in 1..n : f[i] \in S
    PROVE  f \in Seq(S) /\ Len(f) = n
<1>1. f \in [1..n -> S]
    OBVIOUS
<1> QED BY <1>1

LEMMA CopyType == ASSUME NEW g \in Genetic!Genes PROVE Genetic!Copy(g) \in Genetic!Chromosome
BY GeneticParameters DEF Genetic!Copy, Genetic!Chromosome

\* Each place in the order by fitness is taken by a chromosome: no two have the same number of
\* others before them.
LEMMA EveryPlaceTaken ==
    ASSUME NEW N \in Nat, NEW fit, \A i \in 1..N : fit[i] \in Nat, NEW n \in 1..N, NEW before,
           \A i \in 1..N :
               before[i] = {k \in 1..N : fit[k] > fit[i] \/ (fit[k] = fit[i] /\ k < i)}
    PROVE  \E i \in 1..N : Cardinality(before[i]) = n - 1
<1> DEFINE Above(a, b) == fit[a] > fit[b] \/ (fit[a] = fit[b] /\ a < b)
           Before(i) == {k \in 1..N : Above(k, i)}
           place == [i \in 1..N |-> Cardinality(Before(i)) + 1]
<1>1. IsFiniteSet(1..N) /\ Cardinality(1..N) = N
    BY FS_Interval
<1>2. ASSUME NEW i \in 1..N
      PROVE  IsFiniteSet(Before(i)) /\ Cardinality(Before(i)) \in 0..N - 1
    <2>1. Before(i) \in SUBSET (1..N) /\ i \notin Before(i)
        OBVIOUS
    <2> HIDE DEF Before
    <2>2. /\ IsFiniteSet(Before(i)) /\ Cardinality(Before(i)) <= N
          /\ Cardinality(Before(i)) = N => Before(i) = 1..N
        BY <1>1, <2>1, FS_Subset
    <2>3. Cardinality(Before(i)) \in Nat
        BY <2>2, FS_CardinalityType
    <2> QED BY <2>1, <2>2, <2>3
<1>3. ASSUME NEW i \in 1..N, NEW k \in 1..N, Above(i, k)
      PROVE  Cardinality(Before(i)) < Cardinality(Before(k))
    <2>1. Before(i) \in SUBSET Before(k) /\ i \in Before(k) /\ i \notin Before(i)
        BY <1>3
    <2> HIDE DEF Before
    <2>2. Cardinality(Before(i)) <= Cardinality(Before(k)) /\ Cardinality(Before(i)) # Cardinality(Before(k))
        BY <1>2, <2>1, FS_Subset
    <2> QED BY <1>2, <2>2
<1>4. \A i, k \in 1..N : i # k => Above(i, k) \/ Above(k, i)
    OBVIOUS
<1>5. place \in [1..N -> 1..N] /\ \A i \in 1..N : place[i] = Cardinality(Before(i)) + 1
    <2> HIDE DEF Before
    <2> QED BY <1>2
<1>6. \A i, k \in 1..N : place[i] = place[k] => i = k
    <2> SUFFICES ASSUME NEW i \in 1..N, NEW k \in 1..N, place[i] = place[k], i # k
                 PROVE  FALSE
        OBVIOUS
    <2>1. Cardinality(Before(i)) \in Nat /\ Cardinality(Before(k)) \in Nat
        <3>1. Cardinality(Before(i)) \in 0..N - 1 /\ Cardinality(Before(k)) \in 0..N - 1
            BY <1>2
        <3> HIDE DEF Before
        <3> QED BY <3>1
    <2>2. Above(i, k) \/ Above(k, i)
        BY <1>4
    <2>3. Cardinality(Before(i)) + 1 = Cardinality(Before(k)) + 1
        BY <1>5
    <2>4. CASE Above(i, k)
        <3>1. Cardinality(Before(i)) < Cardinality(Before(k))
            BY <1>3, <2>4
        <3> HIDE DEF Before
        <3> QED BY <2>1, <2>3, <3>1
    <2>5. CASE Above(k, i)
        <3>1. Cardinality(Before(k)) < Cardinality(Before(i))
            BY <1>3, <2>5
        <3> HIDE DEF Before
        <3> QED BY <2>1, <2>3, <3>1
    <2> QED BY <2>2, <2>4, <2>5
<1>7. place \in Surjection(1..N, 1..N)
    <2> HIDE DEF place
    <2>1. place \in Injection(1..N, 1..N)
        BY <1>5, <1>6 DEF Injection, IsInjective
    <2> QED BY <1>1, <2>1, FS_Injection
<1>8. PICK i \in 1..N : place[i] = n
    <2> HIDE DEF place
    <2> QED BY <1>7 DEF Surjection
<1>9. Cardinality(Before(i)) = n - 1
    <2> HIDE DEF Before
    <2> QED BY <1>2, <1>5, <1>8
<1> QED BY <1>9

LEMMA SortedType ==
    ASSUME NEW p \in Seq(Genetic!Chromosome), NEW n \in 1..Len(p)
    PROVE  Genetic!Sorted(p)[n] \in Genetic!Chromosome
<1> DEFINE fit == [i \in 1..Len(p) |-> p[i].fitness]
           Above(a, b) == p[a].fitness > p[b].fitness \/ (p[a].fitness = p[b].fitness /\ a < b)
           before == [i \in 1..Len(p) |-> {k \in DOMAIN p : Above(k, i)}]
           place == CHOOSE i \in DOMAIN p : Genetic!Cardinality({k \in DOMAIN p : Above(k, i)}) = n - 1
<1>1. Len(p) \in Nat /\ DOMAIN p = 1..Len(p) /\ \A i \in 1..Len(p) : p[i] \in Genetic!Chromosome
    OBVIOUS
<1>2. \A i \in 1..Len(p) : fit[i] \in Nat
    BY <1>1, GeneticParameters DEF Genetic!Chromosome
<1>3. \A i \in 1..Len(p) :
          before[i] = {k \in 1..Len(p) : fit[k] > fit[i] \/ (fit[k] = fit[i] /\ k < i)}
    BY <1>1
<1>4. PICK i \in 1..Len(p) : Cardinality(before[i]) = n - 1
    <2> HIDE DEF fit, before
    <2>1. Len(p) \in Nat
        BY <1>1
    <2> QED BY <1>2, <1>3, <2>1, EveryPlaceTaken
<1>5. i \in DOMAIN p /\ Genetic!Cardinality({k \in DOMAIN p : Above(k, i)}) = n - 1
    BY <1>1, <1>4, GeneticCount
<1>6. place \in DOMAIN p
    <2> HIDE DEF Above
    <2> QED BY <1>5
<1>7. Genetic!Sorted(p)[n] = p[place]
    BY <1>1 DEF Genetic!Sorted
<1> HIDE DEF place
<1> QED BY <1>1, <1>6, <1>7

\* Crossing and mutating chromosomes makes chromosomes.
LEMMA OffspringType ==
    ASSUME NEW p \in Seq(Genetic!Chromosome), NEW pair \in Genetic!Offspring(p)
    PROVE  /\ pair = <<pair[1], pair[2]>>
           /\ pair[1] \in Genetic!Chromosome /\ pair[2] \in Genetic!Chromosome
<1>1. \A i \in DOMAIN p : p[i].genes \in Genetic!Genes
    <2>1. \A i \in DOMAIN p : p[i] \in Genetic!Chromosome
        OBVIOUS
    <2> QED BY <2>1 DEF Genetic!Chromosome
<1>2. ASSUME NEW a \in Genetic!Genes, NEW b \in Genetic!Genes, NEW q \in Genetic!Children(a, b)
      PROVE  q[1] \in Genetic!Genes /\ q[2] \in Genetic!Genes
    <2>1. CASE q = <<a, b>>
        BY <2>1
    <2>2. ASSUME NEW from \in Genetic!Keys, NEW to \in Genetic!Keys,
                 q = <<[k \in Genetic!Keys |-> IF from <= k /\ k < to THEN b[k] ELSE a[k]],
                       [k \in Genetic!Keys |-> IF from <= k /\ k < to THEN a[k] ELSE b[k]]>>
          PROVE  q[1] \in Genetic!Genes /\ q[2] \in Genetic!Genes
        <3>1. \A k \in Genetic!Keys : a[k] \in Values /\ b[k] \in Values
            BY DEF Genetic!Genes
        <3> QED BY <2>2, <3>1 DEF Genetic!Genes
    <2> QED BY <2>1, <2>2 DEF Genetic!Children
<1>3. PICK i \in Genetic!Selected(p), k \in Genetic!Selected(p) :
          \E q \in Genetic!Children(p[i].genes, p[k].genes) :
              \E c \in Genetic!Mutations(q[1]), d \in Genetic!Mutations(q[2]) :
                  pair = <<Genetic!Copy(c), Genetic!Copy(d)>>
    BY DEF Genetic!Offspring
<1>4. p[i].genes \in Genetic!Genes /\ p[k].genes \in Genetic!Genes
    BY <1>1 DEF Genetic!Selected
<1>5. PICK q \in Genetic!Children(p[i].genes, p[k].genes) :
          \E c \in Genetic!Mutations(q[1]), d \in Genetic!Mutations(q[2]) :
              pair = <<Genetic!Copy(c), Genetic!Copy(d)>>
    BY <1>3
<1>6. q[1] \in Genetic!Genes /\ q[2] \in Genetic!Genes
    BY <1>2, <1>4
<1>7. PICK c \in Genetic!Genes, d \in Genetic!Genes : pair = <<Genetic!Copy(c), Genetic!Copy(d)>>
    BY <1>5, <1>6 DEF Genetic!Mutations
<1> QED BY <1>7, CopyType

LEMMA EvolvedType ==
    ASSUME NEW p \in Seq(Genetic!Chromosome), Len(p) = PopulationSize, NEW q \in Genetic!Evolved(p)
    PROVE  q \in Seq(Genetic!Chromosome) /\ Len(q) = PopulationSize
<1> DEFINE half == (PopulationSize - EliteCount + 1) \div 2
<1>1. PICK pairs \in [1..half -> Genetic!Offspring(p)] :
          q = [n \in 1..PopulationSize |->
                LET m == n - EliteCount
                IN  IF m <= 0 THEN Genetic!Elite(p)[n] ELSE pairs[(m + 1) \div 2][2 - (m % 2)]]
    BY DEF Genetic!Evolved
<1>2. ASSUME NEW n \in 1..PopulationSize PROVE q[n] \in Genetic!Chromosome
    <2> DEFINE m == n - EliteCount
    <2>1. CASE m <= 0
        <3>1. n \in 1..EliteCount /\ n \in 1..Len(p)
            BY <2>1, GeneticParameters
        <3>2. q[n] = Genetic!Copy(Genetic!Sorted(p)[n].genes)
            BY <1>1, <2>1, <3>1 DEF Genetic!Elite
        <3>3. Genetic!Sorted(p)[n].genes \in Genetic!Genes
            BY <3>1, SortedType DEF Genetic!Chromosome
        <3> QED BY <3>2, <3>3, CopyType
    <2>2. CASE ~(m <= 0)
        <3>1. (m + 1) \div 2 \in 1..half /\ 2 - (m % 2) \in {1, 2}
            BY <2>2, GeneticParameters
        <3>2. pairs[(m + 1) \div 2] \in Genetic!Offspring(p)
            BY <3>1
        <3>3. q[n] = pairs[(m + 1) \div 2][2 - (m % 2)]
            BY <1>1, <2>2
        <3> QED BY <3>1, <3>2, <3>3, OffspringType
    <2> QED BY <2>1, <2>2
<1>3. DOMAIN q = 1..PopulationSize /\ q = [n \in 1..PopulationSize |-> q[n]]
    BY <1>1
<1>4. PopulationSize \in Nat
    BY GeneticParameters
<1> QED BY <1>2, <1>3, <1>4, GeneticSequence

LEMMA GeneticTypesNext ==
    ASSUME GeneticInv, GeneticTypes, [Genetic!Next]_geneticVars PROVE GeneticTypes'
<1>1. CASE UNCHANGED geneticVars
    BY <1>1 DEF geneticVars, GeneticTypes, Genetic!TypeOK
<1>2. /\ 0 \in 0..MaxFitness /\ 0 \in 0..Generations /\ 0 \in 0..MaxStagnation
      /\ PopulationSize \in Nat
    BY GeneticParameters
<1>3. CASE Genetic!InitializePopulation
    <2>1. PICK genes \in [1..PopulationSize -> Genetic!Genes] :
                population' = [i \in 1..PopulationSize |-> Genetic!Copy(genes[i])]
        BY <1>3 DEF Genetic!InitializePopulation
    <2>2. \A i \in 1..PopulationSize : population'[i] \in Genetic!Chromosome
        BY <2>1, CopyType
    <2>3. population' \in Seq(Genetic!Chromosome) /\ Len(population') = PopulationSize
        BY <1>2, <2>1, <2>2, GeneticSequence
    <2> QED BY <1>2, <1>3, <2>3 DEF Genetic!InitializePopulation, GeneticTypes, Genetic!TypeOK
<1>4. CASE Genetic!EvaluatePopulation
    <2>1. PICK fitness \in [1..PopulationSize -> 0..MaxFitness] :
            /\ population' = [i \in 1..PopulationSize |-> [population[i] EXCEPT !.fitness = fitness[i]]]
            /\ bestFitness' = IF Scored THEN Genetic!Max({fitness[i] : i \in 1..PopulationSize})
                              ELSE bestFitness
        BY <1>4 DEF Genetic!EvaluatePopulation
    <2>2. population \in Seq(Genetic!Chromosome) /\ Len(population) = PopulationSize
        BY <1>4 DEF Genetic!EvaluatePopulation, GeneticTypes, Genetic!TypeOK
    <2>3. ASSUME NEW i \in 1..PopulationSize PROVE population'[i] \in Genetic!Chromosome
        <3>1. population[i] \in Genetic!Chromosome /\ fitness[i] \in 0..MaxFitness
            BY <2>2
        <3>2. population'[i] = [population[i] EXCEPT !.fitness = fitness[i]]
            BY <2>1
        <3> QED BY <3>1, <3>2 DEF Genetic!Chromosome
    <2>4. population' \in Seq(Genetic!Chromosome) /\ Len(population') = PopulationSize
        BY <1>2, <2>1, <2>3, GeneticSequence
    <2>5. Genetic!Max({fitness[i] : i \in 1..PopulationSize}) \in 0..MaxFitness
        <3> DEFINE S == {fitness[i] : i \in 1..PopulationSize}
        <3>1. S \in SUBSET (0..MaxFitness) /\ fitness[1] \in S
            BY GeneticParameters
        <3>2. IsFiniteSet(0..MaxFitness)
            BY GeneticParameters, FS_Interval
        <3> HIDE DEF S
        <3>3. IsFiniteSet(S) /\ S \in SUBSET Nat /\ S # {}
            <4>1. \A n \in 0..MaxFitness : n \in Nat
                BY GeneticParameters
            <4> QED BY <3>1, <3>2, <4>1, FS_Subset
        <3>4. Trial!Max(S) \in S /\ \A x \in S : x <= Trial!Max(S)
            BY <3>3, GreatestIsMember
        <3>5. Genetic!Max(S) \in S
            BY <3>4, Zenon DEF Genetic!Max
        <3> QED BY <3>1, <3>5 DEF S
    <2>6. bestFitness' \in 0..MaxFitness
        BY <2>1, <2>5 DEF GeneticTypes, Genetic!TypeOK
    <2> QED BY <1>4, <2>4, <2>6 DEF Genetic!EvaluatePopulation, GeneticTypes, Genetic!TypeOK
<1>5. CASE Genetic!UpdateBest
    <2>1. PICK i \in Genetic!Fittest(population) :
            best' = IF generation = 0
                    THEN [genes |-> population[i].genes, fitness |-> population[i].fitness,
                          was |-> population[i].fitness]
                    ELSE IF population[i].fitness > best.fitness
                    THEN [genes |-> population[i].genes, fitness |-> 0, was |-> population[i].fitness]
                    ELSE best
        BY <1>5 DEF Genetic!UpdateBest
    <2>2. population[i] \in Genetic!Chromosome
        BY DEF Genetic!Fittest, GeneticTypes, Genetic!TypeOK
    <2>3. population[i].genes \in Genetic!Genes /\ population[i].fitness \in Nat
        BY <2>2, GeneticParameters DEF Genetic!Chromosome
    <2>4. best' = Genetic!NoBest \/ (best'.genes \in Genetic!Genes /\ best'.fitness <= best'.was)
        BY <2>1, <2>3 DEF GeneticTypes, Genetic!TypeOK
    <2>5. 0 < Generations
        BY GeneticParameters
    <2>6. /\ phase = "score" /\ phase' \in {"evolve", "check"}
          /\ phase' = "evolve" => generation = 0
          /\ UNCHANGED <<population, bestFitness, generation, stagnation, lastBest, file>>
        BY <1>5 DEF Genetic!UpdateBest
    <2> QED BY <2>4, <2>5, <2>6 DEF GeneticTypes, Genetic!TypeOK
<1>6. CASE Genetic!CheckConvergence
    <2>1. stagnation' \in 0..MaxStagnation
        <3> DEFINE two == {stagnation + 1, MaxStagnation}
        <3>1. Genetic!Min(two) \in 0..MaxStagnation
            <4>1. stagnation + 1 \in Nat /\ MaxStagnation \in Nat
                BY GeneticParameters DEF GeneticTypes, Genetic!TypeOK
            <4>2. \E x \in two : \A y \in two : x <= y
                BY <4>1
            <4>3. Genetic!Min(two) \in two /\ \A y \in two : Genetic!Min(two) <= y
                <5> HIDE DEF two
                <5> QED BY <4>2 DEF Genetic!Min
            <4> QED BY <4>1, <4>3
        <3> QED BY <1>2, <1>6, <3>1 DEF Genetic!CheckConvergence
    <2>2. /\ phase = "check" /\ phase' \in {"done", "evolve"} /\ lastBest' = bestFitness
          /\ phase' = "evolve" => generation # Generations
          /\ UNCHANGED <<population, bestFitness, generation, best, file>>
        BY <1>6 DEF Genetic!CheckConvergence
    <2>3. phase' = "evolve" => generation < Generations
        BY <2>2, GeneticParameters DEF GeneticTypes, Genetic!TypeOK
    <2> QED BY <2>1, <2>2, <2>3 DEF GeneticTypes, Genetic!TypeOK
<1>7. CASE Genetic!EvolveGeneration
    <2>1. population \in Seq(Genetic!Chromosome) /\ Len(population) = PopulationSize
        BY <1>7 DEF Genetic!EvolveGeneration, GeneticTypes, Genetic!TypeOK
    <2>2. population' \in Seq(Genetic!Chromosome) /\ Len(population') = PopulationSize
        BY <1>7, <2>1, EvolvedType DEF Genetic!EvolveGeneration
    <2>3. generation + 1 \in 0..Generations
        BY <1>7, GeneticParameters DEF Genetic!EvolveGeneration, GeneticTypes, Genetic!TypeOK
    <2> QED BY <1>2, <1>7, <2>2, <2>3 DEF Genetic!EvolveGeneration, GeneticTypes, Genetic!TypeOK
<1>8. CASE Genetic!SaveState
    <2>1. /\ file'.population = population /\ file'.bestFitness = bestFitness
          /\ file'.generation = generation /\ file'.stagnation = stagnation
          /\ UNCHANGED <<phase, population, bestFitness, generation, best, stagnation, lastBest>>
        BY <1>8 DEF Genetic!SaveState
    <2> QED BY <2>1 DEF GeneticTypes, Genetic!TypeOK
<1>9. CASE Genetic!LoadState
    BY <1>9 DEF Genetic!LoadState, GeneticTypes, Genetic!TypeOK
<1>10. CASE Genetic!Crash
    <2>1. <<>> \in Seq(Genetic!Chromosome) /\ Len(<<>>) = 0
        OBVIOUS
    <2> QED BY <1>2, <1>10, <2>1 DEF Genetic!Crash, GeneticTypes, Genetic!TypeOK
<1> QED BY <1>1, <1>3, <1>4, <1>5, <1>6, <1>7, <1>8, <1>9, <1>10 DEF Genetic!Next

\* What is recorded of a variant is recorded together.
TrialTypes ==
    /\ results \in Seq(Trial!Result) /\ Len(results) <= NumVariants
    /\ winner \in 0..NumVariants
    /\ status \in {"none", "running", "stopped"}
    /\ metrics \in [Trial!Variants -> [conversions : Nat, times : Seq(1..MaxTime)]]
    /\ \A v \in Trial!Variants : metrics[v].conversions <= Len(metrics[v].times)
    /\ verdict \in ({"none", "running", "inconclusive"} \X {0}) \union ({"complete"} \X Trial!Variants)

LEMMA TrialTyped == ASSUME TrialTypes PROVE Trial!TypeOK
<1>1. \A v \in Trial!Variants : metrics[v].times \in Seq(1..MaxTime)
    BY DEF TrialTypes
<1> QED BY <1>1 DEF TrialTypes, Trial!TypeOK

LEMMA TrialTypesInit == ASSUME Trial!Init PROVE TrialTypes
<1>1. <<>> \in Seq(Trial!Result) /\ Len(<<>>) = 0 /\ <<>> \in Seq(1..MaxTime)
    OBVIOUS
<1>2. Trial!NoMetrics \in [conversions : Nat, times : Seq(1..MaxTime)]
    BY <1>1 DEF Trial!NoMetrics
<1>3. Trial!NoMetrics.conversions <= Len(Trial!NoMetrics.times)
    BY <1>1 DEF Trial!NoMetrics
<1>4. metrics = [v \in Trial!Variants |-> Trial!NoMetrics]
    BY DEF Trial!Init
<1>5. \A v \in Trial!Variants : metrics[v] = Trial!NoMetrics
    BY <1>4
<1> QED BY <1>1, <1>2, <1>3, <1>4, <1>5, TrialParameters DEF Trial!Init, TrialTypes

\* The winner is one of the variants that were measured.
LEMMA WinnerIsVariant ==
    ASSUME TrialInv, Len(results) = NumVariants PROVE Trial!Winner(results) \in 0..NumVariants
<1> DEFINE NoBetter(w, v) ==
                Trial!Score(results, w) * results[v].total <= Trial!Score(results, v) * results[w].total
           bests == {v \in Trial!Valid(results) : \A w \in Trial!Valid(results) : NoBetter(w, v)}
<1>1. bests \in SUBSET (1..NumVariants)
    BY DEF TrialInv, Trial!Valid
<1>2. Trial!Winner(results) = IF bests = {} THEN 0 ELSE Trial!Min(bests)
    BY DEF Trial!Winner
<1> HIDE DEF bests
<1>3. ASSUME bests # {} PROVE Trial!Min(bests) \in bests
    <2>1. bests \in SUBSET Nat
        BY <1>1, TrialParameters
    <2>2. \E x \in bests : \A y \in bests : x <= y
        BY <1>3, <2>1, LeastExists
    <2> QED BY <2>2, Zenon DEF Trial!Min
<1>4. 0 \in 0..NumVariants /\ \A v \in 1..NumVariants : v \in 0..NumVariants
    BY TrialParameters
<1> QED BY <1>1, <1>2, <1>3, <1>4

LEMMA TrialTypesNext ==
    ASSUME TrialInv, TrialTypes, [Trial!Next]_trialVars PROVE TrialTypes'
<1>1. CASE UNCHANGED trialVars
    BY <1>1 DEF trialVars, TrialTypes
<1>2. ASSUME NEW n \in Counts, Trial!Measure(n) PROVE TrialTypes'
    <2>1. PICK r \in Trial!Result : results' = Append(results, r)
        BY <1>2 DEF Trial!Measure
    <2>2. results' \in Seq(Trial!Result) /\ Len(results') = Len(results) + 1 /\ Len(results) \in Nat
        BY <2>1 DEF TrialTypes
    <2>3. Len(results) < NumVariants /\ UNCHANGED <<winner, status, metrics, verdict>>
        BY <1>2 DEF Trial!Measure, Trial!experimentVars
    <2> QED BY <2>2, <2>3, TrialParameters DEF TrialTypes
<1>3. CASE Trial!Analyze
    BY <1>3, WinnerIsVariant DEF Trial!Analyze, Trial!experimentVars, TrialTypes
<1>4. ASSUME NEW v \in Trial!Variants, Trial!Record(v) PROVE TrialTypes'
    <2>1. PICK t \in 1..MaxTime, c \in 0..1 :
            metrics' = [metrics EXCEPT ![v] = [conversions |-> metrics[v].conversions + c,
                                               times |-> Append(metrics[v].times, t)]]
        BY <1>4 DEF Trial!Record
    <2>2. /\ metrics[v].conversions \in Nat /\ metrics[v].times \in Seq(1..MaxTime)
          /\ metrics[v].conversions <= Len(metrics[v].times)
        BY DEF TrialTypes
    <2> DEFINE m == [conversions |-> metrics[v].conversions + c, times |-> Append(metrics[v].times, t)]
    <2>3. /\ m \in [conversions : Nat, times : Seq(1..MaxTime)]
          /\ m.conversions <= Len(m.times)
        <3>1. Append(metrics[v].times, t) \in Seq(1..MaxTime)
            BY <2>2
        <3>2. Len(Append(metrics[v].times, t)) = Len(metrics[v].times) + 1 /\ Len(metrics[v].times) \in Nat
            BY <2>2
        <3>3. metrics[v].conversions + c \in Nat /\ c <= 1
            BY <2>2
        <3> QED BY <2>2, <3>1, <3>2, <3>3
    <2> HIDE DEF m
    <2>4. metrics' = [metrics EXCEPT ![v] = m]
        BY <2>1 DEF m
    <2>5. /\ metrics' \in [Trial!Variants -> [conversions : Nat, times : Seq(1..MaxTime)]]
          /\ \A w \in Trial!Variants : metrics'[w] = IF w = v THEN m ELSE metrics[w]
        BY <2>3, <2>4 DEF TrialTypes
    <2>6. \A w \in Trial!Variants : metrics'[w].conversions <= Len(metrics'[w].times)
        BY <2>3, <2>5 DEF TrialTypes
    <2>7. UNCHANGED <<results, winner, status, verdict>>
        BY <1>4 DEF Trial!Record, Trial!testVars
    <2> QED BY <2>5, <2>6, <2>7 DEF TrialTypes
<1>5. CASE Trial!Test
    <2>1. \A p \in Trial!Pairs : Trial!Better(p[1], p[2]) \in Trial!Variants
        BY DEF Trial!Pairs, Trial!Better
    <2>2. verdict' \in ({"none", "running", "inconclusive"} \X {0}) \union ({"complete"} \X Trial!Variants)
        <3>1. CASE ~Trial!Enough
            BY <1>5, <3>1 DEF Trial!Test
        <3>2. CASE Trial!Enough
            <4>1. \/ verdict' = <<"inconclusive", 0>>
                  \/ \E p \in Trial!Pairs : verdict' = <<"complete", Trial!Better(p[1], p[2])>>
                BY <1>5, <3>2 DEF Trial!Test
            <4> QED BY <2>1, <4>1
        <3> QED BY <3>1, <3>2
    <2> QED BY <1>5, <2>2 DEF Trial!Test, Trial!testVars, TrialTypes
<1>6. CASE Trial!CreateExperiment \/ Trial!StopExperiment
    BY <1>6 DEF Trial!CreateExperiment, Trial!StopExperiment, Trial!testVars, TrialTypes
<1> QED BY <1>1, <1>2, <1>3, <1>4, <1>5, <1>6 DEF Trial!Next, Trial!TestNext, Trial!ExperimentNext

\* A branch that exists has commits that exist, and the one that is checked out exists once a
\* synchronisation has committed.
GitTypes ==
    /\ Git!TypeOK
    /\ DOMAIN gitResult = {"status", "push", "commit"}
    /\ step = "branch" => current \in DOMAIN local

LEMMA GitTypesInit == ASSUME Git!Init PROVE GitTypes
<1>1. DOMAIN local = {} /\ DOMAIN remote = {}
    BY DEF Git!Init
<1>2. /\ gitResult.status = "unknown" /\ gitResult.push = "none"
      /\ DOMAIN gitResult = {"status", "push", "commit"}
    BY DEF Git!Init, Git!NoResult
<1>3. changed \subseteq Git!Kinds /\ staged = {}
    BY DEF Git!Init, Git!Kinds, Git!Outputs
<1> QED BY <1>1, <1>2, <1>3, GitParameters DEF Git!Init, GitTypes, Git!TypeOK

\* A branch with commits that exist is added, or moves to them.
LEMMA BranchMoves ==
    ASSUME GitTypes, NEW f, NEW b \in Branches, NEW S, DOMAIN f \subseteq Branches
    PROVE  DOMAIN Git!With(f, b, S) \subseteq Branches /\ b \in DOMAIN Git!With(f, b, S)
BY DEF Git!With

LEMMA CommittedType ==
    ASSUME GitTypes, NEW b \in Branches, current = b, NEW kinds, Git!Committed(kinds)
    PROVE  /\ DOMAIN local' \subseteq Branches /\ b \in DOMAIN local'
           /\ \A c \in DOMAIN local' : local'[c] \subseteq DOMAIN commits'
<1>1. PICK n : /\ commits' = Git!With(commits, n, kinds)
               /\ local' = Git!With(local, current,
                                    (IF current \in DOMAIN local THEN local[current] ELSE {}) \union {n})
    BY DEF Git!Committed
<1>2. DOMAIN commits' = DOMAIN commits \union {n}
    BY <1>1 DEF Git!With
<1>3. \A c \in DOMAIN local' :
        local'[c] \subseteq (IF c \in DOMAIN local THEN local[c] ELSE {}) \union {n}
    BY <1>1 DEF Git!With
<1>4. DOMAIN local' = DOMAIN local \union {b}
    BY <1>1 DEF Git!With
<1> QED BY <1>2, <1>3, <1>4 DEF GitTypes, Git!TypeOK

LEMMA ShownFit ==
    ASSUME GitTypes
    PROVE  /\ Git!WithRules \in [mentioned : BOOLEAN, inForce : BOOLEAN]
           /\ Git!WithIgnore \subseteq Git!Kinds /\ Git!Visible \subseteq Git!Kinds
           /\ Git!Shown(Git!WithIgnore, Git!WithRules) \subseteq Git!Kinds
BY DEF GitTypes, Git!TypeOK, Git!WithRules, Git!WithIgnore, Git!Visible, Git!Shown, Git!Kinds

LEMMA GitTypesNext == ASSUME GitTypes, [Git!Next]_gitVars PROVE GitTypes'
<1>1. CASE UNCHANGED gitVars
    BY <1>1 DEF gitVars, GitTypes, Git!TypeOK
<1>2. CASE Git!InitRepo
    <2> DEFINE shown == Git!Shown(Git!WithIgnore, Git!WithRules)
    <2>1. /\ step = "idle" /\ step' = "idle" /\ current' = Target
          /\ ignore' = Git!WithRules /\ exposed' = (exposed \/ ~ignore.inForce)
          /\ git' \in {"local", "remote"} /\ changed' \subseteq Git!WithIgnore
          /\ staged' \in {{}, shown}
          /\ UNCHANGED <<remote, gitResult>>
          /\ UNCHANGED <<local, commits>> \/ Git!Committed(shown)
        BY <1>2 DEF Git!InitRepo
    <2>3. shown \subseteq Git!Kinds /\ Git!WithIgnore \subseteq Git!Kinds
        BY ShownFit DEF GitTypes, Git!TypeOK
    <2>2. /\ DOMAIN local' \subseteq Branches
          /\ \A c \in DOMAIN local' : local'[c] \subseteq DOMAIN commits'
        BY <2>1, CommittedType DEF GitTypes, Git!TypeOK
    <2> HIDE DEF shown
    <2>4. changed' \subseteq Git!Kinds /\ staged' \subseteq Git!Kinds
        BY <2>1, <2>3
    <2>5. ignore' \in [mentioned : BOOLEAN, inForce : BOOLEAN] /\ exposed' \in BOOLEAN
        BY <2>1, ShownFit
    <2> QED BY <2>1, <2>2, <2>4, <2>5, GitParameters DEF GitTypes, Git!TypeOK
<1>3. CASE (\E kind \in Git!Kinds : Git!Change(kind)) \/ Git!EditIgnore
    BY <1>3 DEF Git!Change, Git!EditIgnore, Git!repoVars, Git!Kinds, GitTypes, Git!TypeOK
<1>4. ASSUME NEW b \in Branches, Git!Checkout(b) PROVE GitTypes'
    <2>1. /\ step = "idle" /\ current' = b
          /\ \/ UNCHANGED local
             \/ current \in DOMAIN local /\ local' = Git!With(local, b, local[current])
          /\ UNCHANGED <<step, git, commits, ignore, exposed, changed, staged, remote, gitResult>>
        BY <1>4 DEF Git!Checkout, Git!fileVars
    <2>2. /\ DOMAIN local' \subseteq Branches
          /\ \A c \in DOMAIN local' : local'[c] \subseteq DOMAIN commits'
        BY <2>1 DEF Git!With, GitTypes, Git!TypeOK
    <2> QED BY <2>1, <2>2 DEF GitTypes, Git!TypeOK
<1>5. CASE Git!EnsureGitignore \/ Git!GetGitStatus \/ Git!AddAll
    <2>1. /\ UNCHANGED <<git, current, local, commits, remote>>
          /\ step' \in {"idle", "status", "add", "commit"}
          /\ \/ ignore' = Git!WithRules /\ exposed' = (exposed \/ ~ignore.inForce)
             \/ UNCHANGED <<ignore, exposed>>
          /\ changed' \in {changed, Git!WithIgnore} \/ changed' \subseteq changed
          /\ staged' \in {staged, staged \union Git!Visible}
        BY <1>5 DEF Git!EnsureGitignore, Git!GetGitStatus, Git!AddAll, Git!Fail, Git!repoVars,
           Git!fileVars
    <2>2. /\ gitResult'.status \in {"unknown", "clean", "committed", "error"}
          /\ gitResult'.push \in {"none", "success", "failed"}
          /\ DOMAIN gitResult' = {"status", "push", "commit"}
        BY <1>5 DEF Git!EnsureGitignore, Git!GetGitStatus, Git!AddAll, Git!Fail, Git!NoResult,
           GitTypes, Git!TypeOK
    <2> QED BY <2>1, <2>2, ShownFit DEF GitTypes, Git!TypeOK
<1>6. CASE Git!Commit
    <2>1. CASE Git!Fail
        BY <2>1 DEF Git!Fail, Git!repoVars, Git!fileVars, GitTypes, Git!TypeOK
    <2>2. ASSUME Git!Committed(staged), staged' = {}, step' = "branch",
                 gitResult' = [gitResult EXCEPT !.status = "committed",
                                                !.commit = Git!Cardinality(DOMAIN commits')],
                 UNCHANGED <<git, current, ignore, exposed, changed, remote>>
          PROVE  GitTypes'
        <3>1. current \in Branches
            BY DEF GitTypes, Git!TypeOK
        <3>2. /\ DOMAIN local' \subseteq Branches /\ current' \in DOMAIN local'
              /\ \A c \in DOMAIN local' : local'[c] \subseteq DOMAIN commits'
            BY <2>2, <3>1, CommittedType
        <3>3. /\ gitResult'.status = "committed" /\ gitResult'.push = gitResult.push
              /\ DOMAIN gitResult' = {"status", "push", "commit"}
            BY <2>2 DEF GitTypes
        <3> QED BY <2>2, <3>2, <3>3 DEF GitTypes, Git!TypeOK
    <2> QED BY <1>6, <2>1, <2>2 DEF Git!Commit
<1>7. CASE Git!EnsureBranch
    <2>1. CASE Git!Fail
        BY <2>1 DEF Git!Fail, Git!repoVars, Git!fileVars, GitTypes, Git!TypeOK
    <2>2. ASSUME step = "branch", step' \in {"push", "idle"},
                 \/ UNCHANGED <<current, local>>
                 \/ current' = Target /\ local' = Git!With(local, Target, local[current]),
                 UNCHANGED <<git, commits, ignore, exposed, changed, staged, remote, gitResult>>
          PROVE  GitTypes'
        <3>1. /\ DOMAIN local' \subseteq Branches
              /\ \A c \in DOMAIN local' : local'[c] \subseteq DOMAIN commits'
            BY <2>2, GitParameters DEF Git!With, GitTypes, Git!TypeOK
        <3> QED BY <2>2, <3>1, GitParameters DEF GitTypes, Git!TypeOK
    <2> QED BY <1>7, <2>1, <2>2 DEF Git!EnsureBranch, Git!fileVars
<1>8. CASE Git!PushTarget
    <2>1. /\ step' = "idle" /\ UNCHANGED <<git, current, local, commits, ignore, exposed, changed, staged>>
          /\ UNCHANGED remote \/ remote' = Git!With(remote, Target, local[Target])
        BY <1>8 DEF Git!PushTarget, Git!repoVars, Git!fileVars
    <2>2. DOMAIN remote' \subseteq Branches
        BY <2>1, GitParameters, BranchMoves DEF GitTypes, Git!TypeOK
    <2>3. /\ gitResult'.status = gitResult.status /\ gitResult'.push \in {"success", "failed"}
          /\ DOMAIN gitResult' = {"status", "push", "commit"}
        BY <1>8 DEF Git!PushTarget, GitTypes
    <2> QED BY <2>1, <2>2, <2>3 DEF GitTypes, Git!TypeOK
<1> QED BY <1>1, <1>2, <1>3, <1>4, <1>5, <1>6, <1>7, <1>8 DEF Git!Next

\* What is left of distinct messages is not more than there were.
LEMMA LeftIsShorter ==
    ASSUME NEW h \in Seq(Actor!Message), Distinct(h), NEW g, LeftOf(g, h) PROVE Len(g) <= Len(h)
<1> DEFINE n == Len(h)
           m == Len(g)
           from == [j \in 1..m |-> CHOOSE k \in 1..n : g[j] = h[k]]
<1>1. n \in Nat /\ m \in Nat /\ DOMAIN h = 1..n /\ DOMAIN g = 1..m /\ Distinct(g)
    BY DEF LeftOf
<1>2. \A j \in 1..m : \E k \in 1..n : g[j] = h[k]
    BY <1>1 DEF LeftOf
<1> HIDE DEF n, m
<1>3. \A j \in 1..m : from[j] \in 1..n /\ g[j] = h[from[j]]
    BY <1>2
<1> HIDE DEF from
<1>4. from \in [1..m -> 1..n]
    BY <1>3 DEF from
<1>5. \A j, k \in 1..m : from[j] = from[k] => j = k
    BY <1>1, <1>3 DEF Distinct
<1>6. from \in Injection(1..m, 1..n)
    BY <1>4, <1>5 DEF Injection, IsInjective
<1>7. IsFiniteSet(1..n) /\ Cardinality(1..n) = n /\ Cardinality(1..m) = m
    BY <1>1, FS_Interval
<1>8. m <= n
    BY <1>6, <1>7, FS_Injection
<1> QED BY <1>8 DEF m, n

LEMMA PushLength ==
    ASSUME NEW h \in Seq(Actor!Message), NEW m PROVE Len(Actor!Push(h, m)) = Len(h) + 1
<1> DEFINE g == Append(h, m)
           n == Len(h) + 1
<1>1. n \in Nat /\ DOMAIN g = 1..n /\ n \in 1..n
    OBVIOUS
<1>2. Actor!Push(h, m) = Actor!Rise(g, n)
    BY DEF Actor!Push
<1> HIDE DEF g, n
<1>3. PICK q : IsPick(q, n, 1..n) /\ Actor!Rise(g, n) = Picked(g, q)
    BY <1>1, RiseIsPicked
<1>4. DOMAIN Picked(g, q) = 1..n
    BY <1>3 DEF IsPick, Picked
<1>5. Len(Picked(g, q)) = n
    BY <1>1, <1>4
<1> QED BY <1>2, <1>3, <1>5 DEF n

LEMMA ActorTypesInit == ASSUME Actor!Init PROVE Actor!TypeOK
<1>1. <<>> \in Seq(Actor!Message) /\ Len(<<>>) = 0
    OBVIOUS
<1>2. 0 \in 0..MaxMessages /\ 0 \in 0..MaxStarts /\ 0 <= MailboxSize
    BY ActorParameters
<1> QED BY <1>1, <1>2 DEF Actor!Init, Actor!TypeOK, Actor!Idle

\* A mailbox that accepts a message has room for it.
LEMMA EnqueuedType ==
    ASSUME ActorInv, Actor!TypeOK, NEW a \in Members, NEW m \in Actor!Message
    PROVE  Actor!Enqueued(a, m) \in Seq(Actor!Message) /\ Len(Actor!Enqueued(a, m)) <= MailboxSize
<1> DEFINE h == mailbox[a]
           rest == Actor!Purged(h)
<1>1. h \in Seq(Actor!Message) /\ Distinct(h) /\ Len(h) <= MailboxSize /\ Len(h) \in Nat
    BY DEF ActorInv, MailboxFits, Actor!TypeOK
<1>2. LeftOf(rest, h)
    BY <1>1, PurgedIsLeft
<1>3. rest \in Seq(Actor!Message) /\ Len(rest) <= Len(h) /\ Len(rest) \in Nat
    BY <1>1, <1>2, LeftIsShorter DEF LeftOf
<1>4. CASE Actor!Accepts(a)
    <2>1. Actor!Enqueued(a, m) = Actor!Push(rest, m) /\ Len(h) < MailboxSize
        BY <1>4 DEF Actor!Enqueued, Actor!Accepts
    <2> HIDE DEF rest, h
    <2>2. Actor!Push(rest, m) \in Seq(Actor!Message)
        BY <1>3, PushAdds DEF LeftOf
    <2>3. Len(Actor!Push(rest, m)) = Len(rest) + 1
        BY <1>3, PushLength
    <2> QED BY <1>1, <1>3, <2>1, <2>2, <2>3, ActorParameters
<1>5. CASE ~Actor!Accepts(a)
    BY <1>1, <1>5 DEF Actor!Enqueued
<1> QED BY <1>4, <1>5

LEMMA DeliverType ==
    ASSUME ActorInv, Actor!TypeOK, NEW to, NEW p \in Priorities, NEW k \in Actor!Kinds,
           Actor!Deliver(to, p, k)
    PROVE  Actor!TypeOK'
<1> DEFINE m == [n |-> made + 1, priority |-> p, kind |-> k]
<1>1. /\ made < MaxMessages /\ made' = made + 1
      /\ UNCHANGED <<registered, expired, processing, stopped, run, task, hand, handled, waits>>
      /\ mailbox' = [a \in Members |-> IF a \in to THEN Actor!Enqueued(a, m) ELSE mailbox[a]]
    BY DEF Actor!Deliver
<1>2. made + 1 \in 1..MaxMessages /\ made' \in 0..MaxMessages
    BY <1>1, ActorParameters DEF Actor!TypeOK
<1>3. m \in Actor!Message
    BY <1>2, MessageNumbers
<1> HIDE DEF m
<1>4. \A a \in Members : mailbox'[a] \in Seq(Actor!Message) /\ Len(mailbox'[a]) <= MailboxSize
    BY <1>1, <1>3, EnqueuedType DEF Actor!TypeOK
<1>5. mailbox' \in [Members -> Seq(Actor!Message)]
    BY <1>1, <1>4
<1> QED BY <1>1, <1>2, <1>4, <1>5 DEF Actor!TypeOK

\* A mailbox shrinks.
LEMMA MailboxShrinks ==
    ASSUME Actor!TypeOK, NEW a \in Members, NEW g \in Seq(Actor!Message),
           Len(g) <= Len(mailbox[a]), mailbox' = [mailbox EXCEPT ![a] = g]
    PROVE  /\ mailbox' \in [Members -> Seq(Actor!Message)]
           /\ \A b \in Members : Len(mailbox'[b]) <= MailboxSize
<1>1. mailbox' \in [Members -> Seq(Actor!Message)]
    BY DEF Actor!TypeOK
<1>2. \A b \in Members : mailbox'[b] = IF b = a THEN g ELSE mailbox[b]
    BY DEF Actor!TypeOK
<1>3. Len(g) \in Nat /\ Len(mailbox[a]) \in Nat /\ Len(mailbox[a]) <= MailboxSize
    BY DEF Actor!TypeOK
<1>4. Len(g) <= MailboxSize
    BY <1>3, ActorParameters
<1> QED BY <1>1, <1>2, <1>4 DEF Actor!TypeOK

LEMMA TaskType ==
    ASSUME Actor!TypeOK, NEW a, NEW r, NEW s \in {"none", "idle", "busy", "cancelled", "ended"},
           task' = [task EXCEPT ![a][r] = s]
    PROVE  task' \in [Members -> [Actor!Runs -> {"none", "idle", "busy", "cancelled", "ended"}]]
BY DEF Actor!TypeOK

LEMMA HandType ==
    ASSUME Actor!TypeOK, NEW a, NEW r, NEW m \in Actor!Message \union {Actor!NoMessage},
           hand' = [hand EXCEPT ![a][r] = m]
    PROVE  hand' \in [Members -> [Actor!Runs -> Actor!Message \union {Actor!NoMessage}]]
BY DEF Actor!TypeOK

LEMMA RoundType ==
    ASSUME ActorInv, Actor!TypeOK, NEW a \in Members, NEW r \in Actor!Runs, Actor!Round(a, r)
    PROVE  Actor!TypeOK'
<1> DEFINE h == mailbox[a]
           rest == Actor!DropExpired(h)
<1>1. UNCHANGED <<registered, expired, made, processing, stopped, run, waits>>
    BY DEF Actor!Round
<1>2. h \in Seq(Actor!Message) /\ Distinct(h) /\ Len(h) \in Nat
    BY DEF ActorInv, MailboxFits
<1>3. LeftOf(rest, h)
    BY <1>2, DropIsLeft
<1>4. rest \in Seq(Actor!Message) /\ Len(rest) <= Len(h) /\ Len(rest) \in Nat /\ Distinct(rest)
    BY <1>2, <1>3, LeftIsShorter DEF LeftOf
<1>5. CASE Actor!SetTask(a, r, "ended") /\ UNCHANGED <<mailbox, hand, handled>>
    BY <1>1, <1>5, TaskType DEF Actor!SetTask, Actor!TypeOK
<1> HIDE DEF rest
<1>6. CASE mailbox' = [mailbox EXCEPT ![a] = rest] /\ UNCHANGED <<task, hand, handled>>
    BY <1>1, <1>4, <1>6, MailboxShrinks DEF Actor!TypeOK
<1>7. CASE rest # <<>> /\ Actor!TakeFrom(a, r, rest)
    <2>1. rest[1] \in Actor!Message /\ rest[1].n \in 1..MaxMessages
        <3>1. rest[1] \in Actor!Message
            BY <1>4, <1>7
        <3> QED BY <3>1, MessageNumbers
    <2>2. LeftOf(Actor!Pop(rest), rest)
        BY <1>4, <1>7, PopIsLeft
    <2>3. Actor!Pop(rest) \in Seq(Actor!Message) /\ Len(Actor!Pop(rest)) <= Len(rest)
        BY <1>4, <2>2, LeftIsShorter DEF LeftOf
    <2>4. Len(Actor!Pop(rest)) <= Len(mailbox[a])
        <3>1. Len(Actor!Pop(rest)) \in Nat
            BY <2>3
        <3> QED BY <1>2, <1>4, <2>3, <3>1
    <2>5. /\ hand' = [hand EXCEPT ![a][r] = rest[1]] /\ handled' = handled \union {<<a, rest[1].n>>}
          /\ mailbox' = [mailbox EXCEPT ![a] = Actor!Pop(rest)]
          /\ task' = [task EXCEPT ![a][r] = "busy"]
        BY <1>7 DEF Actor!TakeFrom, Actor!SetTask
    <2>6. /\ mailbox' \in [Members -> Seq(Actor!Message)]
          /\ \A b \in Members : Len(mailbox'[b]) <= MailboxSize
        BY <2>3, <2>4, <2>5, MailboxShrinks
    <2>7. hand' \in [Members -> [Actor!Runs -> Actor!Message \union {Actor!NoMessage}]]
        BY <2>1, <2>5, HandType
    <2>8. task' \in [Members -> [Actor!Runs -> {"none", "idle", "busy", "cancelled", "ended"}]]
        BY <2>5, TaskType
    <2>9. handled' \subseteq Members \X (1..MaxMessages)
        BY <2>1, <2>5 DEF Actor!TypeOK
    <2> QED BY <1>1, <2>6, <2>7, <2>8, <2>9 DEF Actor!TypeOK
<1> QED BY <1>5, <1>6, <1>7 DEF Actor!Round, rest

LEMMA StopBeginsType ==
    ASSUME Actor!TypeOK, NEW c, NEW a \in Members, Actor!StopBegins(c, a) PROVE Actor!TypeOK'
<1>1. task' \in [Members -> [Actor!Runs -> {"none", "idle", "busy", "cancelled", "ended"}]]
    <2>1. PICK s \in {"ended", "cancelled", task[a][run[a]]} :
                task' = [task EXCEPT ![a][run[a]] = s] /\ s \in {"ended", "cancelled"}
        BY DEF Actor!StopBegins
    <2> QED BY <2>1, TaskType
<1>2. waits' \in [Actor!Callers -> [actor : Members \union {Actor!Nobody}, run : 0..MaxStarts]]
    <2>1. [actor |-> a, run |-> run[a]] \in [actor : Members \union {Actor!Nobody}, run : 0..MaxStarts]
        BY DEF Actor!TypeOK
    <2> QED BY <2>1 DEF Actor!StopBegins, Actor!TypeOK
<1>3. stopped' \in [Members -> BOOLEAN]
    BY DEF Actor!StopBegins, Actor!TypeOK
<1> QED BY <1>1, <1>2, <1>3 DEF Actor!StopBegins, Actor!TypeOK

LEMMA ActorTypesNext ==
    ASSUME ActorInv, Actor!TypeOK, [Actor!Next]_actorVars PROVE Actor!TypeOK'
<1>1. CASE UNCHANGED actorVars
    BY <1>1 DEF actorVars, Actor!TypeOK
<1>2. ASSUME NEW a \in Members, Actor!RegisterActor(a) \/ Actor!UnregisterActor(a)
      PROVE  Actor!TypeOK'
    BY <1>2 DEF Actor!RegisterActor, Actor!UnregisterActor, Actor!actors, Actor!TypeOK
<1>3. ASSUME NEW a \in Members, Actor!Start(a) PROVE Actor!TypeOK'
    <2>1. run' \in [Members -> 0..MaxStarts]
        BY <1>3, ActorParameters DEF Actor!Start, Actor!TypeOK
    <2>2. task' \in [Members -> [Actor!Runs -> {"none", "idle", "busy", "cancelled", "ended"}]]
        BY <1>3, TaskType DEF Actor!Start, Actor!SetTask
    <2>3. processing' \in [Members -> BOOLEAN] /\ stopped' \in [Members -> BOOLEAN]
        BY <1>3 DEF Actor!Start, Actor!TypeOK
    <2> QED BY <1>3, <2>1, <2>2, <2>3 DEF Actor!Start, Actor!TypeOK
<1>4. ASSUME NEW a \in Members, NEW p \in Priorities, NEW k \in Actor!Kinds,
             Actor!RouteMessage(a, p, k)
      PROVE  Actor!TypeOK'
    BY <1>4, DeliverType DEF Actor!RouteMessage
<1>5. ASSUME NEW a \in Members \union {Actor!Nobody}, NEW p \in Priorities,
             Actor!BroadcastMessage(a, p)
      PROVE  Actor!TypeOK'
    BY <1>5, DeliverType DEF Actor!BroadcastMessage, Actor!Kinds
<1>6. ASSUME NEW n \in 1..MaxMessages, Actor!Expires(n) PROVE Actor!TypeOK'
    BY <1>6 DEF Actor!Expires, Actor!actors, Actor!TypeOK
<1>7. ASSUME NEW a \in Members, NEW r \in Actor!Runs, Actor!Round(a, r) PROVE Actor!TypeOK'
    BY <1>7, RoundType
<1>8. ASSUME NEW a \in Members, NEW r \in Actor!Runs,
             Actor!HandlerEnds(a, r) \/ Actor!StopsItself(a, r) \/ Actor!CancelledEnds(a, r)
      PROVE  Actor!TypeOK'
    <2>1. /\ hand' = [hand EXCEPT ![a][r] = Actor!NoMessage]
          /\ \E s \in {"idle", "ended"} : task' = [task EXCEPT ![a][r] = s]
          /\ UNCHANGED <<registered, expired, made, mailbox, run, handled, waits>>
        BY <1>8 DEF Actor!HandlerEnds, Actor!StopsItself, Actor!CancelledEnds, Actor!SetTask
    <2>2. task' \in [Members -> [Actor!Runs -> {"none", "idle", "busy", "cancelled", "ended"}]]
        BY <2>1, TaskType
    <2>3. hand' \in [Members -> [Actor!Runs -> Actor!Message \union {Actor!NoMessage}]]
        BY <2>1, HandType
    <2>4. processing' \in [Members -> BOOLEAN] /\ stopped' \in [Members -> BOOLEAN]
        BY <1>8 DEF Actor!HandlerEnds, Actor!StopsItself, Actor!CancelledEnds, Actor!TypeOK
    <2> QED BY <2>1, <2>2, <2>3, <2>4 DEF Actor!TypeOK
<1>9. ASSUME NEW a \in Members, NEW r \in Actor!Runs, Actor!HandlerStops(a, r) PROVE Actor!TypeOK'
    BY <1>9, StopBeginsType DEF Actor!HandlerStops
<1>10. ASSUME NEW s \in Stoppers, NEW a \in Members, Actor!StopBegins(s, a) PROVE Actor!TypeOK'
    BY <1>10, StopBeginsType
<1>11. ASSUME NEW c \in Actor!Callers, Actor!StopReturns(c) PROVE Actor!TypeOK'
    <2> DEFINE a == waits[c].actor
    <2>1. /\ processing' = [processing EXCEPT ![a] = FALSE]
          /\ waits' = [waits EXCEPT ![c] = Actor!Idle]
          /\ \/ UNCHANGED <<task, hand>>
             \/ /\ task' = [task EXCEPT ![a][c[2]] = "idle"]
                /\ hand' = [hand EXCEPT ![a][c[2]] = Actor!NoMessage]
          /\ UNCHANGED <<registered, expired, made, mailbox, stopped, run, handled>>
        BY <1>11 DEF Actor!StopReturns, Actor!SetTask
    <2> HIDE DEF a
    <2>2. task' \in [Members -> [Actor!Runs -> {"none", "idle", "busy", "cancelled", "ended"}]]
        BY <2>1, TaskType DEF Actor!TypeOK
    <2>3. hand' \in [Members -> [Actor!Runs -> Actor!Message \union {Actor!NoMessage}]]
        BY <2>1, HandType DEF Actor!TypeOK
    <2>4. processing' \in [Members -> BOOLEAN]
        BY <2>1 DEF Actor!TypeOK
    <2>5. waits' \in [Actor!Callers -> [actor : Members \union {Actor!Nobody}, run : 0..MaxStarts]]
        <3>1. Actor!Idle \in [actor : Members \union {Actor!Nobody}, run : 0..MaxStarts]
            BY ActorParameters DEF Actor!Idle
        <3> QED BY <2>1, <3>1 DEF Actor!TypeOK
    <2> QED BY <2>1, <2>2, <2>3, <2>4, <2>5 DEF Actor!TypeOK
<1> QED BY <1>1, <1>2, <1>3, <1>4, <1>5, <1>6, <1>7, <1>8, <1>9, <1>10, <1>11 DEF Actor!Next

\* Nothing is fetched once the process has gone, so that what is fetched is of a run.
RunTypes == Run!TypeOK /\ (stage = "down" => fetching = {})

LEMMA RunCount == \A S : Run!Cardinality(S) = Cardinality(S)
BY Zenon DEF Run!Cardinality, Cardinality

LEMMA RunTypesInit == ASSUME Run!Init PROVE RunTypes
<1>1. runRun \in 0..MaxRuns
    BY RunParameters DEF Run!Init
<1> QED BY <1>1 DEF Run!Init, Run!NoneTracked, RunTypes, Run!TypeOK

\* A process that is there is of a run, and the id made from the time is that run's.
LEMMA RunIsNumbered ==
    ASSUME RunInv, stage # "down"
    PROVE  runRun \in Run!Runs /\ Run!CheckpointId(runRun) \in {Run!CheckpointId(r) : r \in Run!Runs}
<1>1. runRun \in Run!Runs
    BY RunParameters DEF RunInv, StageFits, Run!Runs
<1> QED BY <1>1

LEMMA FileIsTyped == ASSUME RunInv, RunTypes, saves > 0 PROVE Run!SavedAs(FALSE) \in Run!Path
<1>1. stage # "down"
    BY DEF RunInv, StageFits
<1>2. Run!CheckpointId(runRun) \in {Run!CheckpointId(r) : r \in Run!Runs} \union Run!Sessions
    BY <1>1, RunIsNumbered
<1>3. tracked.completed \in SUBSET BatchJobs /\ tracked.failed \in SUBSET BatchJobs
    BY DEF RunTypes, Run!TypeOK
<1>4. runRun \in Run!Runs
    BY <1>1, RunIsNumbered
<1> QED BY <1>2, <1>3, <1>4 DEF Run!SavedAs, Run!Path

LEMMA ManySaves == Run!Cardinality(BatchJobs) \div CheckpointInterval \in Nat
<1>1. Cardinality(BatchJobs) \in Nat
    BY RunParameters, FS_CardinalityType
<1>2. \A n \in Nat, d \in Nat \ {0} : n \div d \in Nat
    OBVIOUS
<1> QED BY <1>1, <1>2, RunCount, RunParameters

LEMMA RunTypesNext == ASSUME RunInv, RunTypes, [Run!Next]_runVars PROVE RunTypes'
<1>1. CASE UNCHANGED runVars
    BY <1>1 DEF runVars, RunTypes, Run!TypeOK
<1>2. CASE Run!Launch
    <2>1. /\ runRun' \in 0..MaxRuns /\ stage' \in {"up", "down"} /\ asked' = FALSE
          /\ stage = "down"
        BY <1>2, RunParameters DEF Run!Launch, RunTypes, Run!TypeOK
    <2>2. UNCHANGED <<session, result, tracked, saves, fetching, manifest, runFiles, outputs,
                      gone, completed, repeated>>
        BY <1>2 DEF Run!Launch, Run!batch, Run!disk, Run!history
    <2> QED BY <2>1, <2>2 DEF RunTypes, Run!TypeOK
<1>3. CASE Run!Die \/ Run!Close
    BY <1>3 DEF Run!Die, Run!Close, Run!Gone, Run!NoneTracked, Run!disk, Run!history, RunTypes,
       Run!TypeOK
<1>4. CASE Run!Signal \/ Run!NoMoreRuns
    BY <1>4 DEF Run!Signal, Run!NoMoreRuns, Run!vars, Run!batch, Run!disk, Run!history, RunTypes,
       Run!TypeOK
<1>5. ASSUME NEW resumed \in BOOLEAN, Run!RunBatch(resumed) PROVE RunTypes'
    <2>1. PICK s \in IF resumed THEN {Run!SessionId(r) : r \in 1..runRun}
                     ELSE {Run!SessionId(runRun)} :
            /\ Run!StartBatch(s)
            /\ result' = [j \in BatchJobs |->
                            IF Run!RemainingConfigs(s) = {} \/ j \in Run!RemainingConfigs(s)
                            THEN "pending" ELSE "completed"]
        BY <1>5 DEF Run!RunBatch
    <2>2. stage = "up" /\ stage' = "batch"
        BY <1>5 DEF Run!RunBatch
    <2>3. s \in Run!Sessions
        <3>1. runRun \in 1..MaxRuns
            BY <2>2, RunIsNumbered DEF Run!Runs
        <3> QED BY <3>1, RunParameters DEF Run!Sessions, Run!Runs
    <2>4. session' \in Run!Sessions \union {Run!Idle} /\ tracked' = Run!NoneTracked
        BY <2>1, <2>3 DEF Run!StartBatch
    <2>5. manifest' \in [Run!Sessions -> {"none", "running", "paused", "completed"}]
        BY <2>1, <2>3 DEF Run!StartBatch, RunTypes, Run!TypeOK
    <2>6. result' \in [BatchJobs -> {"pending", "completed", "error"}]
        BY <2>1
    <2>7. UNCHANGED <<runRun, asked, saves, fetching, runFiles, outputs, gone, completed, repeated>>
        BY <1>5 DEF Run!RunBatch, Run!history
    <2> QED BY <2>2, <2>4, <2>5, <2>6, <2>7 DEF RunTypes, Run!TypeOK, Run!NoneTracked
<1>6. ASSUME NEW j \in BatchJobs, NEW r \in {"completed", "error"}, Run!EndJob(j, r)
      PROVE  RunTypes'
    <2>1. stage = "batch" /\ session \in Run!Sessions
        BY <1>6 DEF Run!EndJob, RunInv, StageFits
    <2>2. completed' \in [Run!Sessions -> SUBSET BatchJobs]
        BY <1>6, <2>1 DEF Run!EndJob, RunTypes, Run!TypeOK
    <2>3. repeated' \subseteq Run!Sessions \X BatchJobs
        BY <1>6, <2>1 DEF Run!EndJob, RunTypes, Run!TypeOK
    <2>4. result' \in [BatchJobs -> {"pending", "completed", "error"}]
        BY <1>6 DEF Run!EndJob, RunTypes, Run!TypeOK
    <2>5. UNCHANGED <<runRun, stage, session, tracked, saves, asked, fetching, manifest, runFiles,
                      outputs, gone>>
        BY <1>6 DEF Run!EndJob, Run!disk
    <2> QED BY <2>2, <2>3, <2>4, <2>5 DEF RunTypes, Run!TypeOK
<1>7. CASE Run!UpdateProgress
    <2>1. tracked' \in [completed : SUBSET BatchJobs, failed : SUBSET BatchJobs]
        BY <1>7 DEF Run!UpdateProgress, Run!With
    <2>2. saves' \in Nat
        BY <1>7, ManySaves DEF Run!UpdateProgress
    <2>3. stage' \in {"outputs", "finish"}
        BY <1>7 DEF Run!UpdateProgress
    <2>4. UNCHANGED <<runRun, session, result, asked, fetching, manifest, runFiles, outputs, gone,
                      completed, repeated>>
        BY <1>7 DEF Run!UpdateProgress, Run!disk, Run!history
    <2> QED BY <2>1, <2>2, <2>3, <2>4 DEF RunTypes, Run!TypeOK
<1>8. CASE Run!SaveCheckpoint
    <2>1. runFiles' \subseteq Run!Path
        BY <1>8, FileIsTyped DEF Run!SaveCheckpoint, Run!Overwrite, RunTypes, Run!TypeOK
    <2>2. saves' \in Nat
        BY <1>8 DEF Run!SaveCheckpoint, RunTypes, Run!TypeOK
    <2>3. UNCHANGED <<runRun, stage, session, result, tracked, asked, fetching, manifest, outputs,
                      gone, completed, repeated>>
        BY <1>8 DEF Run!SaveCheckpoint, Run!history
    <2> QED BY <2>1, <2>2, <2>3 DEF RunTypes, Run!TypeOK
<1>9. ASSUME NEW j \in BatchJobs, Run!Fetch(j) \/ Run!Fetched(j) PROVE RunTypes'
    <2>1. stage # "down" /\ runRun \in Run!Runs
        BY <1>9, RunIsNumbered DEF Run!Fetch, Run!Fetched, RunTypes
    <2>2. UNCHANGED <<runRun, stage, session, result, tracked, saves, asked, manifest, runFiles,
                      completed, repeated>>
        BY <1>9 DEF Run!Fetch, Run!Fetched, Run!disk, Run!history
    <2>3. fetching' \subseteq BatchJobs
        BY <1>9 DEF Run!Fetch, Run!Fetched, RunTypes, Run!TypeOK
    <2>4. outputs' \subseteq Run!Runs \X BatchJobs /\ gone' \subseteq Run!Runs \X BatchJobs
        BY <1>9, <2>1 DEF Run!Fetch, Run!Fetched, Run!disk, RunTypes, Run!TypeOK
    <2> QED BY <2>1, <2>2, <2>3, <2>4 DEF RunTypes, Run!TypeOK
<1>10. CASE Run!ProcessBatch \/ Run!Finalize \/ \E f \in runFiles : Run!CleanUp(f)
    <2>1. manifest' \in [Run!Sessions -> {"none", "running", "paused", "completed"}]
        BY <1>10 DEF Run!ProcessBatch, Run!Finalize, Run!CleanUp, Run!disk, RunTypes, Run!TypeOK
    <2>2. runFiles' \subseteq Run!Path
        BY <1>10 DEF Run!ProcessBatch, Run!Finalize, Run!CleanUp, Run!disk, RunTypes, Run!TypeOK
    <2>3. /\ UNCHANGED <<runRun, session, result, tracked, saves, asked, fetching, outputs, gone,
                         completed, repeated>>
          /\ stage' = stage \/ stage' \in {"finish", "close"}
        BY <1>10 DEF Run!ProcessBatch, Run!Finalize, Run!CleanUp, Run!batch, Run!disk, Run!history
    <2> QED BY <2>1, <2>2, <2>3 DEF RunTypes, Run!TypeOK
<1> QED BY <1>1, <1>2, <1>3, <1>4, <1>5, <1>6, <1>7, <1>8, <1>9, <1>10 DEF Run!Next

\* What is read is a file of each job at most, and add() does not grow the queue past its limit:
\* the queue is longer than that only by what crashes have left on disk.
LettersTypes ==
    /\ lettersMade <= MaxFailures /\ old <= MaxFailures
    /\ Len(entries) <= MaxEntries \/ Len(entries) <= Letters!Cardinality(FailedJobs)
    /\ replaying \subseteq Letters!Entry

LEMMA EntriesTyped ==
    ASSUME LettersInv, LettersTypes PROVE \A i \in DOMAIN entries : entries[i] \in Letters!Entry
<1> SUFFICES ASSUME NEW i \in DOMAIN entries PROVE entries[i] \in Letters!Entry
    OBVIOUS
<1>1. entries[i] \in Letter /\ entries[i].number \in 1..lettersMade
    BY EntryType DEF LettersInv
<1>2. entries[i].number \in Letters!Numbers
    BY <1>1, LettersParameters DEF LettersInv, LettersTypes, Letters!Numbers
<1> QED BY <1>1, <1>2, Zenon DEF Letter, Letters!Entry

LEMMA LettersTyped == ASSUME LettersInv, LettersTypes PROVE Letters!TypeOK
<1>1. entries \in Seq(Letters!Entry)
    <2>1. Len(entries) \in Nat /\ entries = [i \in 1..Len(entries) |-> entries[i]]
        BY DEF LettersInv
    <2>2. \A i \in 1..Len(entries) : entries[i] \in Letters!Entry
        BY EntriesTyped DEF LettersInv
    <2> QED BY <2>1, <2>2
<1>2. files \in [FailedJobs -> {-1, 0} \union Letters!Numbers]
    BY LettersParameters DEF LettersInv, LettersTypes, Letters!Numbers
<1>3. lettersMade \in 0..MaxFailures /\ old \in 0..MaxFailures
    BY LettersParameters DEF LettersInv, LettersTypes
<1> QED BY <1>1, <1>2, <1>3 DEF LettersTypes, Letters!TypeOK

LEMMA LettersTypesInit == ASSUME Letters!Init PROVE LettersTypes
BY LettersParameters DEF Letters!Init, LettersTypes

\* As many entries are read as there are files that are whole.
LEMMA LoadedIsShort ==
    ASSUME NEW fs, NEW n \in Nat, fs \in [FailedJobs -> {-1, 0} \union 1..n], FilesDiffer(fs)
    PROVE  Len(Letters!Loaded(fs)) <= Cardinality(FailedJobs)
<1> DEFINE W == Letters!Whole(fs)
           S == {Letters!Read(fs, j) : j \in W}
           key == [e \in S |-> e.number]
<1>1. W \in SUBSET FailedJobs /\ \A j \in W : fs[j] \in 1..n
    BY DEF Letters!Whole
<1>2. /\ IsFiniteSet(W) /\ Cardinality(W) \in Nat /\ Cardinality(FailedJobs) \in Nat
      /\ Cardinality(W) <= Cardinality(FailedJobs)
    <2> HIDE DEF W
    <2> QED BY <1>1, LettersParameters, FS_Subset, FS_CardinalityType
<1>3. IsFiniteSet(S) /\ Cardinality(S) <= Cardinality(W)
    <2> DEFINE f == [j \in W |-> Letters!Read(fs, j)]
    <2>1. f \in Surjection(W, S)
        BY DEF Surjection
    <2> HIDE DEF W, S, f
    <2> QED BY <1>2, <2>1, FS_Surjection
<1>4. \A e \in S : \E j \in W : e.number = fs[j] /\ e = Letters!Read(fs, j)
    BY DEF Letters!Read
<1>5. /\ DOMAIN key = S /\ \A e \in S : key[e] \in Nat
      /\ \A x, y \in S : key[x] = key[y] => x = y
    BY <1>1, <1>4 DEF FilesDiffer
<1>6. Letters!Loaded(fs) = Letters!InOrder(key)
    BY DEF Letters!Loaded
<1>7. Cardinality(S) \in Nat /\ Letters!Loaded(fs) \in [1..Cardinality(S) -> S]
    <2> HIDE DEF S, key
    <2> QED BY <1>3, <1>5, <1>6, Ordered
<1>8. Len(Letters!Loaded(fs)) = Cardinality(S)
    <2> HIDE DEF S
    <2> QED BY <1>7
<1> QED BY <1>2, <1>3, <1>7, <1>8

\* No more is kept of the queue than there was.
LEMMA KeptIsShort == ASSUME LettersInv, Letters!Cleanup PROVE Len(entries') <= Len(entries)
<1> DEFINE K == {i \in DOMAIN entries : entries[i].number > old}
           key == [i \in K |-> i]
           kept == Letters!InOrder(key)
<1>1. entries' = [n \in DOMAIN kept |-> entries[kept[n]]]
    BY DEF Letters!Cleanup
<1>2. K \in SUBSET (1..Len(entries)) /\ Len(entries) \in Nat
    BY DEF LettersInv
<1>3. /\ IsFiniteSet(K) /\ Cardinality(K) \in Nat /\ Cardinality(K) <= Len(entries)
    <2>1. IsFiniteSet(1..Len(entries)) /\ Cardinality(1..Len(entries)) = Len(entries)
        <3>1. 1 \in Int /\ Len(entries) \in Int
            BY <1>2
        <3>2. /\ IsFiniteSet(1..Len(entries))
              /\ Cardinality(1..Len(entries)) = IF 1 > Len(entries) THEN 0 ELSE Len(entries) - 1 + 1
            BY <3>1, FS_Interval
        <3> QED BY <1>2, <3>2
    <2> HIDE DEF K
    <2> QED BY <1>2, <2>1, FS_Subset, FS_CardinalityType
<1>4. kept \in [1..Cardinality(K) -> K]
    <2>1. DOMAIN key = K /\ \A x \in K : key[x] = x
        OBVIOUS
    <2>2. \A x \in K : key[x] \in Nat
        BY <1>2, <2>1
    <2>3. \A x, y \in K : key[x] = key[y] => x = y
        BY <2>1
    <2> HIDE DEF K, key
    <2> QED BY <1>3, <2>1, <2>2, <2>3, Ordered
<1> HIDE DEF K, kept
<1>5. DOMAIN entries' = 1..Cardinality(K)
    BY <1>1, <1>4
<1>6. entries' \in Seq(Letter)
    BY CleanupKeeps DEF LettersInv
<1>7. Len(entries') = Cardinality(K)
    BY <1>3, <1>5, <1>6
<1> QED BY <1>3, <1>7

LEMMA LettersTypesNext ==
    ASSUME LettersInv, LettersTypes, [Letters!Next]_lettersVars PROVE LettersTypes'
<1>1. CASE UNCHANGED lettersVars
    BY <1>1 DEF lettersVars, LettersTypes
<1>2. ASSUME NEW j \in FailedJobs, Letters!Add(j) PROVE LettersTypes'
    <2> DEFINE e == [job |-> j, number |-> lettersMade + 1]
               appended == Append(entries, e)
    <2>1. /\ lettersMade < MaxFailures /\ lettersMade' = lettersMade + 1
          /\ IF Len(appended) > MaxEntries THEN entries' = Tail(appended) ELSE entries' = appended
          /\ UNCHANGED <<old, replaying>>
        BY <1>2 DEF Letters!Add
    <2>2. e \in Letter
        <3>1. lettersMade + 1 \in Nat \ {0}
            BY DEF LettersInv
        <3> QED BY <3>1, Zenon DEF Letter
    <2> HIDE DEF e
    <2>3. /\ Len(appended) = Len(entries) + 1 /\ Len(entries) \in Nat
          /\ Len(Tail(appended)) = Len(entries)
        <3>1. appended \in Seq(Letter) /\ Len(appended) = Len(entries) + 1 /\ Len(entries) \in Nat
            BY <2>2 DEF LettersInv
        <3> QED BY <3>1
    <2>4. Len(entries') <= MaxEntries \/ Len(entries') <= Letters!Cardinality(FailedJobs)
        <3> HIDE DEF appended
        <3> QED BY <2>1, <2>3, LettersParameters DEF LettersTypes
    <2>5. lettersMade' <= MaxFailures
        BY <2>1, LettersParameters DEF LettersInv
    <2> QED BY <2>1, <2>4, <2>5 DEF LettersTypes
<1>3. ASSUME NEW j \in FailedJobs, Letters!Replay(j) PROVE LettersTypes'
    BY <1>3, EntriesTyped DEF Letters!Replay, LettersTypes
<1>4. ASSUME NEW e \in replaying, Letters!Replayed(e) PROVE LettersTypes'
    BY <1>4 DEF Letters!Replayed, LettersTypes
<1>5. CASE Letters!Age
    BY <1>5, LettersParameters DEF Letters!Age, LettersInv, LettersTypes
<1>6. CASE Letters!Cleanup
    <2>1. Len(entries') <= Len(entries) /\ Len(entries) \in Nat /\ Len(entries') \in Nat
        BY <1>6, KeptIsShort, CleanupKeeps DEF LettersInv
    <2>2. Letters!Cardinality(FailedJobs) \in Nat
        BY LettersParameters, LettersCount, FS_CardinalityType
    <2>3. Len(entries') <= MaxEntries \/ Len(entries') <= Letters!Cardinality(FailedJobs)
        BY <2>1, <2>2, LettersParameters DEF LettersTypes
    <2> QED BY <1>6, <2>3 DEF Letters!Cleanup, LettersTypes
<1>7. CASE Letters!Load \/ Letters!Crash
    <2>1. entries' = Letters!Loaded(files') /\ old' = old
        BY <1>7 DEF Letters!Load, Letters!Crash
    <2>2. LettersInv'
        BY <1>7, LoadKeeps, CrashKeeps
    <2>3. FilesDiffer(files')
        <3>1. CASE Letters!Load
            BY <3>1, InvDiffers DEF Letters!Load, FilesDiffer
        <3>2. CASE Letters!Crash
            BY <3>2, CrashKeeps
        <3> QED BY <1>7, <3>1, <3>2
    <2>4. Len(entries') <= Cardinality(FailedJobs)
        BY <2>1, <2>2, <2>3, LoadedIsShort DEF LettersInv
    <2>5. lettersMade' <= MaxFailures
        BY <1>7, LettersParameters DEF Letters!Load, Letters!Crash, LettersInv, LettersTypes
    <2>6. replaying' \subseteq Letters!Entry
        BY <1>7 DEF Letters!Load, Letters!Crash, LettersTypes
    <2> QED BY <2>1, <2>4, <2>5, <2>6, LettersCount DEF LettersTypes
<1> QED BY <1>1, <1>2, <1>3, <1>4, <1>5, <1>6, <1>7 DEF Letters!Next

\* A list of models that are not more than there are.
Short == {s \in Seq(Names) : Len(s) <= Cardinality(Names)}

\* What is asked for is a model, or nothing.
Called == Names \union {""}

\* What the cache invariant leaves out: whoever unloads has something left to unload, and an
\* entry refers to an object, alive or not.
CacheTypes ==
    /\ policy \in Policies
    /\ lock \in Cache!Tasks \union {Cache!Free}
    /\ at \in [Cache!Tasks ->
                {"idle", "loading", "insert", "stuck", "unload", "unloading", "ended"}]
    /\ name \in [CacheCallers -> Called]
    /\ unloaded \subseteq Cache!Objects
    /\ victims \in [{Cache!Monitor, Cache!Closer} -> Short]
    /\ last \in Called /\ pressure \in 0..MaxPressure
    /\ \A u \in {Cache!Monitor, Cache!Closer} : at[u] \in {"unload", "unloading"} => victims[u] # <<>>
    /\ \A n \in Cache!ToSet(cache) : ref[n] # Cache!None

LEMMA NamesCount == Cardinality(Names) \in Nat /\ Cache!Cardinality(Names) = Cardinality(Names)
BY CacheParameters, FS_CardinalityType, CacheCount

LEMMA ShortIsSeqOf == ASSUME NEW s \in Short PROVE s \in Cache!SeqOf(Names, Cache!Cardinality(Names))
<1>1. s \in [1..Len(s) -> Names] /\ Len(s) \in 0..Cardinality(Names)
    BY NamesCount DEF Short
<1> QED BY <1>1, NamesCount DEF Cache!SeqOf

\* A model is in the cache once, so that the cache is not longer than there are models.
LEMMA CacheIsShort == ASSUME CacheInv PROVE cache \in Short
<1>1. cache \in Seq(Names) /\ Len(cache) \in Nat
    BY DEF CacheInv
<1>2. cache \in Injection(1..Len(cache), Names)
    BY <1>1 DEF CacheInv, Injection, IsInjective
<1>3. Cardinality(1..Len(cache)) <= Cardinality(Names)
    BY <1>2, CacheParameters, FS_Injection
<1>4. Cardinality(1..Len(cache)) = Len(cache)
    <2>1. 1 \in Int /\ Len(cache) \in Int
        BY <1>1
    <2>2. Cardinality(1..Len(cache)) = IF 1 > Len(cache) THEN 0 ELSE Len(cache) - 1 + 1
        BY <2>1, FS_Interval
    <2> QED BY <1>1, <2>2
<1> QED BY <1>1, <1>3, <1>4 DEF Short

\* No more memory is counted than all the models take.
LEMMA MemoryFits ==
    ASSUME CacheInv
    PROVE  memory \in 0..Cache!Cardinality(UNION {{n} \X (1..ModelSize[n]) : n \in Names})
<1>1. Cache!ToSet(cache) \in SUBSET Names
    BY DEF CacheInv, Cache!ToSet
<1>2. Units(Cache!ToSet(cache)) \in SUBSET Units(Names)
    BY <1>1 DEF Units
<1>3. IsFiniteSet(Units(Names))
    BY UnitsFinite
<1>4. /\ Cardinality(Units(Cache!ToSet(cache))) \in Nat /\ Cardinality(Units(Names)) \in Nat
      /\ Cardinality(Units(Cache!ToSet(cache))) <= Cardinality(Units(Names))
    BY <1>2, <1>3, FS_Subset, FS_CardinalityType
<1>5. memory = Cardinality(Units(Cache!ToSet(cache)))
    BY MemoryUnits DEF CacheInv
<1>6. memory \in 0..Cardinality(Units(Names))
    BY <1>4, <1>5
<1> QED BY <1>6, CacheCount DEF Units

LEMMA NothingIsCalled == "" \in Called /\ Names \subseteq Called
BY Zenon DEF Called

LEMMA CacheTyped == ASSUME CacheInv, CacheTypes PROVE Cache!TypeOK
<1>1. cache \in Cache!SeqOf(Names, Cache!Cardinality(Names))
    BY CacheIsShort, ShortIsSeqOf
<1>2. victims \in [{Cache!Monitor, Cache!Closer} -> Cache!SeqOf(Names, Cache!Cardinality(Names))]
    BY ShortIsSeqOf DEF CacheTypes
<1>3. Cache!IsInjective(cache)
    BY DEF CacheInv, Cache!IsInjective
<1>4. memory \in 0..Cache!Cardinality(UNION {{n} \X (1..ModelSize[n]) : n \in Names})
    BY MemoryFits
<1>5. name \in [CacheCallers -> Names \union {""}] /\ last \in Names \union {""}
    BY Zenon DEF CacheTypes, Called
<1> QED BY <1>1, <1>2, <1>3, <1>4, <1>5, Zenon DEF CacheInv, CacheTypes, Cache!TypeOK

LEMMA CacheTypesInit == ASSUME Cache!Init PROVE CacheTypes
<1>1. <<>> \in Short
    BY NamesCount DEF Short
<1>2. /\ policy \in Policies /\ lock = Cache!Free /\ unloaded = {} /\ cache = <<>> /\ pressure = 0
      /\ at = [t \in Cache!Tasks |-> "idle"]
      /\ victims = [u \in {Cache!Monitor, Cache!Closer} |-> <<>>]
    BY Zenon DEF Cache!Init
<1>3. name = [t \in CacheCallers |-> ""] /\ last = ""
    BY Zenon DEF Cache!Init
<1>4. name \in [CacheCallers -> Called] /\ last \in Called
    BY <1>3, NothingIsCalled, Zenon
<1>5. \A u \in {Cache!Monitor, Cache!Closer} : at[u] = "idle"
    BY <1>2, TasksFinite
<1>6. Cache!ToSet(cache) = {}
    BY <1>2 DEF Cache!ToSet
<1>7. pressure \in 0..MaxPressure
    BY <1>2, CacheParameters
<1> QED BY <1>1, <1>2, <1>4, <1>5, <1>6, <1>7 DEF CacheTypes

\* A task that calls get_model() does not change what is to be unloaded.
LEMMA CallerTypes ==
    ASSUME CacheInv, CacheTypes, NEW t \in CacheCallers,
           Cache!GetModel(t) \/ Cache!Load(t) \/ Cache!Insert(t) \/ Cache!Drop(t)
    PROVE  CacheTypes'
<1>1. UNCHANGED <<policy, victims, last, pressure>> /\ t \in Cache!Tasks
    BY TasksFinite DEF Cache!GetModel, Cache!Load, Cache!Insert, Cache!Drop
<1>2. \E x \in {"idle", "loading", "insert", "stuck"} : at' = [at EXCEPT ![t] = x]
    <2>1. CASE Cache!GetModel(t)
        BY <2>1 DEF Cache!GetModel, Cache!Hit, Cache!Miss, Cache!Return, Cache!Goto
    <2>2. CASE Cache!Load(t)
        BY <2>2 DEF Cache!Load, Cache!Return, Cache!Goto
    <2>3. CASE Cache!Insert(t)
        BY <2>3 DEF Cache!Insert, Cache!Return, Cache!Goto
    <2>4. CASE Cache!Drop(t)
        <3>1. at' = at /\ at[t] = "idle"
            BY <2>4 DEF Cache!Drop
        <3>2. at = [at EXCEPT ![t] = "idle"]
            BY <1>1, <3>1 DEF CacheTypes
        <3> QED BY <3>1, <3>2
    <2> QED BY <2>1, <2>2, <2>3, <2>4
<1>3. at' \in [Cache!Tasks ->
                {"idle", "loading", "insert", "stuck", "unload", "unloading", "ended"}]
    BY <1>2 DEF CacheTypes
<1>4. \A u \in {Cache!Monitor, Cache!Closer} : at'[u] = at[u]
    BY <1>2, TasksFinite DEF CacheTypes
<1>5. name' \in [CacheCallers -> Called]
    <2>1. \E n \in Called : name' = name \/ name' = [name EXCEPT ![t] = n]
        <3>1. CASE Cache!GetModel(t)
            BY <3>1, NothingIsCalled, Zenon DEF Cache!GetModel, Cache!Hit, Cache!Miss
        <3>2. CASE Cache!Load(t) \/ Cache!Insert(t) \/ Cache!Drop(t)
            BY <3>2, NothingIsCalled, Zenon DEF Cache!Load, Cache!Insert, Cache!Drop
        <3> QED BY <3>1, <3>2
    <2> QED BY <2>1 DEF CacheTypes
<1>6. lock' \in Cache!Tasks \union {Cache!Free}
    BY <1>1 DEF Cache!GetModel, Cache!Load, Cache!Insert, Cache!Drop, CacheTypes
<1>7. unloaded' \subseteq Cache!Objects
    <2>1. at[t] = "insert" => held[t] \in Cache!Objects
        BY DEF CacheInv, LoadersFit
    <2>2. \/ unloaded' \subseteq unloaded
          \/ at[t] = "insert" /\ unloaded' = unloaded \union {held[t]}
        <3>1. CASE Cache!GetModel(t) \/ Cache!Drop(t)
            BY <3>1 DEF Cache!GetModel, Cache!Drop
        <3>2. CASE Cache!Load(t)
            <4>1. unloaded' = unloaded \ {Cache!Fresh} \/ unloaded' = unloaded
                BY <3>2, Zenon DEF Cache!Load
            <4> QED BY <4>1
        <3>3. CASE Cache!Insert(t)
            <4>1. /\ at[t] = "insert"
                  /\ unloaded' = unloaded \/ unloaded' = unloaded \union {held[t]}
                BY <3>3, Zenon DEF Cache!Insert
            <4> QED BY <4>1
        <3> QED BY <3>1, <3>2, <3>3
    <2> QED BY <2>1, <2>2 DEF CacheTypes
<1>8. \A n \in Cache!ToSet(cache') : ref'[n] # Cache!None
    <2>1. CASE Cache!GetModel(t)
        <3>1. ref' = ref
            BY <2>1 DEF Cache!GetModel
        <3>2. PICK n \in Names : Cache!Hit(t, n) \/ Cache!Miss(t, n)
            BY <2>1 DEF Cache!GetModel
        <3>3. CASE Cache!Hit(t, n)
            <4>1. Cache!Cached(n) /\ n \in Cache!ToSet(cache) /\ cache' = Append(Cache!Without(n), n)
                BY <3>3 DEF Cache!Hit, Cache!Cached
            <4>2. /\ Cache!Without(n) \in Seq(Names)
                  /\ \A i, k \in DOMAIN Cache!Without(n) :
                        Cache!Without(n)[i] = Cache!Without(n)[k] => i = k
                  /\ Cache!ToSet(Cache!Without(n)) = Cache!ToSet(cache) \ {n}
                BY <4>1, WithoutKey DEF CacheInv
            <4>3. Cache!ToSet(cache') = Cache!ToSet(cache)
                <5>1. n \notin Cache!ToSet(Cache!Without(n))
                    BY <4>2
                <5> HIDE DEF Cache!Without
                <5>2. Cache!ToSet(cache') = Cache!ToSet(Cache!Without(n)) \union {n}
                    BY <4>1, <4>2, <5>1, AppendedKey
                <5> QED BY <4>1, <4>2, <5>2
            <4> QED BY <3>1, <4>3 DEF CacheTypes
        <3>4. CASE Cache!Miss(t, n)
            BY <3>1, <3>4 DEF Cache!Miss, CacheTypes
        <3> QED BY <3>2, <3>3, <3>4
    <2>2. CASE Cache!Load(t) \/ Cache!Drop(t)
        BY <2>2 DEF Cache!Load, Cache!Drop, Cache!entries, CacheTypes
    <2>3. CASE Cache!Insert(t)
        <3> DEFINE n == name[t]
        <3>1. /\ held[t] \in Cache!Objects /\ n \in Names
            BY <2>3 DEF Cache!Insert, CacheInv, LoadersFit
        <3>2. CASE UNCHANGED <<cache, ref, memory>>
            BY <3>2 DEF CacheTypes
        <3>3. CASE /\ ~Cache!Cached(n) /\ cache' = Append(cache, n)
                   /\ ref' = [ref EXCEPT ![n] = held[t]]
            <4>1. n \notin Cache!ToSet(cache)
                BY <3>3 DEF Cache!Cached
            <4>2. Cache!ToSet(cache') = Cache!ToSet(cache) \union {n}
                BY <3>1, <3>3, <4>1, AppendedKey DEF CacheInv
            <4>3. Cache!None \notin Cache!Objects
                BY DEF Cache!None, Cache!Objects
            <4>4. \A m \in Cache!ToSet(cache) : ref'[m] = ref[m]
                BY <3>3, <4>1 DEF CacheInv
            <4>5. ref'[n] = held[t]
                BY <3>1, <3>3 DEF CacheInv
            <4> QED BY <3>1, <4>2, <4>3, <4>4, <4>5 DEF CacheTypes
        <3> QED BY <2>3, <3>2, <3>3 DEF Cache!Insert, Cache!entries
    <2> QED BY <2>1, <2>2, <2>3
<1> QED BY <1>1, <1>3, <1>4, <1>5, <1>6, <1>7, <1>8 DEF CacheTypes

LEMMA TailOfMany == ASSUME NEW s \in Seq(Names), Len(s) > 1 PROVE Tail(s) # <<>>
<1>1. Len(Tail(s)) = Len(s) - 1 /\ Len(s) \in Nat /\ Tail(s) \in Seq(Names)
    OBVIOUS
<1>2. Len(Tail(s)) \in Nat \ {0}
    BY <1>1
<1>3. Len(<<>>) = 0
    OBVIOUS
<1> QED BY <1>2, <1>3, Zenon

\* What is left to unload after the first of several is not nothing.
LEMMA UnloaderTypes ==
    ASSUME CacheInv, CacheTypes, NEW u \in {Cache!Monitor, Cache!Closer},
           Cache!Unload(u) \/ Cache!Unloaded(u)
    PROVE  CacheTypes'
<1> DEFINE n == Head(victims[u])
<1>1. /\ UNCHANGED <<policy, name, last, pressure>> /\ u \in Cache!Tasks
      /\ at[u] \in {"unload", "unloading"}
    BY TasksFinite DEF Cache!Unload, Cache!Unloaded
<1>2. victims[u] \in Seq(Names) /\ Len(victims[u]) <= Cardinality(Names) /\ victims[u] # <<>>
    BY <1>1 DEF CacheTypes, Short
<1>3. CASE /\ Cache!Cached(n) /\ Cache!Alive(ref[n]) /\ unloaded' = unloaded \union {ref[n]}
           /\ lock' = u /\ Cache!Goto(u, "unloading") /\ UNCHANGED <<cache, ref, memory, victims>>
    <2>1. ref[n] \in Cache!Objects
        <3>1. n \in Cache!ToSet(cache) /\ n \in Names
            BY <1>3 DEF Cache!Cached, Cache!ToSet, CacheInv
        <3> QED BY <3>1 DEF CacheInv, CacheTypes
    <2>2. /\ at' = [at EXCEPT ![u] = "unloading"]
          /\ \A v \in {Cache!Monitor, Cache!Closer} : at'[v] # at[v] => v = u
        BY <1>1, <1>3 DEF Cache!Goto, CacheTypes
    <2>3. \A v \in {Cache!Monitor, Cache!Closer} : at'[v] \in {"unload", "unloading"} => victims'[v] # <<>>
        BY <1>2, <1>3, <2>2 DEF CacheTypes
    <2> QED BY <1>1, <1>3, <2>1, <2>2, <2>3 DEF CacheTypes
<1>4. CASE /\ (Cache!Delete(n) /\ Cache!Cached(n)) \/ UNCHANGED <<cache, ref, memory>>
           /\ Cache!Next1(u) /\ Cache!Done1(u) /\ lock' \in {lock, Cache!Free}
           /\ unloaded' = unloaded
    <2>1. /\ victims' = [victims EXCEPT ![u] = Tail(victims[u])]
          /\ Tail(victims[u]) \in Short
          /\ Len(victims[u]) > 1 => Tail(victims[u]) # <<>>
        <3>1. /\ Tail(victims[u]) \in Seq(Names) /\ Len(Tail(victims[u])) = Len(victims[u]) - 1
              /\ Len(victims[u]) \in Nat
            BY <1>2
        <3>2. victims' = [victims EXCEPT ![u] = Tail(victims[u])]
            BY <1>4 DEF Cache!Done1
        <3>3. Tail(victims[u]) \in Short
            BY <1>2, <3>1, NamesCount DEF Short
        <3>4. Len(victims[u]) > 1 => Tail(victims[u]) # <<>>
            BY <1>2, TailOfMany
        <3> QED BY <3>2, <3>3, <3>4
    <2>2. /\ at' = [at EXCEPT ![u] = IF Len(victims[u]) > 1 THEN "unload"
                                     ELSE IF u = Cache!Closer THEN "ended" ELSE "idle"]
        BY <1>4 DEF Cache!Next1, Cache!Goto
    <2>3. /\ at' \in [Cache!Tasks ->
                        {"idle", "loading", "insert", "stuck", "unload", "unloading", "ended"}]
          /\ victims' \in [{Cache!Monitor, Cache!Closer} -> Short]
        BY <2>1, <2>2 DEF CacheTypes
    <2>4. \A v \in {Cache!Monitor, Cache!Closer} : at'[v] \in {"unload", "unloading"} => victims'[v] # <<>>
        <3> SUFFICES ASSUME NEW v \in {Cache!Monitor, Cache!Closer}, at'[v] \in {"unload", "unloading"}
                     PROVE  victims'[v] # <<>>
            OBVIOUS
        <3>1. CASE v = u
            <4>1. at'[u] = IF Len(victims[u]) > 1 THEN "unload"
                           ELSE IF u = Cache!Closer THEN "ended" ELSE "idle"
                BY <1>1, <2>2 DEF CacheTypes
            <4>2. Len(victims[u]) > 1
                BY <3>1, <4>1
            <4>3. victims'[u] = Tail(victims[u])
                BY <2>1 DEF CacheTypes
            <4> QED BY <2>1, <3>1, <4>2, <4>3
        <3>2. CASE v # u
            <4>1. at'[v] = at[v] /\ victims'[v] = victims[v]
                BY <2>1, <2>2, <3>2 DEF CacheTypes
            <4> QED BY <4>1 DEF CacheTypes
        <3> QED BY <3>1, <3>2
    <2>5. \A m \in Cache!ToSet(cache') : ref'[m] # Cache!None
        <3>1. CASE Cache!Delete(n) /\ Cache!Cached(n)
            <4> HIDE DEF n
            <4>1. /\ Cache!ToSet(cache') = Cache!ToSet(cache) \ {n}
                  /\ \A m \in Cache!ToSet(cache') : ref'[m] = ref[m]
                BY <3>1, DeleteKeeps
            <4> QED BY <4>1 DEF CacheTypes
        <3>2. CASE UNCHANGED <<cache, ref, memory>>
            BY <3>2 DEF CacheTypes
        <3> QED BY <1>4, <3>1, <3>2
    <2> QED BY <1>1, <1>4, <2>3, <2>4, <2>5 DEF CacheTypes
<1>5. CASE Cache!Unloaded(u)
    <2>1. Cache!Cached(n)
        BY <1>5 DEF Cache!Unloaded, CacheInv, UnloadersLock
    <2> QED BY <1>4, <1>5, <2>1 DEF Cache!Unloaded
<1>6. CASE Cache!Unload(u)
    BY <1>3, <1>4, <1>6 DEF Cache!Unload, Cache!entries
<1> QED BY <1>5, <1>6

\* The monitor chooses among what is cached, and what it has chosen before.
LEMMA ChosenIsShort ==
    ASSUME CacheInv, CacheTypes,
           NEW vs, \/ vs \in {SubSeq(cache, 1, Len(cache) \div 2), <<>>}
                   \/ cache # <<>> /\ vs = <<cache[1]>>
                   \/ last \in Names /\ vs = <<last>>
    PROVE  vs \in Short /\ (vs # <<>> => vs[Len(vs)] \in Names)
<1>1. cache \in Seq(Names) /\ Len(cache) \in Nat /\ Len(cache) <= Cardinality(Names)
    <2>1. cache \in Short
        BY CacheIsShort
    <2> QED BY <2>1 DEF Short
<1>2. ASSUME NEW n \in Names PROVE <<n>> \in Short
    <2>1. Cardinality(Names) # 0
        BY <1>2, CacheParameters, FS_EmptySet
    <2> QED BY <2>1, NamesCount DEF Short
<1>3. SubSeq(cache, 1, Len(cache) \div 2) \in Short
    <2> DEFINE k == Len(cache) \div 2
               s == SubSeq(cache, 1, k)
    <2>1. k \in Nat /\ k <= Len(cache)
        BY <1>1
    <2> HIDE DEF k
    <2>2. s \in Seq(Names) /\ Len(s) = k
        BY <1>1, <2>1
    <2> HIDE DEF s
    <2>3. s \in Short
        BY <1>1, <2>1, <2>2, NamesCount DEF Short
    <2> QED BY <2>3 DEF s, k
<1>4. vs \in Short
    <2>1. <<>> \in Short
        BY NamesCount DEF Short
    <2>2. cache # <<>> => cache[1] \in Names
        BY <1>1
    <2> QED BY <1>2, <1>3, <2>1, <2>2
<1> QED BY <1>4 DEF Short

LEMMA ChooserTypes ==
    ASSUME CacheInv, CacheTypes, Cache!Squeeze \/ Cache!StopMonitor \/ Cache!Clear \/ Cache!Rest
    PROVE  CacheTypes'
<1>1. ASSUME NEW u \in {Cache!Monitor, Cache!Closer}, NEW vs \in Short,
             NEW x \in {"unload", "idle", "ended"}, x = "unload" => vs # <<>>,
             at' = [at EXCEPT ![u] = x], victims' = [victims EXCEPT ![u] = vs],
             lock' \in {lock, Cache!Free},
             last' \in Called, pressure' \in 0..MaxPressure,
             UNCHANGED <<policy, cache, ref, name, unloaded>>
      PROVE  CacheTypes'
    <2>1. u \in Cache!Tasks
        BY TasksFinite
    <2>2. /\ at' \in [Cache!Tasks ->
                        {"idle", "loading", "insert", "stuck", "unload", "unloading", "ended"}]
          /\ victims' \in [{Cache!Monitor, Cache!Closer} -> Short]
        BY <1>1 DEF CacheTypes
    <2>3. \A v \in {Cache!Monitor, Cache!Closer} : at'[v] \in {"unload", "unloading"} => victims'[v] # <<>>
        BY <1>1, <2>1 DEF CacheTypes
    <2> QED BY <1>1, <2>2, <2>3 DEF CacheTypes
<1>2. CASE Cache!Squeeze
    <2>1. pressure < MaxPressure /\ pressure' = pressure + 1
        BY <1>2, Zenon DEF Cache!Squeeze
    <2>2. pressure' \in 0..MaxPressure
        BY <2>1, CacheParameters DEF CacheTypes
    <2>3. PICK vs \in {SubSeq(cache, 1, Len(cache) \div 2),
                       IF cache # <<>> THEN <<cache[1]>>
                       ELSE IF last # "" THEN <<last>> ELSE <<>>} :
            /\ victims' = [victims EXCEPT ![Cache!Monitor] = vs]
            /\ last' = IF vs # <<>> THEN vs[Len(vs)] ELSE last
            /\ at' = [at EXCEPT ![Cache!Monitor] = IF vs # <<>> THEN "unload" ELSE "idle"]
        BY <1>2 DEF Cache!Squeeze, Cache!Goto
    <2>4. vs \in Short /\ (vs # <<>> => vs[Len(vs)] \in Names)
        <3>1. last # "" => last \in Names
            BY Zenon DEF CacheTypes, Called
        <3>2. \/ vs \in {SubSeq(cache, 1, Len(cache) \div 2), <<>>}
              \/ cache # <<>> /\ vs = <<cache[1]>>
              \/ last \in Names /\ vs = <<last>>
            BY <2>3, <3>1, Zenon
        <3> QED BY <3>2, ChosenIsShort
    <2>5. last' \in Called
        BY <2>3, <2>4, NothingIsCalled, Zenon DEF CacheTypes
    <2>6. UNCHANGED <<policy, cache, ref, name, unloaded, lock>>
        BY <1>2, Zenon DEF Cache!Squeeze, Cache!entries
    <2>7. /\ victims' = [victims EXCEPT ![Cache!Monitor] = vs]
          /\ at' = [at EXCEPT ![Cache!Monitor] = IF vs # <<>> THEN "unload" ELSE "idle"]
        BY <2>3, Zenon
    <2> QED BY <1>1, <2>2, <2>4, <2>5, <2>6, <2>7
<1>3. CASE Cache!StopMonitor
    <2>1. <<>> \in Short
        BY NamesCount DEF Short
    <2>2. /\ at' = [at EXCEPT ![Cache!Monitor] = "ended"]
          /\ victims' = [victims EXCEPT ![Cache!Monitor] = <<>>]
          /\ lock' \in {lock, Cache!Free} /\ UNCHANGED <<policy, cache, ref, name, unloaded>>
          /\ last' \in Called /\ pressure' \in 0..MaxPressure
        BY <1>3 DEF Cache!StopMonitor, Cache!Goto, Cache!entries, CacheTypes
    <2> QED BY <1>1, <2>1, <2>2
<1>4. CASE Cache!Clear
    <2>1. /\ at' = [at EXCEPT ![Cache!Closer] = IF cache # <<>> THEN "unload" ELSE "ended"]
          /\ victims' = [victims EXCEPT ![Cache!Closer] = cache]
          /\ lock' = lock /\ UNCHANGED <<policy, cache, ref, name, unloaded>>
          /\ last' \in Called /\ pressure' \in 0..MaxPressure
        BY <1>4 DEF Cache!Clear, Cache!Goto, Cache!entries, CacheTypes
    <2> QED BY <1>1, <2>1, CacheIsShort
<1>5. CASE Cache!Rest
    BY <1>5 DEF Cache!Rest, Cache!vars, Cache!entries, CacheTypes
<1> QED BY <1>2, <1>3, <1>4, <1>5

LEMMA CacheTypesNext == ASSUME CacheInv, CacheTypes, [Cache!Next]_cacheVars PROVE CacheTypes'
<1>1. CASE UNCHANGED cacheVars
    BY <1>1 DEF cacheVars, CacheTypes
<1>2. ASSUME NEW t \in CacheCallers,
             Cache!GetModel(t) \/ Cache!Load(t) \/ Cache!Insert(t) \/ Cache!Drop(t)
      PROVE  CacheTypes'
    BY <1>2, CallerTypes
<1>3. ASSUME NEW u \in {Cache!Monitor, Cache!Closer}, Cache!Unload(u) \/ Cache!Unloaded(u)
      PROVE  CacheTypes'
    BY <1>3, UnloaderTypes
<1>4. CASE Cache!Squeeze \/ Cache!StopMonitor \/ Cache!Clear \/ Cache!Rest
    BY <1>4, ChooserTypes
<1> QED BY <1>1, <1>2, <1>3, <1>4 DEF Cache!Next

-----------------------------------------------------------------------------
(* The types of the services together.                                     *)

\* What every service keeps, and the types that rest on it.
ServicesInv ==
    /\ CacheInv /\ StreamInv /\ ActorInv /\ LettersInv /\ BatchInv
    /\ QueueInv /\ RunInv /\ GeneticInv /\ TrialInv /\ GitInv

ServicesTypes ==
    /\ CacheTypes /\ Actor!TypeOK /\ LettersTypes /\ BatchTypes
    /\ QueueTypes /\ RunTypes /\ GeneticTypes /\ TrialTypes /\ GitTypes

\* For any parameters, every variable of every service has its type: no more items are read
\* than there are (batch.py), no more jobs wait in the queue than it is long (queue.py), a
\* mailbox holds messages that were made (actor/base.py), what an unloader of the model cache
\* takes is a model (model_cache.py), a checkpoint file is of a run (checkpoint_resume.py), and
\* the queue of dead letters is longer than max_entries only by what crashes left on disk
\* (dead_letter_queue.py).
THEOREM TypeCorrect == Spec => []TypeOK
<1> DEFINE Inv == ServicesInv /\ ServicesTypes
<1>1. Init => Inv
    BY CacheInit, StreamInit, ActorInit, LettersInit, BatchInit, QueueInit, RunInit, GeneticInit,
       TrialInit, GitInit, CacheTypesInit, ActorTypesInit, LettersTypesInit, BatchTypesInit,
       QueueTypesInit, RunTypesInit, GeneticTypesInit, TrialTypesInit, GitTypesInit
       DEF Init, ServicesInv, ServicesTypes
<1>2. Inv /\ [Next]_vars => Inv'
    <2> SUFFICES ASSUME Inv, [Next]_vars PROVE Inv'
        OBVIOUS
    <2>1. ServicesInv'
        BY Steps, CacheNext, StreamNext, ActorNext, LettersNext, BatchNext, QueueNext, RunNext,
           GeneticNext, TrialNext, GitNext DEF ServicesInv
    <2>2. ServicesTypes'
        BY Steps, CacheTypesNext, ActorTypesNext, LettersTypesNext, BatchTypesNext,
           QueueTypesNext, RunTypesNext, GeneticTypesNext, TrialTypesNext, GitTypesNext
           DEF ServicesInv, ServicesTypes
    <2> QED BY <2>1, <2>2
<1>3. Inv => TypeOK
    BY CacheTyped, LettersTyped, BatchTyped, QueueTyped, TrialTyped
       DEF ServicesInv, ServicesTypes, StreamInv, RunTypes, GeneticTypes, GitTypes, TypeOK
<1> HIDE DEF Inv
<1> QED BY <1>1, <1>2, <1>3, PTL DEF Spec
=============================================================================
