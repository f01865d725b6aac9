---------------------------- MODULE AnswersProofs ----------------------------
(***************************************************************************)
(* The types of the worker pool, the shutdown, the GPU pools and the API   *)
(* server, and what is over with: however many signals come in, each       *)
(* cleanup callback runs at most once and after the drains; a key whose    *)
(* revocation was answered stays revoked, for any number of keys, of       *)
(* requests that save the table at the same time, and of crashes.          *)
(***************************************************************************)
EXTENDS MCAnswers, TLAPS

-----------------------------------------------------------------------------
(* The worker pool.                                                        *)

LEMMA PoolInit == ASSUME Pool!Init PROVE Pool!TypeOK
BY CountsAreNumbers DEF Pool!Init, Pool!TypeOK

\* Processes that crash and are replaced.
LEMMA SlotsTyped ==
    ASSUME Pool!TypeOK, NEW w \in Workers,
           \/ Pool!MarkUnhealthy(w) \/ Pool!Restart(w)
           \/ Pool!Crash(w) \/ Pool!Stall(w) \/ Pool!Babble(w)
    PROVE  Pool!TypeOK'
<1> USE CountsAreNumbers DEF Pool!TypeOK, Pool!slotVars, Pool!callVars
<1>1. CASE Pool!MarkUnhealthy(w)
    BY <1>1 DEF Pool!MarkUnhealthy
<1>2. CASE Pool!Restart(w)
    BY <1>2 DEF Pool!Restart, Pool!RestartsLeft
<1>3. CASE Pool!Crash(w) \/ Pool!Stall(w) \/ Pool!Babble(w)
    BY <1>3 DEF Pool!Crash, Pool!Stall, Pool!Babble
<1> QED BY <1>1, <1>2, <1>3

\* Calls, their answers and their timeouts, and the end of a bridge.
LEMMA CallsTyped ==
    ASSUME Pool!TypeOK, NEW w \in Workers, NEW c \in Calls,
           \/ Pool!StopBridge(w) \/ Pool!Dispatched(w) \/ Pool!Dispatch(c, w)
           \/ Pool!Drained(c) \/ Pool!Timeout(c) \/ Pool!Return(c)
    PROVE  Pool!TypeOK'
<1> USE DEF Pool!TypeOK, Pool!slotVars, Pool!callVars, Pool!Goto
<1>1. CASE Pool!StopBridge(w)
    BY <1>1 DEF Pool!StopBridge
<1>2. CASE Pool!Dispatched(w)
    BY <1>2 DEF Pool!Dispatched
<1>3. CASE Pool!Dispatch(c, w)
    BY <1>3 DEF Pool!Dispatch
<1>4. CASE Pool!Drained(c)
    BY <1>4 DEF Pool!Drained
<1>5. CASE Pool!Timeout(c) \/ Pool!Return(c)
    BY <1>5 DEF Pool!Timeout, Pool!Return
<1> QED BY <1>1, <1>2, <1>3, <1>4, <1>5

LEMMA PoolNext == ASSUME Pool!TypeOK, [Pool!Next]_poolVars PROVE Pool!TypeOK'
<1>1. CASE UNCHANGED poolVars
    BY <1>1 DEF poolVars, Pool!TypeOK
<1>2. CASE Pool!Start \/ Pool!Stop
    BY <1>2, CountsAreNumbers
       DEF Pool!Start, Pool!Stop, Pool!TypeOK, Pool!slotVars, Pool!callVars
<1>3. CASE \E w \in Workers : \/ Pool!MarkUnhealthy(w) \/ Pool!Restart(w)
                               \/ Pool!Crash(w) \/ Pool!Stall(w) \/ Pool!Babble(w)
    BY <1>3, SlotsTyped
<1>4. ASSUME NEW w \in Workers, NEW c \in Calls, Pool!Dispatch(c, w) PROVE Pool!TypeOK'
    BY <1>4, CallsTyped
<1>5. ASSUME NEW w \in Workers, Pool!StopBridge(w) \/ Pool!Dispatched(w) PROVE Pool!TypeOK'
    BY <1>5 DEF Pool!StopBridge, Pool!Dispatched, Pool!TypeOK, Pool!slotVars
<1>6. ASSUME NEW c \in Calls, Pool!Drained(c) \/ Pool!Timeout(c) \/ Pool!Return(c)
      PROVE  Pool!TypeOK'
    <2>1. PICK w \in Workers : w = worker[c]
        BY DEF Pool!TypeOK
    <2> QED BY <1>6, <2>1, CallsTyped
<1> QED BY <1>1, <1>2, <1>3, <1>4, <1>5, <1>6 DEF Pool!Next

-----------------------------------------------------------------------------
(* The shutdown.                                                           *)

Signals == 1..MaxSignals
Cleanups == 1..NumCleanups

\* Before the first signal there is no handler task, and later only one of them, because the
\* flag is set before anything is awaited.
OneHandler ==
    /\ ~isShuttingDown => \A n \in Signals : handling[n] = "none"
    /\ \A m, n \in Signals : handling[m] # "none" /\ handling[n] # "none" => m = n

\* What was called is what the one handler has been through.
CallsCounted ==
    /\ (\A n \in Signals : handling[n] = "none") => \A c \in Cleanups : calls[c] = 0
    /\ \A n \in Signals, c \in Cleanups :
          handling[n] # "none" => calls[c] = IF c <= next[n] THEN 1 ELSE 0
    /\ \A n \in Signals : handling[n] \in {"none", "draining"} => next[n] = 0

\* The handler has started all the drains, and none is waited for once the cleanups have begun.
DrainsOver ==
    \A n \in Signals, d \in Drains :
        /\ handling[n] # "none" => drain[d] # "idle"
        /\ handling[n] \in {"cleaning", "complete"} => drain[d] \in {"stray", "ended"}

StopInv == Stop!TypeOK /\ OneHandler /\ CallsCounted /\ DrainsOver

LEMMA StopInit == ASSUME Stop!Init PROVE StopInv
<1> USE CountsAreNumbers
<1>1. Stop!TypeOK
    <2>1. signals \in 0..MaxSignals /\ handling \in [1..MaxSignals -> Stop!Phases]
        BY DEF Stop!Init, Stop!Phases
    <2>2. isShuttingDown \in BOOLEAN /\ event \in BOOLEAN
        BY DEF Stop!Init
    <2>3. drain \in [Drains -> {"idle", "running", "stray", "ended"}]
        BY DEF Stop!Init
    <2>4. /\ next \in [1..MaxSignals -> 0..NumCleanups]
          /\ calls \in [1..NumCleanups -> 0..MaxSignals]
        BY DEF Stop!Init
    <2> QED BY <2>1, <2>2, <2>3, <2>4 DEF Stop!TypeOK
<1>2. OneHandler /\ DrainsOver
    BY DEF Stop!Init, OneHandler, DrainsOver, Signals
<1>3. CallsCounted
    BY DEF Stop!Init, CallsCounted, Signals, Cleanups
<1> QED BY <1>1, <1>2, <1>3 DEF StopInv

\* Every step keeps the invariant.
LEMMA StopNext == ASSUME StopInv, [Stop!Next]_stopVars PROVE StopInv'
<1> USE CountsAreNumbers DEF StopInv, Stop!TypeOK, Signals, Cleanups, Stop!Phases
<1>1. CASE Stop!HandleSignal
    <2>1. Stop!TypeOK'
        BY <1>1 DEF Stop!HandleSignal
    <2>2. CASE isShuttingDown
        BY <1>1, <2>1, <2>2 DEF Stop!HandleSignal, OneHandler, CallsCounted, DrainsOver
    <2>3. CASE ~isShuttingDown
        <3>1. signals' \in Signals /\ handling[signals'] = "none"
            BY <1>1, <2>3 DEF Stop!HandleSignal, OneHandler
        <3>2. \A n \in Signals : handling'[n] = IF n = signals' THEN "draining" ELSE "none"
            BY <1>1, <2>3, <3>1 DEF Stop!HandleSignal, OneHandler
        <3>3. OneHandler'
            BY <1>1, <3>2 DEF Stop!HandleSignal, OneHandler
        <3>4. CallsCounted'
            BY <1>1, <2>3, <3>1, <3>2 DEF Stop!HandleSignal, OneHandler, CallsCounted
        <3>5. DrainsOver'
            BY <1>1, <2>3, <3>2 DEF Stop!HandleSignal, DrainsOver
        <3> QED BY <2>1, <3>3, <3>4, <3>5
    <2> QED BY <2>2, <2>3
<1>2. ASSUME NEW d \in Drains, Stop!DrainEnds(d) PROVE StopInv'
    BY <1>2 DEF Stop!DrainEnds, OneHandler, CallsCounted, DrainsOver
<1>3. ASSUME NEW d \in Drains, Stop!DrainTimeout(d) PROVE StopInv'
    BY <1>3 DEF Stop!DrainTimeout, OneHandler, CallsCounted, DrainsOver
<1>4. ASSUME NEW n \in Signals, Stop!Drained(n) PROVE StopInv'
    <2>1. Stop!TypeOK' /\ OneHandler'
        BY <1>4 DEF Stop!Drained, OneHandler
    <2>2. CallsCounted'
        BY <1>4 DEF Stop!Drained, CallsCounted
    <2>3. DrainsOver'
        BY <1>4 DEF Stop!Drained, DrainsOver
    <2> QED BY <2>1, <2>2, <2>3
<1>5. ASSUME NEW n \in Signals, Stop!RunCleanup(n) PROVE StopInv'
    <2>1. /\ next[n] + 1 \in Cleanups
          /\ next' = [next EXCEPT ![n] = next[n] + 1]
          /\ calls' = [calls EXCEPT ![next[n] + 1] = calls[next[n] + 1] + 1]
          /\ UNCHANGED <<signals, handling, isShuttingDown, event, drain>>
        BY <1>5 DEF Stop!RunCleanup
    <2>2. \A m \in Signals : handling[m] # "none" => m = n
        BY <1>5 DEF Stop!RunCleanup, OneHandler
    <2>3. \A c \in Cleanups : calls[c] = IF c <= next[n] THEN 1 ELSE 0
        BY <1>5 DEF Stop!RunCleanup, CallsCounted
    <2>4. \A c \in Cleanups : calls'[c] = IF c <= next[n] + 1 THEN 1 ELSE 0
        BY <2>1, <2>3
    <2>5. Stop!TypeOK'
        BY <2>1, <2>3
    <2>6. OneHandler' /\ DrainsOver'
        BY <2>1 DEF OneHandler, DrainsOver
    <2>7. CallsCounted'
        <3>1. next'[n] = next[n] + 1 /\ \A m \in Signals \ {n} : next'[m] = next[m]
            BY <2>1
        <3>2. handling[n] = "cleaning"
            BY <1>5 DEF Stop!RunCleanup
        <3> QED BY <2>1, <2>2, <2>4, <3>1, <3>2 DEF CallsCounted
    <2> QED BY <2>5, <2>6, <2>7
<1>6. ASSUME NEW n \in Signals, Stop!Complete(n) PROVE StopInv'
    <2>1. Stop!TypeOK' /\ OneHandler'
        BY <1>6 DEF Stop!Complete, OneHandler
    <2>2. CallsCounted'
        BY <1>6 DEF Stop!Complete, CallsCounted
    <2>3. DrainsOver'
        BY <1>6 DEF Stop!Complete, DrainsOver
    <2> QED BY <2>1, <2>2, <2>3
<1>7. CASE UNCHANGED stopVars
    BY <1>7 DEF stopVars, OneHandler, CallsCounted, DrainsOver
<1> QED BY <1>1, <1>2, <1>3, <1>4, <1>5, <1>6, <1>7 DEF Stop!Next

\* The account of the calls gives the property.
LEMMA StopCleanedOnce == ASSUME StopInv PROVE Stop!CleanedOnce
<1> USE CountsAreNumbers
<1>1. SUFFICES ASSUME NEW c \in Cleanups
      PROVE  calls[c] <= 1 /\ (calls[c] = 1 => \A d \in Drains : drain[d] \in {"stray", "ended"})
    BY DEF Stop!CleanedOnce, Cleanups
<1>2. CASE \A n \in Signals : handling[n] = "none"
    BY <1>2 DEF StopInv, CallsCounted
<1>3. ASSUME NEW n \in Signals, handling[n] # "none"
      PROVE  calls[c] <= 1 /\ (calls[c] = 1 => \A d \in Drains : drain[d] \in {"stray", "ended"})
    <2>1. calls[c] = IF c <= next[n] THEN 1 ELSE 0
        BY <1>3 DEF StopInv, CallsCounted
    <2>2. calls[c] = 1 => handling[n] \in {"cleaning", "complete"}
        BY <1>3, <2>1 DEF StopInv, Stop!TypeOK, CallsCounted, Signals, Cleanups, Stop!Phases
    <2> QED BY <2>1, <2>2 DEF StopInv, DrainsOver
<1> QED BY <1>2, <1>3

-----------------------------------------------------------------------------
(* The sizes of the GPU pools.                                             *)

\* A pool's size is within its bounds, also when a decision is applied long after it was made.
GpuInv == Gpu!TypeOK /\ size \in [Pools -> Nat]

LEMMA GpuInit == ASSUME Gpu!Init PROVE GpuInv
<1>1. Gpu!Nothing \in Gpu!Decided
    BY DEF Gpu!Nothing, Gpu!Decided, Gpu!Actions
<1>2. size \in [Pools -> Nat] /\ \A p \in Pools : size[p] \in MinNodes[p]..MaxNodes[p]
    BY PoolsHaveSizes DEF Gpu!Init
<1>3. held \in [Callers -> [Pools -> Gpu!Decided]]
    BY <1>1 DEF Gpu!Init
<1>4. metrics \in [Pools -> Readings \union {<<>>}] /\ since \in [Pools -> 0..2]
    <2>1. metrics = [p \in Pools |-> <<>>] /\ <<>> \in Readings \union {<<>>}
        BY DEF Gpu!Init
    <2>2. metrics \in [Pools -> Readings \union {<<>>}]
        BY <2>1, Zenon
    <2>3. since \in [Pools -> 0..2]
        BY DEF Gpu!Init
    <2> QED BY <2>2, <2>3
<1>5. gpuRunning \in BOOLEAN /\ last \in [action : Gpu!Actions, moved : {"none", "up", "down"}]
    BY DEF Gpu!Init, Gpu!Actions
<1> QED BY <1>2, <1>3, <1>4, <1>5 DEF GpuInv, Gpu!TypeOK

\* What get_scaling_decision() returns is an action and a number of nodes.
LEMMA DecisionType == ASSUME GpuInv, NEW p \in Pools PROVE Gpu!Decision(p) \in Gpu!Decided
BY PoolsHaveSizes
   DEF GpuInv, Gpu!TypeOK, Gpu!Decision, Gpu!Decided, Gpu!Actions, Gpu!Least, Gpu!Greatest

\* Whatever decision is applied, the pool stays within its bounds.
LEMMA ApplyTyped ==
    ASSUME GpuInv, NEW p \in Pools, NEW d \in Gpu!Decided, Gpu!Apply(p, d)
    PROVE  /\ size' \in [Pools -> Nat]
           /\ \A q \in Pools : size'[q] \in MinNodes[q]..MaxNodes[q]
           /\ since' \in [Pools -> 0..2]
           /\ last' \in [action : Gpu!Actions, moved : {"none", "up", "down"}]
<1>1. Gpu!Applied(p, d) \in MinNodes[p]..MaxNodes[p] /\ Gpu!Applied(p, d) \in Nat
    BY PoolsHaveSizes DEF Gpu!Applied, Gpu!Least, Gpu!Greatest, Gpu!Decided
<1>2. /\ size' = [size EXCEPT ![p] = Gpu!Applied(p, d)]
      /\ since' = [since EXCEPT ![p] = 0]
      /\ last' = [action |-> d.action,
                  moved |-> IF Gpu!Applied(p, d) > size[p] THEN "up" ELSE "down"]
    BY DEF Gpu!Apply
<1> QED BY <1>1, <1>2 DEF GpuInv, Gpu!TypeOK, Gpu!Decided

LEMMA GpuNext == ASSUME GpuInv, [Gpu!Next]_gpuVars PROVE GpuInv'
<1>1. CASE UNCHANGED gpuVars
    BY <1>1 DEF gpuVars, GpuInv, Gpu!TypeOK
<1>2. CASE Gpu!StartOrStop
    BY <1>2 DEF Gpu!StartOrStop, GpuInv, Gpu!TypeOK
<1>3. ASSUME NEW p \in Pools, Gpu!Round(p) PROVE GpuInv'
    BY <1>3, DecisionType, ApplyTyped DEF Gpu!Round, GpuInv, Gpu!TypeOK
<1>4. ASSUME NEW p \in Pools, Gpu!Later(p) PROVE GpuInv'
    BY <1>4 DEF Gpu!Later, GpuInv, Gpu!TypeOK
<1>5. ASSUME NEW p \in Pools, NEW reading \in Readings, Gpu!UpdateMetrics(p, reading)
      PROVE  GpuInv'
    BY <1>5 DEF Gpu!UpdateMetrics, GpuInv, Gpu!TypeOK
<1>6. ASSUME NEW p \in Pools, NEW c \in Callers, Gpu!Fetch(c, p) PROVE GpuInv'
    BY <1>6, DecisionType DEF Gpu!Fetch, GpuInv, Gpu!TypeOK
<1>7. ASSUME NEW p \in Pools, NEW c \in Callers, Gpu!ApplyHeld(c, p) PROVE GpuInv'
    <2>1. held[c][p] \in Gpu!Decided /\ Gpu!Nothing \in Gpu!Decided
        BY DEF GpuInv, Gpu!TypeOK, Gpu!Nothing, Gpu!Decided, Gpu!Actions
    <2>2. held' \in [Callers -> [Pools -> Gpu!Decided]]
        BY <1>7, <2>1 DEF Gpu!ApplyHeld, GpuInv, Gpu!TypeOK
    <2> QED BY <1>7, <2>1, <2>2, ApplyTyped DEF Gpu!ApplyHeld, GpuInv, Gpu!TypeOK
<1> QED BY <1>1, <1>2, <1>3, <1>4, <1>5, <1>6, <1>7 DEF Gpu!Next

-----------------------------------------------------------------------------
(* The API server.                                                         *)

\* A revocation that is still to be saved is in the table, and one that was answered is in
\* the table and in the file: whoever saves the table next saves it again.
RevocationHolds ==
    /\ \A k \in Keys : <<"revoke", k>> \in saving => keys[k] = "revoked"
    /\ \A k \in revoked : keys[k] # "active" /\ keysFile[k] # "active"

ApiInv == Api!TypeOK /\ RevocationHolds

LEMMA ApiInit == ASSUME Api!Init PROVE ApiInv
<1>1. PICK a \in Admins :
        /\ keys = [k \in Keys |-> IF k = a THEN "active" ELSE "none"]
        /\ hashes = {a} /\ keysFile = keys
        /\ saving = {} /\ revoked = {} /\ used = [k \in Keys |-> 0]
        /\ hooks = {} /\ hooksFile = {}
        /\ job = [j \in Jobs |-> "none"] /\ sending = {}
    BY DEF Api!Init
<1>2. keys \in Api!States /\ keysFile \in Api!States
    BY <1>1 DEF Api!States
<1>3. hashes \subseteq Keys /\ used \in [Keys -> 0..RateLimit]
    BY <1>1, CountsAreNumbers, AdminsHaveKeys
<1>4. job \in [Jobs -> {"none", "submitted", "answered", "lost"}]
    BY <1>1
<1>5. /\ saving \subseteq {"create", "revoke"} \X Keys /\ revoked \subseteq Keys
      /\ hooks \subseteq Api!Hooks /\ hooksFile \subseteq Urls
      /\ sending \subseteq [job : Jobs, hook : Api!Hooks, left : 1..RetryCount]
    BY <1>1
<1>6. RevocationHolds
    BY <1>1 DEF RevocationHolds
<1> QED BY <1>2, <1>3, <1>4, <1>5, <1>6 DEF ApiInv, Api!TypeOK

\* A request that is admitted counts, and changes nothing else by being admitted.
LEMMA AdmitTyped ==
    ASSUME used \in [Keys -> 0..RateLimit], NEW k \in Keys, Api!Admit(k)
    PROVE  used' \in [Keys -> 0..RateLimit]
BY CountsAreNumbers DEF Api!Admit

\* What concerns the keys is kept by every step that leaves them alone.
LEMMA KeysAlone ==
    ASSUME RevocationHolds, UNCHANGED <<keys, keysFile, saving, revoked>>
    PROVE  RevocationHolds'
BY DEF RevocationHolds

LEMMA CreateKeyKeeps ==
    ASSUME ApiInv, NEW a \in Keys, NEW k \in Keys, Api!CreateKey(a, k) PROVE ApiInv'
<1>1. used' \in [Keys -> 0..RateLimit]
    BY AdmitTyped DEF ApiInv, Api!TypeOK, Api!CreateKey
<1>2. Api!TypeOK'
    <2>1. keys' \in Api!States /\ keysFile' \in Api!States /\ hashes' \subseteq Keys
        BY DEF ApiInv, Api!TypeOK, Api!CreateKey, Api!States
    <2>2. saving' \subseteq {"create", "revoke"} \X Keys /\ UNCHANGED <<revoked, Api!hookVars, Api!jobVars>>
        BY DEF ApiInv, Api!TypeOK, Api!CreateKey
    <2> QED BY <1>1, <2>1, <2>2 DEF ApiInv, Api!TypeOK, Api!hookVars, Api!jobVars
<1>3. RevocationHolds'
    BY DEF ApiInv, Api!TypeOK, RevocationHolds, Api!CreateKey, Api!States
<1> QED BY <1>2, <1>3 DEF ApiInv

LEMMA RevokeKeyKeeps ==
    ASSUME ApiInv, NEW a \in Keys, NEW k \in Keys, Api!RevokeKey(a, k) PROVE ApiInv'
<1>1. used' \in [Keys -> 0..RateLimit]
    BY AdmitTyped DEF ApiInv, Api!TypeOK, Api!RevokeKey
<1>2. Api!TypeOK'
    <2>1. keys' \in Api!States /\ keysFile' \in Api!States /\ hashes' \subseteq Keys
        BY DEF ApiInv, Api!TypeOK, Api!RevokeKey, Api!States
    <2>2. saving' \subseteq {"create", "revoke"} \X Keys /\ UNCHANGED <<revoked, Api!hookVars, Api!jobVars>>
        BY DEF ApiInv, Api!TypeOK, Api!RevokeKey
    <2> QED BY <1>1, <2>1, <2>2 DEF ApiInv, Api!TypeOK, Api!hookVars, Api!jobVars
<1>3. RevocationHolds'
    BY DEF ApiInv, Api!TypeOK, RevocationHolds, Api!RevokeKey, Api!States
<1> QED BY <1>2, <1>3 DEF ApiInv

\* The step that answers a revocation: the table, which has it, goes to the file.
LEMMA SaveKeysKeeps == ASSUME ApiInv, NEW s \in saving, Api!SaveKeys(s) PROVE ApiInv'
<1>1. PICK what \in {"create", "revoke"}, k \in Keys : s = <<what, k>>
    BY DEF ApiInv, Api!TypeOK
<1>2. Api!TypeOK'
    BY <1>1 DEF ApiInv, Api!TypeOK, Api!SaveKeys, Api!hookVars, Api!jobVars
<1>3. RevocationHolds'
    BY <1>1 DEF ApiInv, Api!TypeOK, RevocationHolds, Api!SaveKeys
<1> QED BY <1>2, <1>3 DEF ApiInv

LEMMA WebhookKeeps ==
    ASSUME ApiInv,
           \/ \E u \in Urls : Api!Register(u)
           \/ \E h \in hooks : Api!Unregister(h)
    PROVE  ApiInv'
<1>1. used' \in [Keys -> 0..RateLimit]
    BY AdmitTyped DEF ApiInv, Api!TypeOK, Api!Register, Api!Unregister
<1>2. hooks' \subseteq Api!Hooks /\ hooksFile' = Api!Saved(hooks')
    BY DEF ApiInv, Api!TypeOK, Api!Register, Api!Unregister, Api!Hooks
<1>3. hooksFile' \subseteq Urls
    BY <1>2 DEF Api!Saved, Api!Hooks
<1>4. UNCHANGED <<keys, hashes, keysFile, saving, revoked, job, sending>>
    BY DEF Api!Register, Api!Unregister, Api!jobVars
<1> QED BY <1>1, <1>2, <1>3, <1>4, KeysAlone DEF ApiInv, Api!TypeOK

LEMMA SubmissionKeeps ==
    ASSUME ApiInv,
           \/ \E j \in Jobs : Api!SubmitJob(j) \/ Api!Answer(j)
           \/ \E s \in sending : Api!Post(s)
    PROVE  ApiInv'
<1>1. UNCHANGED <<keys, hashes, keysFile, saving, revoked, hooks, hooksFile>>
    BY DEF Api!SubmitJob, Api!Answer, Api!Post, Api!keyVars, Api!hookVars
<1>2. used' \in [Keys -> 0..RateLimit]
    BY AdmitTyped DEF ApiInv, Api!TypeOK, Api!SubmitJob, Api!Answer, Api!Post, Api!keyVars
<1>3. job' \in [Jobs -> {"none", "submitted", "answered", "lost"}]
    BY DEF ApiInv, Api!TypeOK, Api!SubmitJob, Api!Answer, Api!Post
<1>4. sending' \subseteq [job : Jobs, hook : Api!Hooks, left : 1..RetryCount]
    <2>1. CASE \E j \in Jobs : Api!SubmitJob(j)
        BY <2>1, CountsAreNumbers DEF ApiInv, Api!TypeOK, Api!SubmitJob
    <2>2. CASE \E j \in Jobs : Api!Answer(j)
        BY <2>2 DEF ApiInv, Api!TypeOK, Api!Answer
    <2>3. ASSUME NEW s \in sending, Api!Post(s)
          PROVE  sending' \subseteq [job : Jobs, hook : Api!Hooks, left : 1..RetryCount]
        <3>1. s \in [job : Jobs, hook : Api!Hooks, left : 1..RetryCount]
            BY DEF ApiInv, Api!TypeOK
        <3>2. s.left > 1 =>
                [s EXCEPT !.left = s.left - 1] \in [job : Jobs, hook : Api!Hooks, left : 1..RetryCount]
            BY <3>1, CountsAreNumbers
        <3> QED BY <2>3, <3>1, <3>2 DEF ApiInv, Api!TypeOK, Api!Post
    <2> QED BY <2>1, <2>2, <2>3
<1> QED BY <1>1, <1>2, <1>3, <1>4, KeysAlone DEF ApiInv, Api!TypeOK

\* What a crash leaves in the file is what was there or nothing, and no revocation that was
\* answered is only in the table.
LEMMA CrashKeeps == ASSUME ApiInv, Api!Crash PROVE ApiInv'
<1>1. keysFile' \in {keysFile, Api!NoKeys} /\ Api!NoKeys \in Api!States
    BY DEF Api!Crash, Api!NoKeys, Api!States
<1>2. keysFile' \in Api!States /\ keys' \in Api!States /\ hashes' \subseteq Keys
    BY <1>1 DEF ApiInv, Api!TypeOK, Api!Crash
<1>3. hooksFile' \subseteq Urls /\ hooks' \subseteq Api!Hooks
    BY DEF ApiInv, Api!TypeOK, Api!Crash, Api!Hooks
<1>4. /\ used' \in [Keys -> 0..RateLimit]
      /\ job' \in [Jobs -> {"none", "submitted", "answered", "lost"}]
    BY CountsAreNumbers DEF ApiInv, Api!TypeOK, Api!Crash
<1>5. saving' = {} /\ sending' = {} /\ revoked' = revoked /\ keys' = keysFile'
    BY DEF Api!Crash
<1>6. RevocationHolds'
    BY <1>1, <1>5 DEF ApiInv, Api!TypeOK, RevocationHolds, Api!NoKeys
<1> QED BY <1>2, <1>3, <1>4, <1>5, <1>6 DEF ApiInv, Api!TypeOK

LEMMA SlideKeeps == ASSUME ApiInv, NEW k \in Keys, Api!Slide(k) PROVE ApiInv'
<1>1. used' \in [Keys -> 0..RateLimit]
    BY CountsAreNumbers DEF ApiInv, Api!TypeOK, Api!Slide
<1> QED BY <1>1, KeysAlone DEF ApiInv, Api!TypeOK, Api!Slide, Api!hookVars, Api!jobVars

LEMMA ApiNext == ASSUME ApiInv, [Api!Next]_apiVars PROVE ApiInv'
<1>1. CASE UNCHANGED apiVars
    BY <1>1, KeysAlone DEF ApiInv, Api!TypeOK, apiVars, Api!keyVars, Api!hookVars, Api!jobVars
<1>2. CASE Api!Next
    BY <1>2, SlideKeeps, CreateKeyKeeps, RevokeKeyKeeps, SaveKeysKeeps, WebhookKeeps,
       SubmissionKeeps, CrashKeeps DEF Api!Next
<1> QED BY <1>1, <1>2

-----------------------------------------------------------------------------
(* The components together: a step is one of a component, or it stutters.  *)

IInv == Pool!TypeOK /\ StopInv /\ GpuInv /\ ApiInv

LEMMA InitIInv == Init => IInv
BY PoolInit, StopInit, GpuInit, ApiInit DEF Init, IInv

LEMMA NextIInv == ASSUME IInv, [Next]_vars PROVE IInv'
<1>1. [Pool!Next]_poolVars
    BY DEF Next, PoolStep, StopStep, GpuStep, ApiStep, Only, vars
<1>2. [Stop!Next]_stopVars
    BY DEF Next, PoolStep, StopStep, GpuStep, ApiStep, Only, vars
<1>3. [Gpu!Next]_gpuVars
    BY DEF Next, PoolStep, StopStep, GpuStep, ApiStep, Only, vars
<1>4. [Api!Next]_apiVars
    BY DEF Next, PoolStep, StopStep, GpuStep, ApiStep, Only, vars
<1> QED BY <1>1, <1>2, <1>3, <1>4, PoolNext, StopNext, GpuNext, ApiNext DEF IInv

\* The tables of the four components stay well typed: no worker is restarted more than
\* max_restarts times, a GPU pool stays within its bounds, and no key exceeds its rate limit
\* within a window (check_rate_limit(), api_server.py:251).
THEOREM TypeCorrect == Spec => []TypeOK
<1>1. Init => IInv
    BY InitIInv
<1>2. IInv /\ [Next]_vars => IInv'
    BY NextIInv
<1>3. IInv => TypeOK
    BY DEF IInv, StopInv, GpuInv, ApiInv, TypeOK
<1> QED BY <1>1, <1>2, <1>3, PTL DEF Spec

\* However many signals come in, no cleanup callback is called twice, and none before every
\* drain callback has returned or timed out (_handle_signal(), shutdown_manager.py:58); and a
\* key whose revocation was answered admits nobody again (revoke_key(), api_server.py:212).
THEOREM OverForGood == Spec => []OverIsOver
<1>1. Init => IInv
    BY InitIInv
<1>2. IInv /\ [Next]_vars => IInv'
    BY NextIInv
<1>3. IInv => Stop!CleanedOnce
    BY StopCleanedOnce DEF IInv
<1>4. IInv => Api!RevokedStaysRevoked
    BY DEF IInv, ApiInv, RevocationHolds, Api!RevokedStaysRevoked, Api!Valid
<1> QED BY <1>1, <1>2, <1>3, <1>4, PTL DEF Spec, OverIsOver
=============================================================================
