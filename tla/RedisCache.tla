----------------------------- MODULE RedisCache -----------------------------
(***************************************************************************)
(* The cache in Redis and its rate limiter (engine/redis_cache.py), as     *)
(* used by the processes of several hosts.                                 *)
(*                                                                         *)
(* A call of Redis is one step of Redis; between the calls of one method   *)
(* others' come in.  A call that fails is taken for a miss, or for a       *)
(* permission, by whoever made it.  What a key is computed from has a      *)
(* version, which the cached value tells.  A host's window is counted by   *)
(* its own clock, so that hosts share a counter when their clocks name the *)
(* window alike.                                                           *)
(***************************************************************************)
EXTENDS Integers, FiniteSets

CONSTANTS
    Hosts,          \* processes that use the cache
    MaxVersion,     \* bound: changes of what is cached
    MaxRequests,    \* max_requests of is_allowed()
    MaxWindow       \* bound: windows

VARIABLES
    source,         \* version of what the cached value is computed from
    cached,         \* version in the cache; 0 for none
    invalidated,    \* version at the last invalidation that was answered
    flying,         \* whether values had been computed and not stored at an invalidation
    getter,         \* get_or_set() of each host: where it is and what it computed
    clock,          \* the window each host is in
    counter,        \* the counter of each window
    asked,          \* is_allowed() of each host: the count in the reply, or 0
    asking,         \* the window it asks for, or 0
    granted,        \* requests allowed in each window, since the counter began
    counted,        \* hosts whose request is in the counter as it is now
    clearing        \* clear_all() of each host: the keys it has found so far

cacheVars == <<source, cached, invalidated, flying, getter>>
limitVars == <<clock, counter, asked, asking, granted, counted>>
vars == <<cacheVars, limitVars, clearing>>

Windows == 1..MaxWindow
Value == 0
Idle == [at |-> "idle", version |-> 0]

TypeOK ==
    /\ source \in 1..MaxVersion /\ {cached, invalidated} \subseteq 0..MaxVersion
    /\ getter \in [Hosts -> [at : {"idle", "factory", "set"}, version : 0..MaxVersion]]
    /\ clock \in [Hosts -> Windows]
    /\ {counter[w] : w \in Windows} \subseteq Nat
    /\ asked \in [Hosts -> Nat] /\ asking \in [Hosts -> 0..MaxWindow]
    /\ {granted[w] : w \in Windows} \subseteq Nat
    /\ counted \subseteq Hosts /\ flying \in BOOLEAN
    /\ clearing \in [Hosts -> SUBSET (Windows \union {Value})]

Init ==
    /\ source = 1 /\ cached = 0 /\ invalidated = 0 /\ flying = FALSE
    /\ getter = [h \in Hosts |-> Idle]
    /\ clock = [h \in Hosts |-> 1]
    /\ counter = [w \in Windows |-> 0] /\ granted = [w \in Windows |-> 0]
    /\ asked = [h \in Hosts |-> 0] /\ asking = [h \in Hosts |-> 0] /\ counted = {}
    /\ clearing = [h \in Hosts |-> {}]

-----------------------------------------------------------------------------
(* get_or_set().                                                           *)

Goto(h, there, version) == getter' = [getter EXCEPT ![h] = [at |-> there, version |-> version]]

\* A miss, or a get() that failed: the factory begins.
Miss(h) ==
    /\ getter[h].at = "idle"
    /\ Goto(h, "factory", 0)
    /\ UNCHANGED <<source, cached, invalidated, flying, limitVars, clearing>>

\* The factory reads the source.
Compute(h) ==
    /\ getter[h].at = "factory"
    /\ Goto(h, "set", source)
    /\ UNCHANGED <<source, cached, invalidated, flying, limitVars, clearing>>

\* set(), which may fail.
Store(h) ==
    /\ getter[h].at = "set"
    /\ cached' \in {cached, getter[h].version}
    /\ Goto(h, "idle", 0)
    /\ UNCHANGED <<source, invalidated, flying, limitVars, clearing>>

\* The source changes; its owner invalidates the value, and may fail to.
Change ==
    /\ source < MaxVersion /\ source' = source + 1
    /\ UNCHANGED <<cached, invalidated, flying, getter, limitVars, clearing>>

\* As Invalidate below, where an error of delete() that was swallowed passes for a deletion.
InvalidateSwallowed ==
    /\ cached' \in {cached, 0} /\ invalidated' = source
    /\ flying' = (flying \/ \E h \in Hosts : getter[h].at = "set")
    /\ UNCHANGED <<source, getter, limitVars, clearing>>

Invalidate ==
    /\ cached' = 0 /\ invalidated' = source
    /\ flying' = (flying \/ \E h \in Hosts : getter[h].at = "set")
    /\ UNCHANGED <<source, getter, limitVars, clearing>>

Expire ==
    /\ cached # 0 /\ cached' = 0
    /\ UNCHANGED <<source, invalidated, flying, getter, limitVars, clearing>>

-----------------------------------------------------------------------------
(* is_allowed().                                                           *)

Tick(h) ==
    /\ clock[h] < MaxWindow /\ clock' = [clock EXCEPT ![h] = @ + 1]
    /\ UNCHANGED <<cacheVars, counter, asked, asking, granted, counted, clearing>>

\* As Ask below, with a GET and a SET in place of the INCR: that of another host in between
\* is lost.
AskWithGetAndSet(h) ==
    /\ asking[h] = 0 /\ counter[clock[h]] <= MaxRequests
    /\ asking' = [asking EXCEPT ![h] = clock[h]]
    /\ \E n \in {counter[clock[h]]} \union {asked[g] - 1 : g \in {g \in counted : asking[g] = clock[h]}} :
        /\ counter' = [counter EXCEPT ![clock[h]] = n + 1]
        /\ asked' = [asked EXCEPT ![h] = n + 1]
    /\ counted' = counted \union {h}
    /\ UNCHANGED <<cacheVars, clock, granted, clearing>>

\* The pipeline increments the counter and has it expire; Redis runs both at once.
Ask(h) ==
    /\ asking[h] = 0 /\ counter[clock[h]] <= MaxRequests + 1
    /\ asking' = [asking EXCEPT ![h] = clock[h]]
    /\ counter' = [counter EXCEPT ![clock[h]] = @ + 1]
    /\ asked' = [asked EXCEPT ![h] = counter[clock[h]] + 1]
    /\ counted' = counted \union {h}
    /\ UNCHANGED <<cacheVars, clock, granted, clearing>>

\* The reply decides.
Allowed(h) == asked[h] <= MaxRequests

Decide(h) ==
    /\ asking[h] # 0
    /\ granted' = IF Allowed(h) /\ h \in counted
                     THEN [granted EXCEPT ![asking[h]] = @ + 1] ELSE granted
    /\ counted' = counted \ {h}
    /\ asking' = [asking EXCEPT ![h] = 0] /\ asked' = [asked EXCEPT ![h] = 0]
    /\ UNCHANGED <<cacheVars, clock, counter, clearing>>

\* The reply is lost after Redis has run the pipeline: allowed, as when it was not run.
AskFails(h) ==
    /\ asking[h] # 0
    /\ counted' = counted \ {h}
    /\ asking' = [asking EXCEPT ![h] = 0] /\ asked' = [asked EXCEPT ![h] = 0]
    /\ UNCHANGED <<cacheVars, clock, counter, granted, clearing>>

\* A window's counter expires when every host has left the window.
CounterExpires(w) ==
    /\ counter[w] > 0 /\ \A h \in Hosts : clock[h] > w /\ asking[h] # w
    /\ counter' = [counter EXCEPT ![w] = 0]
    /\ UNCHANGED <<cacheVars, clock, asked, asking, granted, counted, clearing>>

-----------------------------------------------------------------------------
(* clear_all(): scans for the keys, then deletes them in one call; the     *)
(* scan need not find a key that is set while it runs.                     *)

Present == {w \in Windows : counter[w] > 0} \union (IF cached # 0 THEN {Value} ELSE {})

Scan(h) ==
    /\ clearing[h] = {} /\ Present # {}
    /\ clearing' = [clearing EXCEPT ![h] = Present]
    /\ UNCHANGED <<cacheVars, limitVars>>

\* The windows' counters begin anew.
ClearAll(h) ==
    /\ clearing[h] # {}
    /\ cached' = IF Value \in clearing[h] THEN 0 ELSE cached
    /\ counter' = [w \in Windows |-> IF w \in clearing[h] THEN 0 ELSE counter[w]]
    /\ granted' = [w \in Windows |-> IF w \in clearing[h] THEN 0 ELSE granted[w]]
    /\ counted' = {g \in counted : asking[g] \notin clearing[h]}
    /\ clearing' = [clearing EXCEPT ![h] = {}]
    /\ UNCHANGED <<source, invalidated, flying, getter, clock, asked, asking>>

CacheNext ==
    \/ \E h \in Hosts : Miss(h) \/ Compute(h) \/ Store(h) \/ Scan(h) \/ ClearAll(h)
    \/ Change \/ Invalidate \/ Expire

LimitNext ==
    \/ \E h \in Hosts : Tick(h) \/ Ask(h) \/ Decide(h) \/ AskFails(h) \/ Scan(h) \/ ClearAll(h)
    \/ \E w \in Windows : CounterExpires(w)

Next == CacheNext \/ LimitNext

Spec == Init /\ [][Next]_vars

-----------------------------------------------------------------------------
(* Properties.                                                             *)

\* The hosts together are allowed no more requests in a window than the limit, but for those
\* whose call of Redis failed; clear_all() begins a new count.
LimitKept == \A w \in Windows : granted[w] <= MaxRequests

\* A value older than the last invalidation is in the cache only because it had been
\* computed, and not yet stored, when a value was invalidated.
StaleOnlyByFlight == cached # 0 /\ cached < invalidated => flying
=============================================================================
