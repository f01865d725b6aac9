----------------------------- MODULE ModelCache -----------------------------
(***************************************************************************)
(* The cache of loaded models (engine/model_cache.py).                     *)
(*                                                                         *)
(* Callers run get_model(); those in Warmers run it inside                 *)
(* parallel_warmup(), behind a semaphore, and drop the result.  The memory *)
(* monitor and shutdown() unload models.  One asyncio.Lock, which is not   *)
(* reentrant, guards the cache; it is held while an unloader runs in the   *)
(* executor, and not while a loader does.                                  *)
(*                                                                         *)
(* The cache refers to a model weakly: the object lives as long as a       *)
(* caller holds it.  A model object is a number, used again once nothing   *)
(* refers to it.  Left out: statistics and use counts (what the policies   *)
(* make of them never matters, see Insert), the preload queue (its worker  *)
(* loads nothing), the choice of what to warm up.                          *)
(***************************************************************************)
EXTENDS Integers, Sequences, FiniteSets, SequencesExt, FiniteSetsExt

CONSTANTS
    Callers,        \* tasks that call get_model()
    Warmers,        \* those that do so inside parallel_warmup()
    Names,          \* names of models
    Size,           \* their memory footprint
    MaxMemory,      \* max_memory_mb
    MaxModels,      \* max_models
    Policies,       \* the values of eviction_policy considered
    MaxWarming,     \* max_concurrent of parallel_warmup()
    MaxPressure     \* bound: times the monitor finds memory short

None == 0
Monitor == "monitor"
Closer == "shutdown"
Tasks == Callers \union {Monitor, Closer}
Free == "free"
Objects == 1..(Cardinality(Tasks) + Cardinality(Names))

VARIABLES
    policy,         \* eviction_policy
    cache,          \* the keys of _cache in their order
    ref,            \* the model an entry refers to, alive or not
    memory,         \* _current_memory_mb
    lock,           \* the task that holds _lock
    at,             \* where each task is
    name,           \* the model a caller asks for
    held,           \* the model object a task holds
    unloaded,       \* models an unloader was called for
    victims,        \* what the monitor, or shutdown(), has still to unload
    last,           \* the monitor's local variable victim, "" before it is set
    pressure        \* times memory was short

entries == <<cache, ref, memory>>
vars == <<policy, entries, lock, at, name, held, unloaded, victims, last, pressure>>

Cached(n) == n \in ToSet(cache)
\* The keys without n.
Without(n) == RemoveAt(cache, CHOOSE i \in DOMAIN cache : cache[i] = n)
Alive(m) == \E t \in Tasks : held[t] = m
Model(n) == IF Alive(ref[n]) THEN ref[n] ELSE None

TypeOK ==
    /\ policy \in Policies
    /\ cache \in SeqOf(Names, Cardinality(Names)) /\ IsInjective(cache)
    /\ ref \in [Names -> Objects \union {None}]
    /\ memory \in 0..Cardinality(UNION {{n} \X (1..Size[n]) : n \in Names})
    /\ lock \in Tasks \union {Free}
    /\ at \in [Tasks -> {"idle", "loading", "insert", "stuck", "unload", "unloading", "ended"}]
    /\ name \in [Callers -> Names \union {""}]
    /\ held \in [Tasks -> Objects \union {None}]
    /\ unloaded \subseteq Objects
    /\ victims \in [{Monitor, Closer} -> SeqOf(Names, Cardinality(Names))]
    /\ last \in Names \union {""}
    /\ pressure \in 0..MaxPressure

Init ==
    /\ policy \in Policies
    /\ cache = <<>> /\ memory = 0
    /\ ref = [n \in Names |-> None]
    /\ lock = Free
    /\ at = [t \in Tasks |-> "idle"]
    /\ name = [t \in Callers |-> ""] /\ held = [t \in Tasks |-> None]
    /\ unloaded = {}
    /\ victims = [u \in {Monitor, Closer} |-> <<>>] /\ last = ""
    /\ pressure = 0

Goto(t, there) == at' = [at EXCEPT ![t] = there]
\* A warmer drops what get_model() returns.
Return(t, m) ==
    /\ Goto(t, "idle")
    /\ held' = [held EXCEPT ![t] = IF t \in Warmers THEN None ELSE m]

-----------------------------------------------------------------------------
(* get_model().                                                            *)

Warming == {t \in Warmers : at[t] # "idle"}

Hit(t, n) ==
    /\ Cached(n)
    /\ cache' = Append(Without(n), n)
    /\ Return(t, Model(n))
    /\ UNCHANGED name

Miss(t, n) ==
    /\ ~Cached(n)
    /\ Goto(t, "loading")
    /\ name' = [name EXCEPT ![t] = n]
    /\ UNCHANGED <<cache, held>>

GetModel(t) ==
    /\ at[t] = "idle" /\ held[t] = None /\ lock = Free
    /\ t \in Warmers => Cardinality(Warming) < MaxWarming
    /\ \E n \in Names : Hit(t, n) \/ Miss(t, n)
    /\ UNCHANGED <<policy, ref, memory, lock, unloaded, victims, last, pressure>>

Fresh == Min({m \in Objects : ~Alive(m) /\ \A n \in ToSet(cache) : ref[n] # m})

Load(t) ==
    /\ at[t] = "loading"
    /\ \/ /\ held' = [held EXCEPT ![t] = Fresh]
          /\ unloaded' = unloaded \ {Fresh}
          /\ Goto(t, "insert")
          /\ UNCHANGED name
       \/ /\ Return(t, None)
          /\ name' = [name EXCEPT ![t] = ""]
          /\ UNCHANGED unloaded
    /\ UNCHANGED <<policy, entries, lock, victims, last, pressure>>

\* _ensure_space(): the policies' choice.  lru_memory looks for a score above
\* infinity and finds none.
Full(n) == memory + Size[n] > MaxMemory \/ Len(cache) >= MaxModels
HasVictim == cache # <<>> /\ policy # "lru_memory"

\* Bugs Insert could have: it adds a model another task has added; it forgets to
\* count the memory of a model.
InsertTwice(t) ==
    LET n == name[t] IN
    /\ at[t] = "insert" /\ lock = Free
    /\ cache' = IF Cached(n) THEN cache ELSE Append(cache, n)
    /\ ref' = [ref EXCEPT ![n] = held[t]]
    /\ memory' = memory + Size[n]
    /\ Return(t, held[t])
    /\ name' = [name EXCEPT ![t] = ""]
    /\ UNCHANGED <<policy, lock, unloaded, victims, last, pressure>>

\* The second critical section.  Evicting means _unload_model(), which waits for
\* the lock this very task holds.
Insert(t) ==
    LET n == name[t] IN
    /\ at[t] = "insert" /\ lock = Free
    /\ \/ /\ Cached(n)
          /\ unloaded' = unloaded \union {held[t]}
          /\ Return(t, Model(n))
          /\ UNCHANGED <<entries, lock>>
       \/ /\ ~Cached(n) /\ Full(n) /\ HasVictim
          /\ lock' = t
          /\ Goto(t, "stuck")
          /\ UNCHANGED <<entries, held, unloaded>>
       \/ /\ ~Cached(n) /\ ~(Full(n) /\ HasVictim)
          /\ cache' = Append(cache, n)
          /\ ref' = [ref EXCEPT ![n] = held[t]]
          /\ memory' = memory + Size[n]
          /\ Return(t, held[t])
          /\ UNCHANGED <<lock, unloaded>>
    /\ name' = [name EXCEPT ![t] = ""]
    /\ UNCHANGED <<policy, victims, last, pressure>>

\* The caller is done with the model: nobody else keeps it alive.
Drop(t) ==
    /\ at[t] = "idle" /\ held[t] # None
    /\ held' = [held EXCEPT ![t] = None]
    /\ UNCHANGED <<policy, entries, lock, at, name, unloaded, victims, last, pressure>>

-----------------------------------------------------------------------------
(* _unload_model(), called by u for the first of its victims.              *)

Delete(n) ==
    /\ memory' = memory - Size[n]
    /\ cache' = Without(n)
    /\ ref' = [ref EXCEPT ![n] = None]

Next1(u) == Goto(u, IF Len(victims[u]) > 1 THEN "unload" ELSE IF u = Closer THEN "ended" ELSE "idle")
Done1(u) == victims' = [victims EXCEPT ![u] = Tail(@)]

\* A bug Unload could have: it lets go of the lock while the unloader runs.
UnloadUnlocked(u) ==
    LET n == Head(victims[u]) IN
    /\ at[u] = "unload" /\ lock = Free
    /\ IF Cached(n) /\ Alive(ref[n])
       THEN /\ unloaded' = unloaded \union {ref[n]}
            /\ held' = [held EXCEPT ![u] = ref[n]]
            /\ Goto(u, "unloading")
            /\ UNCHANGED <<entries, lock, victims>>
       ELSE /\ IF Cached(n) THEN Delete(n) ELSE UNCHANGED entries
            /\ Next1(u) /\ Done1(u)
            /\ UNCHANGED <<lock, held, unloaded>>
    /\ UNCHANGED <<policy, name, last, pressure>>

Unload(u) ==
    LET n == Head(victims[u]) IN
    /\ at[u] = "unload" /\ lock = Free
    /\ IF Cached(n) /\ Alive(ref[n])
       THEN /\ unloaded' = unloaded \union {ref[n]}
            /\ held' = [held EXCEPT ![u] = ref[n]]
            /\ lock' = u
            /\ Goto(u, "unloading")
            /\ UNCHANGED <<entries, victims>>
       ELSE /\ IF Cached(n) THEN Delete(n) ELSE UNCHANGED entries
            /\ Next1(u) /\ Done1(u)
            /\ UNCHANGED <<lock, held, unloaded>>
    /\ UNCHANGED <<policy, name, last, pressure>>

\* The unloader is through, with or without an exception.
Unloaded(u) ==
    /\ at[u] = "unloading"
    /\ Delete(Head(victims[u]))
    /\ lock' = Free
    /\ held' = [held EXCEPT ![u] = None]
    /\ Next1(u) /\ Done1(u)
    /\ UNCHANGED <<policy, name, unloaded, last, pressure>>

-----------------------------------------------------------------------------
(* _memory_monitor() and shutdown().                                       *)

\* Above 90 % half the cache goes, above 80 % the oldest entry.  On an empty cache
\* the variable victim keeps the value of an earlier round.
Squeeze ==
    /\ at[Monitor] = "idle" /\ lock = Free /\ pressure < MaxPressure
    /\ pressure' = pressure + 1
    /\ \E vs \in {SubSeq(cache, 1, Len(cache) \div 2),
                  IF cache # <<>> THEN <<cache[1]>>
                  ELSE IF last # "" THEN <<last>> ELSE <<>>} :
          /\ victims' = [victims EXCEPT ![Monitor] = vs]
          /\ last' = IF vs # <<>> THEN vs[Len(vs)] ELSE last
          /\ Goto(Monitor, IF vs # <<>> THEN "unload" ELSE "idle")
    /\ UNCHANGED <<policy, entries, lock, name, held, unloaded>>

\* shutdown() cancels the monitor.  Cancelled inside _unload_model(), it leaves the
\* entry of a model whose unloader has started.
StopMonitor ==
    /\ at[Closer] = "idle" /\ at[Monitor] # "ended"
    /\ Goto(Monitor, "ended")
    /\ lock' = IF lock = Monitor THEN Free ELSE lock
    /\ held' = [held EXCEPT ![Monitor] = None]
    /\ victims' = [victims EXCEPT ![Monitor] = <<>>]
    /\ UNCHANGED <<policy, entries, name, unloaded, last, pressure>>

Clear ==
    /\ at[Closer] = "idle" /\ at[Monitor] = "ended" /\ lock = Free
    /\ victims' = [victims EXCEPT ![Closer] = cache]
    /\ Goto(Closer, IF cache # <<>> THEN "unload" ELSE "ended")
    /\ UNCHANGED <<policy, entries, lock, name, held, unloaded, last, pressure>>

Rest ==
    /\ at[Closer] = "ended" \/ \E t \in Callers : at[t] = "stuck"
    /\ UNCHANGED vars

Next ==
    \/ \E t \in Callers : GetModel(t) \/ Load(t) \/ Insert(t) \/ Drop(t)
    \/ \E u \in {Monitor, Closer} : Unload(u) \/ Unloaded(u)
    \/ Squeeze \/ StopMonitor \/ Clear
    \/ Rest

Spec == Init /\ [][Next]_vars

-----------------------------------------------------------------------------
(* Properties.                                                             *)

\* What the cache believes to use is what its entries use, although loads overlap,
\* lose races, and unloads run outside the event loop; a unit of memory is a model and a number.
MemoryAccounted == memory = Cardinality(UNION {{n} \X (1..Size[n]) : n \in ToSet(cache)})

\* Nobody can be given a model whose unloader has been called: while one runs the
\* lock is held, and then the entry is gone.  Only shutdown() may break this, when
\* it interrupts the monitor.
CachedIsLoaded ==
    \A n \in ToSet(cache) :
        ref[n] \in unloaded =>
            \/ at[Monitor] = "ended"
            \/ \E u \in {Monitor, Closer} : lock = u /\ at[u] = "unloading" /\ Head(victims[u]) = n

\* "LRU eviction policy" (docstring of ModelCache): a task that has to evict does, and does not
\* wait for a lock that only it can release.
EvictionEnds == \A t \in Callers : at[t] = "stuck" => lock # t

\* "LRU eviction policy" (docstring of ModelCache), max_memory_mb: the models in the
\* cache fit into it.
WithinLimit == memory <= MaxMemory

\* "Pre-loads models into GPU memory" (module docstring): a cached model is there.
CachedIsAlive == \A n \in ToSet(cache) : Alive(ref[n])
=============================================================================
