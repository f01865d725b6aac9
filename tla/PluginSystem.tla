---------------------------- MODULE PluginSystem ----------------------------
(***************************************************************************)
(* The plugin manager (engine/plugin_system.py).                           *)
(*                                                                         *)
(* Agents - the discovery of plugins at the start, the watcher of the      *)
(* directory, callers of the manager and its shutdown - have steps to do,  *)
(* each a load or an unload of a plugin, and do each under the one lock.   *)
(* A step waits once, for initialize() or shutdown() of the plugin.  What  *)
(* is on disk for a plugin either works or does not; why it does not, its  *)
(* version and its configuration are left out, and so is the text that is  *)
(* searched for its class.                                                 *)
(***************************************************************************)
EXTENDS Integers, Sequences, FiniteSets, FiniteSetsExt, SequencesExt

CONSTANTS
    Plugins,        \* names, in their order: a set of naturals
    Requirements,   \* graphs considered: for each plugin, those it requires
    Hooks,          \* hook points of each plugin, from its metadata
    Callers,
    MaxEdits,       \* bound: edits of files
    MaxLeft         \* bound: failed loads of a plugin

Agents == Callers \union {"discovery", "watcher", "shutdown"}
Step == [op : {"load", "unload"}, name : Plugins]
Free == "free"

VARIABLES
    requires,       \* requires_plugins of each plugin, also names that are not there
    disk,           \* whether what is on disk works
    touched,        \* plugins whose modification time differs from the watcher's
    edits,
    plugins,        \* _plugins, whose keys are those of _metadata
    handlers,       \* pairs of a hook and a plugin in the registry
    alive,          \* instances per plugin whose initialize() was called and shutdown() not
    left,           \* those of them a failed or cancelled load has left behind
    sound,          \* whether the instance being initialized works
    todo,           \* steps each agent has before it
    lock,           \* who holds _lock, while its first step waits
    phase           \* of the manager

instances == <<alive, left, sound>>
vars == <<requires, disk, touched, edits, plugins, handlers, instances, todo, lock, phase>>

TypeOK ==
    /\ requires \in Requirements
    /\ disk \in [Plugins -> BOOLEAN] /\ touched \subseteq Plugins /\ edits \in 0..MaxEdits
    /\ plugins \subseteq Plugins
    /\ handlers \subseteq UNION {Hooks[n] \X {n} : n \in Plugins}
    /\ alive \in [Plugins -> Nat] /\ left \in [Plugins -> Nat] /\ sound \in BOOLEAN
    /\ todo \in [Agents -> Seq(Step)]
    /\ lock \in Agents \union {Free}
    /\ phase \in {"new", "running", "stopping", "over"}

Init ==
    /\ requires \in Requirements
    /\ disk = [n \in Plugins |-> TRUE] /\ touched = {} /\ edits = 0
    /\ plugins = {} /\ handlers = {} /\ alive = [n \in Plugins |-> 0]
    /\ left = [n \in Plugins |-> 0] /\ sound = TRUE
    /\ todo = [a \in Agents |-> <<>>] /\ lock = Free /\ phase = "new"

Steps(op, names) == [i \in DOMAIN names |-> [op |-> op, name |-> names[i]]]

-----------------------------------------------------------------------------
(* Discovery.                                                              *)

InOrder(names) ==
    CHOOSE s \in SetToSeqs(names) : \A i, k \in DOMAIN s : i < k => s[i] < s[k]

\* The orders in which a set of names may be iterated: strings hash as they like.
Iterations == {at \in [Plugins -> Plugins] : IsInjective(at)}

\* As Ready below, asking only for fewer requirements than there are candidates.
ReadyByCount(unresolved, at) ==
    {n \in unresolved : \A m \in unresolved : Cardinality(requires[n]) <= Cardinality(requires[m])}

\* Those with no requirement that is unresolved, or else the one that comes first.
Ready(unresolved, at) ==
    LET free == {n \in unresolved : requires[n] \cap unresolved = {}}
    IN  IF free # {} THEN free ELSE {n \in unresolved : \A m \in unresolved : at[n] <= at[m]}

\* _resolve_dependencies()
Resolved(at) ==
    LET order[unresolved \in SUBSET Plugins] ==
            IF unresolved = {} THEN <<>>
            ELSE InOrder(Ready(unresolved, at)) \o order[unresolved \ Ready(unresolved, at)]
    IN  order[Plugins]

\* initialize() and discover_plugins(); the watcher starts when all have been tried.
Initialize ==
    /\ phase = "new"
    /\ phase' = "running"
    /\ \E at \in Iterations : todo' = [todo EXCEPT !["discovery"] = Steps("load", Resolved(at))]
    /\ UNCHANGED <<requires, disk, touched, edits, plugins, handlers, instances, lock>>

-----------------------------------------------------------------------------
(* The steps of an agent.                                                  *)

Doing(a, op, n) == todo[a] # <<>> /\ Head(todo[a]) = [op |-> op, name |-> n]
Done(a) == todo' = [todo EXCEPT ![a] = Tail(@)]

\* _load_plugin() returns before it waits: loaded already, a requirement missing, or what is
\* on disk cannot be loaded.
LoadRefused(a, n) ==
    /\ Doing(a, "load", n) /\ lock = Free
    /\ n \in plugins \/ ~(requires[n] \subseteq plugins) \/ ~disk[n]
    /\ Done(a)
    /\ UNCHANGED <<requires, disk, touched, edits, plugins, handlers, instances, lock, phase>>

\* As LoadBegins below would be with the check made before the lock is taken.
LoadBeginsUnchecked(a, n) ==
    /\ Doing(a, "load", n) /\ lock = Free
    /\ disk[n] \/ left[n] < MaxLeft
    /\ lock' = a /\ sound' = disk[n]
    /\ alive' = [alive EXCEPT ![n] = @ + 1]
    /\ UNCHANGED <<requires, disk, touched, edits, plugins, handlers, left, todo, phase>>

\* _load_plugin() up to the wait for initialize() of the new instance, which a plugin that
\* does not work may reach as well.
LoadBegins(a, n) ==
    /\ Doing(a, "load", n) /\ lock = Free
    /\ n \notin plugins /\ requires[n] \subseteq plugins
    /\ disk[n] \/ left[n] < MaxLeft
    /\ lock' = a /\ sound' = disk[n]
    /\ alive' = [alive EXCEPT ![n] = @ + 1]
    /\ UNCHANGED <<requires, disk, touched, edits, plugins, handlers, left, todo, phase>>

\* _register_plugin_hooks() looks the plugin up in _metadata, where it is entered only
\* afterwards: of a plugin that is not loaded nothing is registered.
Registered(n) == IF n \in plugins THEN Hooks[n] \X {n} ELSE {}

LoadEnds(a, n) ==
    /\ Doing(a, "load", n) /\ lock = a
    /\ IF sound
       THEN /\ plugins' = plugins \union {n} /\ handlers' = handlers \union Registered(n)
            /\ UNCHANGED left
       ELSE left' = [left EXCEPT ![n] = @ + 1] /\ UNCHANGED <<plugins, handlers>>
    /\ lock' = Free /\ Done(a)
    /\ UNCHANGED <<requires, disk, touched, edits, alive, sound, phase>>

\* unload_plugin() of what is not loaded; its beginning; its end, whether or not shutdown()
\* of the plugin raised.
UnloadRefused(a, n) ==
    /\ Doing(a, "unload", n) /\ lock = Free /\ n \notin plugins
    /\ Done(a)
    /\ UNCHANGED <<requires, disk, touched, edits, plugins, handlers, instances, lock, phase>>

UnloadBegins(a, n) ==
    /\ Doing(a, "unload", n) /\ lock = Free /\ n \in plugins
    /\ lock' = a
    /\ handlers' = {h \in handlers : h[2] # n}
    /\ UNCHANGED <<requires, disk, touched, edits, plugins, instances, todo, phase>>

UnloadEnds(a, n) ==
    /\ Doing(a, "unload", n) /\ lock = a
    /\ plugins' = plugins \ {n}
    /\ alive' = [alive EXCEPT ![n] = @ - 1]
    /\ lock' = Free /\ Done(a)
    /\ UNCHANGED <<requires, disk, touched, edits, handlers, left, sound, phase>>

-----------------------------------------------------------------------------
(* Where steps come from.  The manager is used when initialize() has       *)
(* returned.                                                               *)

\* reload_plugin(); the two halves each take the lock.
Reload(n) == (IF n \in plugins THEN Steps("unload", <<n>>) ELSE <<>>) \o Steps("load", <<n>>)

CallUnload(a, n) ==
    /\ phase = "running" /\ todo["discovery"] = <<>> /\ todo[a] = <<>>
    /\ todo' = [todo EXCEPT ![a] = Steps("unload", <<n>>)]
    /\ UNCHANGED <<requires, disk, touched, edits, plugins, handlers, instances, lock, phase>>

CallReload(a, n) ==
    /\ phase = "running" /\ todo["discovery"] = <<>> /\ todo[a] = <<>>
    /\ todo' = [todo EXCEPT ![a] = Reload(n)]
    /\ UNCHANGED <<requires, disk, touched, edits, plugins, handlers, instances, lock, phase>>

\* _watch_plugins() meets a file that changed: it reloads what is loaded, and in any case
\* remembers the new time.
WatcherNotices(n) ==
    /\ phase = "running" /\ todo["watcher"] = <<>> /\ todo["discovery"] = <<>>
    /\ n \in touched
    /\ touched' = touched \ {n}
    /\ todo' = [todo EXCEPT !["watcher"] = IF n \in plugins THEN Reload(n) ELSE <<>>]
    /\ UNCHANGED <<requires, disk, edits, plugins, handlers, instances, lock, phase>>

Edit(n, works) ==
    /\ edits < MaxEdits
    /\ edits' = edits + 1
    /\ disk' = [disk EXCEPT ![n] = works]
    /\ touched' = touched \union {n}
    /\ UNCHANGED <<requires, plugins, handlers, instances, todo, lock, phase>>

\* shutdown() cancels the watcher, in the middle of a step too, and unloads the plugins that
\* are loaded then.
Shutdown ==
    /\ phase = "running" /\ todo["discovery"] = <<>>
    /\ phase' = "stopping"
    /\ lock' = IF lock = "watcher" THEN Free ELSE lock
    /\ todo' = [todo EXCEPT !["watcher"] = <<>>,
                            !["shutdown"] = Steps("unload", InOrder(plugins))]
    /\ left' = [n \in Plugins |->
            IF lock = "watcher" /\ Doing("watcher", "load", n) THEN left[n] + 1 ELSE left[n]]
    /\ UNCHANGED <<requires, disk, touched, edits, plugins, handlers, alive, sound>>

ShutdownEnds ==
    /\ phase = "stopping" /\ todo["shutdown"] = <<>>
    /\ phase' = "over"
    /\ UNCHANGED <<requires, disk, touched, edits, plugins, handlers, instances, todo, lock>>

Over == phase = "over" /\ (\A a \in Agents : todo[a] = <<>>) /\ UNCHANGED vars

Next ==
    \/ Initialize \/ Shutdown \/ ShutdownEnds \/ Over
    \/ \E a \in Agents, n \in Plugins :
          \/ LoadRefused(a, n) \/ LoadBegins(a, n) \/ LoadEnds(a, n)
          \/ UnloadRefused(a, n) \/ UnloadBegins(a, n) \/ UnloadEnds(a, n)
    \/ \E a \in Callers, n \in Plugins : CallUnload(a, n) \/ CallReload(a, n)
    \/ \E n \in Plugins : WatcherNotices(n) \/ \E works \in BOOLEAN : Edit(n, works)

Spec == Init /\ [][Next]_vars

-----------------------------------------------------------------------------
(* Properties.                                                             *)

\* Loads and reloads of a plugin by several agents never make two instances of it, and an
\* entry of _plugins stands for a living one; only what a failed or cancelled load left
\* behind lives beside it.
OneInstance == \A n \in Plugins : alive[n] - left[n] <= 1 /\ (n \in plugins => alive[n] > left[n])

\* A plugin can be loaded if all it requires can: the least set for which that is so leaves out
\* the plugins that come to a cycle of requirements, or to a name that is not there.
Loadable ==
    {n \in Plugins : \A S \in SUBSET Plugins :
        (\A m \in Plugins : requires[m] \subseteq S => m \in S) => n \in S}

\* Plugins that can be loaded are: when discovery ends, and nobody has edited a file, all of them
\* are loaded.
DiscoveryIsComplete ==
    [][(edits = 0 /\ todo["discovery"] # <<>> /\ todo'["discovery"] = <<>>) =>
          Loadable \subseteq plugins']_vars

\* A loaded plugin with hooks has them registered ("Auto-register plugin methods as hook
\* handlers", plugin_system.py:484).
LoadedIsHooked == lock = Free => \A n \in plugins : Hooks[n] \X {n} \subseteq handlers

\* A loaded plugin has what it requires.
RequirementsLoaded == lock = Free => \A n \in plugins : requires[n] \subseteq plugins

\* After a shutdown no instance lives.
AllShutDown == phase = "over" => \A n \in Plugins : alive[n] = 0
=============================================================================
