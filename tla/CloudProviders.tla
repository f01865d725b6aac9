--------------------------- MODULE CloudProviders ---------------------------
(***************************************************************************)
(* Machines of several cloud providers under one manager                   *)
(* (engine/cloud_providers.py).                                            *)
(*                                                                         *)
(* The libraries of the providers are called synchronously, so that a      *)
(* provision is one step, except that a spot request at AWS is polled for  *)
(* five minutes.  Any call may fail, before the provider has begun or      *)
(* after.  A machine at AWS gets an identifier from the provider, one at    *)
(* GCP or Azure is identified by the name the caller gives it.  Prices are *)
(* in tenths of the on-demand unit: a spot price is 3 of 10.               *)
(***************************************************************************)
EXTENDS Integers, Sequences, FiniteSets, FiniteSetsExt, SequencesExt

CONSTANTS
    Providers,      \* those registered, a sequence over {"aws", "gcp", "azure"}
    Catalog,        \* of each provider, a set of [gpu, count, price]
    Names, Ids,     \* names callers use, identifiers AWS gives
    Callers,
    Wanted          \* requests: [gpu, count, spot, limit]; a limit of 0 is none

Given == ToSet(Providers)
Keys == Given \X (Names \union Ids)
NoRequest == [gpu |-> "any", count |-> 1, spot |-> FALSE, limit |-> 0]

VARIABLES
    machines,       \* what each provider has: status of each machine, or "none"
    price,          \* what an hour of it costs
    managed,        \* _instances: identifier -> provider, for those managed
    waiting,        \* the spot request of each caller, by the machine it will become
    abandoned       \* history: the machines the manager has lost sight of, see LeaksAreKnown

vars == <<machines, price, managed, waiting, abandoned>>

TypeOK ==
    /\ machines \in [Keys -> {"none", "requested", "pending", "running", "stopping"}]
    /\ price \in [Keys -> Nat]
    /\ DOMAIN managed \subseteq Names \union Ids /\ Range(managed) \subseteq Given
    /\ waiting \in [Callers -> Ids \union {"none"}]
    /\ abandoned \subseteq Keys

Init ==
    /\ machines = [k \in Keys |-> "none"] /\ price = [k \in Keys |-> 0]
    /\ managed = <<>>
    /\ waiting = [c \in Callers |-> "none"] /\ abandoned = {}

-----------------------------------------------------------------------------
(* The choice of an instance.                                              *)

\* list_available_instances(), of any provider: what has the GPU and enough of them, with
\* the price of an hour.
Available(p, w) ==
    {[provider |-> p, price |-> IF w.spot THEN 3 * i.price ELSE 10 * i.price]
        : i \in {s \in Catalog[p] : w.gpu \in {"any", s.gpu} /\ s.count >= w.count}}

\* find_best_instance(): min() keeps the first of equals, in the order of registration.
Best(w) ==
    LET all == UNION {Available(p, w) : p \in Given}
        fit == {s \in all : w.limit = 0 \/ s.price <= w.limit}
        rank(p) == CHOOSE i \in DOMAIN Providers : Providers[i] = p
    IN  IF fit = {} THEN {}
        ELSE {CHOOSE s \in fit : \A t \in fit :
                s.price < t.price \/ (s.price = t.price /\ rank(s.provider) <= rank(t.provider))}

-----------------------------------------------------------------------------
(* Provisioning.                                                           *)

Create(k, cost, status) ==
    /\ machines' = [machines EXCEPT ![k] = status]
    /\ price' = [price EXCEPT ![k] = cost]

Managed(k) == k[2] \in DOMAIN managed /\ managed[k[2]] = k[1]

\* _instances[id] = instance
Manage(id, p) ==
    /\ managed' = [i \in DOMAIN managed \union {id} |-> IF i = id THEN p ELSE managed[i]]
    /\ abandoned' = (abandoned \ {<<p, id>>}) \union
            (IF id \in DOMAIN managed THEN {<<managed[id], id>>} \ {<<p, id>>} ELSE {})

FreeIds == {i \in Ids : machines[<<"aws", i>>] = "none" /\ <<"aws", i>> \notin abandoned}

\* AWSClient.provision_instance(), on demand.
ProvisionAws(s) ==
    \E id \in FreeIds :
        /\ Create(<<"aws", id>>, s.price, "pending")
        /\ Manage(id, "aws") /\ UNCHANGED waiting

\* The same for a spot request, which becomes a machine later or not at all.
RequestSpot(c, s) ==
    \E id \in FreeIds :
        /\ Create(<<"aws", id>>, s.price, "requested")
        /\ waiting' = [waiting EXCEPT ![c] = id]
        /\ UNCHANGED <<managed, abandoned>>

\* GCPClient.provision_instance() does not wait for the operation it starts;
\* AzureClient.provision_instance() does, and Azure updates a machine of that name.
ProvisionGcp(name, s) ==
    /\ machines[<<"gcp", name>>] = "none"
    /\ Create(<<"gcp", name>>, s.price, "pending")
    /\ Manage(name, "gcp") /\ UNCHANGED waiting

ProvisionAzure(name, s) ==
    /\ machines[<<"azure", name>>] # "stopping"
    /\ Create(<<"azure", name>>, s.price, "running")
    /\ Manage(name, "azure") /\ UNCHANGED waiting

\* An exception after the provider has begun: the answer is lost, or Azure's result() raises.
\* Nothing is cancelled, and provision_best_instance() answers None.
Lose(k) == abandoned' = IF Managed(k) THEN abandoned ELSE abandoned \union {k}

ProvisionRaises(c, name, w) ==
    /\ waiting[c] = "none"
    /\ \E s \in Best(w), k \in Keys :
        /\ k[1] = s.provider
        /\ k[2] \in IF s.provider = "aws" THEN FreeIds ELSE {name}
        /\ s.provider # "azure" => machines[k] = "none"
        /\ machines[k] # "stopping"
        /\ Create(k, s.price, IF s.provider = "aws" /\ w.spot THEN "requested" ELSE "pending")
        /\ Lose(k)
    /\ UNCHANGED <<managed, waiting>>

\* provision_best_instance(), when the provider does not refuse.
ProvisionBest(c, name, w) ==
    /\ waiting[c] = "none"
    /\ \E s \in Best(w) :
        \/ s.provider = "aws" /\ ~w.spot /\ ProvisionAws(s)
        \/ s.provider = "aws" /\ w.spot /\ RequestSpot(c, s)
        \/ s.provider = "gcp" /\ ProvisionGcp(name, s)
        \/ s.provider = "azure" /\ ProvisionAzure(name, s)

\* _wait_for_spot_instance(): the poll that finds the request fulfilled; one that finds that
\* there is no capacity, or raises, or the end of the time, after which nobody cancels the
\* request: it may still be fulfilled.
SpotFulfilled(c) ==
    LET id == waiting[c] IN
    /\ id # "none" /\ machines[<<"aws", id>>] \in {"pending", "running"}
    /\ Manage(id, "aws")
    /\ waiting' = [waiting EXCEPT ![c] = "none"]
    /\ UNCHANGED <<machines, price>>

SpotGivenUp(c) ==
    /\ waiting[c] # "none"
    /\ abandoned' = abandoned \union {<<"aws", waiting[c]>>}
    /\ waiting' = [waiting EXCEPT ![c] = "none"]
    /\ UNCHANGED <<machines, price, managed>>

-----------------------------------------------------------------------------
(* Termination, and what the manager reports.                              *)

Forget(id) == managed' = [i \in DOMAIN managed \ {id} |-> managed[i]]

\* The provider ends a machine: Azure answers when it is gone.
End(k) == machines' = [machines EXCEPT ![k] = IF k[1] = "azure" THEN "none" ELSE "stopping"]

\* As Terminate below, forgetting the instance even when the provider refused.
TerminateForgetting(id, ok) ==
    /\ id \in DOMAIN managed /\ Forget(id)
    /\ LET k == <<managed[id], id>> IN
       UNCHANGED machines \/ (machines[k] # "none" /\ End(k))
    /\ UNCHANGED <<price, waiting, abandoned>>

\* terminate_instance(); a call that fails may have done its work.  AWS accepts the
\* termination of any machine it still lists; GCP and Azure refuse a machine they no longer
\* have.
Terminate(id, ok) ==
    /\ id \in DOMAIN managed
    /\ LET k == <<managed[id], id>> IN
       IF ok THEN machines[k] # "none" /\ End(k) /\ Forget(id)
       ELSE UNCHANGED managed /\ (UNCHANGED machines \/ (machines[k] # "none" /\ End(k)))
    /\ UNCHANGED <<price, waiting, abandoned>>

\* get_instance_status() of each client builds a specification of its own for the machine,
\* with the status the provider reports and without a price.
Status(k) == [running |-> machines[k] = "running", price |-> 0]

\* list_instances() of each client, get_all_instances(), get_total_cost().
Listed(p) == {k \in Keys : k[1] = p /\ machines[k] \notin {"none", "requested"}}
AllInstances == UNION {Listed(p) : p \in Given}
TotalCost == MapThenSumSet(LAMBDA k : IF Status(k).running THEN Status(k).price ELSE 0, AllInstances)

-----------------------------------------------------------------------------
(* The providers.                                                          *)

Turns(k, from, to) ==
    /\ machines[k] = from
    /\ machines' = [machines EXCEPT ![k] = to]
    /\ UNCHANGED <<price, managed, waiting, abandoned>>

Fulfils(k) == Turns(k, "requested", "pending")
Closes(k) == Turns(k, "requested", "none")
Boots(k) == Turns(k, "pending", "running")
Vanishes(k) == Turns(k, "stopping", "none")
Reclaims(k) == price[k] % 10 # 0 /\ Turns(k, "running", "stopping")

\* GCPClient.terminate_instance() does not wait for the deletion it starts, which may fail.
Survives(k) ==
    /\ k[1] = "gcp" /\ machines[k] = "stopping"
    /\ machines' = [machines EXCEPT ![k] = "running"]
    /\ Lose(k)
    /\ UNCHANGED <<price, managed, waiting>>

Next ==
    \/ \E c \in Callers, name \in Names, w \in Wanted : ProvisionBest(c, name, w)
    \/ \E c \in Callers, name \in Names, w \in Wanted : ProvisionRaises(c, name, w)
    \/ \E c \in Callers : SpotFulfilled(c) \/ SpotGivenUp(c)
    \/ \E id \in Names \union Ids, ok \in BOOLEAN : Terminate(id, ok)
    \/ \E k \in Keys : Fulfils(k) \/ Closes(k) \/ Boots(k) \/ Vanishes(k) \/ Reclaims(k) \/ Survives(k)

Spec == Init /\ [][Next]_vars

-----------------------------------------------------------------------------
(* Properties.                                                             *)

Alive(k) == machines[k] \in {"pending", "running"}
Awaited(k) == \E c \in Callers : k = <<"aws", waiting[c]>>

\* A machine that costs money is managed or awaited, or was lost in one of the four ways the
\* code leaves open: a spot request that nobody cancelled when its wait ended, a provision that
\* raised after the provider had begun, a deletion at GCP that failed when nobody looked any
\* more, and a name that another provider's machine has taken in _instances.
LeaksAreKnown ==
    \A k \in Keys : Alive(k) => Managed(k) \/ Awaited(k) \/ k \in abandoned

\* "Resource tracking" (MultiCloudManager, cloud_providers.py:992): no machine is lost.
ResourcesTracked == \A k \in Keys : Alive(k) => Managed(k) \/ Awaited(k)

\* "Get total current hourly cost of all running instances" (cloud_providers.py:1150).
CostIsCounted == (\E k \in AllInstances : machines[k] = "running") => TotalCost > 0
=============================================================================
