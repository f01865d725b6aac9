---------------------------- MODULE JobLifecycle ----------------------------
(***************************************************************************)
(* What the distributed queue promises for each job, whatever the number   *)
(* of workers: a submitted job is run by one worker at a time, is run      *)
(* again after a failure until max_retries runs have failed, and ends      *)
(* completed or in the dead-letter queue, for good.  A run whose exception *)
(* has no text is taken for a completed one: the job is swallowed.         *)
(* DistributedQueue implements this as long as no claim expires, no        *)
(* process dies and Redis answers.                                         *)
(***************************************************************************)
EXTENDS Naturals

CONSTANTS Jobs, MaxRetries

VARIABLES
    phase,      \* where each job is in its life
    tries       \* how many of its runs have failed, with a text

vars == <<phase, tries>>

Phase == {"absent", "queued", "running", "completed", "swallowed", "dead"}

Init ==
    /\ phase = [j \in Jobs |-> "absent"]
    /\ tries = [j \in Jobs |-> 0]

Move(j, from, to) ==
    /\ phase[j] = from
    /\ phase' = [phase EXCEPT ![j] = to]

Submit(j) == Move(j, "absent", "queued") /\ UNCHANGED tries

Start(j) == Move(j, "queued", "running") /\ UNCHANGED tries

Complete(j) == Move(j, "running", "completed") /\ UNCHANGED tries

Swallow(j) == Move(j, "running", "swallowed") /\ UNCHANGED tries

Fail(j) ==
    /\ tries' = [tries EXCEPT ![j] = @ + 1]
    /\ Move(j, "running", IF tries[j] + 1 < MaxRetries THEN "queued" ELSE "dead")

End(j) == Complete(j) \/ Swallow(j) \/ Fail(j)

Next == \E j \in Jobs : Submit(j) \/ Start(j) \/ End(j)

Fairness == \A j \in Jobs : WF_vars(Start(j)) /\ WF_vars(End(j))

Spec == Init /\ [][Next]_vars /\ Fairness
=============================================================================
