------------------------- MODULE MCDistributedQueue -------------------------
(* Instances of DistributedQueue for TLC.                                   *)
EXTENDS DistributedQueue

CONSTANTS w1, w2,   \* the workers
          j1, j2    \* the jobs

\* j1 goes first, and its retries share a band with fresh copies of j2.
MCPriority == [j \in Jobs |-> IF j = j1 THEN 1 ELSE 2]

=============================================================================
