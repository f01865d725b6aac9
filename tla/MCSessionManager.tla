-------------------------- MODULE MCSessionManager --------------------------
(* Instances of SessionManager for TLC.                                     *)
EXTENDS SessionManager, TLC

CONSTANTS j1, j2, j3    \* the jobs

\* Jobs only differ by name, and no property here is a liveness property.
JobSymmetry == Permutations(Jobs)
=============================================================================
