---------------------------- MODULE MCApiClient ----------------------------
(* Instances of ApiClient for TLC.                                          *)
EXTENDS ApiClient

CONSTANTS j1, j2, j3    \* the jobs
=============================================================================
