---------------------------- MODULE MCSchedule1F1B ----------------------------
(***************************************************************************)
(* A small instance of Schedule1F1B for TLC: fewer microbatches than ranks  *)
(* (no steady state on the first ranks), as many, and more; training with   *)
(* and without grad_sync_func, and evaluation.                              *)
(***************************************************************************)
EXTENDS Schedule1F1B

MCConfigs ==
  [microbatches : 1 .. P + 2, forwardOnly : {FALSE}, gradSyncFunc : BOOLEAN]
    \cup [microbatches : 1 .. P + 2, forwardOnly : {TRUE}, gradSyncFunc : {FALSE}]

=============================================================================
