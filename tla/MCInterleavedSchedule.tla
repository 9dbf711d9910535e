------------------------ MODULE MCInterleavedSchedule ------------------------
(***************************************************************************)
(* A small instance of InterleavedSchedule for TLC: as many microbatches as *)
(* ranks (all warmup) and twice as many (a steady state), training and      *)
(* forward only, with and without overlap_p2p_comm and grad_sync_func.      *)
(***************************************************************************)
EXTENDS InterleavedSchedule

MCConfigs ==
  [microbatches : {P, 2 * P}, forwardOnly : {FALSE}, overlap : BOOLEAN, gradSyncFunc : BOOLEAN]
    \cup [microbatches : {P}, forwardOnly : {TRUE}, overlap : BOOLEAN, gradSyncFunc : {FALSE}]

=============================================================================
