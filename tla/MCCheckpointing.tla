---------------------------- MODULE MCCheckpointing ----------------------------
(***************************************************************************)
(* Small instances of Checkpointing for TLC: two ranks, of which one or     *)
(* both have shards to write; saves at a ramp-up, at an interval and at the *)
(* end, so that up to three are in flight.                                  *)
(***************************************************************************)
EXTENDS Checkpointing

MCConfigs ==
  [async : {TRUE}, exit : {"none"}, withData : {{0, 1}, {1}}]
    \cup [async : {FALSE}, exit : {"none"}, withData : {{0, 1}}]
    \cup [async : {TRUE}, exit : {"signal", "duration", "interval"}, withData : {{0, 1}}]

MCRampUpConfigs == [async : BOOLEAN, exit : {"none"}, withData : {{0, 1}}]

=============================================================================
