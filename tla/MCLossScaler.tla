------------------------------ MODULE MCLossScaler ------------------------------
(***************************************************************************)
(* Small instances of LossScaler for TLC.                                   *)
(***************************************************************************)
EXTENDS LossScaler

=============================================================================
