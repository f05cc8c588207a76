--------------------------- MODULE MCConfirmations --------------------------
(* Instances of Confirmations for TLC. *)
EXTENDS Confirmations
=============================================================================
