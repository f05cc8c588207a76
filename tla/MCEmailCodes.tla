---------------------------- MODULE MCEmailCodes ----------------------------
(* Instances of EmailCodes for TLC. *)
EXTENDS EmailCodes, TLC

VerificationAndChange == {"EMAIL_VERIFICATION", "EMAIL_CHANGE"}

Symmetry == Permutations(Requests) \cup Permutations(Codes)
=============================================================================
