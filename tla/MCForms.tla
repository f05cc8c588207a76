----------------------------- MODULE MCForms --------------------------------
(* Forms on two phones, which are alike. *)
EXTENDS Forms, TLC

Alike == Permutations(Devices)
=============================================================================
