----------------------------- MODULE MCSetup --------------------------------
(* Setup on two phones, which are alike. *)
EXTENDS Setup, TLC

Alike == Permutations(Phones)
=============================================================================
