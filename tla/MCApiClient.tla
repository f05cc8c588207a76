---------------------------- MODULE MCApiClient -----------------------------
(* Instances of ApiClient for TLC: with three requests, each of which can  *)
(* refresh once and open a session, seven pairs are never used up.         *)
EXTENDS ApiClient

Everything == {"call", "login", "logout", "change"}

AllFaults == {"lost", "restart", "torn"}
=============================================================================
