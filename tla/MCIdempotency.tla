---------------------------- MODULE MCIdempotency ----------------------------
(* An instance of Idempotency for TLC: two attempts race, or one of them is *)
(* a retry, and the clock passes the life of a key twice.                  *)
EXTENDS Idempotency
=============================================================================
