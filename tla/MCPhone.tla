------------------------------- MODULE MCPhone -------------------------------
EXTENDS Phone, TLC

Symmetry == Permutations(Accounts)

(* Reminders and the lock share only the session: while notifications are  *)
(* allowed nobody touches the lock, and while they are not, everybody may.  *)
(* Absences are checked without privacy mode, which only the widget reads.  *)
LockUntouched ==
    /\ app = "active" /\ clock = 0 /\ lock = NewLock /\ prompt = "none" /\ ~store.lock
    /\ \A i \in DOMAIN calls : calls[i].then # "enabled"

Bounded ==
    /\ Len(calls) <= 3 /\ Len(jobs) <= 3
    /\ (granted \/ switches > 0) => LockUntouched /\ ~hideAmounts /\ phoneLock
    /\ hideAmounts => clock = 0
=============================================================================
