----------------------------- MODULE MCAppCache -----------------------------
EXTENDS AppCache, TLC

Symmetry == Permutations(Expenses)

Used == {s \in Submits : submit[s].pc # "new"}

(* Three submissions meet one failure, two meet two.  Changes of other      *)
(* screens meet a single expense, submitted at most twice, and one failure. *)
Bounded ==
    /\ Cardinality(Used) + faults <= 4
    /\ (\E c \in Changes : change[c].pc # "new") =>
        /\ Cardinality(Used) <= 2 /\ faults <= 1
        /\ Cardinality({submit[s].expense : s \in Used}) <= 1
=============================================================================
