--------------------------- MODULE KeyedExecution ---------------------------
(***************************************************************************)
(* What an Idempotency-Key promises, without the database that keeps the   *)
(* promise: of all the attempts that carry one key, one takes effect in    *)
(* the key's lifetime, and any other attempt answered with success is      *)
(* answered with the effect of that one: an effect of its own key and      *)
(* body, in force when the attempt came in, and not one that a later       *)
(* effect of the key has replaced.  The promise is the one made by the     *)
(* comment of IdempotencyService.run.                                      *)
(***************************************************************************)
EXTENDS Integers

CONSTANTS
    Attempts,   \* HTTP requests; a retry is another attempt
    Keys,       \* (user, scope, key) triples
    Bodies,     \* validated request bodies
    TTL         \* lifetime of a key, in clock units

VARIABLES
    clock,      \* the time
    asked,      \* attempt -> its key, its body and when it came, for those that came
    ledger,     \* attempt -> the effect it committed, for the attempts that did
    given       \* attempt -> the attempt whose effect its answer describes

vars == <<clock, asked, ledger, given>>

Until(b) == ledger[b].from + TTL

EffectsOf(k) == {b \in DOMAIN ledger : ledger[b].key = k}

\* The effects of k that forbid another one now.
InForce(k) == {b \in EffectsOf(k) : Until(b) > clock}

\* The effect b of a key is over when c happens: c is of the key's next life.
Replaces(c, b) == Until(b) <= ledger[c].at

\* The effect a retry of a may be told of.
Answers(a, b) ==
    /\ b \in EffectsOf(asked[a].key)
    /\ ledger[b].body = asked[a].body
    /\ Until(b) > asked[a].since
    /\ \A c \in EffectsOf(asked[a].key) \ {b} : Replaces(b, c)

Init ==
    /\ clock = 0
    /\ asked = [a \in {} |-> a]
    /\ ledger = [a \in {} |-> a]
    /\ given = [a \in {} |-> a]

Pass ==
    /\ clock' = clock + 1
    /\ UNCHANGED <<asked, ledger, given>>

Ask(a) ==
    /\ a \notin DOMAIN asked
    /\ \E q \in [key: Keys, body: Bodies, since: {clock}] :
          asked' = [b \in DOMAIN asked \cup {a} |-> IF b = a THEN q ELSE asked[b]]
    /\ UNCHANGED <<clock, ledger, given>>

(* The first attempt with a key (or the first one after the key expired).  *)
(* The key's life is counted from when the attempt came.                   *)
Execute(a) ==
    /\ a \in DOMAIN asked \ DOMAIN ledger
    /\ InForce(asked[a].key) = {}
    /\ LET e == [key |-> asked[a].key, body |-> asked[a].body,
                 from |-> asked[a].since, at |-> clock]
       IN  ledger' = [b \in DOMAIN ledger \cup {a} |-> IF b = a THEN e ELSE ledger[b]]
    /\ UNCHANGED <<clock, asked, given>>

(* A success describes the attempt's own effect if it has one, and else    *)
(* the effect of the key's current life.                                   *)
Answer(a) ==
    /\ a \in DOMAIN asked \ DOMAIN given
    /\ \E b \in DOMAIN ledger :
          /\ IF a \in DOMAIN ledger THEN b = a ELSE Answers(a, b)
          /\ given' = [c \in DOMAIN given \cup {a} |-> IF c = a THEN b ELSE given[c]]
    /\ UNCHANGED <<clock, asked, ledger>>

Next ==
    \/ Pass
    \/ \E a \in Attempts : Ask(a) \/ Execute(a) \/ Answer(a)

Spec == Init /\ [][Next]_vars

=============================================================================
