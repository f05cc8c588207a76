----------------------------- MODULE Idempotency -----------------------------
(***************************************************************************)
(* IdempotencyService.run, idempotentPost and IdempotencySweeper of        *)
(* apps/api/src/idempotency over Postgres at READ COMMITTED.               *)
(*                                                                         *)
(* Each SQL statement of a request is one action.  Rows written inside     *)
(* db.$transaction are invisible until Commit; an INSERT that meets the    *)
(* unique index (user, scope, key) waits while the other transaction is    *)
(* open and fails (P2002) once a committed row holds the key.              *)
(*                                                                         *)
(* Abstractions: a key stands for the whole (user, scope, key) triple, a   *)
(* body for its sha256 and for the response stored with it, `perform' for  *)
(* one row of any of the resources created through idempotentPost.         *)
(***************************************************************************)
EXTENDS Integers, FiniteSets

CONSTANTS
    Attempts,   \* HTTP requests that arrive; a client's retry is another one
    Keys,       \* (user, scope, Idempotency-Key)
    NoKey,      \* the header is absent
    Bodies,     \* validated bodies
    TTL,        \* IDEMPOTENCY_TTL_MS in clock units
    MaxClock    \* bound: the last clock value explored

ASSUME TTLAssumption == TTL \in Nat \ {0}
ASSUME ClockAssumption == MaxClock \in Nat
ASSUME NoKeyAssumption == NoKey \notin Keys

VARIABLES
    clock,      \* CLOCK of the API and of the database host
    keyRows,    \* key -> its committed IdempotencyKey row, for keys that have one
    resources,  \* attempt -> the row its `perform' committed, when it did
    req,        \* attempt -> what was sent and the local state of its handler
    answered    \* attempt -> the answer sent, for those that got one

vars == <<clock, keyRows, resources, req, answered>>

Stages == {"idle", "purge", "find", "perform", "insert", "commit", "recheck",
           "respond", "done", "lost"}

Request == [stage: Stages, key: Keys \cup {NoKey}, body: Bodies, now: Nat]

KeyRow == [body: Bodies, by: Attempts, expiresAt: Int]

Resource == [key: Keys \cup {NoKey}, body: Bodies, from: Int, at: Int]

Answers == [status: {"created", "replayed"}, of: Attempts]
             \cup [status: {"unprocessable", "failed"}]

TypeOK ==
    /\ clock \in Nat
    /\ DOMAIN keyRows \subseteq Keys
    /\ \A k \in DOMAIN keyRows : keyRows[k] \in KeyRow
    /\ DOMAIN resources \subseteq Attempts
    /\ \A a \in DOMAIN resources : resources[a] \in Resource
    /\ req \in [Attempts -> Request]
    /\ DOMAIN answered \subseteq Attempts
    /\ \A a \in DOMAIN answered : answered[a] \in Answers

Init ==
    /\ clock = 0
    /\ keyRows = [k \in {} |-> k]
    /\ resources = [a \in {} |-> a]
    /\ req \in [Attempts -> [stage: {"idle"}, key: Keys \cup {NoKey}, body: Bodies, now: {0}]]
    /\ answered = [a \in {} |-> a]

-----------------------------------------------------------------------------
Put(f, x, v) == [y \in DOMAIN f \cup {x} |-> IF y = x THEN v ELSE f[y]]

At(a, stage) == req[a].stage = stage

Goto(a, stage) == req' = [req EXCEPT ![a].stage = stage]

Expired(k) == keyRows[k].expiresAt <= clock

(* Mutant: an expired row counts until it is purged. *)
FindValidMutant(a) == {k \in DOMAIN keyRows : k = req[a].key}

(* findValid: an expired row counts as absent even before it is purged. *)
FindValid(a) ==
    {k \in DOMAIN keyRows : k = req[a].key /\ keyRows[k].expiresAt > req[a].now}

(* The transactions that hold an uncommitted row of key k. *)
Inserting(k) == {a \in Attempts : At(a, "commit") /\ req[a].key = k}

(* Mutant: the sweep deletes the keys that are still valid. *)
PurgedMutant == [k \in {k \in DOMAIN keyRows : Expired(k)} |-> keyRows[k]]

Purged == [k \in {k \in DOMAIN keyRows : ~Expired(k)} |-> keyRows[k]]

(* Mutant: the stored answer whatever the body. *)
ReplayMutant(a, k) == [status |-> "replayed", of |-> keyRows[k].by]

(* replay: the stored answer, or 422 when the body differs. *)
Replay(a, k) ==
    IF keyRows[k].body = req[a].body
    THEN [status |-> "replayed", of |-> keyRows[k].by]
    ELSE [status |-> "unprocessable"]

Settle(a, answer) ==
    /\ Goto(a, "done")
    /\ answered' = Put(answered, a, answer)

-----------------------------------------------------------------------------
(* idempotentPost: with a key the service runs, its `now' taken first;     *)
(* without one `perform' runs on the plain client.                         *)
Arrive(a) ==
    /\ At(a, "idle")
    /\ req' = [req EXCEPT ![a].stage = IF req[a].key = NoKey THEN "perform" ELSE "purge",
                          ![a].now = clock]
    /\ UNCHANGED <<clock, keyRows, resources, answered>>

(* await this.purgeExpired() *)
Purge(a) ==
    /\ At(a, "purge")
    /\ keyRows' = Purged
    /\ Goto(a, "find")
    /\ UNCHANGED <<clock, resources, answered>>

(* findValid before the transaction: replay, or go on to perform. *)
Find(a) ==
    /\ At(a, "find")
    /\ \/ /\ FindValid(a) = {}
          /\ Goto(a, "perform")
          /\ UNCHANGED answered
       \/ /\ FindValid(a) # {}
          /\ Settle(a, Replay(a, req[a].key))
    /\ UNCHANGED <<clock, keyRows, resources>>

(* perform(tx): its row stays private to the transaction.  Without a key   *)
(* it is a statement of its own and commits at once.                       *)
Perform(a) ==
    /\ At(a, "perform")
    /\ \/ /\ req[a].key # NoKey
          /\ Goto(a, "insert")
          /\ UNCHANGED resources
       \/ /\ req[a].key = NoKey
          /\ resources' = Put(resources, a, [key |-> NoKey, body |-> req[a].body,
                                             from |-> req[a].now, at |-> clock])
          /\ Goto(a, "respond")
    /\ UNCHANGED <<clock, keyRows, answered>>

(* perform throws (404 for a foreign category, say): rolled back, no key. *)
PerformFails(a) ==
    /\ At(a, "perform")
    /\ Settle(a, [status |-> "failed"])
    /\ UNCHANGED <<clock, keyRows, resources>>

(* Mutant: a violation of the unique index is retried, not resolved. *)
InsertKeyStuckMutant(a) ==
    /\ At(a, "insert")
    /\ Inserting(req[a].key) = {}
    /\ req[a].key \notin DOMAIN keyRows
    /\ Goto(a, "commit")
    /\ UNCHANGED <<clock, keyRows, resources, answered>>

(* tx.idempotencyKey.create: waits for the open transaction that holds     *)
(* the key, then either fails on the committed row or takes the key.       *)
InsertKey(a) ==
    /\ At(a, "insert")
    /\ Inserting(req[a].key) = {}
    /\ Goto(a, IF req[a].key \in DOMAIN keyRows THEN "recheck" ELSE "commit")
    /\ UNCHANGED <<clock, keyRows, resources, answered>>

(* COMMIT: the resource and the key appear together. *)
Commit(a) ==
    /\ At(a, "commit")
    /\ keyRows' = Put(keyRows, req[a].key,
                      [body |-> req[a].body, by |-> a, expiresAt |-> req[a].now + TTL])
    /\ resources' = Put(resources, a, [key |-> req[a].key, body |-> req[a].body,
                                       from |-> req[a].now, at |-> clock])
    /\ Goto(a, "respond")
    /\ UNCHANGED <<clock, answered>>

(* catch (P2002): the winner's answer, or the error when it is gone. *)
Recheck(a) ==
    /\ At(a, "recheck")
    /\ Settle(a, IF FindValid(a) = {} THEN [status |-> "failed"]
                 ELSE Replay(a, req[a].key))
    /\ UNCHANGED <<clock, keyRows, resources>>

Respond(a) ==
    /\ At(a, "respond")
    /\ Settle(a, [status |-> "created", of |-> a])
    /\ UNCHANGED <<clock, keyRows, resources>>

(* The connection or the process dies: an open transaction is rolled back, *)
(* a committed one stays, and the client never hears of it.                *)
Lose(a) ==
    /\ req[a].stage \notin {"idle", "done", "lost"}
    /\ Goto(a, "lost")
    /\ UNCHANGED <<clock, keyRows, resources, answered>>

(* IdempotencySweeper.sweep; a failed sweep changes nothing. *)
Sweep ==
    /\ keyRows' = Purged
    /\ UNCHANGED <<clock, resources, req, answered>>

Tick ==
    /\ clock < MaxClock
    /\ clock' = clock + 1
    /\ UNCHANGED <<keyRows, resources, req, answered>>

Handle(a) ==
    \/ Purge(a)
    \/ Find(a)
    \/ Perform(a)
    \/ InsertKey(a)
    \/ Commit(a)
    \/ Recheck(a)
    \/ Respond(a)

Next ==
    \/ \E a \in Attempts :
          \/ Arrive(a)
          \/ Handle(a)
          \/ PerformFails(a)
          \/ Lose(a)
    \/ Sweep
    \/ Tick

Spec == Init /\ [][Next]_vars

(* A handler that can run does run, and the hourly timer keeps firing.     *)
Fairness == WF_vars(Sweep) /\ \A a \in Attempts : WF_vars(Handle(a))

FairSpec == Spec /\ Fairness

-----------------------------------------------------------------------------
(* Two effects of one key never fall in one lifetime: a later one is       *)
(* committed only after the earlier one's key has expired.  ("Wykonuje     *)
(* perform najwyzej raz ... w czasie zycia klucza".)                       *)
AtMostOncePerLifetime ==
    \A a, b \in DOMAIN resources :
        (a # b /\ resources[a].key = resources[b].key /\ resources[a].key # NoKey)
           => \/ resources[a].from + TTL <= resources[b].at
              \/ resources[b].from + TTL <= resources[a].at

(* Every success describes an effect that is really in the database, of    *)
(* the same key and the same body: no answer without a row behind it, even *)
(* when the winner of a race crashed or the key was purged meanwhile.      *)
AnswersAreBacked ==
    \A a \in DOMAIN answered :
        answered[a].status \in {"created", "replayed"} =>
            /\ answered[a].of \in DOMAIN resources
            /\ resources[answered[a].of].key = req[a].key
            /\ resources[answered[a].of].body = req[a].body

(* Every attempt that reached the handler is answered or its connection is *)
(* lost: nobody waits for ever on another request's unique index entry.    *)
EveryAttemptSettles ==
    \A a \in Attempts : ~At(a, "idle") ~> (At(a, "done") \/ At(a, "lost"))

-----------------------------------------------------------------------------
(* The implementation of KeyedExecution.  Asking, Keyed and Told are what  *)
(* the promise is about, requests with a key: what they asked, the         *)
(* resources they created and the effects they were told of.               *)
Asking == {a \in Attempts : ~At(a, "idle") /\ req[a].key # NoKey}

Keyed == {a \in DOMAIN resources : resources[a].key # NoKey}

Told == {a \in DOMAIN answered :
            answered[a].status \in {"created", "replayed"} /\ req[a].key # NoKey}

Asked == [a \in Asking |-> [key |-> req[a].key, body |-> req[a].body, since |-> req[a].now]]

Ledger == [a \in Keyed |-> resources[a]]

Given == [a \in Told |-> answered[a].of]

Promise == INSTANCE KeyedExecution WITH asked <- Asked, ledger <- Ledger, given <- Given

(* The service implements the promise of KeyedExecution: each keyed request *)
(* takes effect only when no effect of its key is in force, and a request   *)
(* told of success without one is told of the effect of its key's current   *)
(* life, made by the same body and in force when the request came.          *)
ImplementsPromise == Promise!Spec

=============================================================================
