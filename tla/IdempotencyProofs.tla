--------------------------- MODULE IdempotencyProofs ---------------------------
(***************************************************************************)
(* Proofs, for any number of attempts, keys and bodies and any lifetime,   *)
(* that Idempotency keeps its promise.  The argument: while an effect's    *)
(* key is in force the key's row is in the table and names that effect     *)
(* (InForceHasRow), and an open transaction can hold a key only while the  *)
(* table has no row of it (HolderIsAlone).  So a transaction that commits  *)
(* finds no effect of its key in force, and a row that is found tells of   *)
(* the last effect of its key (RowIsLast), which is the one a retry that   *)
(* came in that effect's life is to be told of.                            *)
(***************************************************************************)
EXTENDS Idempotency, TLAPS

(* A row of the table belongs to an effect that is really there. *)
RowsBacked ==
    \A k \in DOMAIN keyRows :
        LET a == keyRows[k].by IN
        /\ a \in DOMAIN resources
        /\ resources[a].key = k
        /\ resources[a].body = keyRows[k].body
        /\ resources[a].from + TTL = keyRows[k].expiresAt

(* A keyed effect whose key has not expired has its row. *)
InForceHasRow ==
    \A a \in DOMAIN resources :
        (resources[a].key # NoKey /\ resources[a].from + TTL > clock) =>
            /\ resources[a].key \in DOMAIN keyRows
            /\ keyRows[resources[a].key].by = a

(* The row of a key is that of its last effect: every other one was over   *)
(* when this one was committed.                                            *)
RowIsLast ==
    \A k \in DOMAIN keyRows : \A b \in DOMAIN resources :
        (resources[b].key = k /\ b # keyRows[k].by)
           => resources[b].from + TTL <= resources[keyRows[k].by].at

(* The unique index: one open transaction per key, and no committed row. *)
HolderIsAlone ==
    \A a \in Attempts : At(a, "commit") =>
        /\ req[a].key \in Keys
        /\ req[a].key \notin DOMAIN keyRows
        /\ \A b \in Attempts : (At(b, "commit") /\ req[b].key = req[a].key) => b = a

(* Only attempts past their commit have effects, and these carry what the  *)
(* attempt sent; the stages of a transaction are reached with a key only.  *)
EffectsAreSent ==
    /\ \A a \in DOMAIN resources :
          /\ req[a].stage \in {"respond", "done", "lost"}
          /\ resources[a].key = req[a].key
          /\ resources[a].body = req[a].body
          /\ resources[a].from <= resources[a].at
          /\ resources[a].at <= clock
    /\ \A a \in Attempts :
          /\ At(a, "respond") => a \in DOMAIN resources
          /\ req[a].now <= clock
          /\ req[a].stage \in {"purge", "find", "insert", "recheck"} => req[a].key \in Keys
          /\ req[a].stage # "done" => a \notin DOMAIN answered

IInv ==
    /\ TypeOK
    /\ RowsBacked
    /\ InForceHasRow
    /\ RowIsLast
    /\ HolderIsAlone
    /\ EffectsAreSent
    /\ AtMostOncePerLifetime
    /\ AnswersAreBacked

-----------------------------------------------------------------------------
(* A sweep keeps exactly the rows in force. *)
LEMMA PurgedIs ==
    /\ DOMAIN Purged = {k \in DOMAIN keyRows : ~Expired(k)}
    /\ \A k \in DOMAIN Purged : Purged[k] = keyRows[k]
BY DEF Purged

-----------------------------------------------------------------------------
(* What a step of attempt a may do to the handlers: only a's stage and its  *)
(* `now' change, to values of their types.                                 *)
OnlyMoves(a) ==
    /\ req' \in [Attempts -> Request]
    /\ \A b \in Attempts : /\ req'[b].key = req[b].key
                           /\ req'[b].body = req[b].body
                           /\ b # a => req'[b] = req[b]

LEMMA GotoIs ==
    ASSUME TypeOK, NEW a \in Attempts, NEW stage \in Stages, Goto(a, stage)
    PROVE  OnlyMoves(a) /\ req'[a].stage = stage /\ req'[a].now = req[a].now
BY DEF TypeOK, Goto, OnlyMoves, Request

LEMMA SettleIs ==
    ASSUME TypeOK, NEW a \in Attempts, NEW answer \in Answers, Settle(a, answer)
    PROVE  /\ OnlyMoves(a) /\ req'[a].stage = "done" /\ req'[a].now = req[a].now
           /\ DOMAIN answered' = DOMAIN answered \cup {a}
           /\ answered'[a] = answer
           /\ \A b \in DOMAIN answered : b # a => answered'[b] = answered[b]
<1>1. Goto(a, "done") /\ "done" \in Stages
  BY DEF Settle, Stages
<1>2. OnlyMoves(a) /\ req'[a].stage = "done" /\ req'[a].now = req[a].now
  BY <1>1, GotoIs
<1>3. answered' = Put(answered, a, answer)
  BY DEF Settle
<1> QED
  BY <1>2, <1>3 DEF Put

-----------------------------------------------------------------------------
(* The steps that touch neither table: what matters is which stage an      *)
(* attempt leaves and enters, and what it answers.                         *)
Quiet == UNCHANGED <<clock, keyRows, resources>>

LEMMA QuietTables ==
    ASSUME IInv, Quiet
    PROVE  RowsBacked' /\ InForceHasRow' /\ RowIsLast' /\ AtMostOncePerLifetime'
BY DEF IInv, Quiet, RowsBacked, InForceHasRow, RowIsLast, AtMostOncePerLifetime

(* A handler moves between stages that hold neither the key nor an answer. *)
LEMMA QuietMove ==
    ASSUME IInv, Quiet, NEW a \in Attempts, OnlyMoves(a), UNCHANGED answered,
           req[a].stage \notin {"done"}, req'[a].stage \notin {"done", "commit"},
           req'[a].now \in {req[a].now, clock},
           req'[a].stage = "respond" => a \in DOMAIN resources,
           a \in DOMAIN resources => req'[a].stage \in {"respond", "lost"},
           req'[a].stage \in {"purge", "find", "insert", "recheck"} => req[a].key \in Keys
    PROVE  IInv'
<1>1. TypeOK' 
  BY DEF IInv, TypeOK, Quiet, OnlyMoves
<1>2. HolderIsAlone'
  BY DEF IInv, HolderIsAlone, Quiet, OnlyMoves, At
<1>3. EffectsAreSent'
  BY DEF IInv, TypeOK, EffectsAreSent, Quiet, OnlyMoves, At, Request
<1>4. AnswersAreBacked'
  BY DEF IInv, TypeOK, AnswersAreBacked, Quiet, OnlyMoves
<1> QED
  BY <1>1, <1>2, <1>3, <1>4, QuietTables DEF IInv

(* An answer that names an effect of the attempt's own key and body. *)
LEMMA QuietSettle ==
    ASSUME IInv, Quiet, NEW a \in Attempts, NEW answer \in Answers, Settle(a, answer),
           req[a].stage # "done",
           answer.status \in {"created", "replayed"} =>
               /\ answer.of \in DOMAIN resources
               /\ resources[answer.of].key = req[a].key
               /\ resources[answer.of].body = req[a].body
    PROVE  IInv'
<1>0. /\ OnlyMoves(a) /\ req'[a].stage = "done" /\ req'[a].now = req[a].now
      /\ DOMAIN answered' = DOMAIN answered \cup {a}
      /\ answered'[a] = answer
      /\ \A b \in DOMAIN answered : b # a => answered'[b] = answered[b]
  BY SettleIs DEF IInv
<1>1. TypeOK'
  BY <1>0 DEF IInv, TypeOK, Quiet, OnlyMoves
<1>2. HolderIsAlone'
  BY <1>0 DEF IInv, HolderIsAlone, Quiet, OnlyMoves, At
<1>3. EffectsAreSent'
  BY <1>0 DEF IInv, TypeOK, EffectsAreSent, Quiet, OnlyMoves, At, Request
<1>4. AnswersAreBacked'
  BY <1>0 DEF IInv, TypeOK, AnswersAreBacked, Quiet, OnlyMoves
<1> QED
  BY <1>1, <1>2, <1>3, <1>4, QuietTables DEF IInv

(* The effect b was in force when a came, and no other effect of its key   *)
(* came after it.                                                          *)
InLife(a, b) ==
    /\ resources[b].from + TTL > req[a].now
    /\ \A c \in DOMAIN resources :
          (resources[c].key = req[a].key /\ c # b)
             => resources[c].from + TTL <= resources[b].at

(* What replay answers is the effect behind the key's row. *)
LEMMA ReplayIs ==
    ASSUME IInv, NEW a \in Attempts, FindValid(a) # {}
    PROVE  /\ Replay(a, req[a].key) \in Answers
           /\ Replay(a, req[a].key).status = "replayed" =>
                 /\ Replay(a, req[a].key).of \in DOMAIN resources
                 /\ resources[Replay(a, req[a].key).of].key = req[a].key
                 /\ resources[Replay(a, req[a].key).of].body = req[a].body
                 /\ InLife(a, Replay(a, req[a].key).of)
           /\ Replay(a, req[a].key).status # "created"
<1>1. req[a].key \in DOMAIN keyRows /\ keyRows[req[a].key].expiresAt > req[a].now
  BY DEF FindValid
<1>2. keyRows[req[a].key].by \in Attempts
  BY <1>1 DEF IInv, TypeOK, KeyRow
<1>3. CASE keyRows[req[a].key].body = req[a].body
  <2>1. Replay(a, req[a].key) = [status |-> "replayed", of |-> keyRows[req[a].key].by]
    BY <1>3 DEF Replay
  <2> QED
    BY <1>1, <1>2, <1>3, <2>1 DEF IInv, RowsBacked, RowIsLast, InLife, Answers
<1>4. CASE keyRows[req[a].key].body # req[a].body
  <2>1. Replay(a, req[a].key) = [status |-> "unprocessable"]
    BY <1>4 DEF Replay
  <2> QED
    BY <2>1 DEF Answers
<1> QED
  BY <1>3, <1>4

-----------------------------------------------------------------------------
(* Deleting the expired rows disturbs no effect in force. *)
LEMMA SweepInv ==
    ASSUME IInv, keyRows' = Purged, UNCHANGED <<clock, resources, answered>>,
           \/ UNCHANGED req
           \/ \E a \in Attempts : At(a, "purge") /\ Goto(a, "find")
    PROVE  IInv'
<1>1. /\ req' \in [Attempts -> Request]
      /\ \A b \in Attempts : /\ req'[b].key = req[b].key
                             /\ req'[b].body = req[b].body
                             /\ req'[b].now = req[b].now
                             /\ \/ req'[b].stage = req[b].stage
                                \/ req[b].stage = "purge" /\ req'[b].stage = "find"
  BY DEF IInv, TypeOK, At, Goto, Request, Stages
<1>2. TypeOK'
  BY <1>1, PurgedIs DEF IInv, TypeOK
<1>3. RowsBacked'
  BY PurgedIs DEF IInv, RowsBacked
<1>4. InForceHasRow'
  BY PurgedIs DEF IInv, TypeOK, KeyRow, InForceHasRow, RowsBacked, Expired
<1>5. HolderIsAlone'
  BY <1>1, PurgedIs DEF IInv, HolderIsAlone, At
<1>6. EffectsAreSent'
  BY <1>1 DEF IInv, TypeOK, EffectsAreSent, At
<1>7. AtMostOncePerLifetime' /\ AnswersAreBacked'
  BY <1>1 DEF IInv, TypeOK, AtMostOncePerLifetime, AnswersAreBacked
<1>8. RowIsLast'
  BY PurgedIs DEF IInv, RowIsLast
<1> QED
  BY <1>2, <1>3, <1>4, <1>5, <1>6, <1>7, <1>8 DEF IInv

LEMMA TickInv == IInv /\ Tick => IInv'
<1> SUFFICES ASSUME IInv, Tick PROVE IInv'
  OBVIOUS
<1>1. clock' = clock + 1 /\ UNCHANGED <<keyRows, resources, req, answered>>
  BY DEF Tick
<1>2. TypeOK'
  BY <1>1 DEF IInv, TypeOK
<1>3. InForceHasRow'
  BY <1>1, TTLAssumption DEF IInv, TypeOK, InForceHasRow, Resource
<1>4. EffectsAreSent'
  BY <1>1 DEF IInv, TypeOK, EffectsAreSent, At, Resource, Request
<1> QED
  BY <1>1, <1>2, <1>3, <1>4 DEF IInv, RowsBacked, RowIsLast, HolderIsAlone, At,
     AtMostOncePerLifetime, AnswersAreBacked

(* A new effect of attempt a, at the current time. *)
LEMMA NewEffect ==
    ASSUME IInv, NEW a \in Attempts, a \notin DOMAIN resources, UNCHANGED clock,
           resources' = Put(resources, a, [key |-> req[a].key, body |-> req[a].body,
                                           from |-> req[a].now, at |-> clock])
    PROVE  /\ DOMAIN resources' = DOMAIN resources \cup {a}
           /\ resources'[a].key = req[a].key
           /\ resources'[a].body = req[a].body
           /\ resources'[a].from = req[a].now
           /\ resources'[a].at = clock
           /\ \A b \in DOMAIN resources : resources'[b] = resources[b]
           /\ \A b \in DOMAIN resources' : resources'[b] \in Resource
BY DEF IInv, TypeOK, Put, Resource, Request

(* The step the promise hangs on: a transaction that holds its key commits.*)
LEMMA CommitInv ==
    ASSUME IInv, NEW a \in Attempts, Commit(a)
    PROVE  IInv'
<1>1. /\ req[a].stage = "commit" /\ a \notin DOMAIN resources
      /\ req[a].key \in Keys /\ req[a].key # NoKey
      /\ req[a].key \notin DOMAIN keyRows
  BY NoKeyAssumption DEF IInv, Commit, At, HolderIsAlone, EffectsAreSent
<1>2. UNCHANGED <<clock, answered>>
  BY DEF Commit
<1>3. OnlyMoves(a) /\ req'[a].stage = "respond" /\ req'[a].now = req[a].now
  BY GotoIs DEF IInv, Commit, Stages
<1>4. /\ DOMAIN resources' = DOMAIN resources \cup {a}
      /\ resources'[a].key = req[a].key
      /\ resources'[a].body = req[a].body
      /\ resources'[a].from = req[a].now
      /\ resources'[a].at = clock
      /\ \A b \in DOMAIN resources : resources'[b] = resources[b]
      /\ \A b \in DOMAIN resources' : resources'[b] \in Resource
  BY <1>1, <1>2, NewEffect DEF Commit
<1>5. /\ DOMAIN keyRows' = DOMAIN keyRows \cup {req[a].key}
      /\ keyRows'[req[a].key] = [body |-> req[a].body, by |-> a,
                                  expiresAt |-> req[a].now + TTL]
      /\ \A k \in DOMAIN keyRows : keyRows'[k] = keyRows[k]
  BY <1>1 DEF Commit, Put
<1>6. req[a].now \in Int /\ req[a].body \in Bodies /\ req[a].now <= clock
  BY DEF IInv, TypeOK, Request, EffectsAreSent
<1>7. TypeOK'
  <2>1. keyRows'[req[a].key] \in KeyRow
    BY <1>5, <1>6, TTLAssumption DEF KeyRow
  <2> QED
    BY <1>1, <1>2, <1>3, <1>4, <1>5, <2>1 DEF IInv, TypeOK, OnlyMoves
<1>8. RowsBacked'
  BY <1>4, <1>5 DEF IInv, RowsBacked
<1>9. InForceHasRow'
  BY <1>1, <1>2, <1>4, <1>5 DEF IInv, InForceHasRow
<1>10. HolderIsAlone'
  BY <1>1, <1>3, <1>5 DEF IInv, HolderIsAlone, OnlyMoves, At
<1>11. EffectsAreSent'
  BY <1>1, <1>2, <1>3, <1>4, <1>6 DEF IInv, TypeOK, EffectsAreSent, OnlyMoves, At
<1>12. AtMostOncePerLifetime' /\ RowIsLast'
  <2>1. \A b \in DOMAIN resources :
            resources[b].key = req[a].key => resources[b].from + TTL <= clock
    BY <1>1, TTLAssumption DEF IInv, TypeOK, Resource, InForceHasRow
  <2>2. AtMostOncePerLifetime'
    BY <1>4, <2>1 DEF IInv, AtMostOncePerLifetime
  <2>3. RowIsLast'
    BY <1>1, <1>4, <1>5, <2>1 DEF IInv, RowsBacked, RowIsLast
  <2> QED
    BY <2>2, <2>3
<1>13. AnswersAreBacked'
  BY <1>2, <1>3, <1>4 DEF IInv, TypeOK, AnswersAreBacked, OnlyMoves
<1> QED
  BY <1>7, <1>8, <1>9, <1>10, <1>11, <1>12, <1>13 DEF IInv

(* Without a key `perform' commits on its own; it concerns no key.         *)
LEMMA PlainInv ==
    ASSUME IInv, NEW a \in Attempts, Perform(a), req[a].key = NoKey
    PROVE  IInv'
<1>1. /\ req[a].stage = "perform" /\ a \notin DOMAIN resources
      /\ UNCHANGED <<clock, keyRows, answered>> /\ Goto(a, "respond")
  BY DEF IInv, Perform, At, EffectsAreSent
<1>2. OnlyMoves(a) /\ req'[a].stage = "respond" /\ req'[a].now = req[a].now
  BY <1>1, GotoIs DEF IInv, Stages
<1>3. /\ DOMAIN resources' = DOMAIN resources \cup {a}
      /\ resources'[a].key = req[a].key
      /\ resources'[a].body = req[a].body
      /\ resources'[a].from = req[a].now
      /\ resources'[a].at = clock
      /\ \A b \in DOMAIN resources : resources'[b] = resources[b]
      /\ \A b \in DOMAIN resources' : resources'[b] \in Resource
  BY <1>1, NewEffect DEF Perform
<1>4. TypeOK'
  BY <1>1, <1>2, <1>3 DEF IInv, TypeOK, OnlyMoves
<1>5. RowsBacked' /\ InForceHasRow' /\ AtMostOncePerLifetime'
  BY <1>1, <1>3 DEF IInv, RowsBacked, InForceHasRow, AtMostOncePerLifetime
<1>9. RowIsLast'
  BY <1>1, <1>3, NoKeyAssumption DEF IInv, TypeOK, RowsBacked, RowIsLast
<1>6. HolderIsAlone'
  BY <1>1, <1>2 DEF IInv, HolderIsAlone, OnlyMoves, At
<1>7. EffectsAreSent'
  BY <1>1, <1>2, <1>3 DEF IInv, TypeOK, EffectsAreSent, OnlyMoves, At, Request
<1>8. AnswersAreBacked'
  BY <1>1, <1>2, <1>3 DEF IInv, TypeOK, AnswersAreBacked, OnlyMoves
<1> QED
  BY <1>4, <1>5, <1>6, <1>7, <1>8, <1>9 DEF IInv

(* INSERT succeeds: the attempt becomes the only holder of a free key.     *)
LEMMA InsertInv ==
    ASSUME IInv, NEW a \in Attempts, InsertKey(a)
    PROVE  IInv'
<1>1. Quiet /\ UNCHANGED answered /\ req[a].stage = "insert" /\ req[a].key \in Keys
  BY DEF IInv, InsertKey, Quiet, At, EffectsAreSent
<1>2. CASE req[a].key \in DOMAIN keyRows
  <2>1. OnlyMoves(a) /\ req'[a].stage = "recheck" /\ req'[a].now = req[a].now
    BY <1>2, GotoIs DEF IInv, InsertKey, Stages
  <2> QED
    BY <1>1, <2>1, QuietMove DEF IInv, EffectsAreSent
<1>3. CASE req[a].key \notin DOMAIN keyRows
  <2>1. OnlyMoves(a) /\ req'[a].stage = "commit" /\ req'[a].now = req[a].now
    BY <1>3, GotoIs DEF IInv, InsertKey, Stages
  <2>2. HolderIsAlone'
    BY <1>1, <1>3, <2>1 DEF IInv, HolderIsAlone, InsertKey, Inserting, Quiet, OnlyMoves, At
  <2>3. TypeOK'
    BY <1>1, <2>1 DEF IInv, TypeOK, Quiet, OnlyMoves
  <2>4. EffectsAreSent'
    BY <1>1, <2>1 DEF IInv, TypeOK, EffectsAreSent, Quiet, OnlyMoves, At
  <2>5. AnswersAreBacked'
    BY <1>1, <2>1 DEF IInv, TypeOK, AnswersAreBacked, Quiet, OnlyMoves
  <2> QED
    BY <1>1, <2>2, <2>3, <2>4, <2>5, QuietTables DEF IInv
<1> QED
  BY <1>2, <1>3

-----------------------------------------------------------------------------
LEMMA InitInv == Init => IInv
BY DEF Init, IInv, TypeOK, RowsBacked, InForceHasRow, RowIsLast, HolderIsAlone, EffectsAreSent,
   AtMostOncePerLifetime, AnswersAreBacked, At, Request, Stages

LEMMA StepInv == IInv /\ [Next]_vars => IInv'
<1> SUFFICES ASSUME IInv, [Next]_vars PROVE IInv'
  OBVIOUS
<1>1. ASSUME NEW a \in Attempts, Arrive(a) PROVE IInv'
  <2>1. Quiet /\ UNCHANGED answered /\ req[a].stage = "idle" /\ a \notin DOMAIN resources
    BY <1>1 DEF IInv, Arrive, Quiet, At, EffectsAreSent
  <2>2. OnlyMoves(a) /\ req'[a].now = clock
        /\ req'[a].stage = IF req[a].key = NoKey THEN "perform" ELSE "purge"
    <3> DEFINE stage == IF req[a].key = NoKey THEN "perform" ELSE "purge"
    <3>1. req' = [req EXCEPT ![a].stage = stage, ![a].now = clock]
      BY <1>1 DEF Arrive
    <3>2. stage \in Stages /\ clock \in Nat /\ req \in [Attempts -> Request]
      BY DEF IInv, TypeOK, Stages
    <3> HIDE DEF stage
    <3>3. OnlyMoves(a) /\ req'[a].now = clock /\ req'[a].stage = stage
      BY <3>1, <3>2 DEF OnlyMoves, Request
    <3> QED
      BY <3>3 DEF stage
  <2>3. req[a].key = NoKey \/ req[a].key \in Keys
    BY DEF IInv, TypeOK, Request
  <2>4. CASE req[a].key = NoKey
    <3>1. req'[a].stage = "perform"
      BY <2>2, <2>4
    <3> QED
      BY <2>1, <2>2, <3>1, QuietMove
  <2>5. CASE req[a].key # NoKey
    <3>1. req'[a].stage = "purge"
      BY <2>2, <2>5
    <3> QED
      BY <2>1, <2>2, <2>3, <2>5, <3>1, QuietMove
  <2> QED
    BY <2>4, <2>5
<1>2. ASSUME NEW a \in Attempts, Purge(a) PROVE IInv'
  BY <1>2, SweepInv DEF Purge
<1>3. ASSUME NEW a \in Attempts, Find(a) PROVE IInv'
  <2>1. Quiet /\ req[a].stage = "find" /\ a \notin DOMAIN resources
    BY <1>3 DEF IInv, Find, Quiet, At, EffectsAreSent
  <2>2. CASE Goto(a, "perform") /\ UNCHANGED answered
    <3>1. OnlyMoves(a) /\ req'[a].stage = "perform" /\ req'[a].now = req[a].now
      BY <2>2, GotoIs DEF IInv, Stages
    <3> QED
      BY <2>1, <2>2, <3>1, QuietMove
  <2>3. CASE FindValid(a) # {} /\ Settle(a, Replay(a, req[a].key))
    BY <2>1, <2>3, ReplayIs, QuietSettle
  <2> QED
    BY <1>3, <2>2, <2>3 DEF Find
<1>4. ASSUME NEW a \in Attempts, Perform(a) PROVE IInv'
  <2>1. CASE req[a].key = NoKey
    BY <1>4, <2>1, PlainInv
  <2>2. CASE req[a].key # NoKey
    <3>1. Quiet /\ UNCHANGED answered /\ Goto(a, "insert") /\ req[a].stage = "perform"
          /\ a \notin DOMAIN resources /\ req[a].key \in Keys
      BY <1>4, <2>2 DEF IInv, TypeOK, Request, Perform, Quiet, At, EffectsAreSent
    <3>2. OnlyMoves(a) /\ req'[a].stage = "insert" /\ req'[a].now = req[a].now
      BY <3>1, GotoIs DEF IInv, Stages
    <3> QED
      BY <3>1, <3>2, QuietMove
  <2> QED
    BY <2>1, <2>2
<1>5. ASSUME NEW a \in Attempts, PerformFails(a) PROVE IInv'
  <2>1. Quiet /\ req[a].stage = "perform" /\ Settle(a, [status |-> "failed"])
        /\ [status |-> "failed"] \in Answers
    BY <1>5 DEF PerformFails, Quiet, At, Answers
  <2> QED
    BY <2>1, QuietSettle
<1>6. ASSUME NEW a \in Attempts, InsertKey(a) PROVE IInv'
  BY <1>6, InsertInv
<1>7. ASSUME NEW a \in Attempts, Commit(a) PROVE IInv'
  BY <1>7, CommitInv
<1>8. ASSUME NEW a \in Attempts, Recheck(a) PROVE IInv'
  <2>1. Quiet /\ req[a].stage = "recheck"
    BY <1>8 DEF Recheck, Quiet, At
  <2>2. CASE FindValid(a) = {}
    <3>1. Settle(a, [status |-> "failed"]) /\ [status |-> "failed"] \in Answers
      BY <1>8, <2>2 DEF Recheck, Answers
    <3> QED
      BY <2>1, <3>1, QuietSettle
  <2>3. CASE FindValid(a) # {}
    <3>1. Settle(a, Replay(a, req[a].key))
      BY <1>8, <2>3 DEF Recheck
    <3> QED
      BY <2>1, <2>3, <3>1, ReplayIs, QuietSettle
  <2> QED
    BY <2>2, <2>3
<1>9. ASSUME NEW a \in Attempts, Respond(a) PROVE IInv'
  <2>1. /\ Quiet /\ req[a].stage = "respond"
        /\ Settle(a, [status |-> "created", of |-> a])
        /\ [status |-> "created", of |-> a] \in Answers
    BY <1>9 DEF Respond, Quiet, At, Answers
  <2>2. a \in DOMAIN resources /\ resources[a].key = req[a].key /\ resources[a].body = req[a].body
    BY <2>1 DEF IInv, EffectsAreSent, At
  <2> QED
    BY <2>1, <2>2, QuietSettle
<1>10. ASSUME NEW a \in Attempts, Lose(a) PROVE IInv'
  <2>1. Quiet /\ UNCHANGED answered /\ req[a].stage \notin {"idle", "done", "lost"}
    BY <1>10 DEF Lose, Quiet
  <2>2. OnlyMoves(a) /\ req'[a].stage = "lost" /\ req'[a].now = req[a].now
    BY <1>10, GotoIs DEF IInv, Lose, Stages
  <2> QED
    BY <2>1, <2>2, QuietMove
<1>11. CASE Sweep
  BY <1>11, SweepInv DEF Sweep
<1>12. CASE Tick
  BY <1>12, TickInv
<1>13. CASE UNCHANGED vars
  <2>1. Quiet /\ UNCHANGED <<req, answered>>
    BY <1>13 DEF vars, Quiet
  <2> QED
    BY <2>1, QuietTables DEF IInv, TypeOK, Quiet, HolderIsAlone, EffectsAreSent,
       AnswersAreBacked, At
<1> QED
  BY <1>1, <1>2, <1>3, <1>4, <1>5, <1>6, <1>7, <1>8, <1>9, <1>10, <1>11, <1>12, <1>13
  DEF Next, Handle

(* The tables and the handlers always hold values of their types. *)
THEOREM TypeCorrect == Spec => []TypeOK
<1>1. IInv => TypeOK
  BY DEF IInv
<1> QED
  BY <1>1, InitInv, StepInv, PTL DEF Spec

(* `perform' takes effect at most once in the lifetime of a key, however   *)
(* many retries race and wherever they are cut off.                        *)
THEOREM OncePerLifetime == Spec => []AtMostOncePerLifetime
<1>1. IInv => AtMostOncePerLifetime
  BY DEF IInv
<1> QED
  BY <1>1, InitInv, StepInv, PTL DEF Spec

(* No attempt is told of success without a committed effect of its own key *)
(* and body.                                                               *)
THEOREM Backed == Spec => []AnswersAreBacked
<1>1. IInv => AnswersAreBacked
  BY DEF IInv
<1> QED
  BY <1>1, InitInv, StepInv, PTL DEF Spec

-----------------------------------------------------------------------------
(* The refinement.  Steps that bring in no request, commit nothing and tell *)
(* nobody of a success are stutters of the promise.                        *)
Asks ==
    \A b \in Attempts : /\ req'[b].key = req[b].key
                         /\ req'[b].body = req[b].body
                         /\ req'[b].now = req[b].now
                         /\ At(b, "idle")' = At(b, "idle")

LEMMA AskedSame ==
    ASSUME Asks
    PROVE  Asked' = Asked
<1>1. Asking' = Asking
  BY DEF Asks, Asking
<1> QED
  BY <1>1 DEF Asks, Asked, Asking

LEMMA MoveAsks ==
    ASSUME NEW a \in Attempts, OnlyMoves(a), req'[a].now = req[a].now,
           req[a].stage # "idle", req'[a].stage # "idle"
    PROVE  Asks
BY DEF OnlyMoves, Asks, At

LEMMA LedgerSame ==
    ASSUME UNCHANGED resources
    PROVE  Ledger' = Ledger
BY DEF Ledger, Keyed

LEMMA GivenSame ==
    ASSUME IInv, NEW a \in Attempts, OnlyMoves(a), UNCHANGED answered
    PROVE  Given' = Given
<1>1. Told' = Told
  BY DEF IInv, TypeOK, Told, OnlyMoves
<1> QED
  BY <1>1 DEF Given

LEMMA SettleTells ==
    ASSUME IInv, Quiet, NEW a \in Attempts, NEW answer \in Answers, Settle(a, answer),
           req[a].stage \notin {"idle", "done"},
           answer.status \in {"created", "replayed"} =>
               /\ answer.of \in DOMAIN resources
               /\ resources[answer.of].key = req[a].key
               /\ resources[answer.of].body = req[a].body
               /\ IF a \in DOMAIN resources THEN answer.of = a ELSE InLife(a, answer.of)
    PROVE  [Promise!Next]_(Promise!vars)
<1>1. /\ OnlyMoves(a)
      /\ DOMAIN answered' = DOMAIN answered \cup {a}
      /\ answered'[a] = answer
      /\ \A b \in DOMAIN answered : b # a => answered'[b] = answered[b]
  BY SettleIs DEF IInv
<1>2. Ledger' = Ledger /\ clock' = clock
  BY LedgerSame DEF Quiet
<1>6. Asked' = Asked
  BY <1>1, SettleIs, MoveAsks, AskedSame DEF IInv
<1>3. a \notin DOMAIN answered
  BY DEF IInv, EffectsAreSent
<1>4. CASE answer.status \in {"created", "replayed"} /\ req[a].key # NoKey
  <2>1. Told' = Told \cup {a} /\ a \notin Told
    BY <1>1, <1>3, <1>4 DEF IInv, TypeOK, Told, OnlyMoves
  <2>2. Given' = [c \in DOMAIN Given \cup {a} |-> IF c = a THEN answer.of ELSE Given[c]]
    BY <1>1, <1>3, <2>1 DEF Given, Told
  <2>3. /\ answer.of \in DOMAIN Ledger /\ a \notin DOMAIN Given
        /\ a \in DOMAIN Asked
    BY <1>4, <2>1 DEF Ledger, Keyed, Given, Asked, Asking, At
  <2>4. CASE a \in DOMAIN resources
    <3>1. a \in DOMAIN Ledger /\ answer.of = a
      BY <1>4, <2>3, <2>4 DEF Ledger
    <3> QED
      BY <1>2, <1>6, <2>2, <2>3, <3>1 DEF Promise!Answer, Promise!Next
  <2>5. CASE a \notin DOMAIN resources
    <3>1. a \notin DOMAIN Ledger
      BY <2>5 DEF Ledger, Keyed
    <3>2. Promise!Answers(a, answer.of)
      BY <1>4, <2>3, <2>5 DEF InLife, Ledger, Keyed, Asked, Promise!Answers,
         Promise!EffectsOf, Promise!Until, Promise!Replaces
    <3> QED
      BY <1>2, <1>6, <2>2, <2>3, <3>1, <3>2 DEF Promise!Answer, Promise!Next
  <2> QED
    BY <2>4, <2>5
<1>5. CASE ~(answer.status \in {"created", "replayed"} /\ req[a].key # NoKey)
  <2>1. Told' = Told
    BY <1>1, <1>3, <1>5 DEF IInv, TypeOK, Told, OnlyMoves
  <2>2. Given' = Given
    BY <1>1, <1>3, <2>1 DEF Given, Told
  <2> QED
    BY <1>2, <1>6, <2>2 DEF Promise!vars
<1> QED
  BY <1>4, <1>5

(* A commit is the promise's Execute: by InForceHasRow nothing of its key  *)
(* is in force.                                                            *)
LEMMA CommitExecutes ==
    ASSUME IInv, NEW a \in Attempts, Commit(a)
    PROVE  Promise!Execute(a)
<1> DEFINE e == [key |-> req[a].key, body |-> req[a].body, from |-> req[a].now, at |-> clock]
<1>1. /\ req[a].stage = "commit" /\ a \notin DOMAIN resources
      /\ req[a].key \in Keys /\ req[a].key # NoKey
      /\ req[a].key \notin DOMAIN keyRows
  BY NoKeyAssumption DEF IInv, Commit, At, HolderIsAlone, EffectsAreSent
<1>2. OnlyMoves(a) /\ req'[a].stage = "respond" /\ req'[a].now = req[a].now
  BY GotoIs DEF IInv, Commit, Stages
<1>3. Given' = Given /\ clock' = clock /\ Asked' = Asked
  BY <1>1, <1>2, GivenSame, MoveAsks, AskedSame DEF Commit
<1>4. /\ DOMAIN resources' = DOMAIN resources \cup {a}
      /\ resources'[a] = e
      /\ \A b \in DOMAIN resources : resources'[b] = resources[b]
  BY <1>1 DEF Commit, Put
<1>5. Keyed' = Keyed \cup {a} /\ a \notin Keyed
  BY <1>1, <1>4 DEF Keyed
<1>6. Ledger' = [b \in DOMAIN Ledger \cup {a} |-> IF b = a THEN e ELSE Ledger[b]]
  BY <1>4, <1>5 DEF Ledger, Keyed
<1>7. /\ a \in DOMAIN Asked /\ a \notin DOMAIN Ledger
      /\ e = [key |-> Asked[a].key, body |-> Asked[a].body,
              from |-> Asked[a].since, at |-> clock]
  BY <1>1, <1>5 DEF Asked, Asking, At, Ledger
<1>8. Promise!InForce(req[a].key) = {}
  BY <1>1, TTLAssumption
  DEF IInv, TypeOK, Resource, InForceHasRow, Promise!InForce, Promise!EffectsOf,
      Promise!Until, Ledger, Keyed
<1>9. Asked[a].key = req[a].key
  BY <1>7 DEF Asked
<1> HIDE DEF e
<1> QED
  BY <1>3, <1>6, <1>7, <1>8, <1>9 DEF Promise!Execute

LEMMA StepPromise == IInv /\ [Next]_vars => [Promise!Next]_(Promise!vars)
<1> SUFFICES ASSUME IInv, [Next]_vars PROVE [Promise!Next]_(Promise!vars)
  OBVIOUS
<1>2. ASSUME UNCHANGED <<clock, resources, answered>>, Asks
      PROVE  [Promise!Next]_(Promise!vars)
  <2>1. Told' = Told
    BY <1>2 DEF IInv, TypeOK, Told, Asks
  <2> QED
    BY <1>2, <2>1, LedgerSame, AskedSame DEF Given, Promise!vars
<1>3. ASSUME NEW a \in Attempts, Arrive(a) PROVE [Promise!Next]_(Promise!vars)
  <2>1. UNCHANGED <<clock, resources, answered>> /\ req[a].stage = "idle"
    BY <1>3 DEF Arrive, At
  <2>2. /\ OnlyMoves(a) /\ req'[a].now = clock /\ req'[a].stage # "idle"
    <3> DEFINE stage == IF req[a].key = NoKey THEN "perform" ELSE "purge"
    <3>1. req' = [req EXCEPT ![a].stage = stage, ![a].now = clock]
      BY <1>3 DEF Arrive
    <3>2. stage \in Stages /\ stage # "idle" /\ clock \in Nat /\ req \in [Attempts -> Request]
      BY DEF IInv, TypeOK, Stages
    <3> HIDE DEF stage
    <3> QED
      BY <3>1, <3>2 DEF OnlyMoves, Request
  <2>3. Ledger' = Ledger /\ Given' = Given
    BY <2>1, <2>2, LedgerSame, GivenSame
  <2>4. CASE req[a].key = NoKey
    <3>1. Asking' = Asking
      BY <2>2, <2>4 DEF Asking, OnlyMoves, At
    <3>2. Asked' = Asked
      BY <2>2, <2>4, <3>1 DEF Asked, Asking, OnlyMoves
    <3> QED
      BY <2>1, <2>3, <3>2 DEF Promise!vars
  <2>5. CASE req[a].key # NoKey
    <3> DEFINE q == [key |-> req[a].key, body |-> req[a].body, since |-> clock]
    <3>1. Asking' = Asking \cup {a} /\ a \notin Asking
      BY <2>1, <2>2, <2>5 DEF Asking, OnlyMoves, At
    <3>2. Asked' = [b \in DOMAIN Asked \cup {a} |-> IF b = a THEN q ELSE Asked[b]]
      BY <2>2, <3>1 DEF Asked, Asking, OnlyMoves
    <3>3. q \in [key: Keys, body: Bodies, since: {clock}]
      BY <2>5 DEF IInv, TypeOK, Request
    <3>4. a \notin DOMAIN Asked
      BY <3>1 DEF Asked
    <3> HIDE DEF q
    <3>5. Promise!Ask(a)
      BY <2>1, <2>3, <3>2, <3>3, <3>4 DEF Promise!Ask
    <3> QED
      BY <3>5 DEF Promise!Next
  <2> QED
    BY <2>4, <2>5
<1>4. ASSUME NEW a \in Attempts, NEW stage \in Stages \ {"idle"}, Goto(a, stage),
             req[a].stage # "idle"
      PROVE  Asks
  BY <1>4, GotoIs, MoveAsks DEF IInv
<1>5. ASSUME NEW a \in Attempts, Find(a) PROVE [Promise!Next]_(Promise!vars)
  <2>1. Quiet /\ req[a].stage = "find" /\ a \notin DOMAIN resources
    BY <1>5 DEF IInv, Find, Quiet, At, EffectsAreSent
  <2>2. CASE Goto(a, "perform") /\ UNCHANGED answered
    BY <1>2, <1>4, <2>1, <2>2 DEF Quiet, Stages
  <2>3. CASE FindValid(a) # {} /\ Settle(a, Replay(a, req[a].key))
    BY <2>1, <2>3, ReplayIs, SettleTells
  <2> QED
    BY <1>5, <2>2, <2>3 DEF Find
<1>6. ASSUME NEW a \in Attempts, Perform(a) PROVE [Promise!Next]_(Promise!vars)
  <2>1. CASE req[a].key # NoKey
    BY <1>2, <1>4, <1>6, <2>1 DEF Perform, At, Stages
  <2>2. CASE req[a].key = NoKey
    <3>1. /\ a \notin DOMAIN resources /\ UNCHANGED <<clock, answered>> /\ Goto(a, "respond")
          /\ DOMAIN resources' = DOMAIN resources \cup {a}
          /\ resources'[a].key = NoKey
          /\ \A b \in DOMAIN resources : resources'[b] = resources[b]
      BY <1>6, <2>2 DEF IInv, EffectsAreSent, Perform, At, Put
    <3>2. Keyed' = Keyed
      BY <3>1 DEF Keyed
    <3>3. Ledger' = Ledger
      BY <3>1, <3>2 DEF Ledger, Keyed
    <3>4. Given' = Given /\ Asked' = Asked
      BY <1>4, <1>6, <3>1, GotoIs, GivenSame, AskedSame DEF IInv, Perform, At, Stages
    <3> QED
      BY <3>1, <3>3, <3>4 DEF Promise!vars
  <2> QED
    BY <2>1, <2>2
<1>7. ASSUME NEW a \in Attempts, PerformFails(a) PROVE [Promise!Next]_(Promise!vars)
  <2>1. Quiet /\ req[a].stage = "perform" /\ Settle(a, [status |-> "failed"])
        /\ [status |-> "failed"] \in Answers
    BY <1>7 DEF PerformFails, Quiet, At, Answers
  <2> QED
    BY <2>1, SettleTells
<1>8. ASSUME NEW a \in Attempts, Recheck(a) PROVE [Promise!Next]_(Promise!vars)
  <2>1. Quiet /\ req[a].stage = "recheck" /\ a \notin DOMAIN resources
    BY <1>8 DEF IInv, Recheck, Quiet, At, EffectsAreSent
  <2>2. CASE FindValid(a) = {}
    <3>1. Settle(a, [status |-> "failed"]) /\ [status |-> "failed"] \in Answers
      BY <1>8, <2>2 DEF Recheck, Answers
    <3> QED
      BY <2>1, <3>1, SettleTells
  <2>3. CASE FindValid(a) # {}
    <3>1. Settle(a, Replay(a, req[a].key))
      BY <1>8, <2>3 DEF Recheck
    <3> QED
      BY <2>1, <2>3, <3>1, ReplayIs, SettleTells
  <2> QED
    BY <2>2, <2>3
<1>9. ASSUME NEW a \in Attempts, Respond(a) PROVE [Promise!Next]_(Promise!vars)
  <2>1. /\ Quiet /\ req[a].stage = "respond"
        /\ Settle(a, [status |-> "created", of |-> a])
        /\ [status |-> "created", of |-> a] \in Answers
    BY <1>9 DEF Respond, Quiet, At, Answers
  <2>2. a \in DOMAIN resources /\ resources[a].key = req[a].key /\ resources[a].body = req[a].body
    BY <2>1 DEF IInv, EffectsAreSent, At
  <2> QED
    BY <2>1, <2>2, SettleTells
<1>10. ASSUME NEW a \in Attempts, Commit(a) PROVE [Promise!Next]_(Promise!vars)
  BY <1>10, CommitExecutes DEF Promise!Next
<1>11. CASE Tick
  <2>1. clock' = clock + 1 /\ UNCHANGED <<resources, req, answered>>
    BY <1>11 DEF Tick
  <2>2. Ledger' = Ledger /\ Given' = Given /\ Asked' = Asked
    BY <2>1, LedgerSame, AskedSame DEF Given, Told, Asks, At
  <2> QED
    BY <2>1, <2>2 DEF Promise!Next, Promise!Pass
<1>12. CASE Sweep
  BY <1>2, <1>12 DEF Sweep, Asks, At
<1>13. CASE UNCHANGED vars
  BY <1>2, <1>13 DEF vars, Asks, At
<1>14. ASSUME NEW a \in Attempts, Purge(a) \/ InsertKey(a) \/ Lose(a)
       PROVE  [Promise!Next]_(Promise!vars)
  BY <1>2, <1>4, <1>14 DEF Purge, InsertKey, Lose, At, Stages
<1> QED
  BY <1>3, <1>5, <1>6, <1>7, <1>8, <1>9, <1>10, <1>11, <1>12, <1>13, <1>14 DEF Next, Handle

LEMMA InitPromise == Init => Promise!Init
BY DEF Init, Promise!Init, Asked, Asking, At, Ledger, Given, Keyed, Told

(* The service implements KeyedExecution: every step it takes is a step    *)
(* of the promise or changes nothing the promise speaks of.  So a success  *)
(* tells of the attempt's own effect or of the last effect of its key,     *)
(* made by the same body and in force when the attempt came.               *)
THEOREM ImplementsKeyedExecution == Spec => ImplementsPromise
BY InitInv, StepInv, InitPromise, StepPromise, PTL DEF Spec, ImplementsPromise, Promise!Spec

=============================================================================
