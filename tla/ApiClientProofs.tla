--------------------------- MODULE ApiClientProofs ---------------------------
(***************************************************************************)
(* Proofs, for any number of calls in parallel, of the two safety          *)
(* properties of ApiClient.                                                *)
(*                                                                         *)
(* A pair of tokens that is on its way to the phone was never used: it is  *)
(* not in the store, no call was sent with it and no other answer brings   *)
(* it (Fresh).  So the calls that waited for a refresh are sent with       *)
(* another token than the one that was refused.  At most one request       *)
(* refreshes (OneRefresher), and while answers arrive and nobody signs in  *)
(* or out, the refresh token it presents is good for one more exchange     *)
(* (KeptAlive).                                                            *)
(***************************************************************************)
EXTENDS ApiClient, TLAPS

RefreshStages == {"read", "refresh", "refreshed"}

Store == [access: 0..MaxPair, refresh: 0..MaxPair]

(* Where a request has an answer with tokens: a call never but for its     *)
(* refresh.                                                                *)
AtTokens(q) == q.stage = "refreshed" \/ (q.kind # "call" /\ q.stage \in {"answer", "reanswer"})

(* What a call knows of tokens was issued. *)
Call(q) ==
    /\ ~q.again
    /\ q.reply = "tokens" <=> q.tokens # 0
    /\ q.tokens # 0 => AtTokens(q)
    /\ q.used =< server.issued /\ q.tokens =< server.issued

CallsHold == \A r \in Requests : Call(req[r])

Known ==
    /\ store.access =< server.issued /\ store.refresh =< server.issued
    /\ \A g \in server.live : g =< server.issued

Fresh ==
    \A r \in Requests : req[r].tokens # 0 =>
        /\ req[r].tokens # store.access /\ req[r].tokens # store.refresh
        /\ \A s \in Requests : req[s].used # req[r].tokens
        /\ \A s \in Requests : req[s].tokens = req[r].tokens => s = r

OneRefresher == \A r \in Requests : req[r].stage \in RefreshStages => refreshing = r

(* The newest refresh token is live, wherever it is. *)
Alive ==
    /\ ~server.alarm
    /\ \A r \in Requests :
          /\ At(r, "refresh") => req[r].used \in server.live
          /\ At(r, "refreshed") => req[r].tokens \in server.live
    /\ (\A r \in Requests : ~At(r, "refreshed")) => store.refresh \in server.live

KeptAlive == OnlyCalls => Alive

IInv ==
    /\ TypeOK
    /\ CallsHold
    /\ Known
    /\ Fresh
    /\ OneRefresher
    /\ KeptAlive

-----------------------------------------------------------------------------
LEMMA InitHolds == Init => IInv
<1> SUFFICES ASSUME Init PROVE IInv
  OBVIOUS
<1>1. 0 \in 0..MaxPair /\ 1 \in 0..MaxPair /\ 1 \in Pairs
  BY PairsAssumption DEF Pairs
<1>2. server \in Server
  <2>1. [g \in Pairs |-> IF g = 1 THEN 1 ELSE 0] \in [Pairs -> 0..MaxPair]
    BY <1>1
  <2> QED
    BY <2>1, <1>1 DEF Init, Server
<1>3. req \in [Requests -> Request]
  <2>1. [kind: Kinds, stage: {"idle"}, used: {0}, again: {FALSE},
         reply: {"none"}, tokens: {0}] \subseteq Request
    BY <1>1 DEF Request, Stages
  <2> QED
    BY <2>1 DEF Init
<1>4. \A r \in Requests : /\ req[r].stage = "idle" /\ req[r].used = 0 /\ req[r].again = FALSE
                          /\ req[r].reply = "none" /\ req[r].tokens = 0
  BY DEF Init
<1>5. TypeOK
  BY <1>1, <1>2, <1>3 DEF Init, TypeOK
<1>6. CallsHold
  <2>1. server.issued = 1
    BY DEF Init
  <2> SUFFICES ASSUME NEW r \in Requests PROVE Call(req[r])
    BY DEF CallsHold
  <2>2. 0 =< 1
    OBVIOUS
  <2> QED
    BY <1>4, <2>1, <2>2 DEF Call
<1>7. Known /\ Fresh /\ OneRefresher
  BY <1>4 DEF Init, Known, Fresh, OneRefresher, RefreshStages
<1>8. KeptAlive
  BY <1>4 DEF Init, KeptAlive, Alive, At
<1> QED
  BY <1>5, <1>6, <1>7, <1>8 DEF IInv

-----------------------------------------------------------------------------
(* What every step of one request does to it, to the tokens the phone      *)
(* keeps and to those the server issued.                                   *)
Moves(r, q) ==
    /\ req' = [req EXCEPT ![r] = q] /\ q \in Request /\ q.kind = req[r].kind
    /\ ~q.again /\ (q.reply = "tokens" <=> q.tokens # 0)
    /\ q.tokens # 0 => AtTokens(q)
    /\ q.used \in {0, req[r].used, store.access, store.refresh}
    /\ \/ q.tokens \in {0, req[r].tokens}
       \/ server.issued < q.tokens /\ q.tokens =< server'.issued
    /\ \/ store' = store
       \/ /\ store' \in Store /\ q.tokens = 0
          /\ store'.access \in {0, req[r].tokens} /\ store'.refresh \in {0, req[r].tokens}
    /\ server' \in Server /\ server.issued =< server'.issued
    /\ \A g \in server'.live : g =< server'.issued
    /\ status' \in {"signed-in", "signed-out"}
    /\ refreshing' \in Requests \cup {None}
    /\ faults' = faults

LEMMA TypedParts ==
  ASSUME TypeOK
  PROVE  /\ \A r \in Requests : /\ req[r] \in Request /\ req[r].used \in Nat /\ req[r].tokens \in Nat
                                /\ req[r].again \in BOOLEAN /\ req[r].kind \in Kinds
         /\ server.issued \in Nat /\ server.live \subseteq Nat
         /\ store \in Store /\ store.access \in Nat /\ store.refresh \in Nat
<1>1. \A r \in Requests : req[r] \in Request
  BY DEF TypeOK
<1>2. \A g \in 0..MaxPair : g \in Nat
  BY PairsAssumption
<1>3. \A g \in Pairs : g \in Nat
  BY PairsAssumption DEF Pairs
<1>4. \A r \in Requests : req[r].used \in Nat /\ req[r].tokens \in Nat
                         /\ req[r].again \in BOOLEAN /\ req[r].kind \in Kinds
  BY <1>1, <1>2 DEF Request
<1>5. server.issued \in Nat /\ server.live \subseteq Nat
  BY <1>2, <1>3 DEF TypeOK, Server
<1>6. store \in Store /\ store.access \in Nat /\ store.refresh \in Nat
  BY <1>2 DEF TypeOK, Store
<1> QED
  BY <1>1, <1>4, <1>5, <1>6

LEMMA TypedServer ==
  ASSUME NEW v \in Server
  PROVE  v.issued \in Nat /\ v.issued =< MaxPair /\ v.live \subseteq Nat /\ v.live \subseteq Pairs
<1>1. v.issued \in 0..MaxPair /\ v.live \subseteq Pairs
  BY DEF Server
<1> QED
  BY <1>1, PairsAssumption DEF Pairs

LEMMA MoveIs ==
  ASSUME TypeOK, NEW r \in Requests, NEW q, Moves(r, q)
  PROVE  req'[r] = q /\ \A s \in Requests \ {r} : req'[s] = req[s]
BY DEF Moves, TypeOK

(* A step of one request keeps all that does not depend on who refreshes. *)
LEMMA MoveStep ==
  ASSUME IInv, NEW r \in Requests, NEW q, Moves(r, q)
  PROVE  TypeOK' /\ CallsHold' /\ Known' /\ Fresh'
<1>0. /\ TypeOK /\ CallsHold /\ Known /\ Fresh
  BY DEF IInv
<1>1. req'[r] = q /\ \A s \in Requests \ {r} : req'[s] = req[s]
  BY <1>0, MoveIs
<1>2. /\ \A s \in Requests : req[s].used \in Nat /\ req[s].tokens \in Nat
      /\ server.issued \in Nat /\ store.access \in Nat /\ store.refresh \in Nat
  BY <1>0, TypedParts
<1>3. server'.issued \in Nat /\ server'.live \subseteq Nat /\ server.issued =< server'.issued
  BY TypedServer DEF Moves
<1>4. q.used \in Nat /\ q.tokens \in Nat
  <2>1. q.used \in 0..MaxPair /\ q.tokens \in 0..MaxPair
    BY DEF Moves, Request
  <2> QED
    BY <2>1, PairsAssumption
<1>5. /\ \A s \in Requests : req[s].used =< server.issued /\ req[s].tokens =< server.issued
      /\ store.access =< server.issued /\ store.refresh =< server.issued
  BY <1>0 DEF CallsHold, Call, Known
<1>6. TypeOK'
  <2>1. store' \in Store
    BY <1>0, TypedParts DEF Moves
  <2>2. req' \in [Requests -> Request]
    BY <1>0 DEF Moves, TypeOK
  <2>3. faults' \subseteq Faults
    BY <1>0 DEF Moves, TypeOK
  <2> QED
    BY <2>1, <2>2, <2>3 DEF Moves, TypeOK, Store
<1>7. CallsHold'
  <2>1. Call(req[r])'
    <3>1. q.used =< server'.issued
      BY <1>2, <1>3, <1>4, <1>5 DEF Moves
    <3>2. q.tokens =< server'.issued
      BY <1>2, <1>3, <1>4, <1>5 DEF Moves
    <3> QED
      BY <1>1, <3>1, <3>2 DEF Moves, Call
  <2>2. ASSUME NEW s \in Requests \ {r} PROVE Call(req[s])'
    <3>1. Call(req[s])
      BY <1>0 DEF CallsHold
    <3>2. req[s].used =< server'.issued /\ req[s].tokens =< server'.issued
      BY <1>2, <1>3, <1>5
    <3> QED
      BY <1>1, <3>1, <3>2 DEF Call
  <2> QED
    BY <2>1, <2>2 DEF CallsHold
<1>8. Known'
  <2>1. store'.access =< server'.issued
    BY <1>2, <1>3, <1>5 DEF Moves
  <2>2. store'.refresh =< server'.issued
    BY <1>2, <1>3, <1>5 DEF Moves
  <2> QED
    BY <2>1, <2>2 DEF Moves, Known
<1>9. Fresh'
  <2> SUFFICES ASSUME NEW s \in Requests, req'[s].tokens # 0
               PROVE  /\ req'[s].tokens # store'.access /\ req'[s].tokens # store'.refresh
                      /\ \A t \in Requests : req'[t].used # req'[s].tokens
                      /\ \A t \in Requests : req'[t].tokens = req'[s].tokens => t = s
    BY DEF Fresh
  <2>1. CASE s # r
    <3>1. /\ req'[s] = req[s] /\ req[s].tokens # 0 /\ req[s].tokens # store.access
          /\ req[s].tokens # store.refresh /\ req[s].tokens # req[r].tokens
          /\ \A t \in Requests : req[t].used # req[s].tokens
          /\ \A t \in Requests : req[t].tokens = req[s].tokens => t = s
      BY <1>0, <1>1, <2>1 DEF Fresh
    <3>2. q.used # req[s].tokens
      BY <3>1 DEF Moves
    <3>3. q.tokens # req[s].tokens
      BY <3>1, <1>2, <1>4, <1>5 DEF Moves
    <3>4. req[s].tokens # store'.access /\ req[s].tokens # store'.refresh
      BY <3>1 DEF Moves
    <3> QED
      BY <1>1, <3>1, <3>2, <3>3, <3>4
  <2>2. CASE s = r /\ q.tokens = req[r].tokens
    <3>1. /\ q.tokens # 0 /\ q.tokens # store.access
          /\ q.tokens # store.refresh
          /\ \A t \in Requests : req[t].used # q.tokens
          /\ \A t \in Requests : req[t].tokens = q.tokens => t = s
      BY <1>0, <1>1, <2>2 DEF Fresh
    <3>2. store' = store
      BY <3>1 DEF Moves
    <3>3. q.used # q.tokens
      BY <3>1, <2>2 DEF Moves
    <3> QED
      BY <1>1, <2>2, <3>1, <3>2, <3>3
  <2>3. CASE s = r /\ q.tokens # req[r].tokens
    <3>1. q.tokens # 0 /\ server.issued < q.tokens /\ store' = store
      BY <1>1, <2>3 DEF Moves
    <3>2. q.used =< server.issued
      BY <1>2, <1>5, PairsAssumption DEF Moves
    <3>3. q.used # q.tokens /\ q.tokens # store.access /\ q.tokens # store.refresh
      BY <1>2, <1>4, <1>5, <3>1, <3>2
    <3>4. \A t \in Requests : req[t].used # q.tokens /\ req[t].tokens # q.tokens
      BY <1>2, <1>4, <1>5, <3>1
    <3> QED
      BY <1>1, <2>3, <3>1, <3>3, <3>4
  <2> QED
    BY <2>1, <2>2, <2>3
<1> QED
  BY <1>6, <1>7, <1>8, <1>9

-----------------------------------------------------------------------------
LEMMA OnlyCallsBefore ==
  ASSUME IInv, NEW r \in Requests, NEW q, Moves(r, q), OnlyCalls'
  PROVE  OnlyCalls
<1>1. TypeOK
  BY DEF IInv
<1>2. req'[r] = q /\ \A s \in Requests \ {r} : req'[s] = req[s]
  BY <1>1, MoveIs
<1> QED
  BY <1>2 DEF OnlyCalls, Moves

(* A step of one request that is no part of a refresh, and which changes   *)
(* tokens only if somebody signs in or out, or answers get lost.           *)
LEMMA QuietKeepsAlive ==
  ASSUME IInv, NEW r \in Requests, NEW q, Moves(r, q),
         OnlyCalls => /\ server' = server /\ store' = store
                      /\ q.stage \notin {"refresh", "refreshed"} /\ ~At(r, "refreshed")
  PROVE  KeptAlive'
<1> SUFFICES ASSUME OnlyCalls' PROVE Alive'
  BY DEF KeptAlive
<1>1. TypeOK /\ KeptAlive
  BY DEF IInv
<1>2. req'[r] = q /\ \A s \in Requests \ {r} : req'[s] = req[s]
  BY <1>1, MoveIs
<1>3. OnlyCalls
  BY OnlyCallsBefore
<1>4. /\ ~server.alarm
      /\ \A s \in Requests :
            /\ req[s].stage = "refresh" => req[s].used \in server.live
            /\ req[s].stage = "refreshed" => req[s].tokens \in server.live
      /\ (\A s \in Requests : req[s].stage # "refreshed") => store.refresh \in server.live
  BY <1>1, <1>3 DEF KeptAlive, Alive, At
<1>5. /\ server' = server /\ store' = store
      /\ q.stage # "refresh" /\ q.stage # "refreshed" /\ req[r].stage # "refreshed"
  BY <1>3 DEF At
<1>6. \A s \in Requests : req'[s].stage = "refreshed" <=> req[s].stage = "refreshed"
  BY <1>2, <1>5
<1>7. (~server.alarm)'
  BY <1>4, <1>5
<1>8. ASSUME NEW s \in Requests
      PROVE  (/\ At(s, "refresh") => req[s].used \in server.live
              /\ At(s, "refreshed") => req[s].tokens \in server.live)'
  <2>1. ASSUME req'[s].stage = "refresh" PROVE req'[s].used \in server'.live
    <3>1. s # r
      BY <1>2, <1>5, <2>1
    <3>2. req'[s] = req[s]
      BY <1>2, <3>1
    <3> QED
      BY <1>4, <1>5, <2>1, <3>2
  <2>2. ASSUME req'[s].stage = "refreshed" PROVE req'[s].tokens \in server'.live
    <3>1. s # r
      BY <1>2, <1>5, <2>2
    <3>2. req'[s] = req[s]
      BY <1>2, <3>1
    <3> QED
      BY <1>4, <1>5, <2>2, <3>2
  <2> QED
    BY <2>1, <2>2 DEF At
<1>9. ((\A s \in Requests : ~At(s, "refreshed")) => store.refresh \in server.live)'
  BY <1>4, <1>5, <1>6 DEF At
<1> QED
  BY <1>7, <1>8, <1>9 DEF Alive

(* Such a step that does not start a refresh either. *)
LEMMA QuietStep ==
  ASSUME IInv, NEW r \in Requests, NEW q, Moves(r, q), refreshing' = refreshing,
         q.stage \in RefreshStages => req[r].stage \in RefreshStages,
         OnlyCalls => /\ server' = server /\ store' = store
                      /\ q.stage \notin {"refresh", "refreshed"} /\ ~At(r, "refreshed")
  PROVE  IInv'
<1>1. TypeOK /\ OneRefresher
  BY DEF IInv
<1>2. req'[r] = q /\ \A s \in Requests \ {r} : req'[s] = req[s]
  BY <1>1, MoveIs
<1>3. OneRefresher'
  BY <1>1, <1>2 DEF OneRefresher
<1> QED
  BY <1>3, MoveStep, QuietKeepsAlive DEF IInv

(* What the proof of every action starts from. *)
LEMMA Standing ==
  ASSUME IInv, NEW r \in Requests
  PROVE  /\ req[r] \in Request /\ store \in Store /\ server \in Server
         /\ status \in {"signed-in", "signed-out"} /\ refreshing \in Requests \cup {None}
         /\ 0 \in 0..MaxPair /\ store.access \in 0..MaxPair /\ store.refresh \in 0..MaxPair
         /\ req[r].kind \in Kinds /\ req[r].stage \in Stages /\ req[r].tokens \in 0..MaxPair
         /\ ~req[r].again /\ (req[r].reply = "tokens" <=> req[r].tokens # 0)
         /\ req[r].tokens # 0 => AtTokens(req[r])
         /\ server.issued \in Nat /\ server.issued =< server.issued
         /\ \A g \in server.live : g =< server.issued
<1>1. TypeOK /\ CallsHold /\ Known
  BY DEF IInv
<1>2. /\ req[r] \in Request /\ store \in Store /\ server \in Server
      /\ status \in {"signed-in", "signed-out"} /\ refreshing \in Requests \cup {None}
  BY <1>1, TypedParts DEF TypeOK
<1>3. 0 \in 0..MaxPair /\ store.access \in 0..MaxPair /\ store.refresh \in 0..MaxPair
  BY <1>2, PairsAssumption DEF Store
<1>4. req[r].kind \in Kinds /\ req[r].stage \in Stages /\ req[r].tokens \in 0..MaxPair
  BY <1>2 DEF Request
<1>5. /\ ~req[r].again /\ (req[r].reply = "tokens" <=> req[r].tokens # 0)
      /\ req[r].tokens # 0 => AtTokens(req[r])
  BY <1>1 DEF CallsHold, Call
<1>6. server.issued \in Nat /\ server.issued =< server.issued
  BY <1>1, TypedParts
<1>7. \A g \in server.live : g =< server.issued
  BY <1>1 DEF Known
<1> QED
  BY <1>2, <1>3, <1>4, <1>5, <1>6, <1>7

(* The record of a request after an answer, and after its end. *)
LEMMA ReplyIs ==
  ASSUME IInv, NEW r \in Requests, NEW reply \in {"ok", "401", "lost", "tokens"},
         NEW tokens \in 0..MaxPair, Reply(r, reply, tokens)
  PROVE  \E q \in Request :
           /\ req' = [req EXCEPT ![r] = q] /\ q.kind = req[r].kind /\ q.stage \in {"answer", "reanswer"}
           /\ q.used = req[r].used /\ q.again = req[r].again /\ q.reply = reply /\ q.tokens = tokens
<1>1. req[r] \in Request
  BY Standing
<1>2. PICK stage : stage \in {"answer", "reanswer"}
                   /\ req' = [req EXCEPT ![r].stage = stage, ![r].reply = reply, ![r].tokens = tokens]
  BY DEF Reply
<1>3. PICK q : q = [req[r] EXCEPT !.stage = stage, !.reply = reply, !.tokens = tokens]
  OBVIOUS
<1>4. q \in Request
  BY <1>1, <1>2, <1>3 DEF Request, Stages
<1>5. /\ q.kind = req[r].kind /\ q.stage = stage /\ q.used = req[r].used /\ q.again = req[r].again
      /\ q.reply = reply /\ q.tokens = tokens
  BY <1>1, <1>3 DEF Request
<1>6. req' = [req EXCEPT ![r] = q]
  BY <1>2, <1>3
<1> QED
  BY <1>2, <1>4, <1>5, <1>6

LEMMA DoneIs ==
  ASSUME IInv, NEW r \in Requests, NEW reply \in {"none", "ok", "401", "lost"}, Done(r, reply)
  PROVE  \E q \in Request :
           /\ req' = [req EXCEPT ![r] = q] /\ q.kind = req[r].kind /\ q.stage = "done"
           /\ q.used = 0 /\ q.again = req[r].again /\ q.reply = reply /\ q.tokens = 0
<1>1. req[r] \in Request /\ 0 \in 0..MaxPair
  BY Standing
<1>2. PICK q : q = [req[r] EXCEPT !.stage = "done", !.reply = reply, !.tokens = 0, !.used = 0]
  OBVIOUS
<1>3. q \in Request
  BY <1>1, <1>2 DEF Request, Stages
<1>4. /\ q.kind = req[r].kind /\ q.stage = "done" /\ q.used = 0 /\ q.again = req[r].again
      /\ q.reply = reply /\ q.tokens = 0
  BY <1>1, <1>2 DEF Request
<1>5. req' = [req EXCEPT ![r] = q]
  BY <1>2 DEF Done
<1> QED
  BY <1>3, <1>4, <1>5

LEMMA SendStep ==
  ASSUME IInv, NEW r \in Requests, Send(r), UNCHANGED faults
  PROVE  IInv'
<1>1. PICK u : /\ u \in {0, store.access, store.refresh}
               /\ req' = [req EXCEPT ![r].stage = "send", ![r].used = u]
  BY DEF Send
<1>2. PICK q : q = [req[r] EXCEPT !.stage = "send", !.used = u]
  OBVIOUS
<1>3. u \in 0..MaxPair
  BY <1>1, Standing
<1>4. q \in Request
  BY <1>2, <1>3, Standing DEF Request, Stages
<1>5. /\ q.kind = req[r].kind /\ q.stage = "send" /\ q.used = u /\ q.again = req[r].again
      /\ q.reply = req[r].reply /\ q.tokens = req[r].tokens
  BY <1>2, Standing DEF Request
<1>6. req' = [req EXCEPT ![r] = q]
  BY <1>1, <1>2
<1>7. req[r].tokens = 0
  BY Standing DEF Send, At, AtTokens
<1>8. Moves(r, q)
  BY <1>1, <1>4, <1>5, <1>6, <1>7, Standing DEF Moves, Send
<1>9. q.stage \notin RefreshStages /\ q.stage \notin {"refresh", "refreshed"} /\ ~At(r, "refreshed")
  BY <1>5 DEF RefreshStages, Send, At
<1> QED
  BY <1>8, <1>9, QuietStep DEF Send

(* A pair more: the server that a login, a changed password or a refresh   *)
(* leaves.                                                                 *)
LEMMA IssuedIs ==
  ASSUME IInv, NEW r \in Requests, NEW s \in 0..MaxPair, NEW revoked, server.issued < MaxPair,
         server' = Issued(s, revoked)
  PROVE  /\ server' \in Server /\ server'.issued = server.issued + 1
         /\ server'.live = (server.live \ revoked) \cup {server.issued + 1}
         /\ server'.alarm = server.alarm
         /\ \A g \in server'.live : g =< server'.issued
         /\ server.issued + 1 \in 0..MaxPair
<1>1. server \in Server /\ server.issued \in Nat /\ \A g \in server.live : g =< server.issued
  BY Standing
<1>2. server.issued + 1 \in Pairs /\ server.issued + 1 \in 0..MaxPair
  BY <1>1, PairsAssumption DEF Pairs
<1>3. [server.session EXCEPT ![server.issued + 1] = s] \in [Pairs -> 0..MaxPair]
  BY <1>1 DEF Server
<1>4. (server.live \ revoked) \cup {server.issued + 1} \in SUBSET Pairs
  BY <1>1, <1>2 DEF Server
<1>5. server' = [server EXCEPT !.issued = server.issued + 1,
                               !.session = [server.session EXCEPT ![server.issued + 1] = s],
                               !.live = (server.live \ revoked) \cup {server.issued + 1}]
  BY <1>1 DEF Issued, Server
<1>6. /\ server' \in Server /\ server'.issued = server.issued + 1
      /\ server'.live = (server.live \ revoked) \cup {server.issued + 1}
      /\ server'.alarm = server.alarm
  BY <1>1, <1>2, <1>3, <1>4, <1>5 DEF Server
<1>7. \A g \in server.live : g \in Nat
  BY <1>1, TypedServer
<1>8. \A g \in server'.live : g =< server'.issued
  BY <1>1, <1>6, <1>7
<1> QED
  BY <1>2, <1>6, <1>8

LEMMA ServeStep ==
  ASSUME IInv, NEW r \in Requests, Serve(r), UNCHANGED faults
  PROVE  IInv'
<1>1. /\ UNCHANGED <<store, status, refreshing>>
      /\ req[r].stage \in {"send", "resend"}
  BY DEF Serve, At
<1>2. /\ server' \in Server /\ server.issued =< server'.issued
      /\ \A g \in server'.live : g =< server'.issued
      /\ req[r].kind = "call" => server' = server
      /\ \E reply \in {"ok", "401", "tokens"}, tokens \in 0..MaxPair :
            /\ Reply(r, reply, tokens) /\ (reply = "tokens" <=> tokens # 0)
            /\ tokens # 0 => /\ server.issued < tokens /\ tokens =< server'.issued
                            /\ req[r].kind # "call"
  <2>1. CASE server' = server /\ \E reply \in {"ok", "401"} : Reply(r, reply, 0)
    BY <2>1, Standing
  <2>2. CASE /\ req[r].kind # "call" /\ server.issued < MaxPair
             /\ \E s \in 0..MaxPair : \E revoked : server' = Issued(s, revoked)
             /\ Reply(r, "tokens", server.issued + 1)
    <3>1. /\ server' \in Server /\ server'.issued = server.issued + 1
          /\ \A g \in server'.live : g =< server'.issued
          /\ server.issued + 1 \in 0..MaxPair
      BY <2>2, IssuedIs
    <3>2. server.issued \in Nat
      BY Standing
    <3>3. /\ server.issued + 1 # 0 /\ server.issued < server.issued + 1
          /\ server.issued =< server.issued + 1 /\ server.issued + 1 =< server.issued + 1
      BY <3>2
    <3> QED
      BY <2>2, <3>1, <3>3
  <2>3. CASE /\ req[r].kind = "logout" /\ Reply(r, "ok", 0)
             /\ server' = [server EXCEPT !.live = @ \ Session(server.session[req[r].used])]
    <3>1. /\ server' \in Server /\ server'.issued = server.issued
          /\ server'.live \subseteq server.live
      BY <2>3, Standing DEF Server
    <3> QED
      BY <2>3, <3>1, Standing
  <2>4. \/ server' = server /\ \E reply \in {"ok", "401"} : Reply(r, reply, 0)
        \/ /\ req[r].kind \in {"login", "change"} /\ server.issued < MaxPair
           /\ \E s, revoked : s = server.issued + 1 /\ server' = Issued(s, revoked)
           /\ Reply(r, "tokens", server.issued + 1)
        \/ /\ req[r].kind = "logout" /\ Reply(r, "ok", 0)
           /\ server' = [server EXCEPT !.live = @ \ Session(server.session[req[r].used])]
    BY DEF Serve
  <2>5. server.issued < MaxPair => server.issued + 1 \in 0..MaxPair
    BY Standing, PairsAssumption
  <2> QED
    BY <2>1, <2>2, <2>3, <2>4, <2>5
<1>3. PICK reply \in {"ok", "401", "tokens"}, tokens \in 0..MaxPair :
            /\ Reply(r, reply, tokens) /\ (reply = "tokens" <=> tokens # 0)
            /\ tokens # 0 => /\ server.issued < tokens /\ tokens =< server'.issued
                            /\ req[r].kind # "call"
  BY <1>2
<1>4. PICK q \in Request :
           /\ req' = [req EXCEPT ![r] = q] /\ q.kind = req[r].kind /\ q.stage \in {"answer", "reanswer"}
           /\ q.used = req[r].used /\ q.again = req[r].again /\ q.reply = reply /\ q.tokens = tokens
  BY <1>3, ReplyIs
<1>5. Moves(r, q)
  BY <1>1, <1>2, <1>3, <1>4, Standing DEF Moves, AtTokens
<1>6. OnlyCalls => server' = server
  BY <1>2 DEF OnlyCalls
<1> QED
  BY <1>1, <1>4, <1>5, <1>6, QuietStep DEF RefreshStages, At

LEMMA LoseStep ==
  ASSUME IInv, NEW r \in Requests, Lose(r), UNCHANGED faults
  PROVE  IInv'
<1>1. UNCHANGED <<store, status, refreshing, server>> /\ faults # {}
  BY DEF Lose
<1>2. \E q \in Request :
         /\ req' = [req EXCEPT ![r] = q] /\ q.kind = req[r].kind
         /\ q.stage \in {"answer", "reanswer", "refreshed"}
         /\ q.stage = "refreshed" => req[r].stage \in {"refresh", "refreshed"}
         /\ q.used = req[r].used /\ q.again = req[r].again /\ q.reply = "lost" /\ q.tokens = 0
  <2>1. CASE Reply(r, "lost", 0)
    BY <2>1, ReplyIs, Standing
  <2>2. CASE /\ req[r].stage \in {"refresh", "refreshed"}
             /\ req' = [req EXCEPT ![r].stage = "refreshed", ![r].reply = "lost", ![r].tokens = 0]
    <3>1. PICK q : q = [req[r] EXCEPT !.stage = "refreshed", !.reply = "lost", !.tokens = 0]
      OBVIOUS
    <3>2. q \in Request
      BY <3>1, Standing DEF Request, Stages
    <3>3. /\ q.kind = req[r].kind /\ q.stage = "refreshed"
          /\ q.used = req[r].used /\ q.again = req[r].again /\ q.reply = "lost" /\ q.tokens = 0
      BY <3>1, Standing DEF Request
    <3>4. req' = [req EXCEPT ![r] = q]
      BY <2>2, <3>1
    <3> QED
      BY <2>2, <3>2, <3>3, <3>4
  <2> QED
    BY <2>1, <2>2 DEF Lose, At
<1>3. PICK q \in Request :
         /\ req' = [req EXCEPT ![r] = q] /\ q.kind = req[r].kind
         /\ q.stage \in {"answer", "reanswer", "refreshed"}
         /\ q.stage = "refreshed" => req[r].stage \in {"refresh", "refreshed"}
         /\ q.used = req[r].used /\ q.again = req[r].again /\ q.reply = "lost" /\ q.tokens = 0
  BY <1>2
<1>4. Moves(r, q)
  BY <1>1, <1>3, Standing DEF Moves
<1> QED
  BY <1>1, <1>3, <1>4, QuietStep DEF RefreshStages, OnlyCalls

LEMMA FinishStep ==
  ASSUME IInv, NEW r \in Requests, Finish(r), UNCHANGED faults
  PROVE  IInv'
<1>1. /\ UNCHANGED <<store, status, refreshing, server>> /\ Done(r, req[r].reply)
      /\ req[r].stage \in {"answer", "reanswer"}
  BY DEF Finish, At
<1>2. req[r].reply \in {"none", "ok", "401", "lost"}
  <2>1. req[r].reply \in {"none", "ok", "401", "lost", "tokens"}
    BY Standing DEF Request
  <2>2. req[r].reply # "tokens"
    BY <1>1, Standing DEF Finish, AtTokens, At
  <2> QED
    BY <2>1, <2>2
<1>3. PICK q \in Request :
         /\ req' = [req EXCEPT ![r] = q] /\ q.kind = req[r].kind /\ q.stage = "done"
         /\ q.used = 0 /\ q.again = req[r].again /\ q.reply = req[r].reply /\ q.tokens = 0
  BY <1>1, <1>2, DoneIs
<1>4. Moves(r, q)
  BY <1>1, <1>2, <1>3, Standing DEF Moves
<1> QED
  BY <1>1, <1>3, <1>4, QuietStep DEF RefreshStages, At

(* Signing in, changing the password and signing out: no call does.        *)
LEMMA StoreSessionStep ==
  ASSUME IInv, NEW r \in Requests, StoreSession(r), UNCHANGED faults
  PROVE  IInv'
<1>1. /\ UNCHANGED <<refreshing, server>> /\ Done(r, "ok") /\ req[r].kind # "call"
      /\ status' \in {"signed-in", "signed-out"}
      /\ store' = [access |-> req[r].tokens, refresh |-> req[r].tokens]
  BY Standing DEF StoreSession
<1>2. /\ store' \in Store /\ store'.access \in {0, req[r].tokens} /\ store'.refresh \in {0, req[r].tokens}
  BY <1>1, Standing DEF Store
<1>3. PICK q \in Request :
         /\ req' = [req EXCEPT ![r] = q] /\ q.kind = req[r].kind /\ q.stage = "done"
         /\ q.used = 0 /\ q.again = req[r].again /\ q.reply = "ok" /\ q.tokens = 0
  BY <1>1, DoneIs
<1>4. Moves(r, q)
  BY <1>1, <1>2, <1>3, Standing DEF Moves
<1> QED
  BY <1>1, <1>3, <1>4, QuietStep DEF RefreshStages, OnlyCalls

LEMMA LeaveStep ==
  ASSUME IInv, NEW r \in Requests, Leave(r), UNCHANGED faults
  PROVE  IInv'
<1>1. /\ UNCHANGED <<refreshing, server>> /\ Done(r, "ok") /\ req[r].kind # "call"
      /\ status' = "signed-out" /\ store' = [access |-> 0, refresh |-> 0]
  BY DEF Leave
<1>2. /\ store' \in Store /\ store'.access \in {0, req[r].tokens} /\ store'.refresh \in {0, req[r].tokens}
  BY <1>1, Standing DEF Store
<1>3. PICK q \in Request :
         /\ req' = [req EXCEPT ![r] = q] /\ q.kind = req[r].kind /\ q.stage = "done"
         /\ q.used = 0 /\ q.again = req[r].again /\ q.reply = "ok" /\ q.tokens = 0
  BY <1>1, DoneIs
<1>4. Moves(r, q)
  BY <1>1, <1>2, <1>3, Standing DEF Moves
<1> QED
  BY <1>1, <1>3, <1>4, QuietStep DEF RefreshStages, OnlyCalls

-----------------------------------------------------------------------------
LEMMA RetryStep ==
  ASSUME IInv, NEW r \in Requests, Retry(r), UNCHANGED faults
  PROVE  IInv'
<1>1. /\ UNCHANGED <<store, status, server>> /\ req[r].reply = "401" /\ req[r].stage = "answer"
  BY DEF Retry, At
<1>2. req[r].tokens = 0
  BY <1>1, Standing
<1>3. CASE /\ req' = [req EXCEPT ![r].stage = "resend", ![r].used = store.access]
           /\ UNCHANGED refreshing
  <2>1. PICK q : q = [req[r] EXCEPT !.stage = "resend", !.used = store.access]
    OBVIOUS
  <2>2. q \in Request
    BY <2>1, Standing DEF Request, Stages
  <2>3. /\ q.kind = req[r].kind /\ q.stage = "resend" /\ q.used = store.access
        /\ q.again = req[r].again /\ q.reply = "401" /\ q.tokens = 0
    BY <1>1, <1>2, <2>1, Standing DEF Request
  <2>4. req' = [req EXCEPT ![r] = q]
    BY <1>3, <2>1
  <2>5. Moves(r, q)
    BY <1>1, <1>2, <1>3, <2>2, <2>3, <2>4, Standing DEF Moves
  <2> QED
    BY <1>1, <1>3, <2>3, <2>5, QuietStep DEF RefreshStages, At
<1>4. CASE /\ refreshing' = IF refreshing = None THEN r ELSE refreshing
           /\ Goto(r, IF refreshing = None THEN "read" ELSE "await")
  <2>1. PICK stage : stage = IF refreshing = None THEN "read" ELSE "await"
    OBVIOUS
  <2>2. PICK q : q = [req[r] EXCEPT !.stage = stage]
    OBVIOUS
  <2>3. q \in Request
    BY <2>1, <2>2, Standing DEF Request, Stages
  <2>4. /\ q.kind = req[r].kind /\ q.stage = stage /\ q.used = req[r].used
        /\ q.again = req[r].again /\ q.reply = "401" /\ q.tokens = 0
    BY <1>1, <1>2, <2>2, Standing DEF Request
  <2>5. req' = [req EXCEPT ![r] = q]
    BY <1>4, <2>1, <2>2 DEF Goto
  <2>6. refreshing' \in Requests \cup {None}
    BY <1>4, Standing
  <2>7. Moves(r, q)
    BY <1>1, <1>2, <2>3, <2>4, <2>5, <2>6, Standing DEF Moves
  <2>8. TypeOK' /\ CallsHold' /\ Known' /\ Fresh'
    BY <2>7, MoveStep
  <2>9. KeptAlive'
    BY <1>1, <2>1, <2>4, <2>7, QuietKeepsAlive DEF At
  <2>10. OneRefresher'
    <3>1. TypeOK /\ OneRefresher
      BY DEF IInv
    <3>2. req'[r] = q /\ \A s \in Requests \ {r} : req'[s] = req[s]
      BY <2>7, <3>1, MoveIs
    <3>3. CASE refreshing = None
      <4>1. \A s \in Requests : req[s].stage \notin RefreshStages
        BY <3>1, <3>3, PairsAssumption DEF OneRefresher
      <4>2. refreshing' = r
        BY <1>4, <3>3
      <4> QED
        BY <3>2, <4>1, <4>2 DEF OneRefresher
    <3>4. CASE refreshing # None
      <4>1. refreshing' = refreshing /\ q.stage \notin RefreshStages
        BY <1>4, <2>1, <2>4, <3>4 DEF RefreshStages
      <4> QED
        BY <3>1, <3>2, <4>1 DEF OneRefresher
    <3> QED
      BY <3>3, <3>4
  <2> QED
    BY <2>8, <2>9, <2>10 DEF IInv
<1> QED
  BY <1>3, <1>4 DEF Retry

-----------------------------------------------------------------------------
(* While r refreshes, nobody else does. *)
LEMMA OnlyOne ==
  ASSUME IInv, NEW r \in Requests, req[r].stage \in RefreshStages
  PROVE  /\ refreshing = r
         /\ \A s \in Requests \ {r} : req[s].stage \notin RefreshStages
BY DEF IInv, OneRefresher

LEMMA RotateStep ==
  ASSUME IInv, NEW r \in Requests, Rotate(r), UNCHANGED faults
  PROVE  IInv'
<1>1. /\ UNCHANGED <<store, status, refreshing>> /\ req[r].stage = "refresh" /\ req[r].tokens = 0
  BY Standing DEF Rotate, At, AtTokens
<1>2. CASE /\ req[r].used \in server.live /\ server.issued < MaxPair
           /\ server' = Issued(server.session[req[r].used], {req[r].used})
           /\ req' = [req EXCEPT ![r].stage = "refreshed", ![r].reply = "tokens",
                                 ![r].tokens = server.issued + 1]
  <2>1. server.session[req[r].used] \in 0..MaxPair
    BY <1>2, Standing DEF Server
  <2>2. /\ server' \in Server /\ server'.issued = server.issued + 1
        /\ server.issued + 1 \in server'.live /\ server'.alarm = server.alarm
        /\ \A g \in server'.live : g =< server'.issued
        /\ server.issued + 1 \in 0..MaxPair
    BY <1>2, <2>1, IssuedIs
  <2>3. /\ server.issued + 1 # 0 /\ server.issued < server.issued + 1
        /\ server.issued =< server.issued + 1 /\ server.issued + 1 =< server.issued + 1
    BY Standing
  <2>4. PICK q : q = [req[r] EXCEPT !.stage = "refreshed", !.reply = "tokens", !.tokens = server.issued + 1]
    OBVIOUS
  <2>5. q \in Request
    BY <2>2, <2>4, Standing DEF Request, Stages
  <2>6. /\ q.kind = req[r].kind /\ q.stage = "refreshed" /\ q.used = req[r].used
        /\ q.again = req[r].again /\ q.reply = "tokens" /\ q.tokens = server.issued + 1
    BY <2>4, Standing DEF Request
  <2>7. req' = [req EXCEPT ![r] = q]
    BY <1>2, <2>4
  <2>8. Moves(r, q)
    <3>1. /\ server.issued < q.tokens /\ q.tokens =< server'.issued
          /\ server.issued =< server'.issued /\ q.tokens # 0
      BY <2>2, <2>3, <2>6
    <3>2. /\ store' = store /\ status' \in {"signed-in", "signed-out"}
          /\ refreshing' \in Requests \cup {None} /\ faults' = faults
      BY <1>1, Standing
    <3>3. ~q.again
      BY <2>6, Standing
    <3>4. AtTokens(q)
      BY <2>6 DEF AtTokens
    <3> QED
      BY <2>2, <2>5, <2>6, <2>7, <3>1, <3>2, <3>3, <3>4 DEF Moves
  <2>9. TypeOK' /\ CallsHold' /\ Known' /\ Fresh'
    BY <2>8, MoveStep
  <2>10. /\ req'[r] = q /\ \A s \in Requests \ {r} : req'[s] = req[s]
         /\ \A s \in Requests \ {r} : req'[s].stage \notin RefreshStages
    BY <1>1, <2>8, MoveIs, OnlyOne DEF IInv, RefreshStages
  <2>11. OneRefresher'
    BY <1>1, <2>10, OnlyOne DEF OneRefresher, RefreshStages
  <2>12. KeptAlive'
    <3> SUFFICES ASSUME OnlyCalls' PROVE Alive'
      BY DEF KeptAlive
    <3>1. (~server.alarm)'
      <4>1. OnlyCalls
        BY <2>8, OnlyCallsBefore
      <4> QED
        BY <2>2, <4>1 DEF IInv, KeptAlive, Alive
    <3>2. ASSUME NEW s \in Requests
          PROVE  (/\ At(s, "refresh") => req[s].used \in server.live
                  /\ At(s, "refreshed") => req[s].tokens \in server.live)'
      <4>1. CASE s = r
        BY <2>2, <2>6, <2>10, <4>1 DEF At
      <4>2. CASE s # r
        BY <2>10, <4>2 DEF At, RefreshStages
      <4> QED
        BY <4>1, <4>2
    <3>3. (~ \A s \in Requests : ~At(s, "refreshed"))'
      BY <2>6, <2>10 DEF At
    <3> QED
      BY <3>1, <3>2, <3>3 DEF Alive
  <2> QED
    BY <2>9, <2>11, <2>12 DEF IInv
<1>3. CASE /\ req[r].used \notin server.live
           /\ server' = [server EXCEPT !.live = @ \ Session(server.session[req[r].used]), !.alarm = TRUE]
           /\ req' = [req EXCEPT ![r].stage = "refreshed", ![r].reply = "401"]
  <2>1. /\ server' \in Server /\ server'.issued = server.issued /\ server'.live \subseteq server.live
    BY <1>3, Standing DEF Server
  <2>2. PICK q : q = [req[r] EXCEPT !.stage = "refreshed", !.reply = "401"]
    OBVIOUS
  <2>3. q \in Request
    BY <2>2, Standing DEF Request, Stages
  <2>4. /\ q.kind = req[r].kind /\ q.stage = "refreshed" /\ q.used = req[r].used
        /\ q.again = req[r].again /\ q.reply = "401" /\ q.tokens = 0
    BY <1>1, <2>2, Standing DEF Request
  <2>5. req' = [req EXCEPT ![r] = q]
    BY <1>3, <2>2
  <2>6. Moves(r, q)
    BY <1>1, <1>3, <2>1, <2>3, <2>4, <2>5, Standing DEF Moves
  <2>7. ~OnlyCalls
    BY <1>1, <1>3 DEF IInv, KeptAlive, Alive, At
  <2> QED
    BY <1>1, <2>4, <2>6, <2>7, QuietStep DEF RefreshStages
<1> QED
  BY <1>2, <1>3 DEF Rotate

-----------------------------------------------------------------------------
(* What the settled promise leaves: r and the calls that waited end with   *)
(* no token, or leave again with one they did not have.                    *)
LEMMA SettleIs ==
  ASSUME IInv, NEW r \in Requests, NEW stage \in {"done", "resend"},
         NEW reply \in {"none", "401", "lost"}, NEW access \in 0..MaxPair,
         Settle(r, stage, reply, access),
         \A s \in Requests : stage = "resend" => req[s].used # access
  PROVE  /\ refreshing' = None /\ req' \in [Requests -> Request]
         /\ \A s \in Requests \ Waiting(r) : req'[s] = req[s]
         /\ \A s \in Waiting(r) :
               /\ req'[s].kind = req[s].kind /\ req'[s].stage = stage /\ req'[s].reply = reply
               /\ req'[s].used = access /\ req'[s].tokens = 0 /\ ~req'[s].again
<1>1. Waiting(r) \subseteq Requests
  BY DEF Waiting
<1>2. \A s \in Requests \ Waiting(r) : req'[s] = req[s]
  BY DEF Settle
<1>3. ASSUME NEW s \in Waiting(r)
      PROVE  /\ req'[s] \in Request
             /\ req'[s].kind = req[s].kind /\ req'[s].stage = stage /\ req'[s].reply = reply
             /\ req'[s].used = access /\ req'[s].tokens = 0 /\ ~req'[s].again
  <2>1. s \in Requests
    BY <1>1
  <2>2. PICK again : again = (stage = "resend" /\ req[s].used = access)
    OBVIOUS
  <2>3. again = FALSE
    BY <2>1, <2>2
  <2>4. req'[s] = [req[s] EXCEPT !.stage = stage, !.reply = reply, !.used = access, !.tokens = 0,
                                 !.again = FALSE]
    BY <2>1, <2>2, <2>3 DEF Settle
  <2>5. req[s] \in Request /\ 0 \in 0..MaxPair
    BY <2>1, Standing
  <2>6. [req[s] EXCEPT !.stage = stage, !.reply = reply, !.used = access, !.tokens = 0,
                       !.again = FALSE] \in Request
    BY <2>5 DEF Request, Stages
  <2> QED
    BY <2>4, <2>5, <2>6 DEF Request
<1>4. req' \in [Requests -> Request]
  <2>1. \A s \in Requests : req'[s] \in Request
    BY <1>2, <1>3, Standing
  <2>2. req' = [s \in Requests |-> req'[s]]
    BY DEF Settle
  <2> QED
    BY <2>1, <2>2
<1> QED
  BY <1>2, <1>3, <1>4 DEF Settle

LEMMA SettleStep ==
  ASSUME IInv, NEW r \in Requests, req[r].stage \in RefreshStages,
         NEW stage \in {"done", "resend"}, NEW reply \in {"none", "401", "lost"},
         NEW access \in {0, req[r].tokens}, Settle(r, stage, reply, access),
         stage = "resend" => access = req[r].tokens /\ access # 0,
         \/ store' = store
         \/ /\ store' \in Store /\ store'.access \in {0, req[r].tokens}
            /\ store'.refresh \in {0, req[r].tokens},
         status' \in {"signed-in", "signed-out"}, UNCHANGED <<server, faults>>,
         OnlyCalls => store'.refresh \in server.live
  PROVE  IInv'
<1>0. TypeOK /\ CallsHold /\ Known /\ Fresh /\ KeptAlive
  BY DEF IInv
<1>1. /\ req[r].tokens \in 0..MaxPair /\ 0 \in 0..MaxPair /\ store \in Store
      /\ server.issued \in Nat
  BY Standing
<1>2. /\ req[r].tokens =< server.issued /\ 0 =< server.issued
      /\ req[r].tokens # 0 => \A s \in Requests : req[s].used # req[r].tokens
  BY <1>0, <1>1 DEF CallsHold, Call, Fresh
<1>3. /\ refreshing' = None /\ req' \in [Requests -> Request]
      /\ \A s \in Requests \ Waiting(r) : req'[s] = req[s]
      /\ \A s \in Waiting(r) :
            /\ req'[s].kind = req[s].kind /\ req'[s].stage = stage /\ req'[s].reply = reply
            /\ req'[s].used = access /\ req'[s].tokens = 0 /\ ~req'[s].again
  BY <1>1, <1>2, SettleIs
<1>4. r \in Waiting(r) /\ Waiting(r) \subseteq Requests
  BY DEF Waiting
<1>5. TypeOK'
  <2>1. store' \in Store
    BY <1>1
  <2> QED
    BY <1>0, <1>3, <2>1 DEF TypeOK, Store
<1>6. CallsHold'
  <2> SUFFICES ASSUME NEW s \in Requests PROVE Call(req[s])'
    BY DEF CallsHold
  <2>1. CASE s \in Waiting(r)
    <3>1. access =< server'.issued /\ 0 =< server'.issued
      BY <1>2
    <3> QED
      BY <1>3, <2>1, <3>1 DEF Call
  <2>2. CASE s \notin Waiting(r)
    BY <1>0, <1>3, <2>2 DEF CallsHold, Call
  <2> QED
    BY <2>1, <2>2
<1>7. Known'
  BY <1>0, <1>2 DEF Known
<1>8. Fresh'
  <2> SUFFICES ASSUME NEW s \in Requests, req'[s].tokens # 0
               PROVE  /\ req'[s].tokens # store'.access /\ req'[s].tokens # store'.refresh
                      /\ \A t \in Requests : req'[t].used # req'[s].tokens
                      /\ \A t \in Requests : req'[t].tokens = req'[s].tokens => t = s
    BY DEF Fresh
  <2>1. s \notin Waiting(r) /\ s # r /\ req'[s] = req[s]
    BY <1>3, <1>4
  <2>2. /\ req[s].tokens # 0 /\ req[s].tokens # store.access /\ req[s].tokens # store.refresh
        /\ \A t \in Requests : req[t].used # req[s].tokens
        /\ \A t \in Requests : req[t].tokens = req[s].tokens => t = s
    BY <1>0, <2>1 DEF Fresh
  <2>3. req[s].tokens # req[r].tokens
    BY <2>1, <2>2
  <2>4. req[s].tokens # store'.access /\ req[s].tokens # store'.refresh
    BY <2>2, <2>3
  <2>5. ASSUME NEW t \in Requests
        PROVE  /\ req'[t].used # req[s].tokens
               /\ req'[t].tokens = req[s].tokens => t = s
    BY <1>3, <2>2, <2>3
  <2> QED
    BY <2>1, <2>4, <2>5
<1>9. \A s \in Requests : req'[s].stage \notin RefreshStages
  <2> SUFFICES ASSUME NEW s \in Requests PROVE req'[s].stage \notin RefreshStages
    OBVIOUS
  <2>1. CASE s \in Waiting(r)
    BY <1>3, <2>1 DEF RefreshStages
  <2>2. CASE s \notin Waiting(r)
    BY <1>3, <1>4, <2>2, OnlyOne
  <2> QED
    BY <2>1, <2>2
<1>10. OneRefresher'
  BY <1>9 DEF OneRefresher
<1>11. KeptAlive'
  <2> SUFFICES ASSUME OnlyCalls' PROVE Alive'
    BY DEF KeptAlive
  <2>1. \A s \in Requests : req'[s].kind = req[s].kind
    BY <1>3
  <2>2. OnlyCalls
    BY <2>1 DEF OnlyCalls
  <2>3. (~server.alarm)'
    BY <1>0, <2>2 DEF KeptAlive, Alive
  <2>4. \A s \in Requests : req'[s].stage # "refresh" /\ req'[s].stage # "refreshed"
    BY <1>9 DEF RefreshStages
  <2>5. store'.refresh \in server'.live
    BY <2>2
  <2> QED
    BY <2>3, <2>4, <2>5 DEF Alive, At
<1> QED
  BY <1>5, <1>6, <1>7, <1>8, <1>10, <1>11 DEF IInv

(* Under OnlyCalls the token a refresh brings is live, and so is the       *)
(* stored one before.                                                      *)
LEMMA AliveTokens ==
  ASSUME IInv, NEW r \in Requests, OnlyCalls
  PROVE  /\ At(r, "refreshed") => req[r].tokens \in server.live
         /\ At(r, "read") => store.refresh \in server.live
         /\ 0 \notin server.live
<1>1. Alive
  BY DEF IInv, KeptAlive
<1>2. 0 \notin server.live
  <2>1. server.live \subseteq Pairs
    BY Standing, TypedServer
  <2>2. 0 \notin Pairs
    BY DEF Pairs
  <2> QED
    BY <2>1, <2>2
<1>3. At(r, "read") => \A s \in Requests : ~At(s, "refreshed")
  BY OnlyOne DEF At, RefreshStages
<1> QED
  BY <1>1, <1>2, <1>3 DEF Alive

LEMMA ReadRefreshTokenStep ==
  ASSUME IInv, NEW r \in Requests, ReadRefreshToken(r), UNCHANGED faults
  PROVE  IInv'
<1>1. /\ UNCHANGED <<store, status, server>> /\ req[r].stage = "read" /\ req[r].tokens = 0
  BY Standing DEF ReadRefreshToken, At, AtTokens
<1>2. CASE store.refresh = 0 /\ Settle(r, "done", "401", 0)
  <2>1. ~OnlyCalls
    BY <1>1, <1>2, AliveTokens DEF At
  <2> QED
    BY <1>1, <1>2, <2>1, Standing, SettleStep DEF RefreshStages
<1>3. CASE /\ req' = [req EXCEPT ![r].stage = "refresh", ![r].used = store.refresh]
           /\ UNCHANGED refreshing
  <2>1. PICK q : q = [req[r] EXCEPT !.stage = "refresh", !.used = store.refresh]
    OBVIOUS
  <2>2. q \in Request
    BY <2>1, Standing DEF Request, Stages
  <2>3. /\ q.kind = req[r].kind /\ q.stage = "refresh" /\ q.used = store.refresh
        /\ q.again = req[r].again /\ q.reply = req[r].reply /\ q.tokens = 0
    BY <1>1, <2>1, Standing DEF Request
  <2>4. req' = [req EXCEPT ![r] = q]
    BY <1>3, <2>1
  <2>5. Moves(r, q)
    BY <1>1, <1>3, <2>2, <2>3, <2>4, Standing DEF Moves
  <2>6. TypeOK' /\ CallsHold' /\ Known' /\ Fresh'
    BY <2>5, MoveStep
  <2>7. /\ req'[r] = q /\ \A s \in Requests \ {r} : req'[s] = req[s]
        /\ \A s \in Requests \ {r} : req'[s].stage \notin RefreshStages
    BY <1>1, <2>5, MoveIs, OnlyOne DEF IInv, RefreshStages
  <2>8. OneRefresher'
    BY <1>1, <1>3, <2>7, OnlyOne DEF OneRefresher, RefreshStages
  <2>9. KeptAlive'
    <3> SUFFICES ASSUME OnlyCalls' PROVE Alive'
      BY DEF KeptAlive
    <3>1. OnlyCalls
      BY <2>5, OnlyCallsBefore
    <3>2. ~server.alarm /\ store.refresh \in server.live
      BY <1>1, <3>1, AliveTokens DEF IInv, KeptAlive, Alive, At
    <3>3. ASSUME NEW s \in Requests
          PROVE  (/\ At(s, "refresh") => req[s].used \in server.live
                  /\ At(s, "refreshed") => req[s].tokens \in server.live)'
      <4>1. CASE s = r
        BY <1>1, <2>3, <2>7, <3>2, <4>1 DEF At
      <4>2. CASE s # r
        BY <2>7, <4>2 DEF At, RefreshStages
      <4> QED
        BY <4>1, <4>2
    <3> QED
      BY <1>1, <3>2, <3>3 DEF Alive
  <2> QED
    BY <2>6, <2>8, <2>9 DEF IInv
<1> QED
  BY <1>2, <1>3 DEF ReadRefreshToken

LEMMA RefreshFailsStep ==
  ASSUME IInv, NEW r \in Requests, RefreshFails(r), UNCHANGED faults
  PROVE  IInv'
<1>1. /\ req[r].stage = "refreshed" /\ req[r].reply \in {"401", "lost"} /\ req[r].tokens = 0
      /\ Settle(r, "done", req[r].reply, 0) /\ UNCHANGED <<server, faults>>
  BY Standing DEF RefreshFails, At
<1>2. \/ store' = store /\ status' = status
      \/ store' = [access |-> 0, refresh |-> 0] /\ status' = "signed-out"
  BY DEF RefreshFails
<1>3. \/ store' = store
      \/ store' \in Store /\ store'.access = 0 /\ store'.refresh = 0
  BY <1>2, Standing DEF Store
<1>4. ~OnlyCalls
  BY <1>1, AliveTokens DEF At
<1> QED
  BY <1>1, <1>2, <1>3, <1>4, Standing, SettleStep DEF RefreshStages

LEMMA RefreshSucceedsStep ==
  ASSUME IInv, NEW r \in Requests, RefreshSucceeds(r), UNCHANGED faults
  PROVE  IInv'
<1>1. /\ req[r].stage = "refreshed" /\ req[r].tokens # 0
      /\ store' = [access |-> req[r].tokens, refresh |-> req[r].tokens]
      /\ Settle(r, "resend", "none", req[r].tokens) /\ UNCHANGED <<status, server, faults>>
  BY Standing DEF RefreshSucceeds, At
<1>2. /\ store' \in Store /\ store'.access = req[r].tokens /\ store'.refresh = req[r].tokens
  BY <1>1, Standing DEF Store
<1>3. OnlyCalls => req[r].tokens \in server.live
  BY <1>1, AliveTokens DEF At
<1> QED
  BY <1>1, <1>2, <1>3, Standing, SettleStep DEF RefreshStages

-----------------------------------------------------------------------------
(* A restart ends every call; half a write stores tokens no call has kept. *)
LEMMA RestartStep ==
  ASSUME IInv, Restart, UNCHANGED faults
  PROVE  IInv'
<1>0. TypeOK /\ CallsHold /\ Known
  BY DEF IInv
<1>1. /\ faults' # {} /\ refreshing' = None /\ server' = server
      /\ status' \in {"signed-in", "signed-out"}
  BY DEF Restart
<1>2. server \in Server /\ server.issued \in Nat /\ 0 \in 0..MaxPair /\ 0 =< server.issued
  BY <1>0, TypedParts, TypedServer, PairsAssumption DEF TypeOK
<1>3. /\ store' \in Store
      /\ store'.access =< server.issued /\ store'.refresh =< server.issued
  <2>1. CASE store' = store
    BY <1>0, <2>1, TypedParts DEF Known
  <2>2. CASE \E r \in Requests : store' \in {[store EXCEPT !.access = req[r].tokens],
                                            [store EXCEPT !.refresh = req[r].tokens]}
    <3>1. PICK r \in Requests : store' \in {[store EXCEPT !.access = req[r].tokens],
                                           [store EXCEPT !.refresh = req[r].tokens]}
      BY <2>2
    <3>2. req[r].tokens \in 0..MaxPair /\ req[r].tokens =< server.issued
      BY <1>0, TypedParts DEF CallsHold, Call, Request
    <3>3. /\ store \in Store
          /\ store.access =< server.issued /\ store.refresh =< server.issued
      BY <1>0, TypedParts DEF Known
    <3> QED
      BY <3>1, <3>2, <3>3 DEF Store
  <2> QED
    BY <2>1, <2>2 DEF Restart
<1>4. /\ req' \in [Requests -> Request]
      /\ \A r \in Requests :
            /\ req'[r].stage \in {"idle", "done"} /\ req'[r].tokens = 0
            /\ Call(req'[r])
  <2>1. ASSUME NEW r \in Requests
        PROVE  /\ req'[r] \in Request /\ req'[r].stage \in {"idle", "done"} /\ req'[r].tokens = 0
               /\ Call(req'[r])
    <3>1. Call(req[r]) /\ req[r] \in Request
      BY <1>0, TypedParts DEF CallsHold
    <3>2. CASE req[r].stage = "idle"
      <4>1. req'[r] = req[r]
        BY <3>2 DEF Restart, At
      <4> QED
        BY <3>1, <3>2, <4>1 DEF Call, AtTokens
    <3>3. CASE req[r].stage # "idle"
      <4>1. req'[r] = [req[r] EXCEPT !.stage = "done", !.reply = "lost", !.used = 0, !.tokens = 0,
                                     !.again = FALSE]
        BY <3>3 DEF Restart, At
      <4>2. [req[r] EXCEPT !.stage = "done", !.reply = "lost", !.used = 0, !.tokens = 0,
                           !.again = FALSE] \in Request
        BY <1>2, <3>1 DEF Request, Stages
      <4>3. /\ req'[r].stage = "done" /\ req'[r].tokens = 0 /\ req'[r].used = 0
            /\ req'[r].reply = "lost" /\ req'[r].again = FALSE
        BY <3>1, <4>1 DEF Request
      <4>4. Call(req'[r])
        BY <1>2, <4>3 DEF Call
      <4> QED
        BY <4>1, <4>2, <4>3, <4>4
    <3> QED
      BY <3>2, <3>3
  <2>2. req' = [r \in Requests |-> req'[r]]
    BY DEF Restart
  <2> QED
    BY <2>1, <2>2
<1>5. TypeOK'
  BY <1>0, <1>1, <1>2, <1>3, <1>4 DEF TypeOK, Store
<1>6. CallsHold'
  BY <1>1, <1>4 DEF CallsHold, Call
<1>7. Known'
  BY <1>0, <1>1, <1>3 DEF Known
<1>8. Fresh' /\ OneRefresher'
  BY <1>4 DEF Fresh, OneRefresher, RefreshStages
<1>9. KeptAlive'
  BY <1>1 DEF KeptAlive, OnlyCalls
<1> QED
  BY <1>5, <1>6, <1>7, <1>8, <1>9 DEF IInv

LEMMA ExpireStep ==
  ASSUME IInv, NEW g \in Pairs, Expire(g), UNCHANGED faults
  PROVE  IInv'
<1>1. TypeOK /\ CallsHold /\ Known /\ Fresh /\ OneRefresher /\ KeptAlive
  BY DEF IInv
<1>2. /\ UNCHANGED <<store, status, refreshing, req, faults>>
      /\ server' = [server EXCEPT !.expired = @ \cup {g}]
  BY DEF Expire
<1>3. server' \in Server
  BY <1>1, <1>2 DEF TypeOK, Server
<1>4. server'.issued = server.issued /\ server'.live = server.live /\ server'.alarm = server.alarm
  BY <1>1, <1>2 DEF TypeOK, Server
<1>5. TypeOK'
  BY <1>1, <1>2, <1>3 DEF TypeOK
<1>6. CallsHold' /\ Known'
  BY <1>1, <1>2, <1>4 DEF CallsHold, Call, Known
<1>7. Fresh' /\ OneRefresher'
  BY <1>1, <1>2 DEF Fresh, OneRefresher
<1>8. KeptAlive'
  BY <1>1, <1>2, <1>4 DEF KeptAlive, OnlyCalls, Alive, At
<1> QED
  BY <1>5, <1>6, <1>7, <1>8 DEF IInv

LEMMA NothingHappens ==
  ASSUME IInv, UNCHANGED vars
  PROVE  IInv'
<1>1. UNCHANGED <<store, status, refreshing, req, server, faults>>
  BY DEF vars
<1>2. TypeOK' /\ CallsHold' /\ Known'
  BY <1>1 DEF IInv, TypeOK, CallsHold, Call, Known
<1>3. Fresh' /\ OneRefresher'
  BY <1>1 DEF IInv, Fresh, OneRefresher
<1>4. KeptAlive'
  BY <1>1 DEF IInv, KeptAlive, OnlyCalls, Alive, At
<1> QED
  BY <1>2, <1>3, <1>4 DEF IInv

LEMMA StepHolds == IInv /\ [Next]_vars => IInv'
<1> SUFFICES ASSUME IInv, [Next]_vars PROVE IInv'
  OBVIOUS
<1>1. ASSUME NEW r \in Requests, Send(r), UNCHANGED faults PROVE IInv'
  BY <1>1, SendStep
<1>2. ASSUME NEW r \in Requests, Proceed(r), UNCHANGED faults PROVE IInv'
  <2>1. CASE Serve(r)
    BY <1>2, <2>1, ServeStep
  <2>2. CASE Finish(r)
    BY <1>2, <2>2, FinishStep
  <2>3. CASE StoreSession(r)
    BY <1>2, <2>3, StoreSessionStep
  <2>4. CASE Leave(r)
    BY <1>2, <2>4, LeaveStep
  <2>5. CASE Retry(r)
    BY <1>2, <2>5, RetryStep
  <2>6. CASE ReadRefreshToken(r)
    BY <1>2, <2>6, ReadRefreshTokenStep
  <2>7. CASE Rotate(r)
    BY <1>2, <2>7, RotateStep
  <2>8. CASE RefreshFails(r)
    BY <1>2, <2>8, RefreshFailsStep
  <2>9. CASE RefreshSucceeds(r)
    BY <1>2, <2>9, RefreshSucceedsStep
  <2> QED
    BY <1>2, <2>1, <2>2, <2>3, <2>4, <2>5, <2>6, <2>7, <2>8, <2>9 DEF Proceed
<1>3. ASSUME NEW r \in Requests, Lose(r), UNCHANGED faults PROVE IInv'
  BY <1>3, LoseStep
<1>4. ASSUME NEW g \in Pairs, Expire(g), UNCHANGED faults PROVE IInv'
  BY <1>4, ExpireStep
<1>5. ASSUME Restart, UNCHANGED faults PROVE IInv'
  BY <1>5, RestartStep
<1>6. CASE UNCHANGED vars
  BY <1>6, NothingHappens
<1> QED
  BY <1>1, <1>2, <1>3, <1>4, <1>5, <1>6 DEF Next

-----------------------------------------------------------------------------
(* Every variable of the client and of the server's side keeps its type.   *)
THEOREM TypeCorrect == Spec => []TypeOK
<1>1. IInv => TypeOK
  BY DEF IInv
<1> QED
  BY <1>1, InitHolds, StepHolds, PTL DEF Spec

(* However many calls run in parallel, whenever their tokens expire, and   *)
(* whatever signs in or out in between, none is sent again with the token  *)
(* that was refused (retryWithFreshToken, client.ts:405-408).              *)
THEOREM RetriesAreFresh == Spec => []RetryIsFresh
<1>1. IInv => RetryIsFresh
  BY DEF IInv, CallsHold, Call, RetryIsFresh
<1> QED
  BY <1>1, InitHolds, StepHolds, PTL DEF Spec

(* Calls in parallel never present a refresh token twice, for any number   *)
(* of calls, as long as no answer is lost and nobody signs in or out       *)
(* (client.ts:332-334).                                                    *)
THEOREM NoFalseTheft == Spec => []NoFalseAlarm
<1>1. IInv => NoFalseAlarm
  BY DEF IInv, KeptAlive, Alive, NoFalseAlarm
<1> QED
  BY <1>1, InitHolds, StepHolds, PTL DEF Spec

=============================================================================
