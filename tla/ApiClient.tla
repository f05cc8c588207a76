------------------------------ MODULE ApiClient -----------------------------
(***************************************************************************)
(* createApiClient with the token store and the session store of the       *)
(* mobile app: concurrent calls of one phone, the shared refresh of the    *)
(* session after a 401, login, logout, the change of password, and a       *)
(* restart of the app.  JavaScript runs one continuation at a time; an     *)
(* action is what happens between two awaits, plus the server's side of a  *)
(* request (module Sessions in full), which is one step here.              *)
(*                                                                         *)
(* A number g names the pair of tokens the server issued g-th, and 0 is no   *)
(* token.  Writing or clearing the two entries of the secure store is one  *)
(* step, except that a restart may find one of two writes done.            *)
(***************************************************************************)
EXTENDS Integers

CONSTANTS
    Requests,    \* calls of the app
    Kinds,       \* the kinds of call in play
    Faults,      \* the faults in play: "lost", "restart", "torn" (half a write)
    MaxPair,     \* bound on token pairs ever issued
    None

ASSUME PairsAssumption == MaxPair \in Nat \ {0} /\ None \notin Requests

ASSUME KindsAssumption ==
    /\ Kinds \subseteq {"call", "login", "logout", "change"}
    /\ Faults \subseteq {"lost", "restart", "torn"}

VARIABLES
    store,       \* the secure store: the stored access and refresh token
    status,      \* the session store's status
    refreshing,  \* the request whose refresh is under way, or None
    req,         \* request -> local state
    server,      \* issued pairs, their sessions, and what they are still good for
    faults       \* the faults of this behaviour

vars == <<store, status, refreshing, req, server, faults>>

Pairs == 1..MaxPair

Stages == {"idle", "send", "answer", "await", "read", "refresh", "refreshed", "store",
           "resend", "reanswer", "done"}

Request == [kind: Kinds, stage: Stages, used: 0..MaxPair, again: BOOLEAN,
            reply: {"none", "ok", "401", "lost", "tokens"}, tokens: 0..MaxPair]

Server == [issued: 0..MaxPair, session: [Pairs -> 0..MaxPair], live: SUBSET Pairs,
           expired: SUBSET Pairs, alarm: BOOLEAN]

TypeOK ==
    /\ store \in [access: 0..MaxPair, refresh: 0..MaxPair]
    /\ status \in {"signed-in", "signed-out"}
    /\ refreshing \in Requests \cup {None}
    /\ req \in [Requests -> Request]
    /\ server \in Server
    /\ faults \subseteq Faults

(* The app restored the session it was left with.                          *)
Init ==
    /\ store = [access |-> 1, refresh |-> 1]
    /\ status = "signed-in"
    /\ refreshing = None
    /\ req \in [Requests -> [kind: Kinds, stage: {"idle"}, used: {0}, again: {FALSE},
                             reply: {"none"}, tokens: {0}]]
    /\ server = [issued |-> 1, session |-> [g \in Pairs |-> IF g = 1 THEN 1 ELSE 0],
                 live |-> {1}, expired |-> {}, alarm |-> FALSE]
    /\ faults \in {{}, Faults}

-----------------------------------------------------------------------------
At(r, stage) == req[r].stage = stage

Goto(r, stage) == req' = [req EXCEPT ![r].stage = stage]

Done(r, reply) ==
    req' = [req EXCEPT ![r].stage = "done", ![r].reply = reply, ![r].tokens = 0, ![r].used = 0]

Session(s) == {g \in Pairs : server.session[g] = s}

(* The server issues one more pair for session s and revokes the old ones. *)
Issued(s, revoked) ==
    [server EXCEPT !.issued = @ + 1,
                   !.session[server.issued + 1] = s,
                   !.live = (@ \ revoked) \cup {server.issued + 1}]

-----------------------------------------------------------------------------
(* execute, startSession, logout: the token is read and the call sent.     *)
Send(r) ==
    /\ At(r, "idle")
    /\ status = IF req[r].kind = "login" THEN "signed-out" ELSE "signed-in"
    /\ req[r].kind # "call" =>    \* one form is open at a time
          \A s \in Requests : req[s].kind = "call" \/ At(s, "idle") \/ At(s, "done")
    /\ req' = [req EXCEPT ![r].stage = "send",
                          ![r].used = CASE req[r].kind = "login" -> 0
                                        [] req[r].kind = "logout" -> store.refresh
                                        [] OTHER -> store.access]
    /\ UNCHANGED <<store, status, refreshing, server>>

Accepted(r) == req[r].used # 0 /\ req[r].used \notin server.expired

Reply(r, reply, tokens) ==
    req' = [req EXCEPT ![r].stage = IF At(r, "resend") THEN "reanswer" ELSE "answer",
                       ![r].reply = reply, ![r].tokens = tokens]

(* The server's side of everything but a refresh: access tokens are        *)
(* checked without looking at the session.                                 *)
Serve(r) ==
    /\ At(r, "send") \/ At(r, "resend")
    /\ \/ /\ req[r].kind = "call"
          /\ server' = server
          /\ Reply(r, IF Accepted(r) THEN "ok" ELSE "401", 0)
       \/ /\ req[r].kind = "login" /\ server.issued < MaxPair
          /\ server' = Issued(server.issued + 1, {})
          /\ Reply(r, "tokens", server.issued + 1)
       \/ /\ req[r].kind = "logout"
          /\ server' = IF req[r].used = 0 THEN server
                       ELSE [server EXCEPT !.live = @ \ Session(server.session[req[r].used])]
          /\ Reply(r, "ok", 0)
       \/ /\ req[r].kind = "change" /\ ~Accepted(r)
          /\ server' = server
          /\ Reply(r, "401", 0)
       \/ /\ req[r].kind = "change" /\ Accepted(r) /\ server.issued < MaxPair
          /\ server' = Issued(server.issued + 1, Pairs)
          /\ Reply(r, "tokens", server.issued + 1)
    /\ UNCHANGED <<store, status, refreshing>>

(* fetch rejects: the call, or its answer, is lost.                        *)
Lose(r) ==
    /\ "lost" \in faults
    /\ \/ /\ At(r, "send") \/ At(r, "resend") \/ At(r, "answer") \/ At(r, "reanswer")
          /\ Reply(r, "lost", 0)
       \/ /\ At(r, "refresh") \/ At(r, "refreshed")
          /\ req[r].reply # "lost"
          /\ req' = [req EXCEPT ![r].stage = "refreshed", ![r].reply = "lost", ![r].tokens = 0]
    /\ UNCHANGED <<store, status, refreshing, server>>

-----------------------------------------------------------------------------
(* A call ends with its answer; a 401 leads to one retry.                  *)
Finish(r) ==
    /\ \/ At(r, "answer") /\ req[r].kind = "call" /\ req[r].reply # "401"
       \/ At(r, "answer") /\ req[r].kind \in {"login", "change"} /\ req[r].reply = "lost"
       \/ At(r, "reanswer") /\ (req[r].kind = "call" \/ req[r].reply \in {"401", "lost"})
    /\ Done(r, req[r].reply)
    /\ UNCHANGED <<store, status, refreshing, server>>

(* startSession and changePassword store the tokens of the answer.         *)
StoreSession(r) ==
    /\ At(r, "answer") \/ At(r, "reanswer")
    /\ req[r].kind \in {"login", "change"} /\ req[r].reply = "tokens"
    /\ store' = [access |-> req[r].tokens, refresh |-> req[r].tokens]
    /\ status' = IF req[r].kind = "login" THEN "signed-in" ELSE status
    /\ Done(r, "ok")
    /\ UNCHANGED <<refreshing, server>>

(* logout: whatever the answer, the tokens are cleared and signedOut ends  *)
(* the session (useLogout, onSettled).                                     *)
Leave(r) ==
    /\ At(r, "answer") /\ req[r].kind = "logout"
    /\ store' = [access |-> 0, refresh |-> 0]
    /\ status' = "signed-out"
    /\ Done(r, "ok")
    /\ UNCHANGED <<refreshing, server>>

(* Mutant: the stored token is used again, whether it was refused or not.  *)
RetryMutant(r) ==
    /\ At(r, "answer") /\ req[r].reply = "401"
    /\ \/ /\ store.access # 0
          /\ req' = [req EXCEPT ![r].stage = "resend", ![r].used = store.access,
                                ![r].again = (req[r].used = store.access)]
          /\ UNCHANGED refreshing
       \/ /\ store.access = 0
          /\ refreshing' = IF refreshing = None THEN r ELSE refreshing
          /\ Goto(r, IF refreshing = None THEN "read" ELSE "await")
    /\ UNCHANGED <<store, status, server>>

(* Mutant: every call refreshes for itself.                                *)
RetryAloneMutant(r) ==
    /\ At(r, "answer") /\ req[r].reply = "401"
    /\ \/ /\ store.access \notin {0, req[r].used}
          /\ req' = [req EXCEPT ![r].stage = "resend", ![r].used = store.access]
          /\ UNCHANGED refreshing
       \/ /\ store.access \in {0, req[r].used}
          /\ refreshing' = r
          /\ Goto(r, "read")
    /\ UNCHANGED <<store, status, server>>

(* retryWithFreshToken: another call may have refreshed already; else      *)
(* refreshSession starts a refresh or joins the one under way.             *)
Retry(r) ==
    /\ At(r, "answer") /\ req[r].reply = "401"
    /\ \/ /\ store.access \notin {0, req[r].used}
          /\ req' = [req EXCEPT ![r].stage = "resend", ![r].used = store.access]
          /\ UNCHANGED refreshing
       \/ /\ store.access \in {0, req[r].used}
          /\ refreshing' = IF refreshing = None THEN r ELSE refreshing
          /\ Goto(r, IF refreshing = None THEN "read" ELSE "await")
    /\ UNCHANGED <<store, status, server>>

-----------------------------------------------------------------------------
(* Calls that wait for the refresh of r, r included.                       *)
Waiting(r) == {s \in Requests : At(s, "await")} \cup {r}

(* Mutant: refreshing is not reset.                                        *)
SettleMutant(r, stage, reply, access) ==
    /\ refreshing' = refreshing
    /\ req' = [s \in Requests |->
                 IF s \notin Waiting(r) THEN req[s]
                 ELSE [req[s] EXCEPT !.stage = stage, !.reply = reply, !.used = access, !.tokens = 0,
                                     !.again = (stage = "resend" /\ req[s].used = access)]]

(* The shared promise settles for everyone who waits for it.               *)
Settle(r, stage, reply, access) ==
    /\ refreshing' = None
    /\ req' = [s \in Requests |->
                 IF s \notin Waiting(r) THEN req[s]
                 ELSE [req[s] EXCEPT !.stage = stage, !.reply = reply, !.used = access, !.tokens = 0,
                                     !.again = (stage = "resend" /\ req[s].used = access)]]

(* getRefreshToken: nothing to refresh with leaves the original 401.       *)
ReadRefreshToken(r) ==
    /\ At(r, "read")
    /\ \/ /\ store.refresh = 0
          /\ Settle(r, "done", "401", 0)
       \/ /\ store.refresh # 0
          /\ req' = [req EXCEPT ![r].stage = "refresh", ![r].used = store.refresh]
          /\ UNCHANGED refreshing
    /\ UNCHANGED <<store, status, server>>

(* POST /auth/refresh (Sessions, rotate): a live token is exchanged, a     *)
(* revoked one ends its session.                                           *)
Rotate(r) ==
    LET old == req[r].used
        s == server.session[old] IN
    /\ At(r, "refresh")
    /\ \/ /\ old \in server.live /\ server.issued < MaxPair
          /\ server' = Issued(s, {old})
          /\ req' = [req EXCEPT ![r].stage = "refreshed", ![r].reply = "tokens",
                                ![r].tokens = server.issued + 1]
       \/ /\ old \notin server.live
          /\ server' = [server EXCEPT !.live = @ \ Session(s), !.alarm = TRUE]
          /\ req' = [req EXCEPT ![r].stage = "refreshed", ![r].reply = "401"]
    /\ UNCHANGED <<store, status, refreshing>>

(* A refused refresh clears the tokens and ends the session; a lost one is *)
(* an error of the calls that waited, and the session stays.               *)
RefreshFails(r) ==
    /\ At(r, "refreshed") /\ req[r].reply \in {"401", "lost"}
    /\ IF req[r].reply = "401"
       THEN /\ store' = [access |-> 0, refresh |-> 0]
            /\ status' = "signed-out"
       ELSE UNCHANGED <<store, status>>
    /\ Settle(r, "done", req[r].reply, 0)
    /\ UNCHANGED server

(* setTokens, and the calls that waited are sent again.                    *)
RefreshSucceeds(r) ==
    /\ At(r, "refreshed") /\ req[r].reply = "tokens"
    /\ store' = [access |-> req[r].tokens, refresh |-> req[r].tokens]
    /\ Settle(r, "resend", "none", req[r].tokens)
    /\ UNCHANGED <<status, server>>

-----------------------------------------------------------------------------
(* The app is closed and opened: restore trusts the refresh token alone.   *)
(* One of the two entries of an interrupted setTokens may be written.      *)
Restart ==
    /\ "restart" \in faults
    /\ \/ UNCHANGED store
       \/ \E r \in Requests :
             /\ "torn" \in faults /\ At(r, "refreshed") /\ req[r].reply = "tokens"
             /\ store' \in {[store EXCEPT !.access = req[r].tokens],
                            [store EXCEPT !.refresh = req[r].tokens]}
    /\ status' = IF store'.refresh = 0 THEN "signed-out" ELSE "signed-in"
    /\ refreshing' = None
    /\ req' = [r \in Requests |-> IF At(r, "idle") THEN req[r]
                                  ELSE [req[r] EXCEPT !.stage = "done", !.reply = "lost",
                                                      !.used = 0, !.tokens = 0,
                                                      !.again = FALSE]]
    /\ UNCHANGED server

(* accessTokenExpiresIn passes; the last pair stays good (bound).          *)
Expire(g) ==
    /\ g \in 1..server.issued \ server.expired /\ g < MaxPair
    /\ server' = [server EXCEPT !.expired = @ \cup {g}]
    /\ UNCHANGED <<store, status, refreshing, req>>

Proceed(r) ==
    \/ Serve(r) \/ Finish(r) \/ StoreSession(r) \/ Leave(r) \/ Retry(r)
    \/ ReadRefreshToken(r) \/ Rotate(r) \/ RefreshFails(r) \/ RefreshSucceeds(r)

Next ==
    /\ \/ \E r \in Requests : Send(r) \/ Proceed(r) \/ Lose(r)
       \/ \E g \in Pairs : Expire(g)
       \/ Restart
    /\ UNCHANGED faults

Spec == Init /\ [][Next]_vars

(* Promises settle and the server answers or the connection fails.         *)
FairSpec == Spec /\ \A r \in Requests : WF_vars(Proceed(r) /\ UNCHANGED faults)

-----------------------------------------------------------------------------
(* Requests with access tokens, an API that answers, an app that runs on.  *)
OnlyCalls == faults = {} /\ \A r \in Requests : req[r].kind = "call"

(* "drugi refresh starym tokenem zostałby uznany za kradzież sesji"        *)
(* (client.ts:332-334): calls in parallel, whenever their tokens expire,   *)
(* never present a refresh token twice, as long as no answer is lost.      *)
NoFalseAlarm == OnlyCalls => ~server.alarm

(* A call is not sent again with the token that was refused                *)
(* (retryWithFreshToken, client.ts:405-408).                               *)
RetryIsFresh == \A r \in Requests : ~req[r].again

(* Every call ends, whoever refreshes for it and whatever is lost.         *)
EveryCallSettles == \A r \in Requests : At(r, "send") ~> At(r, "done")

=============================================================================
