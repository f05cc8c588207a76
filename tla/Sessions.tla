------------------------------ MODULE Sessions ------------------------------
(***************************************************************************)
(* The sessions of one account: RefreshTokenService and the AuthService    *)
(* methods that start, continue and end sessions (login, refresh, logout,  *)
(* changePassword, resetPassword), several requests at once over Postgres  *)
(* at READ COMMITTED.                                                      *)
(*                                                                         *)
(* One action is one statement.  An UPDATE sees the rows committed when it *)
(* starts (its snapshot), waits for the rows another open transaction has  *)
(* changed, and then tests its condition again on the committed row; rows  *)
(* committed after its snapshot it does not see.  Only rotate and the two  *)
(* password changes run transactions, and the last statement of each is    *)
(* merged with its COMMIT.                                                 *)
(*                                                                         *)
(* Abstractions: a token stands for its row and its secret; a family is    *)
(* named by the first token of the session; a password is a value of a     *)
(* small set and its hash remembers only whether its argon2 parameters are *)
(* outdated.  Access tokens are signed and stateless: no row, no state.    *)
(***************************************************************************)
EXTENDS Integers, FiniteSets

CONSTANTS
    Requests,   \* HTTP requests
    Tokens,     \* refresh tokens that can ever be issued (bound)
    Passwords,
    None

ASSUME NoneAssumption == None \notin Tokens

VARIABLES
    rows,       \* issued token -> its committed RefreshToken row
    expired,    \* tokens whose expiresAt has passed
    userRow,    \* the committed User row: password, and whether its hash is outdated
    req         \* request -> the local state of its handler

sessionsVars == <<rows, expired, userRow, req>>

Row == [family: Tokens, from: Tokens \cup {None}, revoked: BOOLEAN]

Hash == [pw: Passwords, outdated: BOOLEAN]

Kinds == {"login", "refresh", "logout", "change", "reset"}

(* idle -> ... -> done; revoke waits with its snapshot taken.              *)
Stages == {"idle", "read", "rehash", "issue", "claim", "insert", "snapshot",
           "revoke", "done"}

Request == [kind: Kinds, stage: Stages, token: Tokens \cup {None}, given: Passwords,
            next: Passwords, targets: SUBSET Tokens]

SessionsTypeOK ==
    /\ DOMAIN rows \subseteq Tokens
    /\ \A t \in DOMAIN rows : rows[t] \in Row
    /\ expired \subseteq Tokens
    /\ userRow \in Hash
    /\ req \in [Requests -> Request]

(* An account just registered: it has no session yet, and its hash may be  *)
(* older than the current argon2 parameters.                               *)
SessionsInit ==
    /\ rows = [t \in {} |-> t]
    /\ expired = {}
    /\ userRow \in Hash
    /\ req \in [Requests -> [kind: Kinds, stage: {"idle"}, token: {None},
                             given: Passwords, next: Passwords, targets: {{}}]]

-----------------------------------------------------------------------------
At(r, stage) == req[r].stage = stage

Goto(r, stage) == req' = [req EXCEPT ![r].stage = stage]

Live(t) == t \in DOMAIN rows /\ ~rows[t].revoked

Members(f) == {t \in DOMAIN rows : rows[t].family = f}

(* Rotations that have claimed a token and not committed yet.              *)
Claimants == {r \in Requests : At(r, "insert")}

Claimed == {req[r].token : r \in Claimants}

(* A password change holds the User row from its first statement on.      *)
ChangesPassword(r) == req[r].kind \in {"change", "reset"}

UserLocked == \E r \in Requests : At(r, "revoke") /\ ChangesPassword(r)

Revoke(targets) ==
    rows' = [t \in DOMAIN rows |->
                IF t \in targets THEN [rows[t] EXCEPT !.revoked = TRUE] ELSE rows[t]]

(* createToken: a fresh random token, stored with its family.              *)
CreateToken(t, family, from) ==
    /\ t \notin DOMAIN rows
    /\ rows' = [u \in DOMAIN rows \cup {t} |->
                   IF u = t THEN [family |-> family, from |-> from, revoked |-> FALSE]
                            ELSE rows[u]]

-----------------------------------------------------------------------------
(* A request arrives; refresh and logout bring some token of the account.  *)
Start(r) ==
    /\ At(r, "idle")
    /\ \/ /\ req[r].kind \notin {"refresh", "logout"}
          /\ Goto(r, "read")
       \/ /\ req[r].kind \in {"refresh", "logout"}
          /\ \E t \in DOMAIN rows :
                req' = [req EXCEPT ![r].stage = "read", ![r].token = t]
    /\ UNCHANGED <<rows, expired, userRow>>

(* login: the user row is read and the password verified against it; a     *)
(* hash of outdated parameters is written again before the session starts. *)
LoginRead(r) ==
    /\ At(r, "read") /\ req[r].kind = "login"
    /\ Goto(r, IF userRow.pw # req[r].given THEN "done"
               ELSE IF userRow.outdated THEN "rehash" ELSE "issue")
    /\ UNCHANGED <<rows, expired, userRow>>

(* user.update: the hash of the password given, over whatever is there now. *)
Rehash(r) ==
    /\ At(r, "rehash")
    /\ ~UserLocked
    /\ userRow' = [pw |-> req[r].given, outdated |-> FALSE]
    /\ Goto(r, "issue")
    /\ UNCHANGED <<rows, expired>>

(* createSession -> issueForNewSession: the first token of a new family.   *)
Issue(r) ==
    /\ At(r, "issue")
    /\ \E t \in Tokens :
          /\ CreateToken(t, t, None)
          /\ req' = [req EXCEPT ![r].stage = "done", ![r].token = t]
    /\ UNCHANGED <<expired, userRow>>

-----------------------------------------------------------------------------
(* rotate: findUnique, and the three refusals it can lead to.              *)
RotateRead(r) ==
    /\ At(r, "read") /\ req[r].kind = "refresh"
    /\ Goto(r, IF rows[req[r].token].revoked THEN "snapshot"
               ELSE IF req[r].token \in expired THEN "done" ELSE "claim")
    /\ UNCHANGED <<rows, expired, userRow>>

(* Mutant: the claim trusts the earlier read. *)
RotateClaimMutant(r) ==
    /\ At(r, "claim")
    /\ Goto(r, "insert")
    /\ UNCHANGED <<rows, expired, userRow>>

(* Mutant: a lost race ends without revoking and without an answer.        *)
RotateClaimStuckMutant(r) ==
    /\ At(r, "claim")
    /\ req[r].token \notin Claimed
    /\ Live(req[r].token)
    /\ Goto(r, "insert")
    /\ UNCHANGED <<rows, expired, userRow>>

(* updateMany where id and revokedAt: null, inside the transaction.  It    *)
(* waits for an open rotation of the same token; if the token is revoked   *)
(* by then the count is 0, the transaction ends and the family is revoked. *)
RotateClaim(r) ==
    /\ At(r, "claim")
    /\ req[r].token \notin Claimed
    /\ Goto(r, IF Live(req[r].token) THEN "insert" ELSE "snapshot")
    /\ UNCHANGED <<rows, expired, userRow>>

(* Mutant: the old token stays usable. *)
RotateCommitMutant(r) ==
    LET old == req[r].token IN
    /\ At(r, "insert")
    /\ \E t \in Tokens : CreateToken(t, rows[old].family, old)
    /\ Goto(r, "done")
    /\ UNCHANGED <<expired, userRow>>

(* createToken in the same family, and COMMIT: the claim and the new token *)
(* become visible together.                                                *)
RotateCommit(r) ==
    LET old == req[r].token IN
    /\ At(r, "insert")
    /\ \E t \in Tokens \ DOMAIN rows :
          rows' = [u \in DOMAIN rows \cup {t} |->
                     IF u = t THEN [family |-> rows[old].family, from |-> old, revoked |-> FALSE]
                     ELSE IF u = old THEN [rows[old] EXCEPT !.revoked = TRUE]
                     ELSE rows[u]]
    /\ Goto(r, "done")
    /\ UNCHANGED <<expired, userRow>>

(* The connection drops or the insert fails: the claim is rolled back.     *)
RotateRollback(r) ==
    /\ At(r, "insert")
    /\ Goto(r, "done")
    /\ UNCHANGED <<rows, expired, userRow>>

-----------------------------------------------------------------------------
(* revoke (logout): the family of the token is read first.                 *)
LogoutRead(r) ==
    /\ At(r, "read") /\ req[r].kind = "logout"
    /\ Goto(r, "snapshot")
    /\ UNCHANGED <<rows, expired, userRow>>

(* changePassword and resetPassword: the user row is read; the current     *)
(* password is verified, or the e-mailed code consumed (either way it may  *)
(* be wrong).                                                              *)
ChangeRead(r) ==
    /\ At(r, "read") /\ ChangesPassword(r)
    /\ \/ /\ req[r].kind = "change" => userRow.pw = req[r].given
          /\ Goto(r, "snapshot")
       \/ /\ req[r].kind = "change" => userRow.pw # req[r].given
          /\ Goto(r, "done")
    /\ UNCHANGED <<rows, expired, userRow>>

(* The rows revokeFamily or revokeAllForUser sees: committed and unrevoked *)
(* when its UPDATE starts.  A password change has updated the User row     *)
(* just before, in the same transaction, and holds it from here on.        *)
TakeSnapshot(r) ==
    /\ At(r, "snapshot")
    /\ ChangesPassword(r) => ~UserLocked
    /\ req' = [req EXCEPT
          ![r].stage = "revoke",
          ![r].targets = {t \in IF ChangesPassword(r) THEN DOMAIN rows
                                ELSE Members(rows[req[r].token].family) : Live(t)}]
    /\ UNCHANGED <<rows, expired, userRow>>

(* Mutant: the UPDATE does not wait. *)
ApplyRevokeMutant(r) ==
    /\ At(r, "revoke")
    /\ Revoke(req[r].targets)
    /\ userRow' = IF ChangesPassword(r)
                  THEN [pw |-> req[r].next, outdated |-> FALSE] ELSE userRow
    /\ Goto(r, IF req[r].kind = "change" THEN "issue" ELSE "done")
    /\ UNCHANGED expired

(* The UPDATE waits for rotations that hold one of its rows, then revokes. *)
(* A password change writes the new hash in the same transaction, and      *)
(* changePassword starts a session afterwards.                             *)
ApplyRevoke(r) ==
    /\ At(r, "revoke")
    /\ req[r].targets \cap Claimed = {}
    /\ Revoke(req[r].targets)
    /\ userRow' = IF ChangesPassword(r)
                  THEN [pw |-> req[r].next, outdated |-> FALSE] ELSE userRow
    /\ Goto(r, IF req[r].kind = "change" THEN "issue" ELSE "done")
    /\ UNCHANGED expired

(* Thirty days without a refresh.                                          *)
Expire(t) ==
    /\ t \in DOMAIN rows \ expired
    /\ expired' = expired \cup {t}
    /\ UNCHANGED <<rows, userRow, req>>

Handle(r) ==
    \/ LoginRead(r)
    \/ Rehash(r)
    \/ Issue(r)
    \/ RotateRead(r)
    \/ RotateClaim(r)
    \/ RotateCommit(r)
    \/ LogoutRead(r)
    \/ ChangeRead(r)
    \/ TakeSnapshot(r)
    \/ ApplyRevoke(r)

SessionsNext ==
    \/ \E r \in Requests : Start(r) \/ Handle(r) \/ RotateRollback(r)
    \/ \E t \in Tokens : Expire(t)

SessionsSpec == SessionsInit /\ [][SessionsNext]_sessionsVars

(* A statement that can run runs: Node keeps turning its event loop and    *)
(* Postgres grants a lock once its holder is gone.                         *)
SessionsFairSpec == SessionsSpec /\ \A r \in Requests : WF_sessionsVars(Handle(r))

-----------------------------------------------------------------------------
(* A session is one chain of tokens with at most one usable end, whatever  *)
(* requests race over it.                                                  *)
OneHeadPerFamily ==
    \A t, u \in DOMAIN rows :
        (Live(t) /\ Live(u) /\ rows[t].family = rows[u].family) => t = u

(* A refresh token is exchanged at most once, and its successor belongs to *)
(* the same session.                                                       *)
OneHeir ==
    \A t, u \in DOMAIN rows :
        rows[t].from # None =>
            /\ rows[t].from \in DOMAIN rows
            /\ rows[rows[t].from].revoked
            /\ rows[rows[t].from].family = rows[t].family
            /\ rows[u].from = rows[t].from => u = t

(* A session is over when none of its tokens is usable and no rotation of  *)
(* one is still open.                                                      *)
Over(f) == Members(f) # {} /\ \A t \in Members(f) : ~Live(t)

(* A session that is over never comes back: neither a late rotation nor a  *)
(* retried one can put a usable token into its family.                     *)
OverStaysOver == [][\A f \in Tokens : Over(f) => Over(f)']_sessionsVars

(* Every request is answered: waiting for rows another rotation holds ends.*)
EveryRequestEnds == \A r \in Requests : ~At(r, "idle") ~> At(r, "done")

=============================================================================
