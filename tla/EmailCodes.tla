----------------------------- MODULE EmailCodes -----------------------------
(***************************************************************************)
(* EmailCodeService: the one-time codes e-mailed to one account, with the  *)
(* AuthService and UsersService methods that send and redeem them          *)
(* (sendEmailVerification, verifyEmail, requestEmailChange,                *)
(* confirmEmailChange, forgotPassword; the password resetPassword sets is  *)
(* in Sessions).  Several requests run at once over Postgres at READ       *)
(* COMMITTED; one action is one awaited statement, except that the second  *)
(* statement of issue's transaction is merged with its COMMIT.             *)
(*                                                                         *)
(* Abstractions: a code stands for its row and for its six digits (two     *)
(* codes never share digits, a wrong guess is None); the HMAC is the check *)
(* that the guess is the row's own code; the account password is assumed   *)
(* right.  An address is free or belongs to another account.               *)
(***************************************************************************)
EXTENDS Integers, FiniteSets

CONSTANTS
    Requests,     \* HTTP requests
    Codes,        \* codes that can ever be issued (bound)
    Purposes,     \* the purposes in play
    Addresses, Home,
    MaxAttempts,  \* MAX_ATTEMPTS
    ResendAfter,  \* RESEND_AFTER_MS
    TTL,          \* TTL_MS, one value for every purpose
    MaxTime,      \* bound on the clock
    None

ASSUME TimesAssumption ==
    /\ MaxAttempts \in Nat \ {0}
    /\ ResendAfter \in Nat \ {0}
    /\ TTL \in Nat \ {0}
    /\ MaxTime \in Nat

ASSUME PurposesAssumption ==
    Purposes \subseteq {"PASSWORD_RESET", "EMAIL_VERIFICATION", "EMAIL_CHANGE"}

ASSUME NamesAssumption == Home \in Addresses /\ None \notin Addresses \cup Codes

VARIABLES
    now,        \* CLOCK
    rows,       \* stored code -> its committed EmailCode row
    mailbox,    \* <<code, address>> of every mail that went out
    account,    \* the committed User row: email and emailVerifiedAt
    taken,      \* addresses of other accounts
    req         \* request -> the local state of its handler

vars == <<now, rows, mailbox, account, taken, req>>

Row == [purpose: Purposes, newEmail: Addresses \cup {None}, created: 0..MaxTime,
        attempts: Nat, used: BOOLEAN]

Account == [email: Addresses, verified: BOOLEAN]

Stages == {"idle", "find", "supersede", "store", "mail", "compare", "apply", "done"}

Answers == {"none", "quiet", "sent", "failed", "granted", "refused"}

(* code: the code a send issues, or the active row a redemption reads.     *)
Request == [kind: {"send", "redeem"}, purpose: Purposes, stage: Stages, at: 0..MaxTime,
            address: Addresses, code: Codes \cup {None}, guess: Codes \cup {None},
            targets: SUBSET Codes, answer: Answers]

TypeOK ==
    /\ now \in 0..MaxTime
    /\ DOMAIN rows \subseteq Codes
    /\ \A c \in DOMAIN rows : rows[c] \in Row
    /\ mailbox \subseteq (DOMAIN rows) \X Addresses
    /\ account \in Account
    /\ taken \subseteq Addresses
    /\ req \in [Requests -> Request]

Init ==
    /\ now = 0
    /\ rows = [c \in {} |-> c]
    /\ mailbox = {}
    /\ account = [email |-> Home, verified |-> FALSE]
    /\ taken = {}
    /\ \E p \in Purposes :
          req = [r \in Requests |->
                    [kind |-> "send", purpose |-> p, stage |-> "idle", at |-> 0,
                     address |-> Home, code |-> None, guess |-> None, targets |-> {},
                     answer |-> "none"]]

-----------------------------------------------------------------------------
At(r, kind, stage) == req[r].kind = kind /\ req[r].stage = stage

Goto(r, stage) == req' = [req EXCEPT ![r].stage = stage]

(* The handler ends and forgets its locals.                                *)
Answer(r, answer) ==
    req' = [req EXCEPT ![r].stage = "done", ![r].answer = answer, ![r].at = 0]

(* Only EMAIL_CHANGE rows carry the address the code sets.                 *)
NewEmail(r) == IF req[r].purpose = "EMAIL_CHANGE" THEN req[r].address ELSE None

Unused(p) == {c \in DOMAIN rows : rows[c].purpose = p /\ ~rows[c].used}

(* The rows claim's findFirst can return: active, newest first.            *)
Newest(p, time) ==
    LET active == {c \in Unused(p) : rows[c].created + TTL > time}
    IN  {c \in active : \A d \in active : rows[d].created =< rows[c].created}

-----------------------------------------------------------------------------
(* sendEmailVerification (nothing to do once verified), forgotPassword and *)
(* requestEmailChange (another, free address).                             *)
StartSend(r) ==
    /\ At(r, "send", "idle")
    /\ \E p \in Purposes, a \in Addresses :
          /\ p = "EMAIL_VERIFICATION" => ~account.verified
          /\ IF p = "EMAIL_CHANGE" THEN a # account.email /\ a \notin taken
                                   ELSE a = account.email
          /\ req' = [req EXCEPT ![r].stage = "find", ![r].purpose = p, ![r].address = a,
                                ![r].at = now]
    /\ UNCHANGED <<now, rows, mailbox, account, taken>>

(* issue: a code for the same address less than ResendAfter old is enough. *)
FindRecent(r) ==
    LET recent == {c \in Unused(req[r].purpose) : /\ rows[c].newEmail = NewEmail(r)
                                                  /\ rows[c].created > req[r].at - ResendAfter}
    IN
    /\ At(r, "send", "find")
    /\ \/ /\ recent = {}
          /\ Goto(r, "supersede")
       \/ \E c \in recent :
             req' = [req EXCEPT ![r].stage = "done", ![r].answer = "quiet", ![r].code = c,
                                ![r].at = 0]
    /\ UNCHANGED <<now, rows, mailbox, account, taken>>

(* issue's transaction, updateMany: the unused rows its snapshot shows.    *)
Supersede(r) ==
    /\ At(r, "send", "supersede")
    /\ req' = [req EXCEPT ![r].stage = "store", ![r].targets = Unused(req[r].purpose)]
    /\ UNCHANGED <<now, rows, mailbox, account, taken>>

(* create, and COMMIT.                                                     *)
Store(r) ==
    /\ At(r, "send", "store")
    /\ \E c \in Codes \ DOMAIN rows :
          /\ rows' = [d \in DOMAIN rows \cup {c} |->
                IF d = c
                THEN [purpose |-> req[r].purpose, newEmail |-> NewEmail(r),
                      created |-> req[r].at, attempts |-> 0, used |-> FALSE]
                ELSE [rows[d] EXCEPT !.used = @ \/ d \in req[r].targets]]
          /\ req' = [req EXCEPT ![r].stage = "mail", ![r].code = c,
                                ![r].targets = {}, ![r].at = 0]
    /\ UNCHANGED <<now, mailbox, account, taken>>

(* mailer.send: the mail goes out, or it throws and the caller is told     *)
(* (registration and forgotPassword only log it).                          *)
SendMail(r) ==
    /\ At(r, "send", "mail")
    /\ \/ /\ mailbox' = mailbox \cup {<<req[r].code, req[r].address>>}
          /\ Answer(r, "sent")
       \/ /\ mailbox' = mailbox
          /\ Answer(r, "failed")
    /\ UNCHANGED <<now, rows, account, taken>>

-----------------------------------------------------------------------------
(* verifyEmail, confirmEmailChange, resetPassword: the user types a code   *)
(* some mail brought, or a wrong one.                                      *)
StartRedeem(r) ==
    /\ At(r, "send", "idle")
    /\ \E p \in Purposes, g \in {m[1] : m \in mailbox} \cup {None} :
          req' = [req EXCEPT ![r].kind = "redeem", ![r].stage = "find", ![r].purpose = p,
                             ![r].guess = g, ![r].at = now]
    /\ UNCHANGED <<now, rows, mailbox, account, taken>>

(* claim: findFirst, and the check of its attempts.                        *)
FindActive(r) ==
    LET newest == Newest(req[r].purpose, req[r].at) IN
    /\ At(r, "redeem", "find")
    /\ \/ /\ newest = {}
          /\ Answer(r, "refused")
       \/ \E c \in newest :
             IF rows[c].attempts >= MaxAttempts
             THEN Answer(r, "refused")
             ELSE req' = [req EXCEPT ![r].stage = "compare", ![r].code = c, ![r].at = 0]
    /\ UNCHANGED <<now, rows, mailbox, account, taken>>

(* Mutant: the HMAC is bound to the user only. *)
MatchesMutant(r) == req[r].guess # None

(* timingSafeEqual of the HMACs, bound to user, purpose and address.       *)
Matches(r) == req[r].guess = req[r].code

(* Mutant: the counter is written back from the row read before.           *)
CountWrongMutant(r) ==
    /\ At(r, "redeem", "compare") /\ ~Matches(r)
    /\ rows' = [rows EXCEPT ![req[r].code].attempts = 1]
    /\ Answer(r, "refused")
    /\ UNCHANGED <<now, mailbox, account, taken>>

(* attempts: { increment: 1 }.                                             *)
CountWrong(r) ==
    /\ At(r, "redeem", "compare") /\ ~Matches(r)
    /\ rows' = [rows EXCEPT ![req[r].code].attempts = @ + 1]
    /\ Answer(r, "refused")
    /\ UNCHANGED <<now, mailbox, account, taken>>

(* Mutant: the code is taken on the strength of the row read before.       *)
ClaimMutant(r) ==
    /\ At(r, "redeem", "compare") /\ Matches(r)
    /\ rows' = [rows EXCEPT ![req[r].code].used = TRUE]
    /\ req' = [req EXCEPT ![r].stage = "apply", ![r].answer = "granted"]
    /\ UNCHANGED <<now, mailbox, account, taken>>

(* updateMany where usedAt: null; only count = 1 redeems the code.         *)
Claim(r) ==
    /\ At(r, "redeem", "compare") /\ Matches(r)
    /\ IF rows[req[r].code].used
       THEN rows' = rows /\ Answer(r, "refused")
       ELSE /\ rows' = [rows EXCEPT ![req[r].code].used = TRUE]
            /\ req' = [req EXCEPT ![r].stage = "apply", ![r].answer = "granted"]
    /\ UNCHANGED <<now, mailbox, account, taken>>

(* The user row is written after the code is gone: the address is          *)
(* confirmed, and EMAIL_CHANGE sets it unless its unique index refuses.    *)
Apply(r) ==
    LET new == rows[req[r].code].newEmail IN
    /\ At(r, "redeem", "apply")
    /\ account' = IF new \in taken THEN account
                  ELSE [email |-> IF new = None THEN account.email ELSE new,
                        verified |-> TRUE]
    /\ Goto(r, "done")
    /\ UNCHANGED <<now, rows, mailbox, taken>>

(* The process dies between the two statements.                            *)
ApplyLost(r) ==
    /\ At(r, "redeem", "apply")
    /\ Goto(r, "done")
    /\ UNCHANGED <<now, rows, mailbox, account, taken>>

(* Somebody registers, or changes to, a free address.                      *)
OthersTake(a) ==
    /\ a \notin taken \cup {account.email}
    /\ taken' = taken \cup {a}
    /\ UNCHANGED <<now, rows, mailbox, account, req>>

Tick ==
    /\ now < MaxTime
    /\ now' = now + 1
    /\ UNCHANGED <<rows, mailbox, account, taken, req>>

Next ==
    \/ Tick
    \/ \E a \in Addresses : OthersTake(a)
    \/ \E r \in Requests :
          \/ StartSend(r) \/ FindRecent(r) \/ Supersede(r) \/ Store(r) \/ SendMail(r)
          \/ StartRedeem(r) \/ FindActive(r) \/ CountWrong(r) \/ Claim(r)
          \/ Apply(r) \/ ApplyLost(r)

Spec == Init /\ [][Next]_vars

-----------------------------------------------------------------------------
(* "Dwa równoległe żądania z tym samym kodem — tylko jedno go zużyje"      *)
(* (claim, email-code.service.ts:149-155): a code is redeemed once,        *)
(* whatever races with it.                                                 *)
RedeemedOnce ==
    \A r, s \in Requests :
        (req[r].answer = "granted" /\ req[s].answer = "granted" /\ req[r].code = req[s].code)
        => r = s

(* Wrong guesses made at the same moment are all counted (claim,           *)
(* email-code.service.ts:142-147).  That does not bound them: guesses that *)
(* read the row before any is counted may exceed MaxAttempts together.     *)
WrongGuesses(c) ==
    {r \in Requests : /\ At(r, "redeem", "done") /\ req[r].answer = "refused"
                      /\ req[r].code = c /\ req[r].guess # c}

EveryWrongGuessCounts ==
    \A c \in DOMAIN rows : rows[c].attempts = Cardinality(WrongGuesses(c))

(* The address of the account is the one it was registered with or one     *)
(* that a delivered code was sent to, and it is marked as confirmed only   *)
(* if a code reached it (schema comment of newEmail; confirmEmailChange,   *)
(* users.service.ts:184-204), whatever other sends and redemptions race.   *)
Reached(a) == \E m \in mailbox : m[2] = a

ConfirmedAddressWasReached ==
    /\ account.verified => Reached(account.email)
    /\ account.email # Home => account.verified

=============================================================================
