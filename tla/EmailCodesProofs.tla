-------------------------- MODULE EmailCodesProofs --------------------------
(***************************************************************************)
(* Proofs, for any number of concurrent requests, codes and addresses, of  *)
(* the three safety properties of EmailCodes.                              *)
(*                                                                         *)
(* A request that was granted a code left the row used, and a used row     *)
(* stays used, so it grants nobody else (GrantsAreUsed).  A wrong guess    *)
(* raises the counter of the row in the step that ends its request, and    *)
(* no request ends with a guess at a code that has no row yet.  The        *)
(* address a code sets is the one it was mailed to (MailsFit), and until   *)
(* the account is confirmed its other codes go Home (SendsFit).            *)
(***************************************************************************)
EXTENDS EmailCodes, TLAPS, FiniteSetTheorems

(* What a handler remembers of codes and rows. *)
Remembers(q) ==
    /\ q.kind = "send" => q.answer # "granted"
    /\ q.kind = "send" /\ q.stage = "idle" => q.code = None /\ q.answer = "none"
    /\ q.kind = "redeem" =>
          /\ q.stage \in {"find", "compare", "apply", "done"}
          /\ q.code \in DOMAIN rows \cup {None}
          /\ q.guess \in {m[1] : m \in mailbox} \cup {None}
          /\ q.stage = "find" => q.code = None
          /\ q.stage = "compare" => q.code # None
          /\ q.stage \in {"find", "compare"} => q.answer = "none"
          /\ q.stage = "apply" => q.answer = "granted"

LocalsHold == \A r \in Requests : Remembers(req[r])

(* A granted code is gone. *)
Grant(q) == q.answer = "granted" => q.code # None /\ q.code = q.guess /\ rows[q.code].used

GrantsAreUsed == \A r \in Requests : Grant(req[r])

(* A wrong guess belongs to a row, and the rows have counted theirs. *)
IsWrong(q, c) ==
    q.kind = "redeem" /\ q.stage = "done" /\ q.answer = "refused" /\ q.code = c /\ q.guess # c

WrongGuessesCounted ==
    \A c \in DOMAIN rows :
        /\ IsFiniteSet(WrongGuesses(c))
        /\ rows[c].attempts = Cardinality(WrongGuesses(c))

(* Mails carry a code to the address that the code sets, if it sets one.   *)
(* Before the account is confirmed, the codes that set no address go Home. *)
Fits(c, a) ==
    /\ c \in DOMAIN rows
    /\ rows[c].newEmail \in {None, a}
    /\ ~account.verified /\ rows[c].newEmail = None => a = Home

MailsFit == \A m \in mailbox : Fits(m[1], m[2])

Sends(q) ==
    q.kind = "send" =>
        /\ q.stage = "mail" => Fits(q.code, q.address)
        /\ (/\ q.stage \in {"find", "supersede", "store"}
            /\ ~account.verified /\ q.purpose # "EMAIL_CHANGE") => q.address = Home

SendsFit == \A r \in Requests : Sends(req[r])

IInv ==
    /\ TypeOK
    /\ LocalsHold
    /\ GrantsAreUsed
    /\ RedeemedOnce
    /\ WrongGuessesCounted
    /\ MailsFit
    /\ SendsFit
    /\ ConfirmedAddressWasReached

-----------------------------------------------------------------------------
(* Steps that change the locals of one request.                            *)
Moves(r, q) == q \in Request /\ req' = [req EXCEPT ![r] = q]

LEMMA MovesIs ==
    ASSUME TypeOK, NEW r \in Requests, NEW q, Moves(r, q)
    PROVE  /\ req' \in [Requests -> Request] /\ req'[r] = q
           /\ \A s \in Requests \ {r} : req'[s] = req[s]
BY DEF Moves, TypeOK

LEMMA WrongGuessesAre ==
    \A c : /\ WrongGuesses(c) = {r \in Requests : IsWrong(req[r], c)}
           /\ WrongGuesses(c)' = {r \in Requests : IsWrong(req'[r], c)}
BY DEF WrongGuesses, IsWrong, At

LEMMA SameWrongGuesses ==
    ASSUME NEW S, \A s \in Requests, c \in S : IsWrong(req'[s], c) <=> IsWrong(req[s], c)
    PROVE  \A c \in S : WrongGuesses(c)' = WrongGuesses(c)
BY WrongGuessesAre

(* A step that leaves the rows, the mails and the account, and neither     *)
(* grants a code nor ends a wrong guess.                                   *)
LEMMA QuietStep ==
    ASSUME IInv, NEW r \in Requests, NEW q, Moves(r, q),
           UNCHANGED <<now, rows, mailbox, account, taken>>,
           Remembers(q), Sends(q),
           q.answer = "granted" =>
               /\ req[r].answer = "granted"
               /\ q.code = req[r].code /\ q.guess = req[r].guess,
           \A c \in DOMAIN rows : IsWrong(q, c) <=> IsWrong(req[r], c)
    PROVE  IInv'
<1> USE DEF IInv
<1>1. /\ req' \in [Requests -> Request] /\ req'[r] = q
      /\ \A s \in Requests \ {r} : req'[s] = req[s]
  BY MovesIs
<1>2. TypeOK'
  BY <1>1 DEF TypeOK
<1>3. LocalsHold' /\ GrantsAreUsed' /\ SendsFit'
  BY <1>1 DEF LocalsHold, Remembers, GrantsAreUsed, Grant, SendsFit, Sends, Fits
<1>4. RedeemedOnce'
  BY <1>1 DEF RedeemedOnce
<1>5. WrongGuessesCounted'
  <2>1. \A c \in DOMAIN rows : WrongGuesses(c)' = WrongGuesses(c)
    BY <1>1, WrongGuessesAre
  <2> QED
    BY <2>1 DEF WrongGuessesCounted
<1>6. MailsFit' /\ ConfirmedAddressWasReached'
  BY DEF MailsFit, Fits, ConfirmedAddressWasReached, Reached
<1> QED
  BY <1>2, <1>3, <1>4, <1>5, <1>6

(* Every step but those that write the rows, the mails or the account.     *)
LEMMA HandlerStep ==
    ASSUME IInv, NEW r \in Requests,
           \/ StartSend(r) \/ FindRecent(r) \/ Supersede(r)
           \/ StartRedeem(r) \/ FindActive(r) \/ ApplyLost(r)
    PROVE  IInv'
<1> USE DEF IInv
<1>a. req[r] \in Request /\ Remembers(req[r]) /\ Sends(req[r])
  BY DEF TypeOK, LocalsHold, SendsFit
<1>b. 0 \in 0..MaxTime /\ DOMAIN rows \subseteq Codes /\ None \notin DOMAIN rows
  BY TimesAssumption, NamesAssumption DEF TypeOK
<1>1. CASE StartSend(r)
  <2>1. PICK p \in Purposes, a \in Addresses :
          /\ IF p = "EMAIL_CHANGE" THEN a # account.email /\ a \notin taken ELSE a = account.email
          /\ req' = [req EXCEPT ![r].stage = "find", ![r].purpose = p, ![r].address = a,
                                ![r].at = now]
    BY <1>1 DEF StartSend
  <2> DEFINE q == [req[r] EXCEPT !.stage = "find", !.purpose = p, !.address = a, !.at = now]
  <2>2. Moves(r, q)
    BY <1>a, <2>1 DEF Moves, Request, Stages, TypeOK
  <2>3. Remembers(q) /\ Sends(q) /\ q.answer # "granted"
    BY <1>a, <1>1, <2>1 DEF StartSend, At, Remembers, Sends, Request, ConfirmedAddressWasReached
  <2> QED
    BY <1>a, <1>1, <2>2, <2>3, QuietStep DEF StartSend, At, IsWrong, Request
<1>2. CASE FindRecent(r)
  <2>1. CASE Goto(r, "supersede")
    <3> DEFINE q == [req[r] EXCEPT !.stage = "supersede"]
    <3>1. Moves(r, q)
      BY <1>a, <2>1 DEF Moves, Goto, Request, Stages
    <3> QED
      BY <1>a, <1>2, <3>1, QuietStep DEF FindRecent, At, Remembers, Sends, IsWrong, Request
  <2>2. CASE \E c \in DOMAIN rows :
          req' = [req EXCEPT ![r].stage = "done", ![r].answer = "quiet", ![r].code = c, ![r].at = 0]
    <3> PICK c \in DOMAIN rows :
          req' = [req EXCEPT ![r].stage = "done", ![r].answer = "quiet", ![r].code = c, ![r].at = 0]
      BY <2>2
    <3> DEFINE q == [req[r] EXCEPT !.stage = "done", !.answer = "quiet", !.code = c, !.at = 0]
    <3>1. Moves(r, q)
      BY <1>a, <1>b DEF Moves, Request, Stages, Answers
    <3> QED
      BY <1>a, <1>2, <3>1, QuietStep DEF FindRecent, At, Remembers, Sends, IsWrong, Request
  <2> QED
    BY <1>2, <2>1, <2>2 DEF FindRecent, Unused
<1>3. CASE Supersede(r)
  <2> DEFINE q == [req[r] EXCEPT !.stage = "store", !.targets = Unused(req[r].purpose)]
  <2>1. Moves(r, q)
    BY <1>a, <1>3 DEF Moves, Supersede, Request, Stages, Unused, TypeOK
  <2> QED
    BY <1>a, <1>3, <2>1, QuietStep DEF Supersede, At, Remembers, Sends, IsWrong, Request
<1>4. CASE StartRedeem(r)
  <2>1. PICK p \in Purposes, g \in {m[1] : m \in mailbox} \cup {None} :
          req' = [req EXCEPT ![r].kind = "redeem", ![r].stage = "find", ![r].purpose = p,
                             ![r].guess = g, ![r].at = now]
    BY <1>4 DEF StartRedeem
  <2> DEFINE q == [req[r] EXCEPT !.kind = "redeem", !.stage = "find", !.purpose = p,
                                 !.guess = g, !.at = now]
  <2>2. Moves(r, q)
    BY <1>a, <2>1 DEF Moves, Request, Stages, TypeOK
  <2>3. req[r].answer = "none"
    BY <1>a, <1>4 DEF StartRedeem, At, Remembers
  <2>4. Remembers(q) /\ Sends(q) /\ q.answer # "granted"
    BY <1>a, <1>4, <2>3 DEF StartRedeem, At, Remembers, Sends, Request
  <2> QED
    BY <1>a, <1>4, <2>2, <2>4, QuietStep DEF StartRedeem, At, IsWrong, Request
<1>5. CASE FindActive(r)
  <2>1. CASE Answer(r, "refused")
    <3> DEFINE q == [req[r] EXCEPT !.stage = "done", !.answer = "refused", !.at = 0]
    <3>1. Moves(r, q)
      BY <1>a, <1>b, <2>1 DEF Moves, Answer, Request, Stages, Answers
    <3>2. Remembers(q) /\ Sends(q)
      BY <1>a, <1>5 DEF FindActive, At, Remembers, Sends, Request
    <3>3. q.answer # "granted" /\ q.code = None /\ req[r].stage = "find"
      BY <1>a, <1>5 DEF FindActive, At, Remembers, Request
    <3>4. \A c \in DOMAIN rows : ~IsWrong(q, c) /\ ~IsWrong(req[r], c)
      BY <1>b, <3>3 DEF IsWrong
    <3> QED
      BY <1>5, <3>1, <3>2, <3>3, <3>4, QuietStep DEF FindActive
  <2>2. CASE \E c \in DOMAIN rows :
          req' = [req EXCEPT ![r].stage = "compare", ![r].code = c, ![r].at = 0]
    <3> PICK c \in DOMAIN rows :
          req' = [req EXCEPT ![r].stage = "compare", ![r].code = c, ![r].at = 0]
      BY <2>2
    <3> DEFINE q == [req[r] EXCEPT !.stage = "compare", !.code = c, !.at = 0]
    <3>1. Moves(r, q)
      BY <1>a, <1>b DEF Moves, Request, Stages
    <3> QED
      BY <1>a, <1>b, <1>5, <3>1, QuietStep DEF FindActive, At, Remembers, Sends, IsWrong, Request
  <2> QED
    BY <1>5, <2>1, <2>2 DEF FindActive, Newest, Unused
<1>6. CASE ApplyLost(r)
  <2> DEFINE q == [req[r] EXCEPT !.stage = "done"]
  <2>1. Moves(r, q)
    BY <1>a, <1>6 DEF Moves, ApplyLost, Goto, Request, Stages
  <2> QED
    BY <1>a, <1>6, <2>1, QuietStep DEF ApplyLost, At, Remembers, Sends, IsWrong, Request
<1> QED
  BY <1>1, <1>2, <1>3, <1>4, <1>5, <1>6

-----------------------------------------------------------------------------
(* The steps that write.                                                   *)

(* A code that is stored is new: nobody holds it and no mail carries it.   *)
LEMMA StoreInv ==
    ASSUME IInv, NEW r \in Requests, Store(r)
    PROVE  IInv'
<1> USE DEF IInv
<1>1. PICK c \in Codes \ DOMAIN rows :
        /\ rows' = [d \in DOMAIN rows \cup {c} |->
              IF d = c
              THEN [purpose |-> req[r].purpose, newEmail |-> NewEmail(r),
                    created |-> req[r].at, attempts |-> 0, used |-> FALSE]
              ELSE [rows[d] EXCEPT !.used = @ \/ d \in req[r].targets]]
        /\ req' = [req EXCEPT ![r].stage = "mail", ![r].code = c,
                              ![r].targets = {}, ![r].at = 0]
  BY DEF Store
<1>2. At(r, "send", "store") /\ UNCHANGED <<now, mailbox, account, taken>>
  BY DEF Store
<1>3. /\ req[r] \in Request /\ Remembers(req[r]) /\ Sends(req[r])
      /\ 0 \in 0..MaxTime /\ NewEmail(r) \in {None, req[r].address}
      /\ NewEmail(r) = None => req[r].purpose # "EMAIL_CHANGE"
      /\ c # None /\ \A d \in DOMAIN rows : rows[d] \in Row
  BY TimesAssumption, NamesAssumption
     DEF TypeOK, LocalsHold, SendsFit, NewEmail, Request
<1>q. PICK q : q = [req[r] EXCEPT !.stage = "mail", !.code = c, !.targets = {}, !.at = 0]
  OBVIOUS
<1>4. Moves(r, q) /\ q.kind = "send" /\ q.stage = "mail" /\ q.code = c
      /\ q.answer = req[r].answer /\ q.address = req[r].address
  BY <1>1, <1>2, <1>3, <1>q DEF Moves, Request, Stages, At
<1>5. /\ req' \in [Requests -> Request] /\ req'[r] = q
      /\ \A s \in Requests \ {r} : req'[s] = req[s]
  BY <1>4, MovesIs
<1>6. /\ DOMAIN rows' = DOMAIN rows \cup {c}
      /\ rows'[c].newEmail = NewEmail(r) /\ rows'[c].attempts = 0 /\ rows'[c] \in Row
      /\ \A d \in DOMAIN rows :
            /\ rows'[d] \in Row
            /\ rows'[d].newEmail = rows[d].newEmail
            /\ rows'[d].attempts = rows[d].attempts
            /\ rows[d].used => rows'[d].used
  <2>1. rows'[c] \in Row
    BY <1>1, <1>3 DEF Row, Request
  <2>2. \A d \in DOMAIN rows : rows'[d] = [rows[d] EXCEPT !.used = @ \/ d \in req[r].targets]
    BY <1>1
  <2> QED
    BY <1>1, <1>3, <2>1, <2>2 DEF Row
<1>7. TypeOK'
  BY <1>1, <1>2, <1>5, <1>6 DEF TypeOK
<1>8. LocalsHold'
  <2>1. Remembers(q)'
    BY <1>2, <1>3, <1>4 DEF Remembers, At
  <2>2. ASSUME NEW s \in Requests \ {r} PROVE Remembers(req[s])'
    BY <1>2, <1>5, <1>6 DEF LocalsHold, Remembers
  <2> QED
    BY <1>5, <2>1, <2>2 DEF LocalsHold, Remembers
<1>9. GrantsAreUsed'
  <2>1. q.answer # "granted"
    BY <1>2, <1>3, <1>4 DEF At, Remembers
  <2>2. \A s \in Requests : req[s].answer = "granted" => req[s].code \in DOMAIN rows
    BY DEF LocalsHold, Remembers, GrantsAreUsed, Grant, TypeOK, Request
  <2> QED
    BY <1>5, <1>6, <2>1, <2>2 DEF GrantsAreUsed, Grant
<1>10. RedeemedOnce'
  BY <1>2, <1>3, <1>4, <1>5 DEF RedeemedOnce, At, Remembers
<1>11. WrongGuessesCounted'
  <2>1. \A d \in Codes : WrongGuesses(d)' = WrongGuesses(d)
    BY <1>2, <1>4, <1>5, SameWrongGuesses DEF IsWrong, At
  <2>2. WrongGuesses(c) = {}
    BY <1>1, <1>3, WrongGuessesAre DEF IsWrong, LocalsHold, Remembers
  <2>3. IsFiniteSet(WrongGuesses(c)) /\ Cardinality(WrongGuesses(c)) = 0
    BY <2>2, FS_EmptySet
  <2>4. DOMAIN rows' \subseteq Codes
    BY <1>7 DEF TypeOK
  <2> QED
    BY <1>6, <2>1, <2>3, <2>4 DEF WrongGuessesCounted
<1>12. MailsFit'
  BY <1>2, <1>6 DEF MailsFit, Fits
<1>13. SendsFit'
  <2>1. Fits(c, q.address)'
    BY <1>2, <1>3, <1>4, <1>6 DEF Fits, Sends, At
  <2> QED
    BY <1>2, <1>4, <1>5, <1>6, <2>1 DEF SendsFit, Sends, Fits
<1>14. ConfirmedAddressWasReached'
  BY <1>2 DEF ConfirmedAddressWasReached, Reached
<1> QED
  BY <1>7, <1>8, <1>9, <1>10, <1>11, <1>12, <1>13, <1>14

(* The mail goes out, or it does not.                                      *)
LEMMA SendMailInv ==
    ASSUME IInv, NEW r \in Requests, SendMail(r)
    PROVE  IInv'
<1> USE DEF IInv
<1>1. /\ req[r] \in Request /\ Remembers(req[r]) /\ Sends(req[r]) /\ 0 \in 0..MaxTime
      /\ At(r, "send", "mail") /\ UNCHANGED <<now, rows, account, taken>>
  BY TimesAssumption DEF TypeOK, LocalsHold, SendsFit, SendMail
<1>2. Fits(req[r].code, req[r].address) /\ req[r].address \in Addresses
  BY <1>1 DEF Sends, At, Request
<1>3. PICK answer \in {"sent", "failed"} : Answer(r, answer)
  BY DEF SendMail
<1>4. mailbox \subseteq mailbox'
      /\ mailbox' \subseteq mailbox \cup {<<req[r].code, req[r].address>>}
  BY DEF SendMail
<1>q. PICK q : q = [req[r] EXCEPT !.stage = "done", !.answer = answer, !.at = 0]
  OBVIOUS
<1>5. Moves(r, q) /\ q.kind = "send" /\ q.stage = "done" /\ q.answer # "granted"
  BY <1>1, <1>3, <1>q DEF Moves, Answer, Request, Stages, Answers, At
<1>6. /\ req' \in [Requests -> Request] /\ req'[r] = q
      /\ \A s \in Requests \ {r} : req'[s] = req[s]
  BY <1>5, MovesIs
<1>7. TypeOK'
  BY <1>1, <1>2, <1>4, <1>6 DEF TypeOK, Fits
<1>8. LocalsHold' /\ GrantsAreUsed' /\ RedeemedOnce'
  BY <1>1, <1>4, <1>5, <1>6 DEF LocalsHold, Remembers, GrantsAreUsed, Grant, RedeemedOnce
<1>9. WrongGuessesCounted'
  <2>1. \A d \in Codes : WrongGuesses(d)' = WrongGuesses(d)
    BY <1>1, <1>5, <1>6, SameWrongGuesses DEF IsWrong, At
  <2> QED
    BY <1>1, <2>1 DEF WrongGuessesCounted, TypeOK
<1>10. MailsFit' /\ SendsFit'
  BY <1>1, <1>2, <1>4, <1>5, <1>6 DEF MailsFit, Fits, SendsFit, Sends
<1>11. ConfirmedAddressWasReached'
  BY <1>1, <1>4 DEF ConfirmedAddressWasReached, Reached
<1> QED
  BY <1>7, <1>8, <1>9, <1>10, <1>11

(* A wrong guess is counted in the step that ends its request.             *)
LEMMA CountWrongInv ==
    ASSUME IInv, NEW r \in Requests, CountWrong(r)
    PROVE  IInv'
<1> USE DEF IInv
<1>q. PICK c, q : /\ c = req[r].code
                /\ q = [req[r] EXCEPT !.stage = "done", !.answer = "refused", !.at = 0]
  OBVIOUS
<1>1. /\ req[r] \in Request /\ Remembers(req[r]) /\ 0 \in 0..MaxTime
      /\ At(r, "redeem", "compare") /\ UNCHANGED <<now, mailbox, account, taken>>
  BY TimesAssumption DEF TypeOK, LocalsHold, CountWrong
<1>2. c \in DOMAIN rows /\ DOMAIN rows \subseteq Codes /\ rows[c] \in Row
  BY <1>1, <1>q DEF Remembers, At, TypeOK
<1>3. /\ Moves(r, q) /\ q.kind = "redeem" /\ q.stage = "done" /\ q.answer = "refused"
      /\ q.code = c /\ q.guess = req[r].guess /\ q.guess # c
  BY <1>1, <1>q DEF CountWrong, Matches, Moves, Answer, Request, Stages, Answers, At
<1>4. /\ DOMAIN rows' = DOMAIN rows /\ rows'[c].attempts = rows[c].attempts + 1
      /\ \A d \in DOMAIN rows :
            /\ rows'[d] \in Row /\ rows'[d].newEmail = rows[d].newEmail
            /\ rows'[d].used = rows[d].used
            /\ d # c => rows'[d].attempts = rows[d].attempts
  <2>1. rows' = [rows EXCEPT ![c] = [rows[c] EXCEPT !.attempts = rows[c].attempts + 1]]
    BY <1>2, <1>q DEF CountWrong
  <2>2. [rows[c] EXCEPT !.attempts = rows[c].attempts + 1] \in Row
    BY <1>2 DEF Row
  <2> QED
    BY <1>2, <2>1, <2>2 DEF TypeOK, Row
<1>5. /\ req' \in [Requests -> Request] /\ req'[r] = q
      /\ \A s \in Requests \ {r} : req'[s] = req[s]
  BY <1>3, MovesIs
<1>6. TypeOK'
  BY <1>1, <1>4, <1>5 DEF TypeOK
<1>7. LocalsHold' /\ GrantsAreUsed' /\ RedeemedOnce'
  <2>1. LocalsHold'
    <3>1. Remembers(q)'
      BY <1>1, <1>2, <1>3, <1>4 DEF Remembers, At
    <3>2. ASSUME NEW s \in Requests \ {r} PROVE Remembers(req[s])'
      BY <1>1, <1>4, <1>5 DEF LocalsHold, Remembers
    <3> QED
      BY <1>5, <3>1, <3>2 DEF LocalsHold, Remembers
  <2>2. \A s \in Requests : req[s].answer = "granted" => req[s].code \in DOMAIN rows
    BY DEF LocalsHold, Remembers, GrantsAreUsed, Grant, TypeOK, Request
  <2> QED
    BY <1>3, <1>4, <1>5, <2>1, <2>2 DEF GrantsAreUsed, Grant, RedeemedOnce
<1>8. WrongGuessesCounted'
  <2>1. \A d \in DOMAIN rows \ {c} : WrongGuesses(d)' = WrongGuesses(d)
    <3>1. \A d \in DOMAIN rows \ {c} : ~IsWrong(q, d) /\ ~IsWrong(req[r], d)
      BY <1>1, <1>3 DEF IsWrong, At
    <3>2. \A s \in Requests, d \in DOMAIN rows \ {c} : IsWrong(req'[s], d) <=> IsWrong(req[s], d)
      BY <1>5, <3>1
    <3> QED
      BY <3>2, SameWrongGuesses
  <2>2. WrongGuesses(c)' = WrongGuesses(c) \cup {r} /\ r \notin WrongGuesses(c)
    <3>1. IsWrong(q, c) /\ ~IsWrong(req[r], c)
      BY <1>1, <1>3 DEF IsWrong, At
    <3>2. WrongGuesses(c) = {s \in Requests : IsWrong(req[s], c)}
      BY WrongGuessesAre
    <3>3. WrongGuesses(c)' = {s \in Requests : IsWrong(req'[s], c)}
      BY WrongGuessesAre
    <3> QED
      BY <1>5, <3>1, <3>2, <3>3
  <2>3. IsFiniteSet(WrongGuesses(c)) /\ rows[c].attempts = Cardinality(WrongGuesses(c))
    BY <1>2 DEF WrongGuessesCounted
  <2>4. /\ IsFiniteSet(WrongGuesses(c)')
        /\ Cardinality(WrongGuesses(c)') = Cardinality(WrongGuesses(c)) + 1
    BY <2>2, <2>3, FS_AddElement
  <2> QED
    BY <1>2, <1>4, <2>1, <2>3, <2>4 DEF WrongGuessesCounted
<1>9. MailsFit' /\ SendsFit'
  BY <1>1, <1>3, <1>4, <1>5 DEF MailsFit, Fits, SendsFit, Sends
<1>10. ConfirmedAddressWasReached'
  BY <1>1 DEF ConfirmedAddressWasReached, Reached
<1> QED
  BY <1>6, <1>7, <1>8, <1>9, <1>10

(* The row that the claim finds unused was granted to nobody.              *)
LEMMA ClaimInv ==
    ASSUME IInv, NEW r \in Requests, Claim(r)
    PROVE  IInv'
<1> USE DEF IInv
<1>1. /\ req[r] \in Request /\ Remembers(req[r]) /\ 0 \in 0..MaxTime
      /\ At(r, "redeem", "compare") /\ req[r].guess = req[r].code
      /\ UNCHANGED <<now, mailbox, account, taken>>
  BY TimesAssumption DEF TypeOK, LocalsHold, Claim, Matches
<1>2. CASE rows[req[r].code].used
  <2>q. PICK q : q = [req[r] EXCEPT !.stage = "done", !.answer = "refused", !.at = 0]
    OBVIOUS
  <2>1. /\ Moves(r, q) /\ q.kind = "redeem" /\ q.stage = "done" /\ q.answer = "refused"
        /\ q.code = req[r].code /\ q.guess = req[r].guess
    BY <1>1, <1>2, <2>q DEF Claim, Moves, Answer, Request, Stages, Answers, At
  <2>2. Remembers(q) /\ Sends(q) /\ \A c : ~IsWrong(q, c) /\ ~IsWrong(req[r], c)
    BY <1>1, <2>1 DEF Remembers, Sends, IsWrong, At
  <2> QED
    BY <1>1, <1>2, <2>1, <2>2, QuietStep DEF Claim
<1>3. CASE ~rows[req[r].code].used
  <2>q. PICK c, q : c = req[r].code /\ q = [req[r] EXCEPT !.stage = "apply", !.answer = "granted"]
    OBVIOUS
  <2>1. c \in DOMAIN rows /\ DOMAIN rows \subseteq Codes /\ rows[c] \in Row /\ ~rows[c].used
    BY <1>1, <1>3, <2>q DEF Remembers, At, TypeOK
  <2>2. /\ Moves(r, q) /\ q.kind = "redeem" /\ q.stage = "apply" /\ q.answer = "granted"
        /\ q.code = c /\ q.guess = c
    BY <1>1, <1>3, <2>q DEF Claim, Moves, Request, Stages, Answers, At
  <2>3. /\ DOMAIN rows' = DOMAIN rows /\ rows'[c].used
        /\ \A d \in DOMAIN rows :
              /\ rows'[d] \in Row /\ rows'[d].newEmail = rows[d].newEmail
              /\ rows'[d].attempts = rows[d].attempts
              /\ rows[d].used => rows'[d].used
    <3>1. rows' = [rows EXCEPT ![c] = [rows[c] EXCEPT !.used = TRUE]]
      BY <1>3, <2>1, <2>q DEF Claim
    <3>2. [rows[c] EXCEPT !.used = TRUE] \in Row
      BY <2>1 DEF Row
    <3> QED
      BY <2>1, <3>1, <3>2 DEF TypeOK, Row
  <2>4. /\ req' \in [Requests -> Request] /\ req'[r] = q
        /\ \A s \in Requests \ {r} : req'[s] = req[s]
    BY <2>2, MovesIs
  <2>5. \A s \in Requests : req[s].answer = "granted" =>
          req[s].code \in DOMAIN rows /\ req[s].code # c
    BY <2>1 DEF LocalsHold, Remembers, GrantsAreUsed, Grant, TypeOK, Request
  <2>6. TypeOK'
    BY <1>1, <2>3, <2>4 DEF TypeOK
  <2>7. LocalsHold'
    <3>1. Remembers(q)'
      BY <1>1, <2>1, <2>2, <2>3, <2>q DEF Remembers, At
    <3>2. ASSUME NEW s \in Requests \ {r} PROVE Remembers(req[s])'
      BY <1>1, <2>3, <2>4 DEF LocalsHold, Remembers
    <3> QED
      BY <2>4, <3>1, <3>2 DEF LocalsHold, Remembers
  <2>8. GrantsAreUsed'
    <3>1. c # None
      BY <2>1, NamesAssumption
    <3> QED
      BY <2>2, <2>3, <2>4, <2>5, <3>1 DEF GrantsAreUsed, Grant
  <2>9. RedeemedOnce'
    BY <2>2, <2>4, <2>5 DEF RedeemedOnce
  <2>10. WrongGuessesCounted'
    <3>1. \A d \in DOMAIN rows : ~IsWrong(q, d) /\ ~IsWrong(req[r], d)
      BY <1>1, <2>2 DEF IsWrong, At
    <3>2. \A s \in Requests, d \in DOMAIN rows : IsWrong(req'[s], d) <=> IsWrong(req[s], d)
      BY <2>4, <3>1
    <3> QED
      BY <2>3, <3>2, SameWrongGuesses DEF WrongGuessesCounted
  <2>11. MailsFit' /\ SendsFit'
    BY <1>1, <2>2, <2>3, <2>4 DEF MailsFit, Fits, SendsFit, Sends
  <2>12. ConfirmedAddressWasReached'
    BY <1>1 DEF ConfirmedAddressWasReached, Reached
  <2> QED
    BY <2>6, <2>7, <2>8, <2>9, <2>10, <2>11, <2>12
<1> QED
  BY <1>2, <1>3

(* The code came with a mail, to the address that the account gets.        *)
LEMMA ApplyInv ==
    ASSUME IInv, NEW r \in Requests, Apply(r)
    PROVE  IInv'
<1> USE DEF IInv
<1>q. PICK c, q : c = req[r].code /\ q = [req[r] EXCEPT !.stage = "done"]
  OBVIOUS
<1>1. /\ req[r] \in Request /\ Remembers(req[r]) /\ Grant(req[r])
      /\ At(r, "redeem", "apply") /\ UNCHANGED <<now, rows, mailbox, taken>>
  BY DEF TypeOK, LocalsHold, GrantsAreUsed, Apply
<1>2. c \in DOMAIN rows /\ rows[c] \in Row /\ \E m \in mailbox : m[1] = c
  BY <1>1, <1>q, NamesAssumption DEF Remembers, Grant, At, TypeOK
<1>3. PICK m \in mailbox : m[1] = c
  BY <1>2
<1>4. /\ Moves(r, q) /\ q.kind = "redeem" /\ q.stage = "done" /\ q.answer = "granted"
      /\ q.code = c /\ q.guess = c
  BY <1>1, <1>q DEF Apply, Goto, Moves, Request, Stages, Remembers, Grant, At
<1>5. /\ req' \in [Requests -> Request] /\ req'[r] = q
      /\ \A s \in Requests \ {r} : req'[s] = req[s]
  BY <1>4, MovesIs
<1>6. \/ account' = account
      \/ /\ account'.verified /\ account' \in Account
         /\ account'.email = IF rows[c].newEmail = None THEN account.email
                             ELSE rows[c].newEmail
  BY <1>2, <1>q DEF Apply, Account, TypeOK, Row
<1>7. TypeOK'
  BY <1>1, <1>5, <1>6 DEF TypeOK
<1>8. LocalsHold' /\ GrantsAreUsed' /\ RedeemedOnce'
  <2>1. Remembers(q)'
    BY <1>1, <1>2, <1>3, <1>4 DEF Remembers
  <2>2. ASSUME NEW s \in Requests \ {r} PROVE Remembers(req[s])'
    BY <1>1, <1>5 DEF LocalsHold, Remembers
  <2>3. req[r].answer = "granted" /\ req[r].code = c
    BY <1>1, <1>q DEF Remembers, At
  <2> QED
    BY <1>1, <1>4, <1>5, <2>1, <2>2, <2>3
       DEF LocalsHold, Remembers, GrantsAreUsed, Grant, RedeemedOnce
<1>9. WrongGuessesCounted'
  <2>1. \A d \in DOMAIN rows : ~IsWrong(q, d) /\ ~IsWrong(req[r], d)
    BY <1>1, <1>4 DEF IsWrong, At
  <2>2. \A s \in Requests, d \in DOMAIN rows : IsWrong(req'[s], d) <=> IsWrong(req[s], d)
    BY <1>5, <2>1
  <2> QED
    BY <1>1, <2>2, SameWrongGuesses DEF WrongGuessesCounted
<1>10. MailsFit' /\ SendsFit'
  BY <1>1, <1>4, <1>5, <1>6 DEF MailsFit, Fits, SendsFit, Sends
<1>11. ConfirmedAddressWasReached'
  <2>1. Fits(m[1], m[2])
    BY <1>3 DEF MailsFit
  <2>2. CASE rows[c].newEmail = None
    BY <1>1, <1>3, <1>6, <2>1, <2>2 DEF Fits, ConfirmedAddressWasReached, Reached
  <2>3. CASE rows[c].newEmail # None
    BY <1>1, <1>3, <1>6, <2>1, <2>3 DEF Fits, ConfirmedAddressWasReached, Reached
  <2> QED
    BY <2>2, <2>3
<1> QED
  BY <1>7, <1>8, <1>9, <1>10, <1>11

-----------------------------------------------------------------------------
LEMMA Initially == Init => IInv
<1> SUFFICES ASSUME Init PROVE IInv
  OBVIOUS
<1>1. PICK p \in Purposes :
        req = [r \in Requests |->
                  [kind |-> "send", purpose |-> p, stage |-> "idle", at |-> 0,
                   address |-> Home, code |-> None, guess |-> None, targets |-> {},
                   answer |-> "none"]]
  BY DEF Init
<1>2. rows = [c \in {} |-> c] /\ mailbox = {} /\ 0 \in 0..MaxTime
  BY TimesAssumption DEF Init
<1>3. req \in [Requests -> Request]
  BY <1>1, <1>2, NamesAssumption DEF Request, Stages, Answers
<1>4. TypeOK
  BY <1>2, <1>3, NamesAssumption DEF Init, TypeOK, Account
<1>5. LocalsHold /\ GrantsAreUsed /\ RedeemedOnce
  BY <1>1 DEF LocalsHold, Remembers, GrantsAreUsed, Grant, RedeemedOnce
<1>6. WrongGuessesCounted /\ MailsFit
  BY <1>2 DEF WrongGuessesCounted, MailsFit
<1>7. SendsFit /\ ConfirmedAddressWasReached
  BY <1>1 DEF Init, SendsFit, Sends, ConfirmedAddressWasReached
<1> QED
  BY <1>4, <1>5, <1>6, <1>7 DEF IInv

LEMMA StepKeeps == IInv /\ [Next]_vars => IInv'
<1> SUFFICES ASSUME IInv, [Next]_vars PROVE IInv'
  OBVIOUS
<1>1. ASSUME NEW r \in Requests,
             \/ StartSend(r) \/ FindRecent(r) \/ Supersede(r)
             \/ StartRedeem(r) \/ FindActive(r) \/ ApplyLost(r)
      PROVE  IInv'
  BY <1>1, HandlerStep
<1>2. ASSUME NEW r \in Requests, Store(r) \/ SendMail(r) \/ CountWrong(r) \/ Claim(r) \/ Apply(r)
      PROVE  IInv'
  BY <1>2, StoreInv, SendMailInv, CountWrongInv, ClaimInv, ApplyInv
<1>3. ASSUME UNCHANGED <<rows, mailbox, account, req>>, TypeOK' PROVE IInv'
  <2>1. \A c : WrongGuesses(c)' = WrongGuesses(c)
    BY <1>3 DEF WrongGuesses, At
  <2>2. WrongGuessesCounted'
    BY <1>3, <2>1 DEF IInv, WrongGuessesCounted
  <2> QED
    BY <1>3, <2>2 DEF IInv, LocalsHold, Remembers, GrantsAreUsed, Grant, RedeemedOnce,
                     MailsFit, Fits, SendsFit, Sends, ConfirmedAddressWasReached, Reached
<1>4. ASSUME NEW a \in Addresses, OthersTake(a) PROVE IInv'
  BY <1>3, <1>4 DEF OthersTake, IInv, TypeOK
<1>5. CASE Tick
  BY <1>3, <1>5, TimesAssumption DEF Tick, IInv, TypeOK
<1>6. CASE UNCHANGED vars
  BY <1>3, <1>6 DEF vars, IInv, TypeOK
<1> QED
  BY <1>1, <1>2, <1>4, <1>5, <1>6 DEF Next

-----------------------------------------------------------------------------
(* Rows, mails, the account and the handlers are well formed.              *)
THEOREM TypeCorrect == Spec => []TypeOK
<1>1. IInv => TypeOK
  BY DEF IInv
<1> QED
  BY <1>1, Initially, StepKeeps, PTL DEF Spec

(* However many requests bring one code at once, one of them redeems it    *)
(* (claim, email-code.service.ts:149-155).                                 *)
THEOREM SingleRedemption == Spec => []RedeemedOnce
<1>1. IInv => RedeemedOnce
  BY DEF IInv
<1> QED
  BY <1>1, Initially, StepKeeps, PTL DEF Spec

(* The counter of a code is the number of wrong guesses that were refused, *)
(* none lost though they were made at the same moment                      *)
(* (email-code.service.ts:142-147); not that it stays within the limit.    *)
THEOREM NoGuessIsLost == Spec => []EveryWrongGuessCounts
<1>1. IInv => EveryWrongGuessCounts
  BY DEF IInv, WrongGuessesCounted, EveryWrongGuessCounts
<1> QED
  BY <1>1, Initially, StepKeeps, PTL DEF Spec

(* The address of an account is its first one or one that a delivered code *)
(* was sent to (users.service.ts:184-204).                                 *)
THEOREM NoUnreachedAddress == Spec => []ConfirmedAddressWasReached
<1>1. IInv => ConfirmedAddressWasReached
  BY DEF IInv
<1> QED
  BY <1>1, Initially, StepKeeps, PTL DEF Spec

=============================================================================
