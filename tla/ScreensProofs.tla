---------------------------- MODULE ScreensProofs ---------------------------
(***************************************************************************)
(* Proofs about what people enter on the screens of the app, for any       *)
(* number of people's phones, answers and faults.                          *)
(*                                                                         *)
(* A due date of a payment is paid for once (module Confirmations).  The    *)
(* argument: as long as a rule is there, the rows said to be its payments   *)
(* carry its id, so the unique index knows them all, and neither an upsert  *)
(* nor an edit adds a second one of a date; once the rule is gone nothing   *)
(* adds one.                                                                *)
(*                                                                         *)
(* An account is set up with what its screens showed, and no set-up that   *)
(* succeeded is shown as an error (Setup).                                 *)
(*                                                                         *)
(* Edits of one row meet, and what is typed once is created once (Forms).  *)
(***************************************************************************)
EXTENDS Confirmations, Setup, Forms, FiniteSetTheorems, SequenceTheorems, TLAPS

-----------------------------------------------------------------------------
(* Payments are answered for once.                                          *)

(* A row carries the id of a rule that is there, the one whose payment it   *)
(* is said to be; only the deletion of that rule takes the id off it.       *)
LinkedToRule ==
    \A i \in DOMAIN rows :
        /\ rows[i].rule # None =>
              rows[i].of = rows[i].rule /\ rules[rows[i].rule] # "gone"
        /\ (rows[i].of # None /\ rules[rows[i].of] # "gone") => rows[i].rule = rows[i].of

(* A due date of a rule has one row at most, in the trash or not.           *)
OneRowEach ==
    \A i, j \in DOMAIN rows :
        (rows[i].of = rows[j].of /\ rows[i].of # None /\ rows[i].occ = rows[j].occ) => i = j

IInv == TypeOK /\ LinkedToRule /\ OneRowEach

-----------------------------------------------------------------------------
LEMMA HandlersAreTyped ==
    ASSUME TypeOK, NEW r \in Requests,
           \/ Goto(r, "existing") \/ Goto(r, "upsert") \/ Done(r)
           \/ req' = [req EXCEPT ![r].stage = "rule", ![r].today = today]
    PROVE  req' \in [Requests -> Request]
<1>1. req \in [Requests -> Request] /\ today \in 0..MaxDay /\ 0 \in 0..MaxDay
  BY DaysAssumption DEF TypeOK
<1>2. CASE Goto(r, "existing") \/ Goto(r, "upsert")
  BY <1>1, <1>2 DEF Goto, Request
<1>3. CASE Done(r)
  <2>1. [req[r] EXCEPT !.stage = "done", !.today = 0] \in Request
    BY <1>1 DEF Request
  <2> QED
    BY <1>1, <1>3, <2>1 DEF Done
<1>4. CASE req' = [req EXCEPT ![r].stage = "rule", ![r].today = today]
  <2>1. [req[r] EXCEPT !.stage = "rule", !.today = today] \in Request
    BY <1>1 DEF Request
  <2> QED
    BY <1>1, <1>4, <2>1
<1> QED
  BY <1>2, <1>3, <1>4

(* The answer that an upsert stores is a row of its rule and date.         *)
LEMMA DataIsRow ==
    ASSUME TypeOK, NEW r \in Requests
    PROVE  /\ Data(r) \in Row
           /\ Data(r).rule = req[r].rule /\ Data(r).of = req[r].rule
           /\ Data(r).occ = req[r].occ
<1>1. /\ req[r].rule \in Rules /\ req[r].occ \in Occurrences
      /\ req[r].answer \in Answers /\ req[r].today \in 0..MaxDay
  BY DEF TypeOK, Request
<1>2. Data(r).date \in 0..(MaxDay + 1)
  BY <1>1, DaysAssumption DEF Data
<1>3. Data(r).status \in Statuses
  BY <1>1 DEF Data, Answers, Statuses
<1> QED
  BY <1>1, <1>2, <1>3 DEF Data, Row

(* A step that writes one row and leaves what it is the payment of.        *)
LEMMA RowChangeInv ==
    ASSUME IInv, NEW i \in DOMAIN rows, NEW answer \in Row,
           answer.occ = rows[i].occ, answer.rule = rows[i].rule, answer.of = rows[i].of,
           rows' = [rows EXCEPT ![i] = answer],
           UNCHANGED <<today, rules, req>>
    PROVE  IInv'
<1>1. DOMAIN rows' = DOMAIN rows /\ \A j \in DOMAIN rows :
         /\ rows'[j] \in Row
         /\ rows'[j].occ = rows[j].occ
         /\ rows'[j].rule = rows[j].rule /\ rows'[j].of = rows[j].of
  BY DEF IInv, TypeOK
<1> QED
  BY <1>1 DEF IInv, TypeOK, LinkedToRule, OneRowEach

(* A step that makes row i, new or not, the payment of a rule that is       *)
(* there: no other row of that date carries the rule's id, so none is its   *)
(* payment.                                                                *)
LEMMA RelinkInv ==
    ASSUME IInv, NEW i \in RowIds, NEW answer \in Row, answer.of = answer.rule,
           answer.rule # None =>
               /\ rules[answer.rule] # "gone"
               /\ Unique(answer.rule, answer.occ) \subseteq {i},
           rows' = [j \in DOMAIN rows \cup {i} |-> IF j = i THEN answer ELSE rows[j]],
           UNCHANGED <<today, rules>>, req' \in [Requests -> Request]
    PROVE  IInv'
<1>1. /\ DOMAIN rows' = DOMAIN rows \cup {i} /\ rows'[i] = answer
      /\ \A j \in DOMAIN rows \ {i} : rows'[j] = rows[j]
  OBVIOUS
<1>2. TypeOK'
  BY <1>1 DEF IInv, TypeOK
<1>3. LinkedToRule'
  BY <1>1 DEF IInv, TypeOK, LinkedToRule
<1>4. \A j \in DOMAIN rows :
          (rows[j].of = answer.of /\ answer.of # None /\ rows[j].occ = answer.occ) => j = i
  BY DEF IInv, LinkedToRule, Unique, RowsOf
<1>5. OneRowEach'
  BY <1>1, <1>4 DEF IInv, OneRowEach
<1> QED
  BY <1>2, <1>3, <1>5 DEF IInv

LEMMA UpsertInv ==
    ASSUME IInv, NEW r \in Requests, Upsert(r)
    PROVE  IInv'
<1>1. CASE rules[req[r].rule] = "gone" /\ rows' = rows /\ Done(r)
  <2>1. req' \in [Requests -> Request] /\ UNCHANGED <<today, rules>>
    BY <1>1, HandlersAreTyped DEF IInv, Upsert
  <2> QED
    BY <1>1, <2>1 DEF IInv, TypeOK, LinkedToRule, OneRowEach
<1>2. CASE rules[req[r].rule] # "gone"
  <2> DEFINE held == Unique(req[r].rule, req[r].occ)
  <2>1. PICK i \in RowIds :
          /\ IF held = {} THEN i \notin DOMAIN rows /\ i = NewId ELSE i \in held
          /\ rows' = [j \in DOMAIN rows \cup {i} |-> IF j = i THEN Data(r) ELSE rows[j]]
    BY <1>2 DEF Upsert
  <2>2. Done(r) /\ UNCHANGED <<today, rules>>
    BY <1>2 DEF Upsert
  <2>3. req' \in [Requests -> Request]
    BY <2>2, HandlersAreTyped DEF IInv
  <2>4. req[r].rule \in Rules
    BY DEF IInv, TypeOK, Request
  <2>5. \A j, k \in held : j = k
    BY <2>4, NoneAssumption DEF IInv, LinkedToRule, OneRowEach, Unique, RowsOf
  <2>6. held \subseteq {i}
    BY <2>1, <2>5
  <2>7. /\ Data(r) \in Row
        /\ Data(r).rule = req[r].rule /\ Data(r).of = req[r].rule
        /\ Data(r).occ = req[r].occ
    BY DataIsRow DEF IInv
  <2> DEFINE d == Data(r)
  <2>8. /\ d \in Row /\ d.of = d.rule /\ rules[d.rule] # "gone"
        /\ Unique(d.rule, d.occ) \subseteq {i}
        /\ rows' = [j \in DOMAIN rows \cup {i} |-> IF j = i THEN d ELSE rows[j]]
    BY <1>2, <2>1, <2>6, <2>7
  <2> HIDE DEF d, held
  <2> QED
    BY <2>2, <2>3, <2>8, RelinkInv
<1> QED
  BY <1>1, <1>2 DEF Upsert

(* A PATCH of the status, the date and the rule.                           *)
LEMMA EditInv ==
    ASSUME IInv, NEW i \in RowIds, NEW status \in Statuses, NEW date \in 0..(MaxDay + 1),
           NEW rl \in Rules \cup {None}, Edit(i, status, date, rl)
    PROVE  IInv'
<1> DEFINE answer == [rows[i] EXCEPT !.status = status, !.date = date, !.rule = rl,
                                     !.of = IF rl = rows[i].rule THEN rows[i].of ELSE rl]
<1>1. i \in DOMAIN rows /\ rows[i] \in Row /\ UNCHANGED <<today, rules, req>>
  BY DEF IInv, TypeOK, Edit
<1>2. date \in 0..(MaxDay + 1)
  BY DaysAssumption
<1>3. answer \in Row /\ answer.occ = rows[i].occ /\ answer.rule = rl
      /\ answer.of = IF rl = rows[i].rule THEN rows[i].of ELSE rl
  BY <1>1, <1>2 DEF Row
<1>4. rows' = [rows EXCEPT ![i] = answer]
  BY <1>1 DEF Edit, Row
<1>5. rl = rows[i].rule \/ rl = None
      \/ (rl \in Rules /\ rules[rl] # "gone" /\ Unique(rl, rows[i].occ) = {})
  BY DEF Edit
<1> HIDE DEF answer
<1>6. CASE rl = rows[i].rule
  BY <1>1, <1>3, <1>4, <1>6, RowChangeInv
<1>7. CASE rl # rows[i].rule
  <2>1. rows' = [j \in DOMAIN rows \cup {i} |-> IF j = i THEN answer ELSE rows[j]]
    BY <1>1, <1>4 DEF IInv, TypeOK
  <2>2. req' \in [Requests -> Request]
    BY <1>1 DEF IInv, TypeOK
  <2>3. answer.of = answer.rule
        /\ (answer.rule # None => /\ rules[answer.rule] # "gone"
                                  /\ Unique(answer.rule, answer.occ) \subseteq {i})
    BY <1>3, <1>5, <1>7
  <2> QED
    BY <1>1, <1>3, <2>1, <2>2, <2>3, RelinkInv
<1> QED
  BY <1>6, <1>7

-----------------------------------------------------------------------------
LEMMA Initially == Init => IInv
<1> SUFFICES ASSUME Init PROVE IInv
  OBVIOUS
<1>1. [stage: {"idle"}, rule: Rules, occ: Occurrences, answer: Answers, today: {0}]
         \subseteq Request
  <2> SUFFICES ASSUME NEW q \in [stage: {"idle"}, rule: Rules, occ: Occurrences,
                                 answer: Answers, today: {0}]
               PROVE  q \in Request
    OBVIOUS
  <2>1. q.today = 0
    OBVIOUS
  <2>2. q.today \in 0..MaxDay
    BY <2>1, DaysAssumption
  <2> QED
    BY <2>2 DEF Request
<1> QED
  BY <1>1, DaysAssumption DEF Init, IInv, TypeOK, LinkedToRule, OneRowEach

(* Deleting a rule changes no row but its reference.                       *)
LEMMA RemoveRuleInv ==
    ASSUME IInv, NEW rl \in Rules, RemoveRule(rl)
    PROVE  IInv'
<1>1. /\ DOMAIN rows' = DOMAIN rows /\ UNCHANGED <<today, req>>
      /\ rules' = [rules EXCEPT ![rl] = "gone"]
  BY DEF RemoveRule
<1>2. \A i \in DOMAIN rows :
          /\ rows'[i] \in Row /\ rows'[i].occ = rows[i].occ /\ rows'[i].of = rows[i].of
          /\ rows'[i].rule = IF rows[i].rule = rl THEN None ELSE rows[i].rule
  BY DEF IInv, TypeOK, RemoveRule, Row
<1>3. TypeOK'
  BY <1>1, <1>2 DEF IInv, TypeOK
<1>4. LinkedToRule'
  BY <1>1, <1>2 DEF IInv, TypeOK, Row, LinkedToRule
<1>5. OneRowEach'
  BY <1>1, <1>2 DEF IInv, OneRowEach
<1> QED
  BY <1>3, <1>4, <1>5 DEF IInv

LEMMA StepKeeps == IInv /\ [Next]_vars => IInv'
<1> SUFFICES ASSUME IInv, [Next]_vars PROVE IInv'
  OBVIOUS
<1>1. ASSUME NEW r \in Requests, Snapshot(r) \/ ReadRule(r) \/ ReadExisting(r)
      PROVE  IInv'
  <2>1. UNCHANGED <<today, rules, rows>>
    BY <1>1 DEF Snapshot, ReadRule, ReadExisting
  <2>2. req' \in [Requests -> Request]
    BY <1>1, HandlersAreTyped DEF IInv, Snapshot, ReadRule, ReadExisting
  <2> QED
    BY <2>1, <2>2 DEF IInv, TypeOK, LinkedToRule, OneRowEach
<1>2. ASSUME NEW r \in Requests, Upsert(r) PROVE IInv'
  BY <1>2, UpsertInv
<1>3. ASSUME NEW i \in RowIds, MoveToTrash(i) \/ Restore(i) PROVE IInv'
  <2>1. rows[i] \in Row /\ i \in DOMAIN rows
    BY <1>3 DEF IInv, TypeOK, MoveToTrash, Restore
  <2>2. CASE MoveToTrash(i)
    BY <2>1, <2>2, RowChangeInv, [rows[i] EXCEPT !.deleted = TRUE] \in Row DEF MoveToTrash, Row
  <2>3. CASE Restore(i)
    BY <2>1, <2>3, RowChangeInv, [rows[i] EXCEPT !.deleted = FALSE] \in Row DEF Restore, Row
  <2> QED
    BY <1>3, <2>2, <2>3
<1>4. ASSUME NEW i \in RowIds, NEW status \in Statuses, NEW date \in 0..(MaxDay + 1),
             NEW rl \in Rules \cup {None}, Edit(i, status, date, rl)
      PROVE  IInv'
  BY <1>4, EditInv
<1>5. ASSUME NEW rl \in Rules, SetActive(rl, "active") \/ SetActive(rl, "inactive")
      PROVE  IInv'
  <2>1. /\ UNCHANGED <<today, rows, req>>
        /\ rules' \in [Rules -> {"active", "inactive", "gone"}]
        /\ \A other \in Rules : rules'[other] = "gone" <=> rules[other] = "gone"
    BY <1>5 DEF SetActive, IInv, TypeOK
  <2> QED
    BY <2>1 DEF IInv, TypeOK, Row, LinkedToRule, OneRowEach
<1>6. ASSUME NEW rl \in Rules, RemoveRule(rl) PROVE IInv'
  BY <1>6, RemoveRuleInv
<1>7. CASE Midnight
  BY <1>7, DaysAssumption DEF Midnight, IInv, TypeOK, LinkedToRule, OneRowEach
<1>8. CASE UNCHANGED vars
  BY <1>8 DEF vars, IInv, TypeOK, LinkedToRule, OneRowEach
<1> QED
  BY <1>1, <1>2, <1>3, <1>4, <1>5, <1>6, <1>7, <1>8 DEF Next

-----------------------------------------------------------------------------
(* The state of the handlers and of the answers is well formed.            *)
THEOREM TypeCorrect == Spec => []TypeOK
<1>1. IInv => TypeOK
  BY DEF IInv
<1> QED
  BY <1>1, Initially, StepKeeps, PTL DEF Spec

(* A due date of a rule has at most one row that is its payment, in the     *)
(* trash or not, however rows pass from rule to rule and rules are deleted. *)
THEOREM AtMostOneRow == Spec => []OneRowEach
<1>1. IInv => OneRowEach
  BY DEF IInv
<1> QED
  BY <1>1, Initially, StepKeeps, PTL DEF Spec

(* So no two payments of one due date stand side by side                    *)
(* (confirmations.service.ts:33-35).                                        *)
THEOREM SinglePayment == Spec => []PaidOnce
<1>1. OneRowEach => PaidOnce
  BY DEF OneRowEach, PaidOnce
<1> QED
  BY <1>1, AtMostOneRow, PTL

-----------------------------------------------------------------------------
(* Setting up.  The inductive invariant: past step 2 the draft's income is  *)
(* what the screens show of it, so an attempt sends what was shown; and an  *)
(* attempt that was answered for, or a phone in the tabs, means that the    *)
(* account is set up.                                                       *)

IncomeIsShown ==
    \A p \in Phones : step[p] >= 3 =>
        draft[p].income = validateIncome(draft[p]).income

SentAsShown == \A a \in attempts : a.state = "sent" => a.answers = a.shown

AnsweredMeansSaved ==
    (\/ \E a \in attempts : a.state # "sent"
     \/ \E p \in Phones : me[p] = "done") => saved # Unset

NeverRefused == \A p \in Phones : alarm[p] # "refused"

SetupInv ==
    /\ SetupTypeOK
    /\ IncomeIsShown /\ SentAsShown /\ AnsweredMeansSaved /\ NeverRefused
    /\ AnswersAreShown

(* What an answer may be: it keeps the draft a draft, and past step 2 the   *)
(* income and what is shown of it.                                          *)
LEMMA AnswerKeeps ==
    ASSUME SetupInv, NEW p \in Phones, NEW new \in SetupDraft,
           Fill(p, new),
           step[p] >= 3 => new.income = validateIncome(new).income
    PROVE  SetupInv'
<1>1. draft' \in [Phones -> SetupDraft] /\ answered' \in 0..MaxAnswered
      /\ \A q \in Phones : draft'[q] = IF q = p THEN new ELSE draft[q]
  BY SetupBounds DEF SetupInv, SetupTypeOK, Fill
<1>2. UNCHANGED <<saved, me, step, adding, attempts, alarm, lost, restarts>>
  BY DEF Fill
<1>3. SetupTypeOK'
  BY <1>1, <1>2 DEF SetupInv, SetupTypeOK
<1>4. IncomeIsShown'
  BY <1>1, <1>2 DEF SetupInv, IncomeIsShown
<1>5. (SentAsShown /\ AnsweredMeansSaved /\ NeverRefused /\ AnswersAreShown)'
  BY <1>2 DEF SetupInv, SentAsShown, AnsweredMeansSaved, NeverRefused, AnswersAreShown,
     Unset
<1> QED BY <1>3, <1>4, <1>5 DEF SetupInv


(* Step 2 shows of a draft what it shows of any other with its fields.      *)
LEMMA IncomeOfFields ==
    ASSUME NEW d \in SetupDraft, NEW e \in SetupDraft,
           e.payday = d.payday, e.kind = d.kind, e.name = d.name, e.amount = d.amount,
           e.day = d.day, e.received = d.received
    PROVE  validateIncome(e) = validateIncome(d)
<1>1. /\ incomeNameShown(e) = incomeNameShown(d)
      /\ incomeDayShown(e) = incomeDayShown(d)
  BY DEF incomeNameShown, incomeDayShown
<1> QED BY <1>1 DEF validateIncome

LEMMA IncomeType ==
    ASSUME NEW d \in SetupDraft
    PROVE  validateIncome(d).income \in Incomes
<1>1. /\ d.kind \in {"REGULAR", "IRREGULAR"} /\ d.amount \in Texts
      /\ d.received \in Texts /\ d.name \in {"untouched", "", "typed", "wrong"}
      /\ d.day \in Days \cup {0, 99} /\ d.payday \in Days \cup {0}
  BY DEF SetupDraft
<1>2. PICK shown : shown = incomeNameShown(d)
  OBVIOUS
<1>3. PICK name : name = IF shown = "" THEN d.kind ELSE shown
  OBVIOUS
<1>4. name \in Names
  BY <1>1, <1>2, <1>3 DEF incomeNameShown, Names
<1>5. PICK day : day = incomeDayShown(d)
  OBVIOUS
<1>6. day \in Days \cup {0, 99}
  BY <1>1, <1>5 DEF incomeDayShown
<1>7. CASE d.kind = "REGULAR"
  <2>1. validateIncome(d).income =
          [kind |-> "REGULAR", name |-> name, amount |-> d.amount, day |-> day]
    BY <1>2, <1>3, <1>5, <1>7 DEF validateIncome
  <2>2. [kind |-> "REGULAR", name |-> name, amount |-> d.amount, day |-> day]
          \in [kind : {"REGULAR"}, name : Names, amount : Texts,
               day : Days \cup {0, 99}]
    BY <1>1, <1>4, <1>6
  <2> QED BY <2>1, <2>2 DEF Incomes
<1>8. CASE d.kind = "IRREGULAR"
  <2>1. validateIncome(d).income =
          [kind |-> "IRREGULAR", name |-> name, received |-> d.received]
    BY <1>2, <1>3, <1>8 DEF validateIncome
  <2>2. [kind |-> "IRREGULAR", name |-> name, received |-> d.received]
          \in [kind : {"IRREGULAR"}, name : Names, received : Texts]
    BY <1>1, <1>4
  <2> QED BY <2>1, <2>2 DEF Incomes
<1> QED BY <1>1, <1>7, <1>8

LEMMA AnswersKeep ==
    ASSUME SetupInv, NEW p \in Phones,
           \/ PaydayAnswer(p) \/ IncomeAnswer(p)
           \/ RemoveCommitment(p) \/ SpentAnswer(p)
    PROVE  SetupInv'
<1> DEFINE d == draft[p]
<1>1. d \in SetupDraft
  BY DEF SetupInv, SetupTypeOK
<1>2. CASE PaydayAnswer(p)
  <2>1. step[p] = 1
    BY <1>2 DEF PaydayAnswer, On
  <2>2. PICK day \in Days : Fill(p, [d EXCEPT !.payday = day])
    BY <1>2 DEF PaydayAnswer
  <2>3. [d EXCEPT !.payday = day] \in SetupDraft
    BY <1>1 DEF SetupDraft
  <2> QED BY <2>1, <2>2, <2>3, AnswerKeeps
<1>3. CASE IncomeAnswer(p)
  <2>1. step[p] = 2
    BY <1>3 DEF IncomeAnswer, On
  <2>2. PICK new \in SetupDraft : Fill(p, new)
    <3> HIDE DEF d
    <3>1. \A kind \in {"REGULAR", "IRREGULAR"} : [d EXCEPT !.kind = kind] \in SetupDraft
      BY <1>1 DEF SetupDraft
    <3>2. \A name \in {"", "typed", "wrong"} : [d EXCEPT !.name = name] \in SetupDraft
      BY <1>1 DEF SetupDraft
    <3>3. \A text \in {"some", "wrong"} : [d EXCEPT !.amount = text] \in SetupDraft
      BY <1>1 DEF SetupDraft, Texts
    <3>4. \A day \in Days \cup {99} : [d EXCEPT !.day = day] \in SetupDraft
      BY <1>1 DEF SetupDraft
    <3>5. \A text \in {"", "some", "wrong"} : [d EXCEPT !.received = text] \in SetupDraft
      BY <1>1 DEF SetupDraft, Texts
    <3> QED BY <1>3, <3>1, <3>2, <3>3, <3>4, <3>5 DEF IncomeAnswer, d
  <2> QED BY <2>1, <2>2, AnswerKeeps
<1>4. CASE RemoveCommitment(p) \/ SpentAnswer(p)
  <2>1. step[p] >= 3
    <3>1. CASE RemoveCommitment(p)
      BY <3>1 DEF RemoveCommitment, On
    <3>2. CASE SpentAnswer(p)
      <4>1. step[p] = 4
        BY <3>2 DEF SpentAnswer, On
      <4> QED BY <4>1
    <3> QED BY <1>4, <3>1, <3>2
  <2>2. PICK new \in SetupDraft :
          /\ Fill(p, new)
          /\ new.payday = d.payday /\ new.kind = d.kind /\ new.name = d.name
          /\ new.amount = d.amount /\ new.day = d.day /\ new.received = d.received
          /\ new.income = d.income
    <3>1. CASE SpentAnswer(p)
      <4>1. PICK text \in {"", "some", "wrong"} : Fill(p, [d EXCEPT !.spent = text])
        BY <3>1 DEF SpentAnswer
      <4>2. PICK new : new = [d EXCEPT !.spent = text]
        OBVIOUS
      <4>3. /\ new \in SetupDraft /\ new.income = d.income
            /\ new.payday = d.payday /\ new.kind = d.kind /\ new.name = d.name
            /\ new.amount = d.amount /\ new.day = d.day /\ new.received = d.received
        BY <1>1, <4>2 DEF SetupDraft, Texts
      <4> QED BY <4>1, <4>2, <4>3
    <3>2. CASE RemoveCommitment(p)
      <4>1. PICK i \in DOMAIN d.commitments :
              Fill(p, [d EXCEPT !.commitments = RemoveAt(@, i)])
        BY <3>2 DEF RemoveCommitment
      <4>2. RemoveAt(d.commitments, i) \in Seq(Commitments)
        <5>1. PICK s \in Seq(Commitments) : s = d.commitments
          BY <1>1 DEF SetupDraft
        <5>2. i \in 1..Len(s) /\ Len(s) \in Nat
          BY <4>1, <5>1
        <5>3. SubSeq(s, 1, i - 1) \in Seq(Commitments)
              /\ SubSeq(s, i + 1, Len(s)) \in Seq(Commitments)
          BY <5>2, SubSeqProperties
        <5> QED BY <5>1, <5>3, ConcatProperties DEF RemoveAt
      <4>3. PICK rest \in Seq(Commitments) :
               rest = RemoveAt(d.commitments, i)
        BY <4>2
      <4>4. PICK new : new = [d EXCEPT !.commitments = rest]
        OBVIOUS
      <4>5. /\ new \in SetupDraft /\ new.income = d.income
            /\ new.payday = d.payday /\ new.kind = d.kind /\ new.name = d.name
            /\ new.amount = d.amount /\ new.day = d.day /\ new.received = d.received
        BY <1>1, <4>4 DEF SetupDraft
      <4>6. Fill(p, new)
        BY <4>1, <4>3, <4>4
      <4> QED BY <4>5, <4>6
    <3> QED BY <1>4, <3>1, <3>2
  <2>3. d.income = validateIncome(d).income
    BY <2>1 DEF SetupInv, IncomeIsShown
  <2>4. new.income = validateIncome(new).income
    BY <1>1, <2>2, <2>3, IncomeOfFields
  <2> QED BY <2>2, <2>4, AnswerKeeps
<1> QED BY <1>2, <1>3, <1>4

(* The other steps.  Those that leave an attempt in another state, or on    *)
(* another part of the app, keep it an attempt.                             *)
LEMMA AttemptMoves ==
    ASSUME NEW a \in Attempt, NEW state \in {"taken", "conflict", "asking"},
           NEW on \in {"screen", "app", "nobody"}
    PROVE  /\ a.phone \in Phones /\ a.on \in {"screen", "app", "nobody"}
           /\ [id |-> a.id, phone |-> a.phone, on |-> a.on, state |-> state] \in Attempt
           /\ [a EXCEPT !.on = on] \in Attempt
           /\ [a EXCEPT !.on = on].state = a.state
           /\ a.state = "sent" =>
                 /\ [a EXCEPT !.on = on].answers = a.answers
                 /\ [a EXCEPT !.on = on].shown = a.shown
                 /\ [answers |-> a.answers, shown |-> a.shown]
                       \in [answers : Sent, shown : Sent]
  BY DEF Attempt

LEMMA FinishKeeps ==
    ASSUME SetupInv, NEW p \in Phones, Finish(p)
    PROVE  SetupInv'
<1>1. PICK d \in SetupDraft : d = draft[p]
  BY DEF SetupInv, SetupTypeOK
<1>2. step[p] = 4
  BY DEF Finish, On
<1>3. d.income = validateIncome(d).income
  <2>1. step[p] >= 3
    BY <1>2
  <2> QED BY <1>1, <2>1 DEF SetupInv, IncomeIsShown
<1>4. PICK answers \in Sent :
         answers = AnswersOf(d) /\ answers = ShownBy(d)
  <2>1. AnswersOf(d) \in Sent
    BY DEF AnswersOf, SetupDraft, Sent
  <2>2. ShownBy(d) = AnswersOf(d)
    BY <1>3 DEF AnswersOf, ShownBy, SetupDraft
  <2> QED BY <2>1, <2>2
<1>5. PICK id \in Nat : id = Cardinality(attempts) + 1
  <2>1. PICK n \in Nat : n = Cardinality(attempts)
    BY FS_CardinalityType DEF SetupInv, SetupTypeOK
  <2> QED BY <2>1
<1>6. PICK new : new = [id |-> id, phone |-> p, on |-> "screen", state |-> "sent",
                        answers |-> answers, shown |-> answers]
  OBVIOUS
<1>7. /\ new \in Attempt /\ new.state = "sent" /\ new.answers = new.shown
      /\ attempts' = attempts \cup {new}
  BY <1>1, <1>4, <1>5, <1>6 DEF Finish, Attempt
<1>8. alarm' = [alarm EXCEPT ![p] = "none"]
      /\ UNCHANGED <<saved, me, step, draft, adding, answered, lost, restarts>>
  BY DEF Finish
<1>9. SetupTypeOK'
  <2>1. IsFiniteSet(attempts')
    BY <1>7, FS_AddElement DEF SetupInv, SetupTypeOK
  <2> QED BY <1>7, <1>8, <2>1 DEF SetupInv, SetupTypeOK
<1>10. (IncomeIsShown /\ SentAsShown /\ AnsweredMeansSaved)'
  BY <1>7, <1>8 DEF SetupInv, IncomeIsShown, SentAsShown, AnsweredMeansSaved, Unset
<1>11. (NeverRefused /\ AnswersAreShown)'
  BY <1>8 DEF SetupInv, SetupTypeOK, NeverRefused, AnswersAreShown,
     Unset
<1> QED BY <1>9, <1>10, <1>11 DEF SetupInv

LEMMA ScreenStepsKeep ==
    ASSUME SetupInv, NEW p \in Phones,
           \/ LoadMe(p) \/ LoadAgain(p)
           \/ TypeCommitment(p) \/ CancelCommitment(p)
    PROVE  SetupInv'
<1>1. UNCHANGED <<saved, step, draft, attempts, alarm>>
  BY DEF LoadMe, LoadAgain, TypeCommitment,
     CancelCommitment
<1>2. me' \in [Phones -> {"pending", "failed", "new", "done"}]
      /\ \A q \in Phones : me'[q] = "done" => me[q] = "done" \/ saved # Unset
  BY DEF SetupInv, SetupTypeOK, LoadMe, LoadAgain,
     TypeCommitment, CancelCommitment
<1>3. /\ adding' \in [Phones -> Commitments \cup {"closed", "unfit"}]
      /\ answered' \in 0..MaxAnswered /\ lost' \in 0..MaxLost /\ restarts' \in 0..MaxRestarts
  BY SetupBounds DEF SetupInv, SetupTypeOK, LoadMe, LoadAgain,
     TypeCommitment, CancelCommitment
<1>4. SetupTypeOK'
  BY <1>1, <1>2, <1>3 DEF SetupInv, SetupTypeOK
<1> QED BY <1>1, <1>2, <1>4 DEF SetupInv, IncomeIsShown, SentAsShown, AnsweredMeansSaved,
     NeverRefused, AnswersAreShown, Unset

LEMMA AddCommitmentKeeps ==
    ASSUME SetupInv, NEW p \in Phones, AddCommitment(p)
    PROVE  SetupInv'
<1>1. PICK d \in SetupDraft : d = draft[p]
  BY DEF SetupInv, SetupTypeOK
<1>2. PICK new : new = [d EXCEPT !.commitments = Append(@, adding[p])]
  OBVIOUS
<1>3. /\ new \in SetupDraft /\ new.income = d.income
      /\ new.payday = d.payday /\ new.kind = d.kind /\ new.name = d.name
      /\ new.amount = d.amount /\ new.day = d.day /\ new.received = d.received
  <2>1. adding[p] \in Commitments
    BY DEF AddCommitment, validateCommitment
  <2>2. Append(d.commitments, adding[p]) \in Seq(Commitments)
    BY <2>1, AppendProperties DEF SetupDraft
  <2> QED BY <1>2, <2>2 DEF SetupDraft
<1>4. draft' = [draft EXCEPT ![p] = new] /\ adding' = [adding EXCEPT ![p] = "closed"]
      /\ UNCHANGED <<saved, me, step, attempts, alarm, answered, lost, restarts>>
  BY <1>1, <1>2 DEF AddCommitment
<1>5. SetupTypeOK'
  BY <1>3, <1>4 DEF SetupInv, SetupTypeOK
<1>6. step[p] >= 3 => new.income = validateIncome(new).income
  BY <1>1, <1>3, IncomeOfFields DEF SetupInv, IncomeIsShown
<1>7. IncomeIsShown'
  BY <1>4, <1>6 DEF SetupInv, SetupTypeOK, IncomeIsShown
<1> QED BY <1>4, <1>5, <1>7 DEF SetupInv, SentAsShown, AnsweredMeansSaved,
     NeverRefused, AnswersAreShown, Unset

LEMMA OnwardKeeps ==
    ASSUME SetupInv, NEW p \in Phones, Onward(p)
    PROVE  SetupInv'
<1>1. PICK d \in SetupDraft : d = draft[p]
  BY DEF SetupInv, SetupTypeOK
<1>0. PICK on \in 1..4 : on = step[p]
  BY DEF SetupInv, SetupTypeOK
<1>2. PICK new \in SetupDraft :
         /\ draft' = [draft EXCEPT ![p] = new]
         /\ on \in 1..3
         /\ on + 1 >= 3 => new.income = validateIncome(new).income
  <2>1. CASE on = 2
    <3>1. draft' = [draft EXCEPT ![p] = IncomeKept(d)]
      BY <1>0, <1>1, <2>1 DEF Onward, On
    <3>2. PICK income \in Incomes : income = validateIncome(d).income
      BY IncomeType
    <3>3. PICK new : new = [d EXCEPT !.income = income]
      OBVIOUS
    <3>4. /\ new \in SetupDraft /\ new.income = income
          /\ new.payday = d.payday /\ new.kind = d.kind /\ new.name = d.name
          /\ new.amount = d.amount /\ new.day = d.day /\ new.received = d.received
      BY <3>3 DEF SetupDraft
    <3>5. validateIncome(new) = validateIncome(d)
      BY <3>4, IncomeOfFields
    <3>6. new.income = validateIncome(new).income
      BY <3>2, <3>4, <3>5
    <3>7. draft' = [draft EXCEPT ![p] = new]
      BY <3>1, <3>2, <3>3 DEF IncomeKept
    <3>8. on \in 1..3
      BY <2>1
    <3> QED BY <3>4, <3>6, <3>7, <3>8
  <2>2. CASE on # 2
    <3>1. on \in {1, 3} /\ draft' = draft
      BY <1>0, <2>2 DEF Onward, On
    <3>2. draft' = [draft EXCEPT ![p] = d]
      BY <1>1, <3>1 DEF SetupInv, SetupTypeOK
    <3>3. on = 3 => d.income = validateIncome(d).income
      <4>1. on = 3 => step[p] >= 3
        BY <1>0
      <4> QED BY <1>1, <4>1 DEF SetupInv, IncomeIsShown
    <3>4. on \in 1..3 /\ (on + 1 >= 3 => on = 3)
      BY <3>1
    <3> QED BY <3>2, <3>3, <3>4
  <2> QED BY <2>1, <2>2
<1>3. step' = [step EXCEPT ![p] = on + 1]
      /\ UNCHANGED <<saved, me, adding, attempts, alarm, answered, lost, restarts>>
  BY <1>0 DEF Onward
<1>4. step' \in [Phones -> 1..4]
  <2>1. on + 1 \in 1..4
    BY <1>2
  <2> QED BY <1>3, <2>1 DEF SetupInv, SetupTypeOK
<1>5. SetupTypeOK'
  BY <1>2, <1>3, <1>4 DEF SetupInv, SetupTypeOK
<1>6. IncomeIsShown'
  BY <1>2, <1>3 DEF SetupInv, SetupTypeOK, IncomeIsShown
<1> QED BY <1>3, <1>5, <1>6 DEF SetupInv, SentAsShown, AnsweredMeansSaved,
     NeverRefused, AnswersAreShown, Unset

(* Attempts taken off their screen are the same attempts.                   *)
LEMMA AttemptsLeft ==
    ASSUME SetupInv, NEW on \in [attempts -> {"screen", "app", "nobody"}],
           attempts' = {[a EXCEPT !.on = on[a]] : a \in attempts}
    PROVE  /\ attempts' \subseteq Attempt /\ IsFiniteSet(attempts')
           /\ SentAsShown'
           /\ (\E b \in attempts' : b.state # "sent") => (\E a \in attempts : a.state # "sent")
<1>1. attempts \subseteq Attempt /\ IsFiniteSet(attempts)
  BY DEF SetupInv, SetupTypeOK
<1>2. ASSUME NEW b \in attempts'
      PROVE  \E a \in attempts : /\ b \in Attempt /\ b.state = a.state
                                 /\ b.state = "sent" => b.answers = b.shown
  <2>1. PICK a \in attempts : b = [a EXCEPT !.on = on[a]]
    OBVIOUS
  <2>2. PICK place \in {"screen", "app", "nobody"} : place = on[a]
    OBVIOUS
  <2>3. a \in Attempt /\ b = [a EXCEPT !.on = place]
    BY <1>1, <2>1, <2>2
  <2>4. a.state = "sent" => a.answers = a.shown
    BY DEF SetupInv, SentAsShown
  <2>5. /\ b \in Attempt /\ b.state = a.state
        /\ a.state = "sent" => b.answers = a.answers /\ b.shown = a.shown
    BY <2>3, AttemptMoves
  <2> QED BY <2>4, <2>5
<1>3. IsFiniteSet(attempts')
  <2> DEFINE f == [a \in attempts |-> [a EXCEPT !.on = on[a]]]
  <2>1. f \in Surjection(attempts, attempts')
    BY DEF Surjection
  <2> QED BY <1>1, <2>1, FS_Surjection
<1> QED BY <1>2, <1>3 DEF SentAsShown

LEMMA BackKeeps ==
    ASSUME SetupInv, NEW p \in Phones, Back(p)
    PROVE  SetupInv'
<1> DEFINE on == [a \in attempts |-> IF a.phone = p /\ a.on = "screen" THEN "app" ELSE a.on]
<1>1. PICK now \in 2..4 : now = step[p]
  BY DEF SetupInv, SetupTypeOK, Back
<1>2. /\ step' = [step EXCEPT ![p] = now - 1] /\ adding' = [adding EXCEPT ![p] = "closed"]
      /\ alarm' = [alarm EXCEPT ![p] = "none"]
      /\ UNCHANGED <<saved, me, draft, answered, lost, restarts>>
  BY <1>1 DEF Back
<1>3. /\ attempts' \subseteq Attempt /\ IsFiniteSet(attempts')
      /\ SentAsShown'
      /\ (\E b \in attempts' : b.state # "sent") => (\E a \in attempts : a.state # "sent")
  <2>1. on \in [attempts -> {"screen", "app", "nobody"}]
    BY AttemptMoves DEF SetupInv, SetupTypeOK
  <2>2. attempts' = {[a EXCEPT !.on = on[a]] : a \in attempts}
    BY DEF Back, LeaveScreen
  <2> HIDE DEF on
  <2> QED BY <2>1, <2>2, AttemptsLeft
<1>4. now - 1 \in 1..4 /\ (now - 1 >= 3 => now >= 3)
  BY <1>1
<1>5. SetupTypeOK'
  BY <1>2, <1>3, <1>4 DEF SetupInv, SetupTypeOK
<1>6. IncomeIsShown'
  <2> SUFFICES ASSUME NEW q \in Phones, step'[q] >= 3
               PROVE  draft'[q].income = validateIncome(draft'[q]).income
    BY DEF IncomeIsShown
  <2>1. step[q] >= 3
    BY <1>1, <1>2, <1>4 DEF SetupInv, SetupTypeOK
  <2> QED BY <1>2, <2>1 DEF SetupInv, IncomeIsShown
<1>7. (AnsweredMeansSaved /\ NeverRefused /\ AnswersAreShown)'
  BY <1>2, <1>3 DEF SetupInv, SetupTypeOK, AnsweredMeansSaved, NeverRefused,
     AnswersAreShown, Unset
<1> QED BY <1>3, <1>5, <1>6, <1>7 DEF SetupInv

LEMMA EmptyIsDraft == emptyDraft \in SetupDraft
<1>1. <<>> \in Seq(Commitments)
  OBVIOUS
<1>2. NoIncome \in Incomes
  BY DEF Incomes
<1> HIDE DEF NoIncome
<1> QED BY <1>1, <1>2 DEF emptyDraft, SetupDraft, Texts,
     Days

(* A phone starts over, with an empty draft: it is on step 1.               *)
LEMMA EmptyDraft ==
    ASSUME SetupInv, NEW p \in Phones, step' = [step EXCEPT ![p] = 1],
           draft' = [draft EXCEPT ![p] = emptyDraft]
    PROVE  step' \in [Phones -> 1..4] /\ draft' \in [Phones -> SetupDraft] /\ IncomeIsShown'
<1>1. emptyDraft \in SetupDraft
  BY EmptyIsDraft
<1>2. step' \in [Phones -> 1..4] /\ draft' \in [Phones -> SetupDraft]
  BY <1>1 DEF SetupInv, SetupTypeOK
<1>3. IncomeIsShown'
  <2> SUFFICES ASSUME NEW q \in Phones, step'[q] >= 3
               PROVE  draft'[q].income = validateIncome(draft'[q]).income
    BY DEF IncomeIsShown
  <2>1. q # p /\ step[q] >= 3 /\ draft'[q] = draft[q]
    BY DEF SetupInv, SetupTypeOK
  <2> QED BY <2>1 DEF SetupInv, IncomeIsShown
<1> QED BY <1>2, <1>3

LEMMA RestartKeeps ==
    ASSUME SetupInv, NEW p \in Phones, RestartApp(p)
    PROVE  SetupInv'
<1> DEFINE on == [a \in attempts |-> IF a.phone = p THEN "nobody" ELSE a.on]
<1>1. /\ me' = [me EXCEPT ![p] = "pending"] /\ adding' = [adding EXCEPT ![p] = "closed"]
      /\ alarm' = [alarm EXCEPT ![p] = "none"] /\ restarts' \in 0..MaxRestarts
      /\ UNCHANGED <<saved, answered, lost>>
  BY SetupBounds DEF SetupInv, SetupTypeOK, RestartApp
<1>2. step' \in [Phones -> 1..4] /\ draft' \in [Phones -> SetupDraft] /\ IncomeIsShown'
  BY EmptyDraft DEF RestartApp
<1>3. /\ attempts' \subseteq Attempt /\ IsFiniteSet(attempts')
      /\ SentAsShown'
      /\ (\E b \in attempts' : b.state # "sent") => (\E a \in attempts : a.state # "sent")
  <2>1. on \in [attempts -> {"screen", "app", "nobody"}]
    BY AttemptMoves DEF SetupInv, SetupTypeOK
  <2>2. attempts' = {[a EXCEPT !.on = on[a]] : a \in attempts}
    BY DEF RestartApp
  <2> HIDE DEF on
  <2> QED BY <2>1, <2>2, AttemptsLeft
<1>4. SetupTypeOK'
  BY <1>1, <1>2, <1>3 DEF SetupInv, SetupTypeOK
<1>5. (AnsweredMeansSaved /\ NeverRefused /\ AnswersAreShown)'
  BY <1>1, <1>3 DEF SetupInv, SetupTypeOK, AnsweredMeansSaved, NeverRefused,
     AnswersAreShown, Unset
<1> QED BY <1>2, <1>3, <1>4, <1>5 DEF SetupInv

(* An attempt that moves on: those left, and the same one elsewhere.        *)
LEMMA AttemptsMoved ==
    ASSUME SetupInv, NEW a \in attempts, NEW b \in Attempt,
           b.state = "sent" => b.answers = b.shown,
           attempts' = (attempts \ {a}) \cup {b}
    PROVE  attempts' \subseteq Attempt /\ IsFiniteSet(attempts')
           /\ SentAsShown'
<1>1. IsFiniteSet(attempts')
  BY FS_RemoveElement, FS_AddElement DEF SetupInv, SetupTypeOK
<1> QED BY <1>1 DEF SetupInv, SetupTypeOK, SentAsShown

LEMMA CompleteKeeps ==
    ASSUME SetupInv, NEW a \in attempts, Complete(a)
    PROVE  SetupInv'
<1>1. a \in Attempt /\ a.state = "sent" /\ a.answers = a.shown
  BY DEF SetupInv, SetupTypeOK, SentAsShown, Complete
<1>2. UNCHANGED <<me, step, draft, adding, alarm, answered, lost, restarts>>
  BY DEF Complete
<1>3. PICK state \in {"taken", "conflict"} :
         attempts' = (attempts \ {a}) \cup
            {[id |-> a.id, phone |-> a.phone, on |-> a.on, state |-> state]}
  BY DEF Complete, To
<1>4. /\ saved' \in {Unset} \cup [answers : Sent, shown : Sent]
      /\ saved' # Unset /\ AnswersAreShown'
  <2>1. CASE saved = Unset
    <3>1. saved' = [answers |-> a.answers, shown |-> a.shown]
      BY <2>1 DEF Complete
    <3>2. saved' \in [answers : Sent, shown : Sent]
      BY <1>1, <3>1, AttemptMoves
    <3>3. saved' # Unset
      BY <3>1 DEF Unset
    <3> QED BY <1>1, <3>1, <3>2, <3>3 DEF AnswersAreShown
  <2>2. CASE saved # Unset
    <3>1. saved' = saved
      BY <2>2 DEF Complete
    <3> QED BY <2>2, <3>1 DEF SetupInv, SetupTypeOK, AnswersAreShown,
         Unset
  <2> QED BY <2>1, <2>2
<1>5. attempts' \subseteq Attempt /\ IsFiniteSet(attempts')
      /\ SentAsShown'
  BY <1>1, <1>3, AttemptMoves, AttemptsMoved
<1>6. SetupTypeOK'
  BY <1>2, <1>4, <1>5 DEF SetupInv, SetupTypeOK
<1>7. (IncomeIsShown /\ NeverRefused)'
  BY <1>2 DEF SetupInv, IncomeIsShown, NeverRefused
<1>8. AnsweredMeansSaved'
  BY <1>4 DEF AnsweredMeansSaved, Unset
<1> QED BY <1>4, <1>5, <1>6, <1>7, <1>8 DEF SetupInv

LEMMA AnsweredKeeps ==
    ASSUME SetupInv, NEW a \in attempts, Answered(a)
    PROVE  SetupInv'
<1>1. a \in Attempt /\ a.phone \in Phones /\ a.state # "sent"
  BY AttemptMoves DEF SetupInv, SetupTypeOK, Answered
<1>2. saved # Unset /\ UNCHANGED <<saved, answered, lost, restarts>>
  BY <1>1 DEF SetupInv, AnsweredMeansSaved, Answered
<1>3. (AnsweredMeansSaved /\ AnswersAreShown)'
  BY <1>2 DEF SetupInv, AnsweredMeansSaved, AnswersAreShown, Unset
<1>4. CASE a.state = "conflict"
  <2>1. attempts' = (attempts \ {a}) \cup
           {[id |-> a.id, phone |-> a.phone, on |-> a.on, state |-> "asking"]}
    BY <1>4 DEF Answered, Refused, To
  <2>2. UNCHANGED <<me, step, draft, adding, alarm>>
    BY <1>4 DEF Answered, Refused
  <2>3. attempts' \subseteq Attempt /\ IsFiniteSet(attempts')
        /\ SentAsShown'
    BY <1>1, <2>1, AttemptMoves, AttemptsMoved
  <2>4. SetupTypeOK'
    BY <1>2, <2>2, <2>3 DEF SetupInv, SetupTypeOK, Unset
  <2>5. (IncomeIsShown /\ NeverRefused)'
    BY <2>2 DEF SetupInv, IncomeIsShown, NeverRefused
  <2> QED BY <1>3, <2>3, <2>4, <2>5 DEF SetupInv
<1>5. CASE a.state # "conflict"
  <2>1. Over(a) /\ Enter(a.phone)
    BY <1>5 DEF Answered
  <2>2. PICK b : b = [a EXCEPT !.on = "nobody"]
    OBVIOUS
  <2>3. b \in Attempt /\ b.state = a.state /\ attempts' = (attempts \ {a}) \cup {b}
    BY <1>1, <2>1, <2>2, AttemptMoves DEF Over
  <2>4. attempts' \subseteq Attempt /\ IsFiniteSet(attempts')
        /\ SentAsShown'
    BY <1>1, <2>3, AttemptsMoved
  <2>5. step' \in [Phones -> 1..4] /\ draft' \in [Phones -> SetupDraft] /\ IncomeIsShown'
    BY <1>1, <2>1, EmptyDraft DEF Enter
  <2>6. /\ me' = [me EXCEPT ![a.phone] = "done"]
        /\ adding' = [adding EXCEPT ![a.phone] = "closed"]
        /\ alarm' = [alarm EXCEPT ![a.phone] = "none"]
    BY <2>1 DEF Enter
  <2>7. SetupTypeOK'
    BY <1>2, <2>4, <2>5, <2>6 DEF SetupInv, SetupTypeOK, Unset
  <2>8. NeverRefused'
    BY <1>1, <2>6 DEF SetupInv, SetupTypeOK, NeverRefused
  <2> QED BY <1>3, <2>4, <2>5, <2>7, <2>8 DEF SetupInv
<1> QED BY <1>4, <1>5

LEMMA LostKeeps ==
    ASSUME SetupInv, NEW a \in attempts, Lost(a)
    PROVE  SetupInv'
<1>1. a \in Attempt /\ a.phone \in Phones
  BY AttemptMoves DEF SetupInv, SetupTypeOK
<1>2. PICK b : b = [a EXCEPT !.on = "nobody"]
  OBVIOUS
<1>3. /\ b \in Attempt /\ b.state = a.state
      /\ b.state = "sent" => b.answers = b.shown
      /\ attempts' = (attempts \ {a}) \cup {b}
  <2>1. a.state = "sent" => a.answers = a.shown
    BY DEF SetupInv, SentAsShown
  <2>2. /\ b \in Attempt /\ b.state = a.state
        /\ a.state = "sent" => b.answers = a.answers /\ b.shown = a.shown
    BY <1>1, <1>2, AttemptMoves
  <2> QED BY <1>2, <2>1, <2>2 DEF Lost, Over
<1>4. attempts' \subseteq Attempt /\ IsFiniteSet(attempts')
      /\ SentAsShown'
  BY <1>3, AttemptsMoved
<1>5. /\ UNCHANGED <<saved, me, step, draft, adding, answered, restarts>>
      /\ lost' \in 0..MaxLost
      /\ alarm' \in [Phones -> {"none", "lost", "refused"}]
      /\ \A p \in Phones : alarm'[p] # "refused"
  BY <1>1, SetupBounds DEF SetupInv, SetupTypeOK, NeverRefused, Lost
<1>6. SetupTypeOK'
  BY <1>4, <1>5 DEF SetupInv, SetupTypeOK, Unset
<1> QED BY <1>3, <1>4, <1>5, <1>6 DEF SetupInv, IncomeIsShown, AnsweredMeansSaved, NeverRefused,
     AnswersAreShown, Unset

LEMMA SetupBegins ==
    ASSUME SetupInit
    PROVE  SetupInv
<1>1. emptyDraft \in SetupDraft
  BY EmptyIsDraft
<1>2. IsFiniteSet(attempts)
  BY FS_EmptySet DEF SetupInit
<1>3. SetupTypeOK
  BY <1>1, <1>2, SetupBounds DEF SetupInit, SetupTypeOK
<1>4. IncomeIsShown
  BY DEF SetupInit, IncomeIsShown
<1> QED BY <1>3, <1>4 DEF SetupInit, SetupInv, SentAsShown, AnsweredMeansSaved,
     NeverRefused, AnswersAreShown

LEMMA SetupContinues ==
    ASSUME SetupInv, [SetupNext]_setupVars
    PROVE  SetupInv'
<1>1. ASSUME NEW p \in Phones,
             \/ LoadMe(p) \/ LoadAgain(p)
             \/ TypeCommitment(p) \/ CancelCommitment(p)
      PROVE  SetupInv'
  BY <1>1, ScreenStepsKeep
<1>2. ASSUME NEW p \in Phones,
             \/ PaydayAnswer(p) \/ IncomeAnswer(p)
             \/ RemoveCommitment(p) \/ SpentAnswer(p)
      PROVE  SetupInv'
  BY <1>2, AnswersKeep
<1>3. ASSUME NEW p \in Phones, AddCommitment(p) PROVE SetupInv'
  BY <1>3, AddCommitmentKeeps
<1>4. ASSUME NEW p \in Phones, Onward(p) PROVE SetupInv'
  BY <1>4, OnwardKeeps
<1>5. ASSUME NEW p \in Phones, Back(p) PROVE SetupInv'
  BY <1>5, BackKeeps
<1>6. ASSUME NEW p \in Phones, Finish(p) PROVE SetupInv'
  BY <1>6, FinishKeeps
<1>7. ASSUME NEW p \in Phones, RestartApp(p) PROVE SetupInv'
  BY <1>7, RestartKeeps
<1>8. ASSUME NEW a \in attempts, Complete(a) PROVE SetupInv'
  BY <1>8, CompleteKeeps
<1>9. ASSUME NEW a \in attempts, Answered(a) PROVE SetupInv'
  BY <1>9, AnsweredKeeps
<1>10. ASSUME NEW a \in attempts, Lost(a) PROVE SetupInv'
  BY <1>10, LostKeeps
<1>11. CASE UNCHANGED setupVars
  BY <1>11 DEF setupVars, SetupInv, SetupTypeOK, IncomeIsShown, SentAsShown,
     AnsweredMeansSaved, NeverRefused, AnswersAreShown, Unset
<1> QED BY <1>1, <1>2, <1>3, <1>4, <1>5, <1>6, <1>7, <1>8, <1>9, <1>10, <1>11
     DEF SetupNext

(* The screens, the drafts and the attempts are well formed.                *)
THEOREM SetupTypes == SetupSpec => []SetupTypeOK
<1>1. SetupInv => SetupTypeOK
  BY DEF SetupInv
<1>2. SetupInit => SetupInv
  BY SetupBegins
<1>3. SetupInv /\ [SetupNext]_setupVars => SetupInv'
  BY SetupContinues
<1> QED BY <1>1, <1>2, <1>3, PTL DEF SetupSpec

(* An account is set up with what the four screens showed when the answers  *)
(* it took were sent, whatever was changed after step 2.                    *)
THEOREM SetUpAsShown == SetupSpec => []AnswersAreShown
<1>1. SetupInv => AnswersAreShown
  BY DEF SetupInv
<1>2. SetupInit => SetupInv
  BY SetupBegins
<1>3. SetupInv /\ [SetupNext]_setupVars => SetupInv'
  BY SetupContinues
<1> QED BY <1>1, <1>2, <1>3, PTL DEF SetupSpec

(* The tabs open only on an account that is set up, and a set-up that       *)
(* succeeded, from this phone or another, is never shown as a failure.      *)
THEOREM SuccessIsShown == SetupSpec => []SetUpIsASuccess
<1>1. SetupInv => SetUpIsASuccess
  BY DEF SetupInv, SetupTypeOK, AnsweredMeansSaved, NeverRefused,
     SetUpIsASuccess
<1>2. SetupInit => SetupInv
  BY SetupBegins
<1>3. SetupInv /\ [SetupNext]_setupVars => SetupInv'
  BY SetupContinues
<1> QED BY <1>1, <1>2, <1>3, PTL DEF SetupSpec

-----------------------------------------------------------------------------
(* Forms.  The inductive invariant, phone by phone: a form whose row was    *)
(* not fetched again still compares with the row it was filled from, so     *)
(* what it sends is what its user changed; and a phone makes a second draft *)
(* only for another content.                                                *)

FormIsFresh(p) ==
    screen[p].on = "edit" =>
        /\ list[p] # Gone
        /\ ~screen[p].changed => /\ screen[p].filled = Filled(list[p])
                                 /\ DOMAIN screen[p].fields = Fields(list[p])

SendsOwnChanges(p) ==
    (call[p].what = "change" /\ call[p].state = "sent" /\ ~overtaken)
        => call[p].set \subseteq call[p].touched

(* A draft, sent or served, of what was said on the screen.                 *)
SaidIn(d, s, n) == d.content \in s.said /\ (d.key[2] = n => d.content = s.last.content)

DraftsAreSaid(p) ==
    LET s == screen[p] IN
    /\ s.last = Nothing => drafts[p] = 0 /\ s.said = {}
    /\ s.last # Nothing =>
          s.last.key = <<p, drafts[p]>> /\ s.last.content \in s.said /\ drafts[p] >= 1
    /\ drafts[p] > 1 => s.said = Contents
    /\ call[p] \in Draft => SaidIn(call[p], s, drafts[p])
    /\ \A m \in made : m.key[1] = p => SaidIn(m, s, drafts[p])

DraftsAreCounted(p) ==
    /\ call[p] \in Draft => call[p].key[1] = p /\ call[p].key[2] \in 1..drafts[p]
    /\ \A m \in made : m.key[1] = p => m.key[2] \in 1..drafts[p]
    /\ screen[p].on = "new" => DraftsAreSaid(p)

PhoneInv(p) ==
    /\ IsRow(list[p]) /\ (fetch[p] = Nothing \/ IsRow(fetch[p].row))
    /\ IsScreen(screen[p]) /\ IsCall(call[p]) /\ drafts[p] \in 0..MaxSaves
    /\ FormIsFresh(p) /\ SendsOwnChanges(p) /\ DraftsAreCounted(p)

FormsInv ==
    /\ FormsTypeOK /\ EditsMeet
    /\ \A p \in Devices : PhoneInv(p)

-----------------------------------------------------------------------------
(* Rows and what forms send of them.                                        *)

LEMMA RowShapes ==
    ASSUME NEW r, IsRow(r), r # Gone
    PROVE  /\ r.form \in {"goal", "commitment", "income", "template", "limit", "expense"}
           /\ r.form = "goal" => DOMAIN r = {"form", "name", "target", "saved", "deadline"}
           /\ r.form = "commitment" =>
                 DOMAIN r = {"form", "name", "amount", "category", "subscription", "schedule"}
           /\ r.form = "income" => DOMAIN r = {"form", "kind", "name", "amount", "schedule"}
           /\ r.form = "template" => DOMAIN r = {"form", "name", "amount", "category"}
           /\ r.form = "limit" => DOMAIN r = {"form", "amount"}
           /\ r.form = "expense" => DOMAIN r = {"form", "amount", "category", "note", "date"}
  BY DEF IsRow, Rows, Goal, Rule, Source, Expense, Limit,
     Template

LEMMA PatchedIsRow ==
    ASSUME NEW r, IsRow(r), NEW fields, NEW set, "form" \notin set
    PROVE  IsRow(Patched(r, fields, set))
<1>1. CASE r = Gone
  <2>1. DOMAIN r = {"form"} /\ r["form"] = "none"
    BY <1>1 DEF Gone
  <2>2. Patched(r, fields, set) = [f \in {"form"} |-> "none"]
    BY <2>1 DEF Patched
  <2>3. [f \in {"form"} |-> "none"] = Gone
    BY DEF Gone
  <2> QED BY <2>2, <2>3 DEF IsRow
<1>2. CASE r # Gone
  <2>1. PICK x \in Rows : DOMAIN r = DOMAIN x /\ r.form = x.form
    BY <1>2 DEF IsRow
  <2>2. "form" \in DOMAIN r
    BY <1>2, RowShapes
  <2>3. DOMAIN Patched(r, fields, set) = DOMAIN r
        /\ Patched(r, fields, set).form = r.form
    BY <2>2 DEF Patched
  <2> QED BY <2>1, <2>3 DEF IsRow
<1> QED BY <1>1, <1>2

LEMMA ScheduleAsFilled ==
    ASSUME NEW r, NEW fields, fields.schedule = scheduleFieldsOf(r.schedule)
    PROVE  ScheduleChange(fields, r) = {}
<1>1. isSameSchedule(scheduleFieldsOf(r.schedule), r.schedule)
  BY DEF isSameSchedule, scheduleFieldsOf
<1> QED BY <1>1 DEF ScheduleChange

(* Whatever form it is, what it sends are fields of the row that say        *)
(* something else than the row does.                                        *)
LEMMA ChangesDiffer ==
    ASSUME NEW r, IsRow(r), r # Gone, NEW fields,
           NEW f \in Submitted(fields, r).change
    PROVE  /\ f \in Fields(r)
           /\ fields[f] # Filled(r)[f]
<1> DEFINE Own(set) == set \subseteq Fields(r) /\ "schedule" \notin set
<1>1. ASSUME NEW set, Own(set), f \in Differs(fields, r, set)
      PROVE  f \in Fields(r) /\ fields[f] # Filled(r)[f]
  BY <1>1 DEF Differs, Filled
<1>2. ASSUME "schedule" \in Fields(r), f \in ScheduleChange(fields, r)
      PROVE  f \in Fields(r) /\ fields[f] # Filled(r)[f]
  <2>1. f = "schedule" /\ ScheduleChange(fields, r) # {}
    BY <1>2 DEF ScheduleChange
  <2>2. Filled(r)[f] = scheduleFieldsOf(r.schedule)
    BY <1>2, <2>1 DEF Filled
  <2>3. fields.schedule # scheduleFieldsOf(r.schedule)
    BY <2>1, ScheduleAsFilled
  <2> QED BY <1>2, <2>1, <2>2, <2>3
<1>3. PICK s : s = Submitted(fields, r).change
  OBVIOUS
<1>4. CASE r.form = "goal"
  <2>1. s = Differs(fields, r, {"name", "target", "saved", "deadline"})
    BY <1>3, <1>4 DEF Submitted, GoalForm
  <2>2. Own({"name", "target", "saved", "deadline"})
    BY <1>4, RowShapes DEF Fields
  <2> QED BY <1>1, <1>3, <2>1, <2>2
<1>5. CASE r.form = "commitment"
  <2>1. f \in Differs(fields, r, {"name", "amount", "category", "subscription"})
        \/ f \in ScheduleChange(fields, r)
    BY <1>5 DEF Submitted, CommitmentForm
  <2>2. Own({"name", "amount", "category", "subscription"}) /\ "schedule" \in Fields(r)
    BY <1>5, RowShapes DEF Fields
  <2> QED BY <1>1, <1>2, <2>1, <2>2
<1>6. CASE r.form = "income"
  <2>1. \/ f \in Differs(fields, r, {"name", "amount"})
        \/ f \in Differs(fields, r, {"name"})
        \/ f \in ScheduleChange(fields, r)
    BY <1>6 DEF Submitted, IncomeForm
  <2>2. Own({"name", "amount"}) /\ Own({"name"}) /\ "schedule" \in Fields(r)
    BY <1>6, RowShapes DEF Fields
  <2> QED BY <1>1, <1>2, <2>1, <2>2
<1>7. CASE r.form = "template"
  <2>1. s = Differs(fields, r, {"name", "amount", "category"})
    BY <1>3, <1>7 DEF Submitted, TemplateForm
  <2>2. Own({"name", "amount", "category"})
    BY <1>7, RowShapes DEF Fields
  <2> QED BY <1>1, <1>3, <2>1, <2>2
<1>8. CASE r.form = "limit"
  <2>1. s = Differs(fields, r, {"amount"})
    BY <1>3, <1>8 DEF Submitted, LimitForm
  <2>2. Own({"amount"})
    BY <1>8, RowShapes DEF Fields
  <2> QED BY <1>1, <1>3, <2>1, <2>2
<1>9. CASE r.form = "expense"
  <2>1. s = Differs(fields, r, {"amount", "category", "note", "date"})
    BY <1>3, <1>9 DEF Submitted, ExpenseForm
  <2>2. Own({"amount", "category", "note", "date"})
    BY <1>9, RowShapes DEF Fields
  <2> QED BY <1>1, <1>3, <2>1, <2>2
<1> QED BY <1>4, <1>5, <1>6, <1>7, <1>8, <1>9, RowShapes

-----------------------------------------------------------------------------
(* A step of one phone leaves the others as they are.                       *)
LEMMA OtherPhones ==
    ASSUME FormsInv, NEW p \in Devices, NEW q \in Devices, q # p,
           list'[q] = list[q], fetch'[q] = fetch[q], screen'[q] = screen[q],
           call'[q] = call[q], drafts'[q] = drafts[q],
           overtaken => overtaken',
           \A m \in made' : m \in made \/ m.key[1] = p
    PROVE  PhoneInv(q)'
<1>1. PhoneInv(q)
  BY DEF FormsInv
<1>2. (/\ IsRow(list[q]) /\ (fetch[q] = Nothing \/ IsRow(fetch[q].row))
       /\ IsScreen(screen[q]) /\ IsCall(call[q]) /\ drafts[q] \in 0..MaxSaves)'
  BY <1>1 DEF PhoneInv
<1>3. FormIsFresh(q)'
  BY <1>1 DEF PhoneInv, FormIsFresh
<1>4. SendsOwnChanges(q)'
  BY <1>1 DEF PhoneInv, SendsOwnChanges
<1>5. DraftsAreCounted(q)'
  <2>1. \A m \in made' : m.key[1] = q => m \in made
    OBVIOUS
  <2> QED BY <1>1, <2>1 DEF PhoneInv, DraftsAreCounted, DraftsAreSaid, SaidIn
<1> QED BY <1>2, <1>3, <1>4, <1>5 DEF PhoneInv

(* A step of one phone that changes no row and serves no draft.             *)
LEMMA OnePhone ==
    ASSUME FormsInv, NEW p \in Devices, UNCHANGED <<row, made, meant>>,
           overtaken => overtaken', overtaken' \in BOOLEAN,
           \A view \in {list', fetch', screen', call'} : DOMAIN view = Devices,
           drafts' \in [Devices -> 0..MaxSaves],
           opened' \in 0..MaxOpened, typed' \in 0..MaxTyped, faults' \in 0..MaxFaults,
           \A q \in Devices \ {p} :
              /\ list'[q] = list[q] /\ fetch'[q] = fetch[q] /\ screen'[q] = screen[q]
              /\ call'[q] = call[q] /\ drafts'[q] = drafts[q],
           PhoneInv(p)'
    PROVE  FormsInv'
<1>1. \A q \in Devices : PhoneInv(q)'
  BY OtherPhones
<1>2. EditsMeet'
  BY DEF FormsInv, EditsMeet, Gone
<1>3. FormsTypeOK'
  BY <1>1 DEF FormsInv, FormsTypeOK, PhoneInv
<1> QED BY <1>1, <1>2, <1>3 DEF FormsInv

LEMMA Screens ==
    ASSUME NEW s, IsScreen(s)
    PROVE  /\ s.on = "edit" => /\ DOMAIN s = {"on", "fields", "filled", "changed"}
                               /\ s.changed \in BOOLEAN
           /\ s.on = "new" => s \in [on : {"new"}, content : Contents,
                                     last : {Nothing} \cup Draft,
                                     said : SUBSET Contents]
           /\ s.on \in {"list", "edit", "new"}
  BY DEF IsScreen, TheList

LEMMA Calls ==
    ASSUME NEW c, IsCall(c), c # Nothing
    PROVE  /\ c.what \in {"create", "remove", "change"}
           /\ c.what = "create" /\ c.state = "sent" => c \in Draft
           /\ c.what = "change" /\ c.state = "sent" => "form" \notin c.set
  BY DEF IsCall, Draft

LEMMA NoCall ==
    /\ IsCall(Nothing) /\ Nothing \notin Draft /\ Nothing.what # "change"
    /\ IsScreen(TheList) /\ TheList.on = "list"
<1>1. /\ IsCall(Nothing) /\ Nothing.what # "change"
      /\ IsScreen(TheList) /\ TheList.on = "list"
  BY DEF IsCall, Nothing, IsScreen, TheList
<1>2. Nothing \notin Draft
  BY DEF Nothing, Draft
<1> QED BY <1>1, <1>2

LEMMA NoDraft ==
    ASSUME NEW what, NEW state, NEW c, c = [what |-> what, state |-> state]
    PROVE  c \notin Draft
  BY DEF Draft

LEMMA FormViews ==
    ASSUME FormsInv
    PROVE  /\ DOMAIN list = Devices /\ DOMAIN fetch = Devices /\ DOMAIN screen = Devices
           /\ DOMAIN call = Devices /\ drafts \in [Devices -> 0..MaxSaves]
           /\ opened \in 0..MaxOpened /\ typed \in 0..MaxTyped /\ faults \in 0..MaxFaults
           /\ overtaken \in BOOLEAN
  BY DEF FormsInv, FormsTypeOK

LEMMA OpenEditKeeps ==
    ASSUME FormsInv, NEW p \in Devices, OpenEdit(p)
    PROVE  FormsInv'
<1>1. PhoneInv(p)
  BY DEF FormsInv
<1>2. PICK s : s = [on |-> "edit", fields |-> Filled(list[p]),
                    filled |-> Filled(list[p]), changed |-> FALSE]
  OBVIOUS
<1>3. /\ screen' = [screen EXCEPT ![p] = s] /\ list[p] # Gone
      /\ opened' \in 0..MaxOpened
      /\ UNCHANGED <<row, made, list, fetch, call, drafts, typed, faults, meant, overtaken>>
  BY <1>2, FormViews, FormsBounds DEF OpenEdit
<1>4. /\ s.on = "edit" /\ s.filled = Filled(list[p])
      /\ DOMAIN s.fields = Fields(list[p])
      /\ IsScreen(s)
  BY <1>2 DEF IsScreen, Filled
<1>5. screen'[p] = s /\ \A q \in Devices \ {p} : screen'[q] = screen[q]
  BY <1>3, FormViews
<1>6. PhoneInv(p)'
  BY <1>1, <1>3, <1>4, <1>5 DEF PhoneInv, FormIsFresh, SendsOwnChanges, DraftsAreCounted
<1> QED BY <1>3, <1>5, <1>6, FormViews, OnePhone

LEMMA TypeKeeps ==
    ASSUME FormsInv, NEW p \in Devices, NEW f, Type(p, f)
    PROVE  FormsInv'
<1>1. PhoneInv(p)
  BY DEF FormsInv
<1>2. PICK v : screen' = [screen EXCEPT ![p].fields[f] = v]
  BY DEF Type
<1>3. /\ screen[p].on = "edit" /\ typed' \in 0..MaxTyped
      /\ UNCHANGED <<row, made, list, fetch, call, drafts, opened, faults, meant, overtaken>>
  BY FormViews, FormsBounds DEF Type
<1>4. screen'[p] = [screen[p] EXCEPT !.fields = [screen[p].fields EXCEPT ![f] = v]]
      /\ DOMAIN screen' = Devices /\ \A q \in Devices \ {p} : screen'[q] = screen[q]
  BY <1>2, FormViews
<1>5. /\ DOMAIN screen[p] = {"on", "fields", "filled", "changed"} /\ screen[p].changed \in BOOLEAN
  BY <1>1, <1>3, Screens DEF PhoneInv
<1>6. PICK s : s = screen'[p]
  OBVIOUS
<1>7. /\ s.on = "edit" /\ s.filled = screen[p].filled /\ s.changed = screen[p].changed
      /\ DOMAIN s.fields = DOMAIN screen[p].fields
      /\ DOMAIN s = {"on", "fields", "filled", "changed"}
  BY <1>3, <1>4, <1>5, <1>6
<1>8. IsScreen(s)
  BY <1>5, <1>7 DEF IsScreen
<1>9. PhoneInv(p)'
  BY <1>1, <1>3, <1>6, <1>7, <1>8 DEF PhoneInv, FormIsFresh, SendsOwnChanges, DraftsAreCounted
<1> QED BY <1>3, <1>4, <1>9, FormViews, OnePhone

LEMMA LeaveKeeps ==
    ASSUME FormsInv, NEW p \in Devices, Leave(p)
    PROVE  FormsInv'
<1>1. PhoneInv(p)
  BY DEF FormsInv
<1>2. /\ screen' = [screen EXCEPT ![p] = TheList]
      /\ UNCHANGED <<row, made, list, fetch, call, drafts, opened, typed, faults, meant, overtaken>>
  BY DEF Leave
<1>3. screen'[p] = TheList /\ \A q \in Devices \ {p} : screen'[q] = screen[q]
  BY <1>2, FormViews
<1>4. PhoneInv(p)'
  BY <1>1, <1>2, <1>3, NoCall DEF PhoneInv, FormIsFresh, SendsOwnChanges, DraftsAreCounted
<1> QED BY <1>2, <1>3, <1>4, FormViews, OnePhone

(* A form that is saved compares its fields with the row on the list: the   *)
(* one it was filled from, unless the list was fetched again meanwhile.     *)
LEMMA SaveKeeps ==
    ASSUME FormsInv, NEW p \in Devices, Save(p)
    PROVE  FormsInv'
<1>1. PhoneInv(p)
  BY DEF FormsInv
<1>2. PICK s : s = Submitted(screen[p].fields, list[p])
  OBVIOUS
<1>3. /\ screen[p].on = "edit"
      /\ UNCHANGED <<row, made, list, fetch, drafts, opened, typed, faults, meant>>
  BY DEF Save
<1>4. CASE s.change = {}
  <2>1. screen' = [screen EXCEPT ![p] = TheList] /\ UNCHANGED <<call, overtaken>>
    BY <1>2, <1>4 DEF Save
  <2>2. screen'[p] = TheList /\ \A q \in Devices \ {p} : screen'[q] = screen[q]
    BY <2>1, FormViews
  <2>3. PhoneInv(p)'
    BY <1>1, <1>3, <2>1, <2>2, NoCall DEF PhoneInv, FormIsFresh, SendsOwnChanges,
       DraftsAreCounted
  <2> QED BY <1>3, <2>1, <2>2, <2>3, FormViews, OnePhone
<1>5. CASE s.change # {}
  <2>1. PICK c : c = [what |-> "change", state |-> "sent", fields |-> screen[p].fields,
                      set |-> s.change, touched |-> Touched(p)]
    OBVIOUS
  <2>2. /\ call' = [call EXCEPT ![p] = c] /\ overtaken' = (overtaken \/ screen[p].changed)
        /\ screen' = screen
    BY <1>2, <1>5, <2>1 DEF Save
  <2>3. call'[p] = c /\ \A q \in Devices \ {p} : call'[q] = call[q]
    BY <2>2, FormViews
  <2>4. list[p] # Gone /\ IsRow(list[p]) /\ screen[p].changed \in BOOLEAN
    BY <1>1, <1>3, Screens DEF PhoneInv, FormIsFresh
  <2>5. c.set \subseteq Fields(list[p])
        /\ \A f \in c.set : screen[p].fields[f] # Filled(list[p])[f]
    BY <1>2, <2>1, <2>4, ChangesDiffer
  <2>6. ~screen[p].changed => c.set \subseteq c.touched
    BY <1>1, <1>3, <2>1, <2>5 DEF PhoneInv, FormIsFresh, Touched
  <2>7. IsCall(c) /\ c \notin Draft
    BY <2>1, <2>5 DEF IsCall, Fields, Draft
  <2>8. PhoneInv(p)'
    <3>1. SendsOwnChanges(p)'
      BY <2>2, <2>3, <2>4, <2>6, FormViews DEF SendsOwnChanges
    <3>2. FormIsFresh(p)'
      BY <1>1, <1>3, <2>2 DEF PhoneInv, FormIsFresh
    <3>3. DraftsAreCounted(p)'
      BY <1>1, <1>3, <2>2, <2>3, <2>7 DEF PhoneInv, DraftsAreCounted
    <3> QED BY <1>1, <1>3, <2>2, <2>3, <2>7, <3>1, <3>2, <3>3 DEF PhoneInv
  <2>9. overtaken' \in BOOLEAN /\ (overtaken => overtaken')
    BY <2>2, <2>4, FormViews
  <2> QED BY <1>3, <2>2, <2>3, <2>8, <2>9, FormViews, OnePhone
<1> QED BY <1>4, <1>5

LEMMA TrashKeeps ==
    ASSUME FormsInv, NEW p \in Devices, Trash(p)
    PROVE  FormsInv'
<1>1. PhoneInv(p)
  BY DEF FormsInv
<1>2. PICK c : c = [what |-> "remove", state |-> "sent"]
  OBVIOUS
<1>3. /\ screen[p].on = "edit" /\ call' = [call EXCEPT ![p] = c]
      /\ UNCHANGED <<row, made, list, fetch, screen, drafts, opened, typed, faults, meant, overtaken>>
  BY <1>2 DEF Trash
<1>4. call'[p] = c /\ \A q \in Devices \ {p} : call'[q] = call[q]
  BY <1>3, FormViews
<1>5. IsCall(c) /\ c \notin Draft /\ c.what # "change"
  BY <1>2, NoDraft DEF IsCall
<1>6. PhoneInv(p)'
  BY <1>1, <1>3, <1>4, <1>5 DEF PhoneInv, FormIsFresh, SendsOwnChanges, DraftsAreCounted
<1> QED BY <1>3, <1>4, <1>6, FormViews, OnePhone

LEMMA OpenNewKeeps ==
    ASSUME FormsInv, NEW p \in Devices, OpenNew(p)
    PROVE  FormsInv'
<1>1. PhoneInv(p)
  BY DEF FormsInv
<1>2. PICK s : s = [on |-> "new", content |-> "this", last |-> Nothing, said |-> {}]
  OBVIOUS
<1>3. /\ screen' = [screen EXCEPT ![p] = s] /\ call[p] = Nothing /\ drafts[p] = 0
      /\ UNCHANGED <<row, made, list, fetch, call, drafts, opened, typed, faults, meant, overtaken>>
  BY <1>2 DEF OpenNew
<1>4. screen'[p] = s /\ \A q \in Devices \ {p} : screen'[q] = screen[q]
  BY <1>3, FormViews
<1>5. IsScreen(s) /\ s.on = "new" /\ s.last = Nothing /\ s.said = {}
  BY <1>2 DEF IsScreen, Contents
<1>6. \A m \in made : m.key[1] # p
  BY <1>1, <1>3 DEF PhoneInv, DraftsAreCounted
<1>7. DraftsAreCounted(p)'
  BY <1>1, <1>3, <1>4, <1>5, <1>6, NoCall DEF PhoneInv, DraftsAreCounted, DraftsAreSaid
<1>8. PhoneInv(p)'
  BY <1>1, <1>3, <1>4, <1>5, <1>7 DEF PhoneInv, FormIsFresh, SendsOwnChanges
<1> QED BY <1>3, <1>4, <1>8, FormViews, OnePhone

LEMMA RetypeKeeps ==
    ASSUME FormsInv, NEW p \in Devices, Retype(p)
    PROVE  FormsInv'
<1>1. PhoneInv(p)
  BY DEF FormsInv
<1>2. /\ screen[p].on = "new" /\ typed' \in 0..MaxTyped
      /\ UNCHANGED <<row, made, list, fetch, call, drafts, opened, faults, meant, overtaken>>
  BY FormViews, FormsBounds DEF Retype
<1>3. PICK b \in Contents : screen' = [screen EXCEPT ![p].content = b]
  BY DEF Retype, Contents
<1>4. screen'[p] = [screen[p] EXCEPT !.content = b]
      /\ \A q \in Devices \ {p} : screen'[q] = screen[q]
  BY <1>3, FormViews
<1>5. PICK s : s = screen'[p]
  OBVIOUS
<1>6. screen[p] \in [on : {"new"}, content : Contents, last : {Nothing} \cup Draft,
                     said : SUBSET Contents]
  BY <1>1, <1>2, Screens DEF PhoneInv
<1>7. /\ s \in [on : {"new"}, content : Contents, last : {Nothing} \cup Draft,
                said : SUBSET Contents]
      /\ s.on = "new" /\ s.last = screen[p].last /\ s.said = screen[p].said
  BY <1>4, <1>5, <1>6
<1>8. DraftsAreCounted(p)'
  BY <1>1, <1>2, <1>5, <1>7 DEF PhoneInv, DraftsAreCounted, DraftsAreSaid, SaidIn
<1>9. PhoneInv(p)'
  BY <1>1, <1>2, <1>5, <1>7, <1>8 DEF PhoneInv, FormIsFresh, SendsOwnChanges, IsScreen
<1> QED BY <1>2, <1>3, <1>4, <1>9, FormViews, OnePhone

MadeOf(p, n, said, content) ==
    \A m \in made : m.key[1] = p => /\ m.key[2] \in 1..n /\ m.content \in said
                                    /\ m.key[2] = n => m.content = content

(* The draft that is sent is the last one, or the first of its number; a    *)
(* second number is only given out for another content.                     *)
LEMMA DraftSent ==
    ASSUME FormsInv, NEW p \in Devices, screen[p].on = "new", NEW d, d = useDraft(p),
           d.key[2] =< MaxSaves, NEW said, said = screen[p].said \cup {d.content},
           MaxSaves \in Nat
    PROVE  /\ d \in Draft /\ d # Nothing /\ said \subseteq Contents
           /\ \E n \in 1..MaxSaves :
                 /\ d.key = <<p, n>>
                 /\ n > 1 => said = Contents
                 /\ MadeOf(p, n, said, d.content)
<1>1. PhoneInv(p) /\ DraftsAreSaid(p) /\ drafts[p] \in 0..MaxSaves
  BY DEF FormsInv, PhoneInv, DraftsAreCounted
<1>2. PICK s \in [on : {"new"}, content : Contents, last : {Nothing} \cup Draft,
                  said : SUBSET Contents] : s = screen[p]
  BY <1>1, Screens DEF PhoneInv
<1>3. PICK n \in 0..MaxSaves : n = drafts[p]
  BY <1>1
<1>4. MadeOf(p, n, s.said, s.last.content)
  BY <1>1, <1>2, <1>3 DEF PhoneInv, DraftsAreCounted, DraftsAreSaid, SaidIn, MadeOf
<1>5. CASE s.last # Nothing /\ s.last.content = s.content
  <2>1. d = s.last /\ d \in Draft
    BY <1>2, <1>5 DEF useDraft
  <2>2. d.key = <<p, n>> /\ d.content \in s.said /\ n >= 1 /\ (n > 1 => s.said = Contents)
    BY <1>1, <1>2, <1>3, <1>5, <2>1 DEF DraftsAreSaid
  <2>3. said = s.said
    BY <1>2, <2>2
  <2>4. MadeOf(p, n, said, d.content)
    BY <1>4, <2>1, <2>3
  <2>5. n \in 1..MaxSaves
    BY <1>3, <2>2
  <2>6. said \subseteq Contents /\ d # Nothing
    BY <1>2, <1>5, <2>1, <2>3
  <2> QED BY <2>1, <2>2, <2>3, <2>4, <2>5, <2>6
<1>6. CASE ~(s.last # Nothing /\ s.last.content = s.content)
  <2>1. d = [what |-> "create", state |-> "sent", key |-> <<p, n + 1>>, content |-> s.content]
    BY <1>2, <1>3, <1>6 DEF useDraft
  <2>2. d.key = <<p, n + 1>> /\ d.content = s.content /\ n + 1 \in 1..MaxSaves
    BY <2>1
  <2>3. d \in Draft /\ d # Nothing /\ said \subseteq Contents
    BY <1>2, <2>1, <2>2 DEF Draft, Nothing
  <2>4. n + 1 > 1 => said = Contents
    <3>1. n + 1 > 1 => s.last # Nothing /\ s.last.content \in s.said
                       /\ s.last.content # s.content
      BY <1>1, <1>2, <1>3, <1>6 DEF DraftsAreSaid
    <3> QED BY <1>2, <2>2, <3>1 DEF Contents
  <2>5. MadeOf(p, n + 1, said, d.content)
    BY <1>2, <1>3, <1>4 DEF MadeOf
  <2> QED BY <2>2, <2>3, <2>4, <2>5
<1> QED BY <1>5, <1>6

LEMMA CreateKeeps ==
    ASSUME FormsInv, NEW p \in Devices, Create(p)
    PROVE  FormsInv'
<1>1. PhoneInv(p)
  BY DEF FormsInv
<1>2. PICK d : d = useDraft(p)
  OBVIOUS
<1>3. PICK said : said = screen[p].said \cup {d.content}
  OBVIOUS
<1>4. /\ screen[p].on = "new" /\ d.key[2] =< MaxSaves
      /\ drafts' = [drafts EXCEPT ![p] = d.key[2]] /\ call' = [call EXCEPT ![p] = d]
      /\ screen' = [screen EXCEPT ![p].last = d, ![p].said = @ \cup {d.content}]
      /\ UNCHANGED <<row, made, list, fetch, opened, typed, faults, meant, overtaken>>
  BY <1>2 DEF Create
<1>5. d \in Draft /\ d # Nothing /\ said \subseteq Contents
  BY <1>2, <1>3, <1>4, DraftSent, FormsBounds
<1>6. PICK n \in 1..MaxSaves :
         /\ d.key = <<p, n>>
         /\ n > 1 => said = Contents
         /\ MadeOf(p, n, said, d.content)
  BY <1>2, <1>3, <1>4, DraftSent, FormsBounds
<1>7. screen[p] \in [on : {"new"}, content : Contents, last : {Nothing} \cup Draft,
                     said : SUBSET Contents]
  BY <1>1, <1>4, Screens DEF PhoneInv
<1>8. PICK s : s = screen'[p]
  OBVIOUS
<1>9. /\ s \in [on : {"new"}, content : Contents, last : {Nothing} \cup Draft,
                said : SUBSET Contents]
      /\ s.on = "new" /\ s.last = d /\ s.said = said
  BY <1>3, <1>4, <1>5, <1>7, <1>8, FormViews
<1>10. drafts'[p] = n /\ call'[p] = d /\ drafts' \in [Devices -> 0..MaxSaves]
  BY <1>4, <1>6, FormViews
<1>11. DraftsAreCounted(p)'
  <2>1. d.content \in said /\ d.key[1] = p /\ d.key[2] = n /\ n \in 1..n
    BY <1>3, <1>6
  <2>2. DraftsAreSaid(p)'
    <3>1. SaidIn(d, s, n)
      BY <1>9, <2>1 DEF SaidIn
    <3>2. s.last.key = <<p, n>> /\ s.last.content \in s.said /\ n >= 1 /\ (n > 1 => s.said = Contents)
      BY <1>6, <1>9, <2>1
    <3>3. \A m \in made : m.key[1] = p => SaidIn(m, s, n)
      BY <1>6, <1>9 DEF SaidIn, MadeOf
    <3> QED BY <1>4, <1>5, <1>8, <1>9, <1>10, <3>1, <3>2, <3>3 DEF DraftsAreSaid
  <2>3. \A m \in made : m.key[1] = p => m.key[2] \in 1..n
    BY <1>6 DEF MadeOf
  <2> QED BY <1>4, <1>10, <2>1, <2>2, <2>3 DEF DraftsAreCounted
<1>12. SendsOwnChanges(p)' /\ IsCall(d)
  BY <1>5, <1>10 DEF SendsOwnChanges, Draft, IsCall
<1>13. PhoneInv(p)'
  BY <1>1, <1>4, <1>8, <1>9, <1>10, <1>11, <1>12 DEF PhoneInv, FormIsFresh, IsScreen
<1>14. /\ \A q \in Devices \ {p} : /\ screen'[q] = screen[q] /\ call'[q] = call[q]
                                  /\ drafts'[q] = drafts[q]
       /\ DOMAIN screen' = Devices /\ DOMAIN call' = Devices
  BY <1>4, FormViews
<1> QED BY <1>4, <1>10, <1>13, <1>14, FormViews, OnePhone

(* The API changes the row as its users meant it, as long as no form sent   *)
(* what it did not change, and a served draft is one that was said.         *)
LEMMA ServeKeeps ==
    ASSUME FormsInv, NEW p \in Devices, Serve(p)
    PROVE  FormsInv'
<1>1. PhoneInv(p)
  BY DEF FormsInv
<1>2. PICK c : c = call[p]
  OBVIOUS
<1>3. PICK missing \in BOOLEAN : missing = (c.what # "create" /\ row = Gone)
  OBVIOUS
<1>4. PICK d : d = [what |-> c.what, state |-> IF missing THEN "missing" ELSE "served"]
  OBVIOUS
<1>5. /\ c # Nothing /\ c.state = "sent" /\ call' = [call EXCEPT ![p] = d]
      /\ UNCHANGED <<list, fetch, screen, drafts, opened, typed, faults, overtaken>>
  BY <1>2, <1>3, <1>4 DEF Serve
<1>6. /\ row' = IF missing \/ c.what = "create" THEN row
                ELSE IF c.what = "remove" THEN Gone ELSE Patched(row, c.fields, c.set)
      /\ meant' = IF c.what = "change" /\ ~missing
                  THEN Patched(meant, c.fields, c.touched \cap c.set) ELSE meant
      /\ made' = IF c.what = "create" THEN made \cup {[key |-> c.key, content |-> c.content]}
                 ELSE made
  BY <1>2, <1>3 DEF Serve
<1>7. /\ c.what \in {"create", "remove", "change"}
      /\ c.what = "create" => c \in Draft
      /\ c.what = "change" => "form" \notin c.set
  BY <1>1, <1>2, <1>5, Calls DEF PhoneInv
<1>8. call'[p] = d /\ DOMAIN call' = Devices /\ \A q \in Devices \ {p} : call'[q] = call[q]
  BY <1>5, FormViews
<1>9. IsCall(d) /\ d \notin Draft /\ d.state # "sent"
  BY <1>3, <1>4, <1>7, NoDraft DEF IsCall
<1>10. IsRow(row') /\ IsRow(meant') /\ EditsMeet'
  <2>1. IsRow(row) /\ IsRow(meant)
    BY DEF FormsInv, FormsTypeOK
  <2>2. CASE c.what # "change" \/ missing
    <3>1. row' \in {row, Gone} /\ meant' = meant
      BY <1>6, <1>7, <2>2
    <3> QED BY <1>5, <2>1, <3>1 DEF FormsInv, EditsMeet, IsRow, Gone
  <2>3. CASE c.what = "change" /\ ~missing
    <3>1. row' = Patched(row, c.fields, c.set)
          /\ meant' = Patched(meant, c.fields, c.touched \cap c.set)
      BY <1>6, <2>3
    <3>2. IsRow(row') /\ IsRow(meant')
      BY <1>7, <2>1, <2>3, <3>1, PatchedIsRow
    <3>3. ~overtaken => row = meant /\ c.touched \cap c.set = c.set
      BY <1>1, <1>2, <1>3, <1>5, <2>3 DEF FormsInv, EditsMeet, PhoneInv, SendsOwnChanges
    <3>4. EditsMeet'
      BY <1>5, <3>1, <3>3 DEF EditsMeet
    <3> QED BY <3>2, <3>4
  <2> QED BY <2>2, <2>3
<1>11. made' \subseteq [key : Devices \X Nat, content : Contents]
       /\ \A m \in made' : m \in made \/ m.key[1] = p
  <2>1. c \in Draft => /\ [key |-> c.key, content |-> c.content]
                                  \in [key : Devices \X Nat, content : Contents]
                            /\ c.key[1] = p
    BY <1>1, <1>2 DEF PhoneInv, DraftsAreCounted, Draft
  <2>2. made \subseteq [key : Devices \X Nat, content : Contents]
    BY DEF FormsInv, FormsTypeOK
  <2> QED BY <1>6, <1>7, <2>1, <2>2
<1>12. DraftsAreCounted(p)'
  <2>1. \A m \in made' : m \in made \/ (c \in Draft /\ m.key = c.key /\ m.content = c.content)
    BY <1>6, <1>7
  <2>2. \A m \in made' : m.key[1] = p => m.key[2] \in 1..drafts[p]
    BY <1>1, <1>2, <2>1 DEF PhoneInv, DraftsAreCounted
  <2>3. ASSUME screen[p].on = "new" PROVE DraftsAreSaid(p)'
    <3>1. DraftsAreSaid(p)
      BY <1>1, <2>3 DEF PhoneInv, DraftsAreCounted
    <3>2. \A m \in made' : m.key[1] = p => SaidIn(m, screen[p], drafts[p])
      BY <1>2, <2>1, <3>1 DEF DraftsAreSaid, SaidIn
    <3> QED BY <1>5, <1>8, <1>9, <3>1, <3>2 DEF DraftsAreSaid
  <2> QED BY <1>5, <1>8, <1>9, <2>2, <2>3 DEF DraftsAreCounted
<1>13. PhoneInv(p)'
  BY <1>1, <1>5, <1>8, <1>9, <1>12 DEF PhoneInv, FormIsFresh, SendsOwnChanges
<1>14. \A q \in Devices : PhoneInv(q)'
  BY <1>5, <1>8, <1>11, <1>13, OtherPhones
<1>15. FormsTypeOK'
  BY <1>5, <1>8, <1>10, <1>11, <1>14 DEF FormsInv, FormsTypeOK, PhoneInv
<1> QED BY <1>10, <1>14, <1>15 DEF FormsInv

LEMMA SucceedsKeeps ==
    ASSUME FormsInv, NEW p \in Devices, Succeeds(p)
    PROVE  FormsInv'
<1>1. PhoneInv(p)
  BY DEF FormsInv
<1>2. /\ call' = [call EXCEPT ![p] = Nothing] /\ fetch' = [fetch EXCEPT ![p] = Nothing]
      /\ screen' = [screen EXCEPT ![p] = TheList]
      /\ UNCHANGED <<row, made, list, drafts, opened, typed, faults, meant, overtaken>>
  BY DEF Succeeds
<1>3. /\ call'[p] = Nothing /\ fetch'[p] = Nothing /\ screen'[p] = TheList
      /\ DOMAIN call' = Devices /\ DOMAIN fetch' = Devices /\ DOMAIN screen' = Devices
      /\ \A q \in Devices \ {p} :
            call'[q] = call[q] /\ fetch'[q] = fetch[q] /\ screen'[q] = screen[q]
  BY <1>2, FormViews
<1>4. PhoneInv(p)'
  BY <1>1, <1>2, <1>3, NoCall DEF PhoneInv, FormIsFresh, SendsOwnChanges, DraftsAreCounted
<1> QED BY <1>2, <1>3, <1>4, FormViews, OnePhone

LEMMA FailsKeeps ==
    ASSUME FormsInv, NEW p \in Devices, Fails(p)
    PROVE  FormsInv'
<1>1. PhoneInv(p)
  BY DEF FormsInv
<1>2. /\ call' = [call EXCEPT ![p] = Nothing] /\ faults' \in 0..MaxFaults
      /\ UNCHANGED <<row, made, list, fetch, screen, drafts, opened, typed, meant, overtaken>>
  BY FormViews, FormsBounds DEF Fails
<1>3. /\ call'[p] = Nothing /\ DOMAIN call' = Devices
      /\ \A q \in Devices \ {p} : call'[q] = call[q]
  BY <1>2, FormViews
<1>4. DraftsAreCounted(p)'
  BY <1>1, <1>2, <1>3, NoCall DEF PhoneInv, DraftsAreCounted, DraftsAreSaid
<1>5. PhoneInv(p)'
  BY <1>1, <1>2, <1>3, <1>4, NoCall DEF PhoneInv, FormIsFresh, SendsOwnChanges
<1> QED BY <1>2, <1>3, <1>5, FormViews, OnePhone

LEMMA ReadKeeps ==
    ASSUME FormsInv, NEW p \in Devices, Read(p)
    PROVE  FormsInv'
<1>1. PhoneInv(p) /\ IsRow(row)
  BY DEF FormsInv, FormsTypeOK
<1>2. /\ fetch' = [fetch EXCEPT ![p] = [what |-> "list", row |-> row]]
      /\ UNCHANGED <<row, made, list, screen, call, drafts, opened, typed, faults, meant, overtaken>>
  BY DEF Read
<1>3. /\ fetch'[p] = [what |-> "list", row |-> row] /\ DOMAIN fetch' = Devices
      /\ \A q \in Devices \ {p} : fetch'[q] = fetch[q]
  BY <1>2, FormViews
<1>4. PhoneInv(p)'
  BY <1>1, <1>2, <1>3 DEF PhoneInv, FormIsFresh, SendsOwnChanges, DraftsAreCounted, DraftsAreSaid
<1> QED BY <1>2, <1>3, <1>4, FormViews, OnePhone

(* A list that is fetched again marks the form that is open on its row.     *)
LEMMA RefetchedKeeps ==
    ASSUME FormsInv, NEW p \in Devices, Refetched(p)
    PROVE  FormsInv'
<1>1. PhoneInv(p)
  BY DEF FormsInv
<1>2. /\ fetch[p] # Nothing /\ fetch' = [fetch EXCEPT ![p] = Nothing]
      /\ UNCHANGED <<row, made, call, drafts, opened, typed, faults, meant, overtaken>>
  BY DEF Refetched
<1>3. /\ fetch'[p] = Nothing /\ DOMAIN fetch' = Devices
      /\ \A q \in Devices \ {p} : fetch'[q] = fetch[q]
  BY <1>2, FormViews
<1>4. CASE UNCHANGED <<list, screen>>
  <2>1. PhoneInv(p)'
    BY <1>1, <1>2, <1>3, <1>4 DEF PhoneInv, FormIsFresh, SendsOwnChanges, DraftsAreCounted,
       DraftsAreSaid
  <2> QED BY <1>2, <1>3, <1>4, <2>1, FormViews, OnePhone
<1>5. CASE ~UNCHANGED <<list, screen>>
  <2>1. PICK s : s = IF screen[p].on # "edit" THEN screen[p]
                     ELSE IF fetch[p].row = Gone THEN TheList
                     ELSE [screen[p] EXCEPT !.changed = TRUE]
    OBVIOUS
  <2>2. list' = [list EXCEPT ![p] = fetch[p].row] /\ screen' = [screen EXCEPT ![p] = s]
    BY <1>5, <2>1 DEF Refetched
  <2>3. /\ list'[p] = fetch[p].row /\ screen'[p] = s
        /\ DOMAIN list' = Devices /\ DOMAIN screen' = Devices
        /\ \A q \in Devices \ {p} : list'[q] = list[q] /\ screen'[q] = screen[q]
    BY <2>2, FormViews
  <2>4. IsScreen(s) /\ (s.on = "edit" => fetch[p].row # Gone /\ s.changed)
        /\ (s.on = "new" => s = screen[p])
    <3>1. CASE screen[p].on # "edit"
      BY <1>1, <2>1, <3>1 DEF PhoneInv
    <3>2. CASE screen[p].on = "edit" /\ fetch[p].row = Gone
      BY <2>1, <3>2, NoCall
    <3>3. CASE screen[p].on = "edit" /\ fetch[p].row # Gone
      <4>1. DOMAIN screen[p] = {"on", "fields", "filled", "changed"}
        BY <1>1, <3>3, Screens DEF PhoneInv
      <4>2. s = [screen[p] EXCEPT !.changed = TRUE]
        BY <2>1, <3>3
      <4>3. DOMAIN s = {"on", "fields", "filled", "changed"} /\ s.on = "edit" /\ s.changed = TRUE
        BY <3>3, <4>1, <4>2
      <4> QED BY <3>3, <4>3 DEF IsScreen
    <3> QED BY <3>1, <3>2, <3>3
  <2>5. DraftsAreCounted(p)'
    BY <1>1, <1>2, <2>3, <2>4 DEF PhoneInv, DraftsAreCounted, DraftsAreSaid
  <2>6. FormIsFresh(p)' /\ SendsOwnChanges(p)'
    BY <1>1, <1>2, <2>3, <2>4 DEF PhoneInv, FormIsFresh, SendsOwnChanges
  <2>7. PhoneInv(p)'
    BY <1>1, <1>2, <1>3, <2>3, <2>4, <2>5, <2>6 DEF PhoneInv
  <2> QED BY <1>2, <1>3, <2>3, <2>7, FormViews, OnePhone
<1> QED BY <1>4, <1>5

-----------------------------------------------------------------------------
LEMMA FormsBegins ==
    ASSUME FormsInit
    PROVE  FormsInv
<1>1. IsRow(row)
  BY DEF FormsInit, IsRow
<1>2. ASSUME NEW p \in Devices PROVE PhoneInv(p)
  <2>1. /\ list[p] = row /\ fetch[p] = Nothing /\ screen[p] = TheList
        /\ call[p] = Nothing /\ drafts[p] = 0 /\ made = {}
    BY DEF FormsInit
  <2>2. drafts[p] \in 0..MaxSaves
    BY <2>1, FormsBounds
  <2> QED BY <1>1, <2>1, <2>2, NoCall DEF PhoneInv, FormIsFresh, SendsOwnChanges,
       DraftsAreCounted
<1>3. /\ DOMAIN list = Devices /\ DOMAIN fetch = Devices /\ DOMAIN screen = Devices
      /\ DOMAIN call = Devices /\ drafts \in [Devices -> 0..MaxSaves]
      /\ made = {} /\ meant = row /\ overtaken = FALSE
      /\ opened \in 0..MaxOpened /\ typed \in 0..MaxTyped /\ faults \in 0..MaxFaults
  BY FormsBounds DEF FormsInit
<1>4. FormsTypeOK
  BY <1>1, <1>2, <1>3 DEF FormsTypeOK, PhoneInv
<1> QED BY <1>2, <1>3, <1>4 DEF FormsInv, EditsMeet

LEMMA FormsContinues ==
    ASSUME FormsInv, [FormsNext]_formsVars
    PROVE  FormsInv'
<1>1. ASSUME NEW p \in Devices, OpenEdit(p) PROVE FormsInv'
  BY <1>1, OpenEditKeeps
<1>2. ASSUME NEW p \in Devices, NEW f, Type(p, f) PROVE FormsInv'
  BY <1>2, TypeKeeps
<1>3. ASSUME NEW p \in Devices, Leave(p) PROVE FormsInv'
  BY <1>3, LeaveKeeps
<1>4. ASSUME NEW p \in Devices, Save(p) PROVE FormsInv'
  BY <1>4, SaveKeeps
<1>5. ASSUME NEW p \in Devices, Trash(p) PROVE FormsInv'
  BY <1>5, TrashKeeps
<1>6. ASSUME NEW p \in Devices, OpenNew(p) PROVE FormsInv'
  BY <1>6, OpenNewKeeps
<1>7. ASSUME NEW p \in Devices, Retype(p) PROVE FormsInv'
  BY <1>7, RetypeKeeps
<1>8. ASSUME NEW p \in Devices, Create(p) PROVE FormsInv'
  BY <1>8, CreateKeeps
<1>9. ASSUME NEW p \in Devices, Serve(p) PROVE FormsInv'
  BY <1>9, ServeKeeps
<1>10. ASSUME NEW p \in Devices, Succeeds(p) PROVE FormsInv'
  BY <1>10, SucceedsKeeps
<1>11. ASSUME NEW p \in Devices, Fails(p) PROVE FormsInv'
  BY <1>11, FailsKeeps
<1>12. ASSUME NEW p \in Devices, Read(p) PROVE FormsInv'
  BY <1>12, ReadKeeps
<1>13. ASSUME NEW p \in Devices, Refetched(p) PROVE FormsInv'
  BY <1>13, RefetchedKeeps
<1>14. CASE UNCHANGED formsVars
  BY <1>14 DEF formsVars, FormsInv, FormsTypeOK, EditsMeet, PhoneInv, FormIsFresh,
     SendsOwnChanges, DraftsAreCounted, DraftsAreSaid, SaidIn
<1> QED BY <1>1, <1>2, <1>3, <1>4, <1>5, <1>6, <1>7, <1>8, <1>9, <1>10, <1>11, <1>12, <1>13,
     <1>14 DEF FormsNext

(* Rows, forms, calls and drafts are well formed.                           *)
THEOREM FormTypes == FormsSpec => []FormsTypeOK
<1>1. FormsInv => FormsTypeOK
  BY DEF FormsInv
<1>2. FormsInit => FormsInv
  BY FormsBegins
<1>3. FormsInv /\ [FormsNext]_formsVars => FormsInv'
  BY FormsContinues
<1> QED BY <1>1, <1>2, <1>3, PTL DEF FormsSpec

(* People who edit one row at once, on any number of phones, all keep what  *)
(* they changed, unless a form was open while its row was fetched again.    *)
THEOREM EditsOfOneRowMeet == FormsSpec => []EditsMeet
<1>1. FormsInv => EditsMeet
  BY DEF FormsInv
<1>2. FormsInit => FormsInv
  BY FormsBegins
<1>3. FormsInv /\ [FormsNext]_formsVars => FormsInv'
  BY FormsContinues
<1> QED BY <1>1, <1>2, <1>3, PTL DEF FormsSpec

(* A form on which one thing was said has made one draft, so all rows of it *)
(* are the row of that draft.                                               *)
LEMMA OneDraftOneRow ==
    ASSUME FormsInv
    PROVE  CreatedOnce
<1> SUFFICES ASSUME NEW p \in Devices, screen[p].on = "new",
                    Cardinality(screen[p].said) = 1
             PROVE  Cardinality({m \in made : m.key[1] = p}) =< 1
  BY DEF CreatedOnce
<1>1. PhoneInv(p) /\ DraftsAreSaid(p)
  BY DEF FormsInv, PhoneInv, DraftsAreCounted
<1>2. PICK S : S = screen[p].said
  OBVIOUS
<1>3. S \subseteq Contents /\ Cardinality(S) = 1
  BY <1>1, <1>2, Screens DEF PhoneInv
<1>4. S # Contents /\ \A a, b \in S : a = b
  <2>1. IsFiniteSet({"this", "that"}) /\ Cardinality({"this", "that"}) = 2
    <3>1. IsFiniteSet({"this"}) /\ Cardinality({"this"}) = 1
      BY FS_Singleton
    <3>2. {"this"} \cup {"that"} = {"this", "that"} /\ "that" \notin {"this"}
      OBVIOUS
    <3>3. /\ IsFiniteSet({"this"} \cup {"that"})
          /\ Cardinality({"this"} \cup {"that"}) = Cardinality({"this"}) + 1
      BY <3>1, <3>2, FS_AddElement
    <3> QED BY <3>1, <3>2, <3>3
  <2>2. IsFiniteSet(S)
    BY <1>3, <2>1, FS_Subset DEF Contents
  <2>3. \E x : S = {x}
    BY <1>3, <2>2, FS_Singleton
  <2> QED BY <1>3, <2>1, <2>3 DEF Contents
<1>5. \A m \in made : m.key[1] = p => m.key[2] = 1 /\ m.content \in S
  <2>1. PICK n \in Nat : n = drafts[p]
    BY <1>1 DEF PhoneInv
  <2>2. ~(n > 1)
    BY <1>1, <1>2, <1>4, <2>1 DEF DraftsAreSaid
  <2>3. \A m \in made : m.key[1] = p => m.key[2] \in 1..n /\ m.content \in S
    BY <1>1, <1>2, <2>1 DEF PhoneInv, DraftsAreCounted, DraftsAreSaid, SaidIn
  <2> QED BY <2>2, <2>3
<1>6. PICK T : T = {m \in made : m.key[1] = p}
  OBVIOUS
<1>7. \A m, k \in T : m = k
  <2> SUFFICES ASSUME NEW m \in T, NEW k \in T PROVE m = k
    OBVIOUS
  <2>1. m \in [key : Devices \X Nat, content : Contents]
        /\ k \in [key : Devices \X Nat, content : Contents]
    BY <1>6 DEF FormsInv, FormsTypeOK
  <2>2. /\ m.key[1] = p /\ k.key[1] = p /\ m.key[2] = 1 /\ k.key[2] = 1
        /\ m.content = k.content
    BY <1>4, <1>5, <1>6
  <2> QED BY <2>1, <2>2
<1>8. Cardinality(T) =< 1
  <2>1. CASE T = {}
    BY <2>1, FS_EmptySet
  <2>2. CASE T # {}
    <3>1. PICK m : T = {m}
      BY <1>7, <2>2
    <3> QED BY <3>1, FS_Singleton
  <2> QED BY <2>1, <2>2
<1> QED BY <1>6, <1>8

(* However often saving what was typed fails and is tried again, one row is *)
(* created of it.                                                           *)
THEOREM WrittenOnce == FormsSpec => []CreatedOnce
<1>1. FormsInv => CreatedOnce
  BY OneDraftOneRow
<1>2. FormsInit => FormsInv
  BY FormsBegins
<1>3. FormsInv /\ [FormsNext]_formsVars => FormsInv'
  BY FormsContinues
<1> QED BY <1>1, <1>2, <1>3, PTL DEF FormsSpec

=============================================================================
