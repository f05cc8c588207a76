------------------------------- MODULE Setup -------------------------------
(***************************************************************************)
(* Setting up an account after registration, on the phones of one account.  *)
(*                                                                         *)
(* Four screens collect the answers in a draft that lives only in memory;   *)
(* the last one sends them all.  The API takes one set of answers for an    *)
(* account, so a phone whose answers come second, or come again after a     *)
(* lost answer, is refused with 409 and asks for the account instead.  The  *)
(* account in the phone's cache opens either these screens or the tabs.     *)
(***************************************************************************)
EXTENDS Integers, Sequences, FiniteSets, SequencesExt

CONSTANTS
    Phones,
    MaxAnswered,    \* bound: answers given or changed, on all phones together
    MaxSent,        \* bound: times the answers are sent
    MaxLost,        \* bound: calls that fail
    MaxRestarts     \* bound: times a phone's app is killed

ASSUME SetupBounds ==
    MaxAnswered \in Nat /\ MaxSent \in Nat /\ MaxLost \in Nat /\ MaxRestarts \in Nat

VARIABLES
    saved,      \* server: the answers it took, or Unset
    me,         \* phone -> the account in its cache: whether it is set up
    step,       \* phone -> the screen on top, of those below it
    draft,      \* phone -> the answers so far
    adding,     \* phone -> the commitment being typed on step 3
    attempts,   \* the calls that send answers
    alarm,      \* phone -> step 4 says that saving failed
    answered, lost, restarts    \* bounded counters

setupVars == <<saved, me, step, draft, adding, attempts, alarm, answered, lost, restarts>>

-----------------------------------------------------------------------------
(* The draft.  A text is kept by what it means: "wrong" is one that is no   *)
(* amount, or too long a name; day 0 stands for none, and 99 for a text     *)
(* that is no day of a month.                                               *)

Unset == [payday |-> 0]
NoIncome == [kind |-> "none"]
Days == {1, 2}

emptyDraft ==
    [payday |-> 0, kind |-> "REGULAR", name |-> "untouched", amount |-> "", day |-> 0,
     received |-> "", income |-> NoIncome, commitments |-> <<>>, spent |-> ""]

parseDayOfMonth(day) == day \in 1..31

(* The name and the day as step 2 shows them, until the user types others.  *)
incomeNameShown(d) == IF d.name = "untouched" THEN d.kind ELSE d.name
incomeDayShown(d) == IF d.day = 0 THEN d.payday ELSE d.day

parseOptionalAmount(text) == text # "wrong"

validateIncome(d) ==
    LET shown == incomeNameShown(d)
        name == IF shown = "" THEN d.kind ELSE shown
    IN  IF d.kind = "REGULAR"
        THEN [ok |-> /\ d.amount \notin {"", "wrong"} /\ parseDayOfMonth(incomeDayShown(d))
                     /\ name # "wrong",
              income |-> [kind |-> d.kind, name |-> name, amount |-> d.amount,
                          day |-> incomeDayShown(d)]]
        ELSE [ok |-> parseOptionalAmount(d.received) /\ name # "wrong",
              income |-> [kind |-> d.kind, name |-> name, received |-> d.received]]

(* The form of a commitment: closed, not fit to be added, or a commitment.  *)
Commitments == {"rent", "gym"}
validateCommitment(form) == form \in Commitments

-----------------------------------------------------------------------------
(* What the screens hold, and what is sent.                                 *)
Texts == {"", "some", "wrong"}
Names == {"REGULAR", "IRREGULAR", "typed", "wrong"}

Incomes ==
    {NoIncome}
      \cup [kind: {"REGULAR"}, name: Names, amount: Texts, day: Days \cup {0, 99}]
      \cup [kind: {"IRREGULAR"}, name: Names, received: Texts]

SetupDraft ==
    [payday: Days \cup {0}, kind: {"REGULAR", "IRREGULAR"},
     name: {"untouched", "", "typed", "wrong"}, amount: Texts, day: Days \cup {0, 99},
     received: Texts, income: Incomes, commitments: Seq(Commitments), spent: Texts]

Sent ==
    [payday: Days \cup {0}, income: Incomes, commitments: Seq(Commitments), spent: Texts]

Attempt ==
    [id: Nat, phone: Phones, on: {"screen", "app", "nobody"}, state: {"sent"},
     answers: Sent, shown: Sent]
      \cup [id: Nat, phone: Phones, on: {"screen", "app", "nobody"},
            state: {"taken", "conflict", "asking"}]

SetupInit ==
    /\ saved = Unset
    /\ me = [p \in Phones |-> "pending"] /\ step = [p \in Phones |-> 1]
    /\ draft = [p \in Phones |-> emptyDraft] /\ adding = [p \in Phones |-> "closed"]
    /\ attempts = {} /\ alarm = [p \in Phones |-> "none"]
    /\ answered = 0 /\ lost = 0 /\ restarts = 0

SetupTypeOK ==
    /\ saved \in {Unset} \cup [answers: Sent, shown: Sent]
    /\ me \in [Phones -> {"pending", "failed", "new", "done"}] /\ step \in [Phones -> 1..4]
    /\ draft \in [Phones -> SetupDraft]
    /\ adding \in [Phones -> Commitments \cup {"closed", "unfit"}]
    /\ attempts \subseteq Attempt /\ IsFiniteSet(attempts)
    /\ alarm \in [Phones -> {"none", "lost", "refused"}]
    /\ answered \in 0..MaxAnswered /\ lost \in 0..MaxLost /\ restarts \in 0..MaxRestarts

-----------------------------------------------------------------------------
(* The account, asked for once per launch (AppLayout).                      *)

LoadMe(p) ==
    /\ me[p] = "pending"
    /\ \/ me' = [me EXCEPT ![p] = IF saved = Unset THEN "new" ELSE "done"] /\ UNCHANGED lost
       \/ lost < MaxLost /\ lost' = lost + 1 /\ me' = [me EXCEPT ![p] = "failed"]
    /\ UNCHANGED <<saved, step, draft, adding, attempts, alarm, answered, restarts>>

LoadAgain(p) ==
    /\ me[p] = "failed"
    /\ me' = [me EXCEPT ![p] = "pending"]
    /\ UNCHANGED <<saved, step, draft, adding, attempts, alarm, answered, lost, restarts>>

-----------------------------------------------------------------------------
(* The four steps.                                                          *)

On(p, s) == me[p] = "new" /\ step[p] = s

Fill(p, change) ==
    /\ answered < MaxAnswered /\ answered' = answered + 1
    /\ change # draft[p] /\ draft' = [draft EXCEPT ![p] = change]
    /\ UNCHANGED <<saved, me, step, adding, attempts, alarm, lost, restarts>>

PaydayAnswer(p) ==
    On(p, 1) /\ \E day \in Days : Fill(p, [draft[p] EXCEPT !.payday = day])

IncomeAnswer(p) ==
    LET d == draft[p] IN
    /\ On(p, 2)
    /\ \/ \E kind \in {"REGULAR", "IRREGULAR"} : Fill(p, [d EXCEPT !.kind = kind])
       \/ \E name \in {"", "typed", "wrong"} : Fill(p, [d EXCEPT !.name = name])
       \/ d.kind = "REGULAR"
            /\ \/ \E text \in {"some", "wrong"} : Fill(p, [d EXCEPT !.amount = text])
               \/ \E day \in Days \cup {99} : Fill(p, [d EXCEPT !.day = day])
       \/ d.kind = "IRREGULAR"
            /\ \E text \in {"", "some", "wrong"} : Fill(p, [d EXCEPT !.received = text])

RemoveCommitment(p) ==
    On(p, 3) /\ \E i \in DOMAIN draft[p].commitments :
        Fill(p, [draft[p] EXCEPT !.commitments = RemoveAt(@, i)])

SpentAnswer(p) ==
    On(p, 4) /\ \E text \in {"", "some", "wrong"} : Fill(p, [draft[p] EXCEPT !.spent = text])

(* While a commitment is being typed the way on is to add it or to cancel.  *)
TypeCommitment(p) ==
    /\ On(p, 3) /\ answered < MaxAnswered /\ answered' = answered + 1
    /\ \E form \in Commitments \cup {"unfit"} :
          form # adding[p] /\ adding' = [adding EXCEPT ![p] = form]
    /\ UNCHANGED <<saved, me, step, draft, attempts, alarm, lost, restarts>>

AddCommitment(p) ==
    /\ On(p, 3) /\ validateCommitment(adding[p])
    /\ draft' = [draft EXCEPT ![p].commitments = Append(@, adding[p])]
    /\ adding' = [adding EXCEPT ![p] = "closed"]
    /\ UNCHANGED <<saved, me, step, attempts, alarm, answered, lost, restarts>>

CancelCommitment(p) ==
    /\ On(p, 3) /\ adding[p] # "closed"
    /\ adding' = [adding EXCEPT ![p] = "closed"]
    /\ UNCHANGED <<saved, me, step, draft, attempts, alarm, answered, lost, restarts>>

(* "Dalej" of step 2 keeps the validated income for the API.                *)
(* Mutant: once there is one, it is kept.                                   *)
IncomeKeptMutant(d) ==
    IF d.income = NoIncome THEN [d EXCEPT !.income = validateIncome(d).income] ELSE d
IncomeKept(d) == [d EXCEPT !.income = validateIncome(d).income]

Onward(p) ==
    /\ \/ On(p, 1) /\ draft[p].payday # 0 /\ UNCHANGED draft
       \/ /\ On(p, 2) /\ validateIncome(draft[p]).ok
          /\ draft' = [draft EXCEPT ![p] = IncomeKept(draft[p])]
       \/ On(p, 3) /\ adding[p] = "closed" /\ UNCHANGED draft
    /\ step' = [step EXCEPT ![p] = @ + 1]
    /\ UNCHANGED <<saved, me, adding, attempts, alarm, answered, lost, restarts>>

(* Back takes the screen off, with the form, the message and the pending    *)
(* button on it; an attempt under way goes on without them.                 *)
LeaveScreen(p) == {[a EXCEPT !.on = IF a.phone = p /\ @ = "screen" THEN "app" ELSE @] : a \in attempts}

Back(p) ==
    /\ me[p] = "new" /\ step[p] > 1
    /\ step' = [step EXCEPT ![p] = @ - 1]
    /\ adding' = [adding EXCEPT ![p] = "closed"]
    /\ alarm' = [alarm EXCEPT ![p] = "none"]
    /\ attempts' = LeaveScreen(p)
    /\ UNCHANGED <<saved, me, draft, answered, lost, restarts>>

-----------------------------------------------------------------------------
(* Sending the answers.                                                     *)

AnswersOf(d) ==
    [payday |-> d.payday, income |-> d.income, commitments |-> d.commitments, spent |-> d.spent]

(* The answers as the four screens show them.                               *)
ShownBy(d) == AnswersOf([d EXCEPT !.income = validateIncome(d).income])

Finish(p) ==
    LET id == Cardinality(attempts) + 1 IN
    /\ On(p, 4) /\ parseOptionalAmount(draft[p].spent)
    /\ \A a \in attempts : a.phone = p => a.on # "screen"
    /\ id =< MaxSent
    /\ attempts' = attempts \cup
          {[id |-> id, phone |-> p, on |-> "screen", state |-> "sent",
            answers |-> AnswersOf(draft[p]), shown |-> ShownBy(draft[p])]}
    /\ alarm' = [alarm EXCEPT ![p] = "none"]
    /\ UNCHANGED <<saved, me, step, draft, adding, answered, lost, restarts>>

To(a, state) ==
    attempts' = (attempts \ {a}) \cup
                    {[id |-> a.id, phone |-> a.phone, on |-> a.on, state |-> state]}

(* Nobody waits for its answer any more; one not served yet still may be.   *)
Over(a) == attempts' = (attempts \ {a}) \cup {[a EXCEPT !.on = "nobody"]}

(* The API: one conditional update decides which answers are taken.         *)
Complete(a) ==
    /\ a.state = "sent"
    /\ IF saved = Unset THEN saved' = [answers |-> a.answers, shown |-> a.shown] /\ To(a, "taken")
       ELSE To(a, "conflict") /\ UNCHANGED saved
    /\ UNCHANGED <<me, step, draft, adding, alarm, answered, lost, restarts>>

(* The account in the cache takes the phone to the tabs, and the draft goes.*)
Enter(p) ==
    /\ me' = [me EXCEPT ![p] = "done"]
    /\ draft' = [draft EXCEPT ![p] = emptyDraft] /\ step' = [step EXCEPT ![p] = 1]
    /\ adding' = [adding EXCEPT ![p] = "closed"] /\ alarm' = [alarm EXCEPT ![p] = "none"]

(* Mutant: a refusal is an error like any other.                            *)
RefusedMutant(a) ==
    /\ Over(a)
    /\ alarm' = [alarm EXCEPT ![a.phone] = IF a.on = "screen" THEN "refused" ELSE @]
    /\ UNCHANGED <<me, step, draft, adding>>
(* 409: the account is set up already, and is asked for.                    *)
Refused(a) == To(a, "asking") /\ UNCHANGED <<me, step, draft, adding, alarm>>

Answered(a) ==
    /\ a.on # "nobody" /\ a.state \in {"taken", "asking", "conflict"}
    /\ IF a.state = "conflict" THEN Refused(a) ELSE Over(a) /\ Enter(a.phone)
    /\ UNCHANGED <<saved, answered, lost, restarts>>

(* The call, or its answer, is lost: step 4 says so if it is still there.   *)
Lost(a) ==
    /\ a.on # "nobody" /\ lost < MaxLost /\ lost' = lost + 1
    /\ Over(a)
    /\ alarm' = [alarm EXCEPT ![a.phone] = IF a.on = "screen" THEN "lost" ELSE @]
    /\ UNCHANGED <<saved, me, step, draft, adding, answered, restarts>>

(* The app is killed and started: a call under way may still be served.     *)
RestartApp(p) ==
    /\ me[p] # "done"      \* bound: not in the tabs
    /\ restarts < MaxRestarts /\ restarts' = restarts + 1
    /\ me' = [me EXCEPT ![p] = "pending"] /\ step' = [step EXCEPT ![p] = 1]
    /\ draft' = [draft EXCEPT ![p] = emptyDraft] /\ adding' = [adding EXCEPT ![p] = "closed"]
    /\ alarm' = [alarm EXCEPT ![p] = "none"]
    /\ attempts' = {[a EXCEPT !.on = IF a.phone = p THEN "nobody" ELSE @] : a \in attempts}
    /\ UNCHANGED <<saved, answered, lost>>

-----------------------------------------------------------------------------
SetupNext ==
    \/ \E p \in Phones :
          \/ LoadMe(p) \/ LoadAgain(p)
          \/ PaydayAnswer(p) \/ IncomeAnswer(p) \/ SpentAnswer(p)
          \/ TypeCommitment(p) \/ AddCommitment(p) \/ CancelCommitment(p) \/ RemoveCommitment(p)
          \/ Onward(p) \/ Back(p) \/ Finish(p) \/ RestartApp(p)
    \/ \E a \in attempts : Complete(a) \/ Answered(a) \/ Lost(a)

SetupSpec == SetupInit /\ [][SetupNext]_setupVars

-----------------------------------------------------------------------------
(* What an account is set up with is what the four screens showed when the  *)
(* answers it took were sent, though step 2 was validated before the user   *)
(* went back, changed the payday its day follows, and came again.           *)
AnswersAreShown ==
    saved # Unset => saved.answers = saved.shown

(* The tabs open only on an account that is set up, and step 4 says that    *)
(* saving failed only when a call was lost: never because the answers were  *)
(* taken already, from another phone or by an attempt thought lost.         *)
SetUpIsASuccess ==
    \A p \in Phones :
        /\ me[p] = "done" => saved # Unset
        /\ alarm[p] # "none" => alarm[p] = "lost"
=============================================================================
