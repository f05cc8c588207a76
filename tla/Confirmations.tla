---------------------------- MODULE Confirmations ---------------------------
(***************************************************************************)
(* ConfirmationsService: the answers to "was this payment made?" for the   *)
(* occurrences of the recurring payments, racing with one another, with    *)
(* the trash (TransactionsService.remove and restore), with edits, which   *)
(* may also take a row off its rule or give it to another, and with the    *)
(* archiving and deletion of rules.  answerIncome is the same handler over *)
(* another table, whose rows keep their source (PATCH has no such field    *)
(* and a source with entries is not deleted).                              *)
(*                                                                         *)
(* The handler runs no transaction: every await is a statement of its own  *)
(* at READ COMMITTED, and upsert is INSERT ... ON CONFLICT DO UPDATE on    *)
(* the unique index (rule, occurrenceDate).  Days are numbers, a schedule  *)
(* is the set of its dates (module Recurrence computes them), the same for *)
(* all rules, so that a row may pass from one to another; amounts and      *)
(* labels are left out.                                                    *)
(***************************************************************************)
EXTENDS Integers, FiniteSets

CONSTANTS
    Requests,      \* answers given, from notifications and from the dashboard
    RowIds,        \* rows that can ever exist (bound)
    Rules,         \* the user's EXPENSE rules
    Occurrences,   \* the days they fall due
    MaxDay,        \* bound on the clock
    PatchDates,    \* bound on the dates a PATCH changes to
    None           \* no rule

ASSUME DaysAssumption ==
    /\ MaxDay \in Nat
    /\ Occurrences \subseteq 0..MaxDay
    /\ PatchDates \subseteq 0..MaxDay

ASSUME NoneAssumption == None \notin Rules

VARIABLES
    today,         \* the user's calendar day
    rules,         \* the committed RecurringRules: "active", "inactive", "gone"
    rows,          \* id -> the committed Transaction row that answers an occurrence
    req            \* request -> the local state of its handler

vars == <<today, rules, rows, req>>

Statuses == {"PENDING", "CONFIRMED", "DECLINED"}

Answers == {"CONFIRMED", "NOT_YET", "SKIPPED"}

(* rule is recurringRuleId; date is the day of the payment or, for         *)
(* PENDING, the day to ask again.  Ghost: of is the rule whose payment the *)
(* row was last said to be, which the deletion of the rule does not change.*)
Row == [rule: Rules \cup {None}, of: Rules \cup {None}, occ: Occurrences,
        status: Statuses, date: 0..(MaxDay + 1), deleted: BOOLEAN]

Request == [stage: {"idle", "rule", "existing", "upsert", "done"},
            rule: Rules, occ: Occurrences, answer: Answers, today: 0..MaxDay]

TypeOK ==
    /\ today \in 0..MaxDay
    /\ rules \in [Rules -> {"active", "inactive", "gone"}]
    /\ DOMAIN rows \subseteq RowIds
    /\ \A i \in DOMAIN rows : rows[i] \in Row
    /\ req \in [Requests -> Request]

Init ==
    /\ today = 0
    /\ rules = [rl \in Rules |-> "active"]
    /\ rows = [i \in {} |-> i]
    /\ req \in [Requests -> [stage: {"idle"}, rule: Rules, occ: Occurrences,
                             answer: Answers, today: {0}]]

-----------------------------------------------------------------------------
At(r, stage) == req[r].stage = stage

Goto(r, stage) == req' = [req EXCEPT ![r].stage = stage]

(* The answer of the API, 204 or an error; the handler is through.         *)
Done(r) == req' = [req EXCEPT ![r].stage = "done", ![r].today = 0]

(* The rows the unique index knows, those in the trash included.           *)
RowsOf(rl, occ) == {i \in DOMAIN rows : rows[i].rule = rl /\ rows[i].occ = occ}

(* What findFirst sees: the soft-delete extension hides the trash.         *)
Visible(rl, occ) == {i \in RowsOf(rl, occ) : ~rows[i].deleted}

(* Mutant: a unique index that ignores rows in the trash. *)
UniqueMutant(rl, occ) == Visible(rl, occ)

(* The unique index (recurringRuleId, occurrenceDate).                     *)
Unique(rl, occ) == RowsOf(rl, occ)

(* Mutant: every stored answer closes its occurrence. *)
OpenMutant(rl, occ) == Visible(rl, occ) = {}

(* openOccurrences, of one occurrence: PENDING closes nothing.             *)
Open(rl, occ) == \A i \in Visible(rl, occ) : rows[i].status = "PENDING"

(* isSnoozed: after NOT_YET the question waits for its date.               *)
Snoozed(rl, occ) ==
    \E i \in Visible(rl, occ) : rows[i].status = "PENDING" /\ rows[i].date > today

(* dueConfirmations with askToday: what the app asks about today.          *)
Asked(rl, occ) ==
    rules[rl] = "active" /\ occ =< today /\ Open(rl, occ) /\ ~Snoozed(rl, occ)

-----------------------------------------------------------------------------
(* answer: the budget snapshot gives today.                                *)
Snapshot(r) ==
    /\ At(r, "idle")
    /\ req[r].answer = "NOT_YET" => today < MaxDay   \* bound: "tomorrow" must exist
    /\ req' = [req EXCEPT ![r].stage = "rule", ![r].today = today]
    /\ UNCHANGED <<today, rules, rows>>

(* The rule must be there and active (404), and the occurrence not in the  *)
(* future (422).                                                           *)
ReadRule(r) ==
    /\ At(r, "rule")
    /\ IF rules[req[r].rule] = "active" /\ req[r].occ <= req[r].today
       THEN Goto(r, "existing")
       ELSE Done(r)
    /\ UNCHANGED <<today, rules, rows>>

(* findFirst and toAnswer: what is already paid is not answered again (a   *)
(* second yes changes nothing, any other answer gets 409).                 *)
ReadExisting(r) ==
    /\ At(r, "existing")
    /\ IF \E i \in Visible(req[r].rule, req[r].occ) : rows[i].status = "CONFIRMED"
       THEN Done(r)
       ELSE Goto(r, "upsert")
    /\ UNCHANGED <<today, rules, rows>>

(* toAnswer and the data of the upsert.                                    *)
Data(r) ==
    [rule |-> req[r].rule,
     of |-> req[r].rule,
     occ |-> req[r].occ,
     status |-> CASE req[r].answer = "CONFIRMED" -> "CONFIRMED"
                  [] req[r].answer = "NOT_YET" -> "PENDING"
                  [] req[r].answer = "SKIPPED" -> "DECLINED",
     date |-> IF req[r].answer = "NOT_YET" THEN req[r].today + 1 ELSE req[r].today,
     deleted |-> FALSE]

(* The id of a new row, whichever it is. *)
NewId == CHOOSE i \in RowIds : i \notin DOMAIN rows

(* upsert: the row of the occurrence, taken out of the trash if need be,   *)
(* or a new one; a rule deleted meanwhile fails the foreign key.           *)
Upsert(r) ==
    LET held == Unique(req[r].rule, req[r].occ) IN
    /\ At(r, "upsert")
    /\ \/ /\ rules[req[r].rule] = "gone"
          /\ rows' = rows
          /\ Done(r)
       \/ /\ rules[req[r].rule] # "gone"
          /\ \E i \in RowIds :
                /\ IF held = {} THEN i \notin DOMAIN rows /\ i = NewId ELSE i \in held
                /\ rows' = [j \in DOMAIN rows \cup {i} |-> IF j = i THEN Data(r) ELSE rows[j]]
          /\ Done(r)
    /\ UNCHANGED <<today, rules>>

-----------------------------------------------------------------------------
(* TransactionsService.remove: delete becomes an update of deletedAt.      *)
MoveToTrash(i) ==
    /\ i \in DOMAIN rows /\ ~rows[i].deleted
    /\ rows' = [rows EXCEPT ![i].deleted = TRUE]
    /\ UNCHANGED <<today, rules, req>>

(* TransactionsService.restore.                                            *)
Restore(i) ==
    /\ i \in DOMAIN rows /\ rows[i].deleted
    /\ rows' = [rows EXCEPT ![i].deleted = FALSE]
    /\ UNCHANGED <<today, rules, req>>

(* TransactionsService.update: only a row not in the trash.  The status,   *)
(* the date and the rule may be sent or not; occurrenceDate is no field of *)
(* the PATCH and stays.  A rule that is not there is refused (404, or the  *)
(* foreign key), and so is one that has a row of that date (unique index). *)
Edit(i, status, date, rl) ==
    /\ i \in DOMAIN rows /\ ~rows[i].deleted
    /\ date \in PatchDates \/ date = rows[i].date
    /\ \/ rl = rows[i].rule
       \/ rl = None
       \/ rl \in Rules /\ rules[rl] # "gone" /\ Unique(rl, rows[i].occ) = {}
    /\ rows' = [rows EXCEPT ![i].status = status, ![i].date = date, ![i].rule = rl,
                             ![i].of = IF rl = rows[i].rule THEN @ ELSE rl]
    /\ UNCHANGED <<today, rules, req>>

(* RecurringRulesService.update of isActive.                               *)
SetActive(rl, active) ==
    /\ rules[rl] \in {"active", "inactive"} \ {active}
    /\ rules' = [rules EXCEPT ![rl] = active]
    /\ UNCHANGED <<today, rows, req>>

(* RecurringRulesService.remove: onDelete SetNull keeps the expenses.      *)
RemoveRule(rl) ==
    /\ rules[rl] # "gone"
    /\ rules' = [rules EXCEPT ![rl] = "gone"]
    /\ rows' = [i \in DOMAIN rows |->
                  [rows[i] EXCEPT !.rule = IF @ = rl THEN None ELSE @]]
    /\ UNCHANGED <<today, req>>

Midnight ==
    /\ today < MaxDay
    /\ today' = today + 1
    /\ UNCHANGED <<rules, rows, req>>

Next ==
    \/ \E r \in Requests : Snapshot(r) \/ ReadRule(r) \/ ReadExisting(r) \/ Upsert(r)
    \/ \E i \in RowIds :
          \/ MoveToTrash(i)
          \/ Restore(i)
          \/ \E status \in Statuses, date \in 0..(MaxDay + 1), rl \in Rules \cup {None} :
                Edit(i, status, date, rl)
    \/ \E rl \in Rules :
          \/ SetActive(rl, "active")
          \/ SetActive(rl, "inactive")
          \/ RemoveRule(rl)
    \/ Midnight

Spec == Init /\ [][Next]_vars

(* Days pass.                                                              *)
FairSpec == Spec /\ WF_vars(Midnight)

-----------------------------------------------------------------------------
(* "odpowiedź z powiadomienia i z Dashboardu nie tworzy dwóch wydatków"    *)
(* (confirmations.service.ts:33-35): two payments of one due date of one   *)
(* rule never stand side by side, through the trash and back, rows that    *)
(* pass from rule to rule, and after the rule is gone.  A row that the     *)
(* user's PATCH takes off its rule is no payment of it any more, and its   *)
(* due date may be paid by another.                                        *)
PaidOnce ==
    \A i, j \in DOMAIN rows :
        (/\ rows[i].of = rows[j].of /\ rows[i].of # None /\ rows[i].occ = rows[j].occ
         /\ ~rows[i].deleted /\ ~rows[j].deleted
         /\ rows[i].status = "CONFIRMED" /\ rows[j].status = "CONFIRMED") => i = j

(* "Przy „Jeszcze nie” data to jutro — od tego dnia appka pyta znowu"      *)
(* (toAnswer, confirmations.service.ts:141-145): a snoozed occurrence is   *)
(* asked about again unless it is settled or its rule put away; also when  *)
(* the row that snoozed it was put off by a PATCH or taken off the rule.   *)
AskedAgain ==
    \A rl \in Rules, occ \in Occurrences :
        Snoozed(rl, occ) ~> \/ Asked(rl, occ)
                            \/ rules[rl] # "active"
                            \/ \E i \in Visible(rl, occ) : rows[i].status # "PENDING"

=============================================================================
