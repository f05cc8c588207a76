----------------------------- MODULE BudgetDays -----------------------------
(***************************************************************************)
(* The budget of one user from day to day: what BudgetService.current      *)
(* answers (budget.service.ts, assemble-budget-input.ts, occurrences.ts)   *)
(* as the user records expenses and incomes, answers for the payments and  *)
(* incomes that fall due, archives their rules, and as midnight passes,    *)
(* within a budget period and into the next.                               *)
(*                                                                         *)
(* rows holds the expenses and income entries that are not in the trash.   *)
(* Regular incomes have a schedule; forecasts of irregular ones are left   *)
(* out, and so are the categories of expenses.                             *)
(***************************************************************************)
EXTENDS Recurrence, Balance

CONSTANTS
    Payments,           \* recurring rules of kind EXPENSE
    Incomes,            \* regular income sources
    ScheduleOf, ExpectedOf, TrackedSinceOf,   \* of each payment and income
    StartDay,           \* periodStartDay
    FirstDay, LastDay,  \* onboarding was completed on FirstDay; LastDay is a bound
    GoalNeeds, GoalDate,     \* what is missing from a goal, and its target date
    Amounts,            \* amounts typed in
    RowIds,             \* bound on the rows that exist at a time
    BeforeFinso, None

Items == Payments \cup Incomes

ASSUME BudgetAssumption ==
    /\ Payments \cap Incomes = {} /\ {BeforeFinso, None} \cap Items = {}
    /\ StartDay \in 1..28 /\ FirstDay \in Nat /\ LastDay \in Nat /\ FirstDay =< LastDay
    /\ Amounts \subseteq Nat \ {0} /\ GoalNeeds \in Int /\ GoalDate \in Int
    /\ IsFiniteSet(Items) /\ IsFiniteSet(RowIds)

(* The schedules, amounts and days the API admits (as in RecurringRules).  *)
ASSUME ItemsAreRules ==
    /\ ScheduleOf \in [Items -> [frequency : {"WEEKLY", "MONTHLY", "YEARLY"},
                                 interval : Nat \ {0}, startDate : Dates,
                                 dayOfMonth : 0..31, dayOfWeek : 0..6]]
    /\ \A item \in Items : ScheduleOf[item].frequency # "WEEKLY" =>
                                ScheduleOf[item].dayOfMonth # 0
    /\ ExpectedOf \in [Items -> Nat] /\ TrackedSinceOf \in [Items -> Int]

(* The calendar of an instance (bound) surrounds the days it looks at.     *)
ASSUME DaysInCalendar ==
    /\ MonthStart[FirstMonth + 1] =< FirstDay /\ LastDay < MonthStart[LastMonth]
    /\ GoalDate < MonthStart[LastMonth]

VARIABLES
    currentDay,
    active,   \* the items not archived
    rows,     \* id -> transaction or income entry
    input     \* what the engine is given when the budget is asked for

budgetVars == <<currentDay, active, rows, input>>

(* item: None for a day-to-day expense, BeforeFinso for the expenses of    *)
(* the period that onboarding asks about in one sum; occ: None when the    *)
(* row answers for no date of its item's schedule.                         *)
Row == [item: Items \cup {None, BeforeFinso}, amount: Nat, date: Dates, occ: Dates \cup {None},
        status: {"PENDING", "CONFIRMED", "DECLINED"}]

BudgetTypeOK ==
    /\ currentDay \in FirstDay..LastDay
    /\ active \subseteq Items
    /\ DOMAIN rows \subseteq RowIds /\ \A i \in DOMAIN rows : rows[i] \in Row

Confirmed(item, amount, date) ==
    [item |-> item, amount |-> amount, date |-> date, occ |-> None, status |-> "CONFIRMED"]

-----------------------------------------------------------------------------
(* The months at the ends of the instance have no neighbours.              *)
PeriodOf == [date \in MonthStart[FirstMonth + 1]..(MonthStart[LastMonth] - 1) |->
                currentBudgetPeriod(date, StartDay)]

CurrentPeriod == PeriodOf[currentDay]

RowsOf(item) == {i \in DOMAIN rows : rows[i].item = item}

SumOf(ids) == SumFunction([i \in ids |-> rows[i].amount])

(* The dates of an item up to the end of the period.                       *)
DatesOf == [item \in Items |-> [day \in FirstDay..LastDay |->
    occurrencesInPeriod(ScheduleOf[item], [start |-> ScheduleOf[item].startDate,
                                           end |-> PeriodOf[day].end])]]

(* Mutant: "not yet" closes the date it answers. *)
ClosingMutant(item) == RowsOf(item)

Closing(item) == {i \in RowsOf(item) : rows[i].status # "PENDING"}

Answered(item) == {rows[i].occ : i \in Closing(item)}

(* openOccurrences: a row with a date of the schedule closes that date,    *)
(* one without closes the first open date of the period it falls in.       *)
Open(item) ==
    LET unanswered == DatesOf[item][currentDay] \ Answered(item)
        closedBefore(date) == {e \in unanswered : e < date /\ PeriodOf[e] = PeriodOf[date]}
        loose(date) == {i \in Closing(item) : /\ rows[i].occ = None
                                              /\ PeriodOf[rows[i].date] = PeriodOf[date]}
    IN  {date \in unanswered : Cardinality(closedBefore(date)) >= Cardinality(loose(date))}

(* Mutant: the day on which the rule was added does not count.             *)
OverdueMutant(item) ==
    {date \in Open(item) : date < CurrentPeriod.start /\ date > TrackedSinceOf[item]}

Overdue(item) ==
    {date \in Open(item) : date < CurrentPeriod.start /\ date >= TrackedSinceOf[item]}

Current(item) == {date \in Open(item) : date >= CurrentPeriod.start}

-----------------------------------------------------------------------------
ConfirmedInPeriod ==
    {i \in DOMAIN rows : /\ rows[i].status = "CONFIRMED"
                         /\ CurrentPeriod.start =< rows[i].date
                         /\ rows[i].date =< CurrentPeriod.end}

Received == {i \in ConfirmedInPeriod : rows[i].item \in Incomes}

Spent == ConfirmedInPeriod \ Received

(* What the open dates of an item are expected to bring or cost.           *)
DueOn(item, dates) == ExpectedOf[item] * Cardinality(dates)

periodIncome ==
    SumOf(Received) + SumFunction([item \in active \cap Incomes |-> DueOn(item, Current(item))])

remainingCommitments ==
    SumFunction([item \in active \cap Payments |->
                    DueOn(item, Overdue(item) \cup Current(item))])

SpentOn(day) == SumOf({i \in Spent : rows[i].item = None /\ rows[i].date = day})

calculateDaysRemaining == CurrentPeriod.end - currentDay + 1

assembleBudgetInput ==
    [periodIncome |-> periodIncome,
     fixedCommitments |-> remainingCommitments,
     goalContributions |-> calculateGoalContribution(GoalNeeds,
                               periodsUntil(currentDay, GoalDate, StartDay)),
     alreadySpent |-> SumOf(Spent),
     days |-> calculateDaysRemaining,
     spentToday |-> SpentOn(currentDay),
     known |-> CurrentPeriod.start < currentDay /\ FirstDay < currentDay,
     spentYesterday |-> SpentOn(currentDay - 1)]

(* BudgetService.current                                                   *)
Summary == calculateAvailableBalance(input)

(* BudgetService.simulate                                                  *)
simulate(amount) ==
    simulatePurchase(Summary, amount, GoalNeeds, input.goalContributions, GoalDate - currentDay)

BudgetInit ==
    /\ currentDay = FirstDay
    /\ active = Items
    /\ \/ rows = [i \in {} |-> i]
       \/ \E i \in RowIds, a \in Amounts :
             rows = [j \in {i} |-> Confirmed(BeforeFinso, a, FirstDay)]
    /\ input = assembleBudgetInput

-----------------------------------------------------------------------------
FreeIds == RowIds \ DOMAIN rows

Store(i, row) == rows' = [j \in DOMAIN rows \cup {i} |-> IF j = i THEN row ELSE rows[j]]

(* An expense or an income entered by hand, today or a day late.           *)
Add(item, amount, date) ==
    /\ \E i \in FreeIds : Store(i, Confirmed(item, amount, date))
    /\ UNCHANGED <<currentDay, active>>

(* A row goes to the trash.                                                *)
RemoveRow(i) ==
    /\ i \in DOMAIN rows
    /\ rows' = Restrict(rows, DOMAIN rows \ {i})
    /\ UNCHANGED <<currentDay, active>>

toAnswer(item, occ, answer, amount) ==
    [item |-> item, occ |-> occ,
     amount |-> IF answer = "CONFIRMED" THEN amount ELSE ExpectedOf[item],
     status |-> CASE answer = "CONFIRMED" -> "CONFIRMED"
                  [] answer = "NOT_YET" -> "PENDING"
                  [] answer = "SKIPPED" -> "DECLINED",
     date |-> IF answer = "NOT_YET" THEN currentDay + 1 ELSE currentDay]

RowsFor(item, occ) == {i \in RowsOf(item) : rows[i].occ = occ}

(* ConfirmationsService.answer, for a date that has come and is not paid.  *)
Answer(item, occ, answer, amount) ==
    /\ item \in active
    /\ occ \in DatesOf[item][currentDay] /\ occ =< currentDay
    /\ \A i \in RowsFor(item, occ) : rows[i].status # "CONFIRMED"
    /\ item \in Incomes => answer # "SKIPPED"
    /\ \E i \in IF RowsFor(item, occ) = {} THEN FreeIds ELSE RowsFor(item, occ) :
           Store(i, toAnswer(item, occ, answer, amount))
    /\ UNCHANGED <<currentDay, active>>

(* RecurringRulesService.update, IncomeSourcesService.update of isActive.  *)
SetActive(item) ==
    /\ active' = IF item \in active THEN active \ {item} ELSE active \cup {item}
    /\ UNCHANGED <<currentDay, rows>>

Midnight ==
    /\ currentDay < LastDay
    /\ currentDay' = currentDay + 1
    /\ UNCHANGED <<active, rows>>

Step ==
    \/ \E item \in Items \cup {None}, amount \in Amounts, date \in {currentDay - 1, currentDay} :
          date >= FirstDay /\ Add(item, amount, date)
    \/ \E i \in RowIds : RemoveRow(i)
    \/ \E item \in Items, answer \in {"CONFIRMED", "NOT_YET", "SKIPPED"} :
          \E occ \in DatesOf[item][currentDay], amount \in Amounts \cup {ExpectedOf[item]} :
             Answer(item, occ, answer, amount)
    \/ \E item \in Items : SetActive(item)
    \/ Midnight

BudgetNext == Step /\ input' = assembleBudgetInput'

BudgetSpec == BudgetInit /\ [][BudgetNext]_budgetVars

-----------------------------------------------------------------------------
(* An expense as quick-add saves it.                                       *)
OfToday(row) == row.item = None /\ row.date = currentDay

Harder(verdict, other) ==
    /\ other = "over" => verdict = "over"
    /\ other = "tight" => verdict # "safe"

(* "wynik jest taki sam, jaki policzyłby silnik" (apply-expense.ts:9-11):  *)
(* what the app makes of the budget on its screen when an expense of today *)
(* is added or taken back is the budget the server computes, and what the  *)
(* simulator foretold of it; its verdict and the delay of the goal are no  *)
(* milder for a dearer purchase.                                           *)
OptimisticIsExact ==
    [][/\ \A i \in DOMAIN rows' \ DOMAIN rows :
             OfToday(rows'[i]) =>
                 LET foretold == simulate(rows'[i].amount) IN
                 /\ Summary' = shiftSpent(Summary, rows'[i].amount)
                 /\ foretold.remainingAfter = Summary'.availableBalance
                 /\ foretold.dailyAllowanceAfter = Summary'.dailyAllowance
                 /\ \A dearer \in Amounts :
                       dearer > rows'[i].amount =>
                           /\ Harder(simulate(dearer).riskLevel, foretold.riskLevel)
                           /\ simulate(dearer).delayDays >= foretold.delayDays
       /\ \A i \in DOMAIN rows \ DOMAIN rows' :
             OfToday(rows[i]) => Summary' = shiftSpent(Summary, -rows[i].amount)]_budgetVars

(* The user is asked about open dates (dueConfirmations).                  *)
AskedAbout(item, occ) ==
    /\ item \in active
    /\ occ # None /\ occ \in Overdue(item) \cup Current(item)

(* What an answer frees or takes: a payment was already put aside, an      *)
(* income counted on unless it is overdue ("NOT_YET: dalej w budżecie",    *)
(* "SKIPPED: kwota wraca do budżetu", confirmations/schemas.ts:31-32;      *)
(* assemble-budget-input.ts:102-103 for late incomes).                     *)
Worth(row) ==
    CASE row.status = "PENDING" -> 0
      [] row.status = "DECLINED" -> ExpectedOf[row.item]
      [] row.status = "CONFIRMED" /\ row.item \in Payments -> ExpectedOf[row.item] - row.amount
      [] row.status = "CONFIRMED" /\ row.item \in Incomes ->
            IF row.occ \in Overdue(row.item) THEN row.amount
                                            ELSE row.amount - ExpectedOf[row.item]

(* An answer moves the balance by the difference to what was expected and  *)
(* no more: no payment is charged twice, once as put aside and once paid,  *)
(* whatever other rows its rule has.                                       *)
AnswersAreFair ==
    [][\A i \in DOMAIN rows' :
          ((i \in DOMAIN rows => rows'[i] # rows[i]) /\ AskedAbout(rows'[i].item, rows'[i].occ)) =>
              Summary'.availableBalance = Summary.availableBalance + Worth(rows'[i])]_budgetVars

(* A payment not answered for is put aside on the next day too, as overdue *)
(* once its period is over ("jeszcze do zapłacenia",                       *)
(* assemble-budget-input.ts:108-111).                                      *)
PaymentsAreNotForgotten ==
    [][Midnight =>
          \A item \in Payments :
             {date \in Overdue(item) \cup Current(item) : date >= TrackedSinceOf[item]}
                \subseteq (Overdue(item) \cup Current(item))']_budgetVars

(* nextDays: "Ile dostanie każdy kolejny dzień, jeśli reszta dzisiejszego  *)
(* limitu zostanie na dziś" (today-allowance.ts:13-14): tomorrow's limit   *)
(* is never less than today announced, and no more when nothing was left.  *)
(* A night within a period moves no money: what falls due later was put    *)
(* aside from the first day, and a goal past its date keeps its share.     *)
PromiseKept ==
    [][(Midnight /\ CurrentPeriod' = CurrentPeriod) =>
          /\ Summary'.availableBalance = Summary.availableBalance
          /\ Summary'.today.limit >= Summary.today.nextDays
          /\ Summary.today.left =< 0 => Summary'.today.limit = Summary.today.nextDays]_budgetVars

=============================================================================
