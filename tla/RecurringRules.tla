--------------------------- MODULE RecurringRules ---------------------------
(***************************************************************************)
(* A recurring rule as its user lives with it: created on some day         *)
(* (rule-start-date.ts), unfolded into dates (recurrence.ts) one budget    *)
(* period after another (period.ts), while the day on which periods start  *)
(* changes (UsersService.updateMe with rebase-rule-starts.ts).             *)
(***************************************************************************)
EXTENDS Recurrence

CONSTANTS
    StartDays,     \* the periodStartDay values in play
    Cadences,      \* the rules that can be created
    CreationDays,  \* the days on which the rule can be created
    LastToday,     \* the last day the instance lives through (bound)
    MaxChanges     \* bound on changes of periodStartDay

ASSUME RulesAssumption ==
    /\ StartDays \subseteq 1..28
    /\ LastToday \in Nat /\ CreationDays \subseteq 0..LastToday
    /\ MaxChanges \in Nat

(* The schedules the API admits (a rule by months needs its day), with the  *)
(* week in which one of every two weeks begins.                             *)
ASSUME CadencesAreSchedules ==
    /\ Cadences \subseteq [frequency : {"WEEKLY", "MONTHLY", "YEARLY"}, interval : 1..52,
                          dayOfMonth : 0..31, dayOfWeek : 0..6, week : {"this", "next"}]
    /\ \A c \in Cadences : c.frequency # "WEEKLY" => c.dayOfMonth # 0

(* The code's calendar has no ends.  That of an instance (bound) surrounds  *)
(* the days lived through: their periods, and one cycle of every rule       *)
(* before them.                                                             *)
Lived == {day \in 0..LastToday : \E first \in CreationDays : first =< day}

ASSUME CalendarIsWide ==
    /\ LastToday < MonthStart[LastMonth]
    /\ \A day \in Lived : MonthStart[FirstMonth + 1] =< day
    /\ \A day \in Lived, d \in StartDays, c \in Cadences :
          /\ FirstMonth + StepMonths(c) \in Months
          /\ MonthStart[FirstMonth + StepMonths(c)] =< currentBudgetPeriod(day, d).start

VARIABLES
    today,
    periodStartDay,
    onboardedOn,   \* the day onboarding was completed
    rule,          \* the committed RecurringRule
    changes        \* how often periodStartDay was changed

vars == <<today, periodStartDay, onboardedOn, rule, changes>>

Period == currentBudgetPeriod(today, periodStartDay)

-----------------------------------------------------------------------------
(* weekdayInWeekOf: the day in the week, from Monday, that holds date.     *)
FromMonday(weekday) == (weekday + 6) % 7

weekdayInWeekOf(date, weekday) == date - FromMonday(dayOfWeekOf(date)) + FromMonday(weekday)

(* ruleStartDate: an income from the start of the period, a payment from   *)
(* today; every two weeks, a date in the chosen phase.                     *)
ruleStartDate(kind, cadence, day, period) ==
    LET anchor == weekdayInWeekOf(day, cadence.dayOfWeek)
                    + (IF cadence.week = "next" THEN 7 ELSE 0)
        steps == IF anchor > period.start THEN (anchor - period.start + 13) \div 14 ELSE 0
    IN  IF cadence.interval # 2 \/ cadence.frequency # "WEEKLY"
        THEN IF kind = "INCOME" THEN period.start ELSE day
        ELSE IF kind = "EXPENSE"
             THEN IF anchor >= day THEN anchor ELSE anchor + 14
             ELSE anchor - steps * 14

-----------------------------------------------------------------------------
(* The dates whole cycles before the start of the rule.                    *)
CyclesBack(r) ==
    IF r.frequency = "WEEKLY"
    THEN {date \in Dates : date < r.startDate /\ (r.startDate - date) % (7 * r.interval) = 0}
    ELSE {clampedDayInMonth(m, dayOf(r.startDate)) :
             m \in {n \in Months : /\ n < monthIndexOf(r.startDate)
                                  /\ (monthIndexOf(r.startDate) - n) % StepMonths(r) = 0}}

(* The last of the dates in the phase of the rule not later than limit.    *)
startInPhase(r, limit) ==
    IF r.interval = 1 /\ r.frequency # "YEARLY" THEN limit
    ELSE Max({date \in CyclesBack(r) : date =< limit})

(* Mutant: a rule that starts with the old period is left where it is.     *)
RebasedMutant(r, oldStart, newStart) ==
    /\ newStart < oldStart /\ newStart < r.startDate /\ r.startDate < oldStart
    /\ r.kind = "INCOME" \/ r.startDate =< onboardedOn

(* rebaseRuleStarts, the rules it moves.                                   *)
Rebased(r, oldStart, newStart) ==
    /\ newStart < oldStart /\ newStart < r.startDate /\ r.startDate =< oldStart
    /\ r.kind = "INCOME" \/ r.startDate =< onboardedOn

rebasedStart(r, oldStart, newStart) ==
    IF Rebased(r, oldStart, newStart) THEN startInPhase(r, newStart) ELSE r.startDate

-----------------------------------------------------------------------------
Rule == [kind: {"INCOME", "EXPENSE"}, frequency: {"WEEKLY", "MONTHLY", "YEARLY"},
         interval: 1..52, startDate: Dates, dayOfMonth: 0..31, dayOfWeek: 0..6]

TypeOK ==
    /\ today \in Dates
    /\ periodStartDay \in StartDays
    /\ onboardedOn \in Dates
    /\ rule \in Rule
    /\ changes \in 0..MaxChanges

(* A rule created on a day, in the app (BIWEEKLY is every two weeks) or    *)
(* with any start date through the API.                                    *)
Init ==
    /\ today \in CreationDays
    /\ periodStartDay \in StartDays
    /\ onboardedOn \in {day \in CreationDays : day =< today}
    /\ changes = 0
    /\ \E c \in Cadences, kind \in {"INCOME", "EXPENSE"} :
          rule = [kind |-> kind, frequency |-> c.frequency, interval |-> c.interval,
                  startDate |-> ruleStartDate(kind, c, today, Period),
                  dayOfMonth |-> c.dayOfMonth, dayOfWeek |-> c.dayOfWeek]

Tomorrow ==
    /\ today < LastToday
    /\ today' = today + 1
    /\ UNCHANGED <<periodStartDay, onboardedOn, rule, changes>>

(* updateMe: the User row is locked while the rules are moved.             *)
ChangeStartDay(d) ==
    /\ changes < MaxChanges /\ d # periodStartDay
    /\ periodStartDay' = d
    /\ rule' = [rule EXCEPT !.startDate =
                   rebasedStart(rule, Period.start, currentBudgetPeriod(today, d).start)]
    /\ changes' = changes + 1
    /\ UNCHANGED <<today, onboardedOn>>

Next == Tomorrow \/ \E d \in StartDays : ChangeStartDay(d)

Spec == Init /\ [][Next]_vars

-----------------------------------------------------------------------------
(* occurrencesInPeriod (recurrence.ts:19-32) returns exactly the dates of  *)
(* the cadence in the period, none before the start of the rule.           *)
OccurrencesAreExact ==
    occurrencesInPeriod(rule, Period)
        = {date \in Period.start..Period.end : date >= rule.startDate /\ InPhase(rule, date)}

(* The rules that must cover a period of another start (the comment of     *)
(* rebaseRuleStarts, lines 33-45): those that covered the whole old one,   *)
(* but no payment added after onboarding, whose earlier dates may be       *)
(* expenses already entered by hand.                                       *)
CoversPeriod ==
    /\ rule.startDate =< Period.start
    /\ rule.kind = "INCOME" \/ rule.startDate =< onboardedOn

(* "żeby żadna płatność bieżącego okresu nie zginęła ani się nie           *)
(* zdublowała" (rebase-rule-starts.ts:30-31).  A change of the start day   *)
(* keeps every date the rule had.  If the rule covered the old period, it  *)
(* has all the dates of its cadence in the new one, those between an       *)
(* earlier start and the old one included, and no other; if it did not, it *)
(* gets no date it had not.                                                *)
RebaseKeepsPayments ==
    [][periodStartDay' # periodStartDay =>
          LET span == [start |-> laterOf(0, Period'.start),
                       end |-> laterOf(Period.end, Period'.end)]
              before == occurrencesInPeriod(rule, span)
              after == occurrencesInPeriod(rule', span)
          IN  /\ before \subseteq after
              /\ CoversPeriod =>
                     after = {date \in span.start..span.end : InPhase(rule, date)}
              /\ ~CoversPeriod => after = before]_vars

=============================================================================
