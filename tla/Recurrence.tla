----------------------------- MODULE Recurrence -----------------------------
(***************************************************************************)
(* The dates of a recurring rule (recurrence.ts).  A schedule is a record  *)
(* with frequency, interval, startDate, dayOfMonth and dayOfWeek; the API  *)
(* admits no rule without the day its frequency needs.                     *)
(***************************************************************************)
EXTENDS BudgetCalendar

StepMonths(r) == r.interval * (IF r.frequency = "YEARLY" THEN 12 ELSE 1)

(* The first date of a weekly rule.                                        *)
FirstWeekly(r) == r.startDate + ((r.dayOfWeek - dayOfWeekOf(r.startDate) + 7) % 7)

(* Mutant: the jump to the first date of the period rounds down.           *)
weeklyOccurrencesMutant(r, from, to) ==
    LET first == FirstWeekly(r)
        step == 7 * r.interval
        skip == IF from > first THEN (from - first) \div step ELSE 0
    IN  {first + k * step : k \in skip..((to - first) \div step)}

weeklyOccurrences(r, from, to) ==
    LET first == FirstWeekly(r)
        step == 7 * r.interval
        skip == IF from > first THEN (from - first + step - 1) \div step ELSE 0
    IN  {first + k * step : k \in skip..((to - first) \div step)}

monthlyOccurrences(r, from, to) ==
    {date \in {clampedDayInMonth(m, r.dayOfMonth) :
                  m \in {n \in monthIndexOf(from)..monthIndexOf(to) :
                            (n - monthIndexOf(r.startDate)) % StepMonths(r) = 0}} :
        from =< date /\ date =< to}

occurrencesInPeriod(r, period) ==
    LET from == laterOf(period.start, r.startDate) IN
    IF from > period.end THEN {}
    ELSE IF r.frequency = "WEEKLY" THEN weeklyOccurrences(r, from, period.end)
    ELSE monthlyOccurrences(r, from, period.end)

(* A date belongs to the cadence of rule r, before its start or after.     *)
InPhase(r, date) ==
    IF r.frequency = "WEEKLY" THEN (date - FirstWeekly(r)) % (7 * r.interval) = 0
    ELSE /\ (monthIndexOf(date) - monthIndexOf(r.startDate)) % StepMonths(r) = 0
         /\ \/ dayOf(date) = r.dayOfMonth
            \/ r.dayOfMonth > dayOf(date) /\ dayOf(date) = daysInMonth(monthIndexOf(date))

=============================================================================
