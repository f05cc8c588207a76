--------------------------- MODULE BudgetCalendar ---------------------------
(***************************************************************************)
(* The calendar arithmetic of the shared engine (date.ts, calendar.ts) and *)
(* the budget periods (period.ts).                                         *)
(*                                                                         *)
(* A date is the number of days since the first day of FirstMonth, so that *)
(* addDays and daysBetween are plus and minus and the order of ISO strings *)
(* is the order of numbers.  A month is the engine's month index:          *)
(* year * 12 + month - 1.                                                  *)
(***************************************************************************)
EXTENDS Integers, FiniteSetsExt

CONSTANTS
    FirstMonth, LastMonth,   \* the months of the instance (bound)
    FirstWeekday             \* weekday of date 0, 0 = Sunday

ASSUME CalendarAssumption ==
    /\ FirstMonth \in Nat /\ LastMonth \in Nat /\ FirstMonth =< LastMonth
    /\ FirstWeekday \in 0..6

Months == FirstMonth..LastMonth

Leap(year) == (year % 4 = 0 /\ year % 100 # 0) \/ year % 400 = 0

(* Days from the beginning of year 1 to the first day of month m.          *)
DaysBefore(m) ==
    LET year == m \div 12
        past == year - 1
        beforeMonth == <<0, 31, 59, 90, 120, 151, 181, 212, 243, 273, 304, 334>>
    IN  365 * past + past \div 4 - past \div 100 + past \div 400
        + beforeMonth[(m % 12) + 1] + (IF m % 12 > 1 /\ Leap(year) THEN 1 ELSE 0)

(* The date on which a month starts.                                       *)
MonthStart == [m \in FirstMonth..(LastMonth + 1) |-> DaysBefore(m) - DaysBefore(FirstMonth)]

daysInMonth(m) == MonthStart[m + 1] - MonthStart[m]

Dates == 0..(MonthStart[LastMonth + 1] - 1)

MonthOf == [date \in Dates |->
               CHOOSE m \in Months : MonthStart[m] =< date /\ date < MonthStart[m + 1]]

monthIndexOf(date) == MonthOf[date]

(* yearMonth(date).day                                                     *)
dayOf(date) == date - MonthStart[monthIndexOf(date)] + 1

dayOfWeekOf(date) == (FirstWeekday + date) % 7

(* The day in month m, or the last day of a month too short for it.        *)
clampedDayInMonth(m, day) ==
    MonthStart[m] + (IF day < daysInMonth(m) THEN day ELSE daysInMonth(m)) - 1

laterOf(a, b) == IF a > b THEN a ELSE b

(* Math.ceil(n / d)                                                        *)
RoundedUp(n, d) == (n + d - 1) \div d

-----------------------------------------------------------------------------
(* The period whose start lies in month m.                                 *)
PeriodFrom(m, periodStartDay) ==
    [start |-> clampedDayInMonth(m, periodStartDay),
     end |-> clampedDayInMonth(m + 1, periodStartDay) - 1]

(* Before the start day of this month the period of last month still runs. *)
currentBudgetPeriod(today, periodStartDay) ==
    PeriodFrom(monthIndexOf(today) - (IF dayOf(today) < periodStartDay THEN 1 ELSE 0),
               periodStartDay)

budgetPeriodAt(today, periodStartDay, offset) ==
    PeriodFrom(monthIndexOf(currentBudgetPeriod(today, periodStartDay).start) + offset,
               periodStartDay)

(* The periods, this one included, left to save for a goal.                *)
periodsUntil(today, target, periodStartDay) ==
    IF target < today THEN 0
    ELSE monthIndexOf(currentBudgetPeriod(target, periodStartDay).start)
         - monthIndexOf(currentBudgetPeriod(today, periodStartDay).start) + 1

=============================================================================
