---------------------------- MODULE MCBudgetDays ----------------------------
(* An instance of BudgetDays for TLC: the days around 10 March 2025.        *)
EXTENDS BudgetDays, TLC

CONSTANTS rent, pay, row1, row2

January2025 == 2025 * 12
June2025 == 2025 * 12 + 5
March1 == 59

Friday(interval) ==
    [frequency |-> "WEEKLY", interval |-> interval, startDate |-> March1 - 1, dayOfMonth |-> 0,
     dayOfWeek |-> 5]
Monthly(day) ==
    [frequency |-> "MONTHLY", interval |-> 1, startDate |-> March1 - 20, dayOfMonth |-> day,
     dayOfWeek |-> 0]

(* Rent on Fridays: 28 February and 7 and 14 March; pay on the eleventh.   *)
Schedules == [i \in {rent, pay} |-> IF i = rent THEN Friday(1) ELSE Monthly(11)]
Expected == [i \in {rent, pay} |-> IF i = rent THEN 4 ELSE 30]
Tracked == [i \in {rent, pay} |-> March1 + 6]

March7 == March1 + 6
March8 == March1 + 7
March11 == March1 + 10
Rows == {row1, row2}
AnyRows == Permutations(Rows)
=============================================================================
