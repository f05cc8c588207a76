------------------------------ MODULE Balance -------------------------------
(***************************************************************************)
(* The arithmetic of the budget: the balance that is free to spend, its    *)
(* daily shares and today's limit (calculate-available-balance.ts,         *)
(* today-allowance.ts), the rate of a goal (calculate-goal-contribution.ts),*)
(* the change the app makes to a budget it has on screen when an expense   *)
(* is added or taken back (apply-expense.ts), and what a purchase would do  *)
(* (simulate-purchase.ts).                                                  *)
(*                                                                         *)
(* Amounts are integers (grosze); Math.floor of a quotient is \div.        *)
(***************************************************************************)
EXTENDS Integers

AtLeastZero(n) == IF n > 0 THEN n ELSE 0

Ceiling(n, d) == -((-n) \div d)

calculateDailyAllowance(balance, days) == IF days = 0 THEN 0 ELSE balance \div days

(* Mutant: an overspent limit raises the share of the days after today.    *)
nextDaysAllowanceMutant(balance, leftToday, days) ==
    IF days =< 1 THEN 0 ELSE (balance - leftToday) \div (days - 1)

(* What every day after today gets when the rest of today's limit is today's. *)
nextDaysAllowance(balance, leftToday, days) ==
    IF days =< 1 THEN 0 ELSE (balance - AtLeastZero(leftToday)) \div (days - 1)

-----------------------------------------------------------------------------
(* Yesterday's share of what was left then, for every day from then on.    *)
YesterdayShare(morning, days, yesterday) == (morning + yesterday) \div (days + 1)

(* What was not spent of it; known: there is a yesterday to carry from.    *)
Carried(morning, days, known, yesterday) ==
    IF known THEN AtLeastZero(YesterdayShare(morning, days, yesterday) - yesterday) ELSE 0

Limit(morning, days, known, yesterday) ==
    CASE days = 1 -> morning
      [] days # 1 /\ Carried(morning, days, known, yesterday) > 0 ->
            YesterdayShare(morning, days, yesterday) + Carried(morning, days, known, yesterday)
      [] OTHER -> morning \div days

calculateTodayAllowance(balance, days, spent, known, yesterday) ==
    LET morning == balance + spent
        limit == Limit(morning, days, known, yesterday)
    IN  IF days = 0 THEN [limit |-> 0, spent |-> 0, left |-> 0, carriedFromYesterday |-> 0,
                          nextDays |-> 0]
        ELSE [limit |-> limit, spent |-> spent, left |-> limit - spent,
              carriedFromYesterday |-> Carried(morning, days, known, yesterday),
              nextDays |-> nextDaysAllowance(balance, limit - spent, days)]

-----------------------------------------------------------------------------
calculateGoalContribution(needed, periods) ==
    CASE needed =< 0 -> 0
      [] needed > 0 /\ periods =< 0 -> needed
      [] OTHER -> Ceiling(needed, periods)

-----------------------------------------------------------------------------
(* input: periodIncome, fixedCommitments, goalContributions, alreadySpent, *)
(* the days left (today is one), what was spent today and yesterday.       *)
calculateAvailableBalance(input) ==
    LET balance == input.periodIncome - input.fixedCommitments - input.goalContributions
                     - input.alreadySpent
    IN  [availableBalance |-> balance, daysRemaining |-> input.days,
         dailyAllowance |-> calculateDailyAllowance(balance, input.days),
         alreadySpent |-> input.alreadySpent,
         today |-> calculateTodayAllowance(balance, input.days, input.spentToday,
                                           input.known, input.spentYesterday)]

(* Mutant: the days after today keep their share.                          *)
shiftSpentMutant(summary, delta) ==
    LET balance == summary.availableBalance - delta
    IN  [summary EXCEPT !.availableBalance = balance,
                        !.alreadySpent = @ + delta,
                        !.dailyAllowance = calculateDailyAllowance(balance, summary.daysRemaining),
                        !.today.spent = @ + delta,
                        !.today.left = @ - delta]

shiftSpent(summary, delta) ==
    LET balance == summary.availableBalance - delta
        left == summary.today.left - delta
    IN  [summary EXCEPT !.availableBalance = balance,
                        !.alreadySpent = @ + delta,
                        !.dailyAllowance = calculateDailyAllowance(balance, summary.daysRemaining),
                        !.today.spent = @ + delta,
                        !.today.left = left,
                        !.today.nextDays = nextDaysAllowance(balance, left, summary.daysRemaining)]

-----------------------------------------------------------------------------
(* What buying something would do.  A goal is put off by the days its own  *)
(* share of the shortage takes to save; the quotient, a float in the code, *)
(* is exact here.                                                          *)
calculateGoalDelayDays(needed, contribution, deficit, daysUntilTarget) ==
    LET affected == IF deficit < contribution THEN deficit ELSE contribution
    IN  IF deficit =< 0 \/ needed =< 0 \/ daysUntilTarget =< 0 \/ affected =< 0 THEN 0
        ELSE Ceiling(affected * daysUntilTarget, needed)

calculateRiskLevel(canAfford, before, after) ==
    CASE ~canAfford -> "over"
      [] canAfford /\ (before =< 0 \/ 2 * after < before) -> "tight"
      [] OTHER -> "safe"

simulatePurchase(summary, amount, needed, contribution, daysUntilTarget) ==
    LET after == summary.availableBalance - amount
        daily == calculateDailyAllowance(after, summary.daysRemaining)
    IN  [canAfford |-> after >= 0, remainingAfter |-> after, dailyAllowanceAfter |-> daily,
         delayDays |-> calculateGoalDelayDays(needed, contribution, AtLeastZero(-after),
                                              daysUntilTarget),
         riskLevel |-> calculateRiskLevel(after >= 0, summary.dailyAllowance, daily)]

=============================================================================
