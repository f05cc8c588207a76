---------------------------- MODULE PastSpending -----------------------------
(***************************************************************************)
(* What Finso concludes from a history imported on the day of onboarding:   *)
(* the payments and the incomes of the rule in RecurringRules, as its dates *)
(* went by before Finso knew of them.                                       *)
(***************************************************************************)
EXTENDS RecurringRules, Subscriptions, Forecasts

CONSTANTS
    Openings,       \* days on which the user looks, from the first day on
    Stories,        \* how the payments of the past strayed from the dates
    TrackedFrom     \* days since when Finso may have kept the budget

Listed(S) == FoldSet(LAMBDA x, listed : Append(listed, x), <<>>, S)

FirstDay == changes = 0 /\ onboardedOn = today

(* The dates of the rule's rhythm before the rule, newest first.            *)
PastDates ==
    SortSeq(Listed({date \in 0..today : InPhase(rule, date)}), LAMBDA a, b : a > b)

-----------------------------------------------------------------------------
(* Payments as a story tells them.  Payment i is the i-th from the end.     *)

Price(story, i) ==
    CASE story.price = "same" -> 3000
      [] story.price = "wobbles" -> 3000 + 100 * (i % 2)
      [] story.price = "rose" -> IF i =< 2 THEN 3600 ELSE 3000
      [] story.price = "rose twice" -> IF i = 1 THEN 5000 ELSE IF i =< 3 THEN 3600 ELSE 3000
      [] story.price = "once different" -> IF i = 2 THEN 3600 ELSE 3000

(* A day early or late, over the end of a month too, but not after today.   *)
Shift(story, i) ==
    CASE story.strays = "none" -> 0
      [] story.strays = "by turns" -> IF i % 2 = 1 THEN -1 ELSE 1
      [] story.strays = "last early" -> IF i = 1 THEN -1 ELSE 0
      [] story.strays = "last late" -> IF i = 1 THEN 1 ELSE 0

Strayed(story, i, date) ==
    IF date + Shift(story, i) \in 0..today THEN date + Shift(story, i) ELSE date

Note(story, i) ==
    IF story.named THEN [words |-> "spotify", text |-> i] ELSE NoNote

Payment(date, amount, note) ==
    [date |-> date, amount |-> amount, note |-> note, category |-> 1,
     status |-> "CONFIRMED", linked |-> FALSE, beforeFinso |-> FALSE]

PaidCycles(story) ==
    IF story.missing \in 2..story.count THEN (1..(story.count + 1)) \ {story.missing}
    ELSE 1..story.count

Paid(story, dates) ==
    {Payment(Strayed(story, i, dates[i]), Price(story, i), Note(story, i)) :
        i \in PaidCycles(story)}
    \cup (IF story.twin
          THEN {Payment(dates[i] - 3, 500, Note(story, i)) : i \in PaidCycles(story)} ELSE {})

(* What a reader of the story calls a subscription.                         *)
LooksLikeOne(story, last, asOf) ==
    LET cadence == CADENCES[rule.frequency]
        yearly == rule.frequency = "YEARLY"
    IN  /\ rule.interval = 1
        /\ story.named \/ rule.frequency = "MONTHLY"
        /\ yearly => story.missing \notin 2..story.count
        /\ (IF story.price = "rose twice" THEN Cardinality(PaidCycles(story) \cap 1..3)
            ELSE story.count) >= cadence.minPayments
        /\ asOf - last =< cadence.maxAgeDays

(* The count of what is suggested, and what follows when one is confirmed.  *)
OneEach(found, story, last, asOf) ==
    Cardinality(found) =
        Cardinality({day \in {last} \cup (IF story.twin THEN {last - 3} ELSE {}) :
                        LooksLikeOne(story, day, asOf)})

FirstAfter(day) == Min({date \in Dates : date > day /\ InPhase(rule, date)})

(* Every payment was made in the month of its date (weeks know no months). *)
KeptToMonths(story, dates) ==
    \/ rule.frequency = "WEEKLY"
    \/ \A i \in PaidCycles(story) :
          monthIndexOf(Strayed(story, i, dates[i])) = monthIndexOf(dates[i])

(* The dates on which the confirmed rule may begin: the next one of the    *)
(* series or, when payments strayed over the end of a month, also the one  *)
(* paid last or the one after the next.                                    *)
Beginnings(story, dates) ==
    LET next == FirstAfter(dates[1]) IN
    IF KeptToMonths(story, dates) THEN {next} ELSE {dates[1], next, FirstAfter(next)}

Settles(confirmed, story, paid, last, dates, asOf) ==
    /\ Suggested(paid, asOf, {confirmed}, {}) = {}
    /\ confirmed.startDate > last
    /\ InPhase(confirmed, confirmed.startDate)
    /\ ~story.twin =>
          \E date \in Beginnings(story, dates) : Distance(confirmed.startDate, date) =< 2

FoundAndSettled(story, paid, last, dates, asOf) ==
    \A found \in {Suggested(paid, asOf, {}, {})} :
        /\ OneEach(found, story, last, asOf)
        /\ \A item \in found :
              Settles(ConfirmedRule(item, item.name), story, paid, last, dates, asOf)

(* A regular payment is suggested as a subscription once it was made often  *)
(* enough (subscriptions.ts:325-419), though some of them came a day early  *)
(* or late, one was not recorded, or the price changed; nothing else is.    *)
(* Confirmed, it is not suggested again, and it begins after the last       *)
(* payment.  If every payment was made in the month of its date, it begins, *)
(* to within two days, with the next one of the series: none that was made  *)
(* already, and none is left out.  nextSchedule goes by the month of the last payment and the    *)
(* median day (subscriptions.ts:507-514), so payments over the end of a     *)
(* month may make it ask for the last one again or leave one out; it never  *)
(* repeats or leaves out more.                                              *)
SubscriptionIsFound ==
    (FirstDay /\ rule.kind = "EXPENSE") =>
        \A dates \in {PastDates}, story \in Stories, asOf \in Openings :
            (asOf >= today /\ Len(dates) >= Max(PaidCycles(story))) =>
                \A paid \in {Listed(Paid(story, dates))} :
                    FoundAndSettled(story, paid, Max({paid[i].date : i \in DOMAIN paid}),
                         dates, asOf)

-----------------------------------------------------------------------------
(* Incomes of the rule's dates, different every month.                      *)
Incomes(dates, step) ==
    [i \in DOMAIN dates |->
        [date |-> dates[i], amount |-> 700 * ((monthIndexOf(dates[i]) * step) % 5)]]

(* The forecast of an irregular income is the greatest total of a past      *)
(* period that more than three quarters of them reached, half reached what  *)
(* is called typical, and the budget counts what came in or the forecast,   *)
(* whichever is more (forecast-irregular-income.ts:43-112).                 *)
ForecastIsCautious ==
    (FirstDay /\ rule.kind = "INCOME") =>
        LET dates == PastDates IN
        \A step \in 1..3, asOf \in Openings, since \in TrackedFrom :
            LET entries == Incomes(dates, step)
                past == {n \in 1..6 : budgetPeriodAt(asOf, periodStartDay, -n).start >= since}
                total == [n \in past |-> Total(entries, budgetPeriodAt(asOf, periodStartDay, -n))]
                Reach(t) == Cardinality({n \in past : total[n] >= t})
                often == {t \in {total[n] : n \in past} : 4 * Reach(t) > 3 * Cardinality(past)}
            IN  IF Cardinality(past) < 3
                THEN incomeForecast(entries, asOf, periodStartDay, since) = {}
                ELSE \A line \in incomeForecast(entries, asOf, periodStartDay, since) :
                        /\ line.forecast = Max(often)
                        /\ 2 * Reach(line.typical) >= Cardinality(past)
                        /\ line.received + line.notYetReceived
                              = laterOf(line.received, line.forecast)

-----------------------------------------------------------------------------
(* Spending by choice in four categories beside that of the rule.           *)
Spending ==
    LET Row(m, c) == [Payment(MonthStart[m] + 4 * c, 1000 * (c + (m % 3)) * c, NoNote)
                        EXCEPT !.category = c]
    IN  Listed({Row(m, c) : m \in FirstMonth..monthIndexOf(today), c \in 1..4})

UsesUp(limit, category, spending, asOf, days) ==
    LET Status(rows) == categoryLimitStatus(limit, category, rows, asOf, periodStartDay) IN
    \A now \in {Status(spending)} :
        now.left >= 0 =>
            Status(Append(spending, [Payment(asOf, now.perDayLeft * days, NoNote)
                                        EXCEPT !.category = category])).left \in 0..(days - 1)

DaysLeft(asOf) == currentBudgetPeriod(asOf, periodStartDay).end - asOf + 1

(* In a lean period, whoever keeps to the limits they have and to those     *)
(* suggested to them makes up for the shortfall, as far as giving up 30% of *)
(* the usual spending in the three dearest categories can; a suggestion     *)
(* that was taken is not made again; and whoever spends in a category what  *)
(* its limit leaves for a day on each day to the end of the period uses the *)
(* limit up, but for the groszy, and no more (category-limits.ts:56-167).   *)
CutsMakeUp ==
    (FirstDay /\ rule.kind = "INCOME") =>
        \A spending \in {Spending}, asOf \in Openings,
           received \in {0, 4000, 9000}, own \in {3000, 12000} :
            LET income == [received |-> received, forecast |-> 1000, typical |-> 14000]
                limits == [c \in {2, 4} |-> own]
                Lean(set) == leanMonth({income}, spending, set, asOf, periodStartDay, 0)
            IN  \A lean \in {Lean(limits)} : \A taken \in {LimitsTaken(limits, lean.suggestions)} :
                    /\ MakesUp(lean, taken)
                    /\ Lean(taken).suggestions = {}
                    /\ \A c \in DOMAIN taken :
                          UsesUp(taken[c], c, spending, asOf, DaysLeft(asOf))

=============================================================================
