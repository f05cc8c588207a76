---------------------------- MODULE Subscriptions ----------------------------
(***************************************************************************)
(* The detector of subscriptions (subscriptions.ts): which series of        *)
(* expenses look like one, what they cost, and which are covered already.   *)
(*                                                                         *)
(* An expense is a record with date, amount, note, category, status, linked *)
(* (to a rule) and beforeFinso.  A note has the words that are left when    *)
(* digits, marks and punctuation are dropped (NULL: none), and its text.    *)
(***************************************************************************)
EXTENDS Recurrence, SequencesExt

NULL == "null"
NoNote == [words |-> NULL, text |-> NULL]
NoChange == [from |-> 0, to |-> 0, since |-> 0, yearlyDelta |-> 0]

Cadence(single, gap, average, minPayments, maxAgeDays, perYear) ==
    [single |-> single, gap |-> gap, average |-> average, minPayments |-> minPayments,
     maxAgeDays |-> maxAgeDays, perYear |-> perYear]

CADENCES ==
    [WEEKLY  |-> Cadence(5..9, 12..16, 6..8, 4, 14, 52),
     MONTHLY |-> Cadence(22..38, 50..70, 26..34, 3, 45, 12),
     YEARLY  |-> Cadence(350..380, {}, 350..380, 2, 400, 1)]

FREQUENCIES == DOMAIN CADENCES

normalizeSubscriptionName(note) == note.words

Distance(a, b) == IF a < b THEN b - a ELSE a - b

isSamePrice(previous, next) ==
    \/ Distance(previous, next) =< 50
    \/ Distance(previous, next) * 100 =< previous * 5

subscriptionCost(amount, frequency, interval) ==
    LET yearly == RoundedUp(amount * CADENCES[frequency].perYear, interval)
    IN  [yearly |-> yearly, monthly |-> RoundedUp(yearly, 12)]

-----------------------------------------------------------------------------
(* Prices.                                                                  *)

(* A payment at the price of the last level joins it.  After a level of one *)
(* payment, one at the price before it makes that one an exception.         *)
AddToLevels(levels, payment) ==
    LET n == Len(levels)
        Fits(i) == i >= 1 /\ isSamePrice(Last(levels[i]).amount, payment.amount)
    IN  IF Fits(n) THEN [levels EXCEPT ![n] = Append(@, payment)]
        ELSE IF Fits(n - 1) /\ Len(levels[n]) = 1
        THEN Append(SubSeq(levels, 1, n - 2), levels[n - 1] \o levels[n] \o <<payment>>)
        ELSE Append(levels, <<payment>>)

priceLevels(sorted) == FoldLeft(AddToLevels, <<>>, sorted)

byDate(payments) == SortSeq(payments, LAMBDA a, b : a.date < b.date)

detectPriceChange(payments, frequency, interval) ==
    LET levels == priceLevels(byDate(payments))
        n == Len(levels)
        from == Last(levels[n - 1]).amount
        to == Last(levels[n]).amount
    IN  IF n < 2 THEN NoChange
        ELSE [from |-> from, to |-> to, since |-> levels[n][1].date,
              yearlyDelta |-> subscriptionCost(to, frequency, interval).yearly
                                - subscriptionCost(from, frequency, interval).yearly]

(* Expenses of similar amounts, from the smallest.                          *)
AddToClusters(clusters, expense) ==
    LET n == Len(clusters) IN
    IF n >= 1 /\ isSamePrice(clusters[n][1].amount, expense.amount)
    THEN [clusters EXCEPT ![n] = Append(@, expense)]
    ELSE Append(clusters, <<expense>>)

priceClusters(expenses) ==
    FoldLeft(AddToClusters, <<>>, SortSeq(expenses, LAMBDA a, b : a.amount < b.amount))

-----------------------------------------------------------------------------
(* Rhythm.                                                                  *)

(* Mutant: an interval with a payment left out belongs to no cadence.       *)
cyclesOfMutant(interval, cadence) == IF interval \in cadence.single THEN 1 ELSE 0

(* 1: the next payment; 2: one is left out between; 0: not this cadence.    *)
cyclesOf(interval, cadence) ==
    CASE interval \in cadence.single -> 1
      [] interval \in cadence.gap -> 2
      [] OTHER -> 0

Cycles(sorted, cadence) ==
    [i \in 1..(Len(sorted) - 1) |->
        cyclesOf(sorted[i + 1].date - sorted[i].date, cadence)]

(* The longest regular end of the history, with one payment left out.       *)
trailingRun(sorted, cadence) ==
    LET cycles == Cycles(sorted, cadence)
        Regular(k) ==
            /\ \A i \in k..Len(cycles) : cycles[i] # 0
            /\ \A i, j \in k..Len(cycles) : cycles[i] = 2 /\ cycles[j] = 2 => i = j
    IN  SubSeq(sorted, Min({k \in 1..Len(sorted) : Regular(k)}), Len(sorted))

averageFits(run, cadence) ==
    LET cycles == FoldLeft(LAMBDA sum, n : sum + (IF n = 2 THEN 2 ELSE 1), 0,
                           Cycles(run, cadence))
        span == Last(run).date - run[1].date
    IN  Min(cadence.average) * cycles =< span /\ span =< Max(cadence.average) * cycles

(* Of an even number of days, the later one in the middle.                  *)
UpperMedian(days) == SortSeq(days, LAMBDA a, b : a < b)[Len(days) \div 2 + 1]

nextSchedule(run, latest, frequency) ==
    LET day == UpperMedian([i \in DOMAIN run |-> dayOf(run[i].date)])
        step == IF frequency = "MONTHLY" THEN 1 ELSE 12
    IN  IF frequency = "WEEKLY"
        THEN [frequency |-> frequency, interval |-> 1, startDate |-> latest + 7,
              dayOfMonth |-> 0, dayOfWeek |-> dayOfWeekOf(latest)]
        ELSE [frequency |-> frequency, interval |-> 1,
              startDate |-> clampedDayInMonth(monthIndexOf(latest) + step, day),
              dayOfMonth |-> day, dayOfWeek |-> 0]

-----------------------------------------------------------------------------
(* Detection.                                                               *)

NoSeries == {}

OrElse(series, other) == IF series # NoSeries THEN series ELSE other

(* The end of the history at the last two prices.                           *)
LastTwoPrices(run) ==
    LET levels == priceLevels(run) IN
    FlattenSeq(SubSeq(levels, laterOf(1, Len(levels) - 1), Len(levels)))

detectInGroup(key, named, expenses, asOf) ==
    LET sorted == byDate(expenses)
        latest == Last(sorted)
        interval == latest.date - sorted[Len(sorted) - 1].date
        frequencies == {f \in FREQUENCIES : cyclesOf(interval, CADENCES[f]) # 0}
        frequency == CHOOSE f \in frequencies : TRUE
        cadence == CADENCES[frequency]
        run == LastTwoPrices(trailingRun(sorted, cadence))
        schedule == nextSchedule(run, latest.date, frequency)
    IN  IF \/ Len(sorted) < 2
           \/ frequencies = {}
           \/ ~named /\ frequency # "MONTHLY"
           \/ Len(run) < cadence.minPayments
           \/ ~averageFits(run, cadence)
           \/ asOf - latest.date > cadence.maxAgeDays
        THEN NoSeries
        ELSE {[key |-> key, name |-> IF named THEN latest.note ELSE NoNote,
               category |-> latest.category, frequency |-> frequency,
               amount |-> latest.amount, paymentsCount |-> Len(run), lastDate |-> latest.date,
               cost |-> subscriptionCost(latest.amount, frequency, 1),
               priceChange |-> detectPriceChange(run, frequency, 1), schedule |-> schedule]}

counts(expense, asOf) ==
    /\ expense.status = "CONFIRMED" /\ ~expense.linked
    /\ ~expense.beforeFinso /\ expense.date =< asOf

(* Named expenses belong together by name, others by amount.                *)
KeyOf(expense) ==
    LET name == normalizeSubscriptionName(expense.note) IN
    IF name = NULL THEN <<"a", expense.category, expense.amount>>
    ELSE <<"n", expense.category, name>>

detectSeries(expenses, asOf) ==
    LET counted == SelectSeq(expenses, LAMBDA e : counts(e, asOf))
        group(k) == SelectSeq(counted, LAMBDA e : KeyOf(e) = k)
        ByPrice(k) == UNION {detectInGroup(Append(k, cluster[1].amount), TRUE, cluster, asOf) :
                                cluster \in ToSet(priceClusters(group(k)))}
    IN  UNION {OrElse(detectInGroup(k, k[1] = "n", group(k), asOf),
                      IF k[1] = "n" THEN ByPrice(k) ELSE NoSeries) :
                  k \in {KeyOf(counted[i]) : i \in DOMAIN counted}}

(* An active expense rule describes the series already.                     *)
coversSeries(rule, item) ==
    \/ item.name # NoNote /\ normalizeSubscriptionName(rule.name)
                             = normalizeSubscriptionName(item.name)
    \/ /\ rule.category = item.category /\ rule.frequency = item.frequency
       /\ rule.interval = 1 /\ isSamePrice(rule.amount, item.amount)

(* The suggestions of subscriptionsOverview.                                *)
Suggested(expenses, asOf, rules, dismissedKeys) ==
    {item \in detectSeries(expenses, asOf) :
        item.key \notin dismissedKeys /\ \A rule \in rules : ~coversSeries(rule, item)}

(* SubscriptionsService.confirm: the rule it creates.                       *)
ConfirmedRule(item, name) ==
    item.schedule @@ [kind |-> "EXPENSE", name |-> name, amount |-> item.amount,
                      category |-> item.category]

=============================================================================
