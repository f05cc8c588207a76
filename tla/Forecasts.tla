------------------------------ MODULE Forecasts ------------------------------
(***************************************************************************)
(* What the engine reads from past periods: the forecast of an irregular    *)
(* income (forecast-irregular-income.ts), the state of category limits and  *)
(* the cuts it suggests in a lean period (category-limits.ts).              *)
(***************************************************************************)
EXTENDS BudgetCalendar, SequencesExt

NoCategory == 0
NoForecast == [forecast |-> -1]
NoLeanMonth == [shortfall |-> 0, candidates |-> {}, suggestions |-> {}]

Total(rows, period) ==
    FoldLeft(LAMBDA sum, row : IF period.start =< row.date /\ row.date =< period.end
                               THEN sum + row.amount ELSE sum, 0, rows)

(* The last full periods, at most limit of them, that started tracked.      *)
PastPeriods(today, periodStartDay, trackedSince, limit) ==
    LET At(n) == budgetPeriodAt(today, periodStartDay, -n)
        tracked == {n \in 1..limit : \A m \in 1..n : At(m).start >= trackedSince}
    IN  [n \in 1..Cardinality(tracked) |-> At(n)]

Median(sorted) ==
    LET mid == Len(sorted) \div 2 IN
    IF Len(sorted) % 2 = 1 THEN sorted[mid + 1]
    ELSE (sorted[mid] + sorted[mid + 1]) \div 2

(* Mutant: the rank is rounded up.                                          *)
RankMutant(n) == (n + 2) \div 4 + 1
(* Nearest rank of the 25th percentile, downwards.                          *)
Rank(n) == (n - 1) \div 4 + 1

FromTotals(totals) ==
    IF Len(totals) < 3 THEN NoForecast
    ELSE [forecast |-> totals[Rank(Len(totals))], periods |-> Len(totals),
          low |-> totals[1], high |-> Last(totals), typical |-> Median(totals)]

SortedTotals(entries, periods) ==
    SortSeq([n \in DOMAIN periods |-> Total(entries, periods[n])], LAMBDA a, b : a < b)

forecastIrregularIncome(entries, today, periodStartDay, trackedSince) ==
    FromTotals(SortedTotals(entries, PastPeriods(today, periodStartDay, trackedSince, 6)))

(* The line of one active irregular source; none without a forecast.        *)
Line(forecast, received) ==
    IF forecast = NoForecast THEN {}
    ELSE {[received |-> received,
           notYetReceived |-> laterOf(0, forecast.forecast - received)] @@ forecast}

incomeForecast(entries, today, periodStartDay, trackedSince) ==
    Line(forecastIrregularIncome(entries, today, periodStartDay, trackedSince),
         Total(entries, currentBudgetPeriod(today, periodStartDay)))

-----------------------------------------------------------------------------
(* Category limits.  An expense has category, amount, date, status, linked  *)
(* (to a rule) and beforeFinso; limits map categories to amounts.           *)

CategoryTotal(expenses, category, period) ==
    Total(SelectSeq(expenses, LAMBDA e : e.category = category), period)

categoryLimitStatus(limit, category, expenses, today, periodStartDay) ==
    LET period == currentBudgetPeriod(today, periodStartDay)
        confirmed == SelectSeq(expenses, LAMBDA e : e.status = "CONFIRMED")
        spent == CategoryTotal(confirmed, category, period)
        left == limit - spent
    IN  [spent |-> spent, left |-> left,
         perDayLeft |-> IF left > 0 THEN left \div (period.end - today + 1) ELSE 0,
         state |-> IF left < 0 THEN "over" ELSE IF left * 5 =< limit THEN "near" ELSE "ok"]

(* What a full period usually takes in each category, by choice.            *)
UsualIn(periods, expenses) ==
    LET span == [start |-> Last(periods).start, end |-> periods[1].end]
        chosen == SelectSeq(expenses,
            LAMBDA e : e.status = "CONFIRMED" /\ ~e.linked /\ ~e.beforeFinso
                       /\ span.start =< e.date /\ e.date =< span.end)
    IN  IF periods = <<>> THEN {}
        ELSE {[category |-> c, usual |-> CategoryTotal(chosen, c, span) \div Len(periods)] :
                 c \in {chosen[i].category : i \in DOMAIN chosen} \ {NoCategory}}

usualSpending(expenses, today, periodStartDay, trackedSince) ==
    UsualIn(PastPeriods(today, periodStartDay, trackedSince, 3), expenses)

(* The categories worth a cut: the three that take most.                    *)
Candidates(usual) ==
    LET worth == {line \in usual : line.usual >= 5000}
        dearer(line) ==
            {other \in worth : \/ other.usual > line.usual
                              \/ (other.usual = line.usual /\ other.category < line.category)}
    IN  {line \in worth : Cardinality(dearer(line)) < 3}

(* Mutant: to the nearest 10 zl.                                            *)
FullTensMutant(amount) == ((amount + 500) \div 1000) * 1000
FullTens(amount) == (amount \div 1000) * 1000

Cut(usual, shortfall, total) ==
    Min({RoundedUp(shortfall * usual, total), RoundedUp(usual * 30, 100)})

(* A limit in full 10 zl, unless one as low is set already.                 *)
SuggestedLimits(candidates, shortfall, limits) ==
    LET total == SumFunction([line \in candidates |-> line.usual])
        Proposed(line) == FullTens(line.usual - Cut(line.usual, shortfall, total))
        Limited(line) ==
            line.category \in DOMAIN limits /\ limits[line.category] =< Proposed(line)
    IN  {[category |-> line.category, usual |-> line.usual, suggested |-> Proposed(line)] :
            line \in {l \in candidates : ~Limited(l)}}

CutsFor(shortfall, candidates, limits) ==
    [shortfall |-> shortfall, candidates |-> candidates,
     suggestions |-> SuggestedLimits(candidates, shortfall, limits)]

leanMonth(forecasts, expenses, limits, today, periodStartDay, trackedSince) ==
    LET counted == SumFunction([f \in forecasts |-> laterOf(f.received, f.forecast)])
        typical == SumFunction([f \in forecasts |-> f.typical])
    IN  IF counted * 100 >= typical * 85 THEN NoLeanMonth
        ELSE CutsFor(typical - counted,
                     Candidates(usualSpending(expenses, today, periodStartDay, trackedSince)),
                     limits)

-----------------------------------------------------------------------------
(* The limits of whoever takes every suggestion.                            *)
LimitsTaken(limits, suggestions) ==
    LET suggestedFor == {s.category : s \in suggestions} IN
    [c \in suggestedFor \cup DOMAIN limits |->
        IF c \in suggestedFor THEN (CHOOSE s \in suggestions : s.category = c).suggested
                             ELSE limits[c]]

(* They save the shortfall, or what giving up 30% can, and ask for no more. *)
MakesUp(lean, taken) ==
    LET limited == {l \in lean.candidates : l.category \in DOMAIN taken}
        saved == SumFunction([l \in limited |-> l.usual - taken[l.category]])
        most == SumFunction([l \in lean.candidates |-> (l.usual * 30) \div 100])
    IN  /\ saved >= Min({lean.shortfall, most})
        /\ \A s \in lean.suggestions : 0 < s.suggested /\ 10 * s.suggested >= 7 * s.usual - 10000

=============================================================================
