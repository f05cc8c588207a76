--------------------------- MODULE MCRecurringRules -------------------------
(* An instance of RecurringRules for TLC: winter and spring of a leap year. *)
EXTENDS PastSpending

January2023 == 2023 * 12
March2025 == 2025 * 12 + 2
January1 == 365      \* 1 January 2024

Rhythm(frequency, interval, dayOfMonth, dayOfWeek, week) ==
    [frequency |-> frequency, interval |-> interval, dayOfMonth |-> dayOfMonth,
     dayOfWeek |-> dayOfWeek, week |-> week]

Weekly == Rhythm("WEEKLY", 1, 0, 0, "this")
EveryTwoWeeks == Rhythm("WEEKLY", 2, 0, 5, "this")
EveryTwoWeeksFromNext == Rhythm("WEEKLY", 2, 0, 1, "next")
FirstOfMonth == Rhythm("MONTHLY", 1, 1, 0, "this")
LastOfMonth == Rhythm("MONTHLY", 1, 31, 0, "this")
EveryTwoMonths == Rhythm("MONTHLY", 2, 30, 0, "this")
Yearly == Rhythm("YEARLY", 1, 29, 0, "this")

SevenCadences ==
    {Weekly, EveryTwoWeeks, EveryTwoWeeksFromNext, FirstOfMonth, LastOfMonth, EveryTwoMonths, Yearly}

Days1And10And28 == {1, 10, 28}
LateJanuaryAndFebruary == {January1 + 27, January1 + 30, January1 + 31 + 9}

LateMarch == January1 + 31 + 29 + 20

Story(count, missing, strays, price, named, twin) ==
    [count |-> count, missing |-> missing, strays |-> strays, price |-> price,
     named |-> named, twin |-> twin]
Prices == {"same", "wobbles", "rose", "rose twice", "once different"}
Strays == {"none", "by turns", "last early", "last late"}
MCStories ==
    {Story(n, k, s, p, TRUE, FALSE) : n \in 2..5, k \in {0, 2, 3}, s \in Strays, p \in Prices}
        \cup {Story(n, k, s, "same", FALSE, FALSE) : n \in 2..4, k \in {0, 3}, s \in Strays}
        \cup {Story(n, 0, "none", "same", TRUE, TRUE) : n \in 3..4}
MCOpenings == {January1 + 27, January1 + 31 + 9, January1 + 31 + 16, LateMarch}
MCTrackedFrom == {0, January1 - 150, January1 - 60}
=============================================================================
