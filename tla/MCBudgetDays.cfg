SPECIFICATION BudgetSpec
CONSTANTS
    FirstMonth <- January2025
    LastMonth <- June2025
    FirstWeekday = 3
    rent = rent
    pay = pay
    row1 = row1
    row2 = row2
    None = None
    BeforeFinso = BeforeFinso
    Payments = {rent}
    Incomes = {pay}
    ScheduleOf <- Schedules
    ExpectedOf <- Expected
    TrackedSinceOf <- Tracked
    StartDay = 10
    FirstDay <- March7
    LastDay <- March11
    GoalNeeds = 9
    GoalDate <- March8
    Amounts = {1, 7}
    RowIds <- Rows
SYMMETRY AnyRows
CHECK_DEADLOCK FALSE
PROPERTY OptimisticIsExact
PROPERTY AnswersAreFair
PROPERTY PaymentsAreNotForgotten
PROPERTY PromiseKept
