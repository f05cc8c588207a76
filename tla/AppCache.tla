------------------------------ MODULE AppCache ------------------------------
(***************************************************************************)
(* What the phone's screens show, and what the server has stored.           *)
(*                                                                         *)
(* The app keeps answers of the API in one query cache and asks again for  *)
(* those it invalidates.  The quick add (save-expense.ts) also changes the *)
(* cached budget and list itself, before the server answers, and puts them *)
(* back on a failure or an undo.  Every other screen sends a change and    *)
(* invalidates the keys its mutation names when it succeeds.               *)
(*                                                                         *)
(* A table is a set of what was done to it: `rows' holds the quick-added   *)
(* expenses that are stored and not in the trash, `done' the changes made  *)
(* by screens.  An answer of the API is the part of both that its query    *)
(* reads, as of the moment the server read it.                             *)
(***************************************************************************)
EXTENDS Integers, FiniteSets

CONSTANTS
    Expenses,       \* expenses the user types into the quick add
    Submits,        \* bound: submissions of them, retries included
    Changes,        \* bound: changes made on other screens
    MaxFaults,      \* bound: calls that fail
    MaxRefetches,   \* bound: refetches nobody asked for (reconnect, remount)
    MaxMounted      \* bound: queries on screen at a time

Nobody == 0
ASSUME SubmitsAreIds == Submits \subseteq Nat \ {Nobody}

VARIABLES
    mounted,    \* queries on screen; only these are refetched
    cache,      \* query -> what its screen shows
    fetch,      \* query -> the request for it under way
    submit,     \* submission of a quick add -> its handler
    notice,     \* the one notice of the dashboard
    change,     \* change made on a screen -> its mutation
    rows,       \* server: stored expenses that are not in the trash
    keys,       \* server: idempotency keys (one per expense) already used
    done,       \* server: changes applied
    faults, refetches,  \* bounded counters
    told        \* expenses a failure was announced for, and nothing since

vars == <<mounted, cache, fetch, submit, notice, change, rows, keys, done,
          faults, refetches, told>>

-----------------------------------------------------------------------------
(* Queries, what they read and what is invalidated together.                *)

BudgetKeys == {"budget", "limits"}      \* every key under "budget"
(* Mutant: a covered subscription is asked for again later.                 *)
RefreshBudgetMutant == BudgetKeys \cup {"simulation"}
RefreshBudget == BudgetKeys \cup {"simulation", "subscriptions"}

(* Mutant: the keys the quick add itself has changed.                       *)
RefreshFromServerMutant == {"budget", "transactions", "subscriptions"}
RefreshFromServer == BudgetKeys \cup {"transactions", "subscriptions"}
RefreshAfterExpenseChange == RefreshBudget \cup {"transactions"}

(* The tables whose rows can change the answer of a query.                  *)
SnapshotReads == {"transactions", "entries", "sources", "rules", "goals", "payday"}
LimitsRead == {"transactions", "entries", "sources", "limits", "payday"}
SubscriptionsRead == {"transactions", "rules", "uses", "dismissals"}
ExpensesRead == {"transactions"}
ConfirmationsRead == SnapshotReads \ {"goals"}

Reads == [
    budget        |-> SnapshotReads,
    simulation    |-> SnapshotReads,
    limits        |-> LimitsRead,
    subscriptions |-> SubscriptionsRead,
    transactions  |-> ExpensesRead,
    confirmations |-> ConfirmationsRead,
    sources       |-> {"sources"},
    rules         |-> {"rules"},
    goals         |-> {"goals"},
    templates     |-> {"templates"}]

Queries == DOMAIN Reads

(* Screens, as the queries they ask.                                        *)
Dashboard == {"budget", "transactions", "confirmations", "subscriptions", "limits"}
AddExpenseScreen == {"budget", "templates", "transactions"}
SimulatorTab == {"simulation", "goals"}
GoalsTab == {"goals", "budget"}
HistoryScreen == {"transactions", "budget"}
SubscriptionsScreen == {"subscriptions"}
CommitmentList == {"rules"}
IncomeList == {"sources", "budget"}
LimitList == {"limits"}
TemplateList == {"templates"}

Screens == {Dashboard, AddExpenseScreen, SimulatorTab, GoalsTab, HistoryScreen,
            SubscriptionsScreen, CommitmentList, IncomeList, LimitList, TemplateList}

(* A mutation of a screen: the tables its request changes, and the queries  *)
(* it invalidates (or overwrites with the answer) when it succeeded.        *)
SettingsForm(table, list) ==
    [writes |-> {table}, refreshes |-> {list} \cup RefreshBudget]
GoalForm == SettingsForm("goals", "goals")
GoalTrash == [writes |-> {"goals"}, refreshes |-> {"goals"} \cup RefreshBudget]
GoalRestore == GoalTrash
CommitmentForm == SettingsForm("rules", "rules")
IncomeForm == [SettingsForm("sources", "sources") EXCEPT !.writes = @ \cup {"rules"}]
LimitForm == SettingsForm("limits", "limits")
TemplateForm == SettingsForm("templates", "templates")
LeanMonthCard == [writes |-> {"limits"}, refreshes |-> {"limits"}]
ExpenseForm ==
    [writes |-> {"transactions"}, refreshes |-> RefreshAfterExpenseChange]
ExpenseTrash ==
    [writes |-> {"transactions"}, refreshes |-> RefreshAfterExpenseChange]
ExpenseRestore == ExpenseTrash
ImportScreen ==
    [writes |-> {"transactions"}, refreshes |-> RefreshAfterExpenseChange]
AnswerPayment ==
    [writes |-> {"transactions"}, refreshes |-> {"confirmations"} \cup RefreshBudget]
AnswerIncome ==
    [writes |-> {"entries"}, refreshes |-> {"confirmations"} \cup RefreshBudget]
PaydaySettings ==
    [writes |-> {"payday", "rules", "sources"}, refreshes |-> RefreshBudget]
SubscriptionConfirm ==
    [writes |-> {"rules"},
     refreshes |-> {"subscriptions", "rules", "confirmations"} \cup RefreshBudget]
RefreshAfterDecision == {"subscriptions"}
SubscriptionDecision ==
    [writes |-> {"dismissals"}, refreshes |-> RefreshAfterDecision]
SubscriptionUsed == [writes |-> {"uses"}, refreshes |-> RefreshAfterDecision]

Kinds == {GoalForm, GoalTrash, GoalRestore, CommitmentForm, IncomeForm, LimitForm,
          TemplateForm, LeanMonthCard, ExpenseForm, ExpenseTrash, ExpenseRestore,
          ImportScreen, AnswerPayment, AnswerIncome, PaydaySettings,
          SubscriptionConfirm, SubscriptionDecision, SubscriptionUsed}

-----------------------------------------------------------------------------
(* Items of a cached list: a row of the server, or one the app put there.   *)
FromServer(e) == [expense |-> e, local |-> Nobody]
LocalRow(e, s) == [expense |-> e, local |-> s]

NoShift == [e \in Expenses |-> 0]
Idle == [pc |-> "idle"]
NoNotice == [kind |-> "none"]
Notice(kind, s) == [kind |-> kind, of |-> s]

ReadsExpenses(q) == "transactions" \in Reads[q]

Answer(q) ==
    [items |-> IF ReadsExpenses(q) THEN {FromServer(e) : e \in rows} ELSE {},
     seen |-> {c \in done : change[c].kind.writes \cap Reads[q] # {}},
     shift |-> NoShift,
     invalid |-> FALSE]

NewSubmit == [pc |-> "new", expense |-> Nobody, call |-> "none", undone |-> FALSE,
              known |-> FALSE, delete |-> "none"]

Init ==
    /\ mounted \in {m \in SUBSET Queries :
          Cardinality(m) \in 1..MaxMounted /\ \E screen \in Screens : m \subseteq screen}
    /\ rows = {} /\ keys = {} /\ done = {} /\ told = {}
    /\ cache = [q \in Queries |-> [items |-> {}, seen |-> {}, shift |-> NoShift,
                                   invalid |-> FALSE]]
    /\ fetch = [q \in Queries |-> Idle]
    /\ submit = [s \in Submits |-> NewSubmit]
    /\ change = [c \in Changes |-> [pc |-> "new"]]
    /\ notice = NoNotice
    /\ faults = 0 /\ refetches = 0

Items == [expense : Expenses, local : Submits \cup {Nobody}]

Answers == [items : SUBSET Items, seen : SUBSET Changes, shift : [Expenses -> Int],
            invalid : BOOLEAN]

Handlers ==
    [pc : {"new", "cancelling", "sent", "saved", "failed"}, expense : Expenses \cup {Nobody},
     call : {"none", "sent", "stored"}, undone : BOOLEAN, known : BOOLEAN,
     delete : {"none", "sent", "trashed", "refused", "ok", "failed"}]

TypeOK ==
    /\ mounted \subseteq Queries /\ rows \subseteq keys /\ keys \subseteq Expenses
    /\ done \subseteq Changes /\ told \subseteq Expenses
    /\ cache \in [Queries -> Answers]
    /\ fetch \in [Queries -> [pc : {"idle", "asked"}] \cup [pc : {"read"}, answer : Answers]]
    /\ submit \in [Submits -> Handlers]
    /\ change \in [Changes -> [pc : {"new"}]
                     \cup [pc : {"sent", "applied", "ok", "failed"}, kind : Kinds]]
    /\ notice \in [kind : {"none"}]
                     \cup [kind : {"saved", "save-failed", "undo-failed"}, of : Submits]

-----------------------------------------------------------------------------
(* The query client.                                                        *)

Asked == [pc |-> "asked"]

(* invalidateQueries: mark, and start the fetch of what is on screen anew.  *)
Invalidated(q, set) == q \in set /\ q \in mounted
Invalidate(set) == fetch' = [q \in Queries |-> IF Invalidated(q, set) THEN Asked ELSE fetch[q]]
MarkedInvalid(c, set) ==
    [q \in Queries |-> IF Invalidated(q, set) THEN [c[q] EXCEPT !.invalid = TRUE] ELSE c[q]]

FetchRead(q) ==
    /\ fetch[q].pc = "asked"
    /\ fetch' = [fetch EXCEPT ![q] = [pc |-> "read", answer |-> Answer(q)]]
    /\ UNCHANGED <<mounted, cache, submit, notice, change, rows, keys, done, faults,
                   refetches, told>>

FetchDone(q) ==
    /\ fetch[q].pc = "read"
    /\ cache' = [cache EXCEPT ![q] = fetch[q].answer]
    /\ fetch' = [fetch EXCEPT ![q] = Idle]
    /\ UNCHANGED <<mounted, submit, notice, change, rows, keys, done, faults, refetches, told>>

(* The retries are used up: the old answer stays and stays invalidated.     *)
FetchFails(q) ==
    /\ fetch[q].pc # "idle" /\ faults < MaxFaults
    /\ fetch' = [fetch EXCEPT ![q] = Idle]
    /\ faults' = faults + 1
    /\ UNCHANGED <<mounted, cache, submit, notice, change, rows, keys, done, refetches, told>>

(* Back online, or a screen mounted again: a refetch nobody invalidated for. *)
Refetch(q) ==
    /\ q \in mounted /\ fetch[q].pc = "idle" /\ refetches < MaxRefetches
    /\ fetch' = [fetch EXCEPT ![q] = Asked]
    /\ refetches' = refetches + 1
    /\ UNCHANGED <<mounted, cache, submit, notice, change, rows, keys, done, faults, told>>

-----------------------------------------------------------------------------
(* The quick add.                                                           *)

Cancelled == {"budget", "transactions"}

Charge(c, e, n) == [c EXCEPT !["budget"].shift[e] = @ + n]
Prepend(c, e, s) == [c EXCEPT !["transactions"].items = @ \cup {LocalRow(e, s)}]
Remove(c, item) == [c EXCEPT !["transactions"].items = @ \ {item}]

(* saveExpense, or a tap on the retry of its failure: cancel the fetches    *)
(* under way and wait for that.                                             *)
Begin(s, e) ==
    /\ submit[s].pc = "new"
    /\ \A t \in Submits : submit[t].pc = "new" => s <= t     \* optimisticIds
    /\ submit' = [submit EXCEPT ![s] = [NewSubmit EXCEPT !.pc = "cancelling", !.expense = e]]
    /\ fetch' = [q \in Queries |-> IF q \in Cancelled THEN Idle ELSE fetch[q]]
    /\ UNCHANGED <<mounted, cache, notice, change, rows, keys, done, faults, refetches, told>>

SaveExpense(s, e) == Begin(s, e) /\ \A t \in Submits : submit[t].expense # e

RetrySave(s) ==
    /\ notice.kind = "save-failed"
    /\ Begin(s, submit[notice.of].expense)

(* The numbers change on the screen, the notice appears, the call leaves.   *)
Show(s) ==
    LET e == submit[s].expense IN
    /\ submit[s].pc = "cancelling"
    /\ cache' = Prepend(Charge(cache, e, 1), e, s)
    /\ notice' = Notice("saved", s)
    /\ submit' = [submit EXCEPT ![s].pc = "sent", ![s].call = "sent"]
    /\ told' = told \ {e}
    /\ UNCHANGED <<mounted, fetch, change, rows, keys, done, faults, refetches>>

(* The API stores the expense, or finds that its key was used (Idempotency). *)
Store(s) ==
    LET e == submit[s].expense IN
    /\ submit[s].call = "sent"
    /\ submit' = [submit EXCEPT ![s].call = "stored"]
    /\ rows' = IF e \in keys THEN rows ELSE rows \cup {e}
    /\ keys' = keys \cup {e}
    /\ UNCHANGED <<mounted, cache, fetch, notice, change, done, faults, refetches, told>>

(* Mutant: the undo of a save under way only takes it off the screen.       *)
SavedMutant(s) ==
    /\ submit[s].pc = "sent" /\ submit[s].call = "stored"
    /\ submit' = [submit EXCEPT ![s].pc = "saved", ![s].known = TRUE]
    /\ cache' = MarkedInvalid(cache, RefreshFromServer)
    /\ Invalidate(RefreshFromServer)
    /\ UNCHANGED <<mounted, notice, change, rows, keys, done, faults, refetches, told>>

(* The answer arrives: the numbers of the server are asked for, or, if the  *)
(* user has undone the save meanwhile, the row is deleted first.            *)
Saved(s) ==
    /\ submit[s].pc = "sent" /\ submit[s].call = "stored"
    /\ submit' = [submit EXCEPT ![s].pc = "saved", ![s].known = TRUE,
                                ![s].delete = IF submit[s].undone THEN "sent" ELSE @]
    /\ IF submit[s].undone
       THEN UNCHANGED <<cache, fetch>>
       ELSE /\ cache' = MarkedInvalid(cache, RefreshFromServer)
            /\ Invalidate(RefreshFromServer)
    /\ UNCHANGED <<mounted, notice, change, rows, keys, done, faults, refetches, told>>

(* The call fails: before the API, after it, or with the API still at work. *)
SaveFails(s) ==
    LET e == submit[s].expense
        back == IF submit[s].undone THEN cache
                ELSE Remove(Charge(cache, e, -1), LocalRow(e, s)) IN
    /\ submit[s].pc = "sent" /\ faults < MaxFaults
    /\ faults' = faults + 1
    /\ \E reached \in BOOLEAN :
         submit' = [submit EXCEPT ![s].pc = "failed",
                                  ![s].call = IF reached THEN @ ELSE "none"]
    /\ notice' = Notice("save-failed", s)
    /\ cache' = MarkedInvalid(back, RefreshFromServer)
    /\ Invalidate(RefreshFromServer)
    /\ told' = told \cup {e}
    /\ UNCHANGED <<mounted, change, rows, keys, done, refetches>>

(* Cofnij.  The row is deleted now if the answer gave its id, later if not. *)
Undo(s) ==
    LET e == submit[s].expense
        id == IF submit[s].known THEN FromServer(e) ELSE LocalRow(e, s) IN
    /\ notice = Notice("saved", s)
    /\ notice' = NoNotice
    /\ cache' = Remove(Remove(Charge(cache, e, -1), LocalRow(e, s)), id)
    /\ submit' = [submit EXCEPT ![s].undone = TRUE,
                                ![s].delete = IF submit[s].known THEN "sent" ELSE @]
    /\ UNCHANGED <<mounted, fetch, change, rows, keys, done, faults, refetches, told>>

(* DELETE /transactions/:id finds the row, or answers 404.                  *)
Trash(s) ==
    LET e == submit[s].expense IN
    /\ submit[s].delete = "sent"
    /\ submit' = [submit EXCEPT ![s].delete = IF e \in rows THEN "trashed" ELSE "refused"]
    /\ rows' = rows \ {e}
    /\ UNCHANGED <<mounted, cache, fetch, notice, change, keys, done, faults, refetches, told>>

DeleteEnds(s, how) ==
    /\ submit' = [submit EXCEPT ![s].delete = how]
    /\ cache' = MarkedInvalid(cache, RefreshFromServer)
    /\ Invalidate(RefreshFromServer)
    /\ UNCHANGED <<mounted, change, rows, keys, done, refetches>>

Deleted(s) ==
    /\ submit[s].delete = "trashed"
    /\ DeleteEnds(s, "ok")
    /\ UNCHANGED <<notice, faults, told>>

DeleteFails(s) ==
    /\ \/ submit[s].delete = "refused" /\ UNCHANGED faults
       \/ submit[s].delete \in {"sent", "trashed"} /\ faults < MaxFaults /\ faults' = faults + 1
    /\ DeleteEnds(s, "failed")
    /\ notice' = Notice("undo-failed", s)
    /\ told' = told \cup {submit[s].expense}

(* The retry of a delete: the notice stays where it is.                     *)
RetryDelete(s) ==
    /\ notice = Notice("undo-failed", s) /\ submit[s].delete = "failed"
    /\ faults < MaxFaults       \* bound: no retry after the last failure
    /\ submit' = [submit EXCEPT ![s].delete = "sent"]
    /\ UNCHANGED <<mounted, cache, fetch, notice, change, rows, keys, done, faults,
                   refetches, told>>

(* Five seconds, or Zamknij.                                                *)
Dismiss ==
    /\ notice.kind = "saved"
    /\ notice' = NoNotice
    /\ UNCHANGED <<mounted, cache, fetch, submit, change, rows, keys, done, faults,
                   refetches, told>>

-----------------------------------------------------------------------------
(* Changes made on other screens.                                           *)

Mutate(c, k) ==
    /\ change[c].pc = "new"
    /\ change' = [change EXCEPT ![c] = [pc |-> "sent", kind |-> k]]
    /\ UNCHANGED <<mounted, cache, fetch, submit, notice, rows, keys, done, faults,
                   refetches, told>>

Apply(c) ==
    /\ change[c].pc = "sent"
    /\ change' = [change EXCEPT ![c].pc = "applied"]
    /\ done' = done \cup {c}
    /\ UNCHANGED <<mounted, cache, fetch, submit, notice, rows, keys, faults, refetches, told>>

Succeed(c) ==
    /\ change[c].pc = "applied"
    /\ change' = [change EXCEPT ![c].pc = "ok"]
    /\ cache' = MarkedInvalid(cache, change[c].kind.refreshes)
    /\ Invalidate(change[c].kind.refreshes)
    /\ UNCHANGED <<mounted, submit, notice, rows, keys, done, faults, refetches, told>>

(* onError only says so: nothing is invalidated, whatever the server did.   *)
ChangeFails(c) ==
    /\ change[c].pc \in {"sent", "applied"} /\ faults < MaxFaults
    /\ change' = [change EXCEPT ![c].pc = "failed"]
    /\ faults' = faults + 1
    /\ UNCHANGED <<mounted, cache, fetch, submit, notice, rows, keys, done, refetches, told>>

(* "Zapisz" again: the same draft, so the API does not do it twice.         *)
Resubmit(c) ==
    /\ change[c].pc = "failed"
    /\ change' = [change EXCEPT ![c].pc = "sent"]
    /\ UNCHANGED <<mounted, cache, fetch, submit, notice, rows, keys, done, faults,
                   refetches, told>>

-----------------------------------------------------------------------------
Next ==
    \/ \E q \in Queries : FetchRead(q) \/ FetchDone(q) \/ FetchFails(q) \/ Refetch(q)
    \/ \E s \in Submits :
         \/ \E e \in Expenses : SaveExpense(s, e)
         \/ RetrySave(s) \/ Show(s) \/ Store(s) \/ Saved(s) \/ SaveFails(s) \/ Undo(s)
         \/ Trash(s) \/ Deleted(s) \/ DeleteFails(s) \/ RetryDelete(s)
    \/ Dismiss
    \/ \E c \in Changes :
         \/ \E k \in Kinds : Mutate(c, k)
         \/ Apply(c) \/ Succeed(c) \/ ChangeFails(c) \/ Resubmit(c)

Spec == Init /\ [][Next]_vars

-----------------------------------------------------------------------------
(* Nothing is under way: no handler waits and no request is on its way.     *)
Quiet ==
    /\ \A q \in mounted : fetch[q].pc = "idle"
    /\ \A s \in Submits :
         /\ submit[s].pc \in {"new", "saved", "failed"} /\ submit[s].call # "sent"
         /\ submit[s].delete \notin {"sent", "trashed", "refused"}
    /\ \A c \in Changes : change[c].pc \in {"new", "ok", "failed"}

(* How often the screen of q charges e.                                     *)
Charged(q, e) ==
    Cardinality({i \in cache[q].items : i.expense = e}) + cache[q].shift[e]

(* The queries of the dashboard that count expenses.                        *)
Counting == {"budget", "limits", "transactions", "subscriptions"}

(* Once nothing is under way, the dashboard's balance, its list, the limits *)
(* and the subscriptions count an expense exactly if it is stored, whatever *)
(* refetches, failures, undos and retries met it on the way; unless a       *)
(* failure was announced for it (the API may store it after the connection  *)
(* broke), or the screen itself failed to load.                             *)
ScreenSettles ==
    Quiet => \A q \in mounted \cap Counting, e \in Expenses \ told :
        ~cache[q].invalid => Charged(q, e) = IF e \in rows THEN 1 ELSE 0

(* The queries no change leaves behind: whatever a screen changes, these    *)
(* are invalidated with it.                                                 *)
Tracked == {"budget", "limits", "subscriptions", "goals", "templates"}

(* Once nothing is under way and no change was left failed, what these      *)
(* screens show reflects every change that was made anywhere in the app.    *)
NumbersAreCurrent ==
    (Quiet /\ \A c \in Changes : change[c].pc # "failed") =>
        \A q \in mounted \cap Tracked :
            ~cache[q].invalid => cache[q].seen = Answer(q).seen

(* An expense that was undone, and of which no submission succeeded that   *)
(* was left alone, is not stored once nothing is under way, unless a        *)
(* failure was announced for it since.                                      *)
UndoHolds ==
    Quiet => \A e \in Expenses \ told :
        LET of == {s \in Submits : submit[s].expense = e} IN
        ((\E s \in of : submit[s].undone) /\
         \A s \in of : submit[s].undone \/ submit[s].pc = "failed") => e \notin rows

=============================================================================
