# Finso: models, model checking and proofs

Finso is a personal-finance application: a NestJS API over Postgres
(`apps/api`), an Expo app for phones (`apps/mobile`) and a TypeScript package
both of them run (`packages/shared`: budget engine, API client, schemas). This
directory holds TLA+ modules translated from that source, the TLC configurations
that check them and proofs that TLAPS checks. Paths below are relative to the
repository.

## 1. Inventory

| Component | State | Operations | What makes it correct |
|---|---|---|---|
| Idempotency keys, `apps/api/src/idempotency` | table `IdempotencyKey` (unique user, scope, key; expiry) | `run` around the POSTs that create something, `purgeExpired`, hourly sweep | one effect per key and lifetime, answers describe effects that exist |
| Sessions, `apps/api/src/auth` | `RefreshToken` rows in families, the password hash | login (with re-hash), register, refresh (rotation), logout, change and reset of the password | one usable token per session, one heir per token, ended sessions stay ended |
| E-mail codes, `email-code.service.ts`, `users.service.ts` | `EmailCode` rows, address and verification of the user | send, redeem, confirm or change an address | one redemption, every wrong guess counts, no address confirmed that no mail reached |
| API client, `packages/shared/src/api/client.ts`, `apps/mobile/src/session.ts` | the stored pair of tokens, the promise of the refresh under way, signed-in status | calls with one retry after 401, login, logout, changePassword, restart | one refresh at a time, no refused token sent again, every call settles |
| Confirmations, `apps/api/src/confirmations`, `budget/confirmations.ts` | `Transaction` and `IncomeEntry` rows per due date | answers (paid, not yet, not this time), trash, restore, edit, archiving and deletion of the rule | paid once, what is put off is asked again |
| The user's rows: categories, templates, limits, goals, expenses, entries, sources, rules, subscriptions, import, onboarding, account (`apps/api/src/*`) | one table each, with foreign keys and unique columns | create, edit, delete or trash, restore, import, confirm, dismiss, onboard, close the account | references stay the user's own and of the right kind, shapes stay valid, history is not lost, nothing is stored twice |
| Calendar and recurrence, `packages/shared/src/budget/{calendar,period,recurrence,rule-start-date,rebase-rule-starts}.ts` | none (the rule and the payday are rows) | periods, dates of a rule, moving the payday | dates match the cadence, no payment lost or invented |
| Budget engine, `calculate-available-balance.ts`, `today-allowance.ts`, `assemble-budget-input.ts`, `occurrences.ts`, `apply-expense.ts`, `simulate-purchase.ts` | none (rows of the user, and midnight) | `BudgetService.current` and `simulate`, the app's own shift of a budget on screen | nothing charged twice or forgotten, promises kept, app, simulator and server agree |
| What is read from the past: `subscriptions.ts`, `forecast-irregular-income.ts`, `category-limits.ts` | none | detection of subscriptions, forecast, lean month and cuts, state of a limit | a subscription is found with the right next date, the forecast is cautious, the cuts make up the shortfall |
| Query cache and quick add, `apps/mobile/src/expenses/save-expense.ts`, `settings/queries.ts`, the screens | React Query cache, the notice, submissions under way | save at the tap, undo, failure, retry, delete; mutations of every screen and what they invalidate; refetches | what is on screen is what the server has, once the phone is idle |
| Forms, `goals/goal-form.tsx`, `settings/*-form.tsx`, `expense/[id].tsx` | fields, filled once; the last draft | open, type, save, remove, create, refetch of the row | concurrent edits meet, one creation per draft |
| Onboarding on the phone, `app/(app)/onboarding`, `src/onboarding` | a draft in memory, the cached account | four steps back and forth, send, 409, restart | the account is set up with what was shown, and a repeated attempt is a success |
| App lock, widget, reminders, `src/lock`, `src/widget`, `src/notifications` | the lock's flags, the stored choice and snapshot, scheduled notifications and their queue | enable, unlock, away and back; sync and forget; replace and cancel; login, logout, restart | no peek after an absence, nothing of an account that was left |
| Web, UI library, tokens, configuration, mail texts, export, app version | — | reads and presentation | not modelled (section 8) |

How they interact: screens call the API through `createApiClient`, which keeps a
pair of tokens and repeats a call after a shared refresh. Controllers of creating
POSTs pass through `idempotentPost`. Services share the tables and no memory: two
requests meet only in Postgres, at READ COMMITTED, through row locks, conditional
updates and unique indexes. The budget is never stored: every reading assembles it
from rows, and answers to confirmations write the rows it is assembled from. The
app patches the budget on its screen with the same functions while a save is
under way.

Hard behaviours: statements of several requests interleave between awaits; a read
decides a later write; a transaction's rows appear at its COMMIT only; an UPDATE
does not see what is committed after its snapshot; answers are lost after the
server acted; the app stops between two writes; midnight and the end of a period
pass between two steps; month ends and leap years. On the phone: refetches, undo and
answers cross one another, forms outlive the row they were filled from, and work
that was begun before logout ends after it.

## 2. Modules

```
KeyedExecution <--implements-- Idempotency   <- IdempotencyProofs
                               Sessions      <- AccessProofs
                               EmailCodes    <- EmailCodesProofs
                               ApiClient     <- ApiClientProofs
                               Ledger        <- LedgerProofs
BudgetCalendar <- Recurrence <- RecurringRules  \
                  Recurrence <- Subscriptions    > PastSpending
BudgetCalendar <- Forecasts                     /
                  Recurrence + Balance <- BudgetDays
     RecurringRules + BudgetDays + Forecasts <- EngineProofs
AppCache <- AppCacheProofs      AppLock <- Phone <- AccessProofs
Confirmations, Forms, Setup <- ScreensProofs
```

`MC<Module>` with `MC<Module>.cfg` instantiates `<Module>` for TLC
(MCRecurringRules instantiates PastSpending). A definition named `...Mutant` stands
before the definition it falsifies; no specification uses it.

### The API

**Idempotency** (`idempotency.service.ts`, `idempotent-post.ts`,
`idempotency-sweeper.ts`). One action per SQL statement: `Purge`, `Find`,
`Perform`, `InsertKey`, `Commit`, `Recheck`, `Respond`, with the failures
`PerformFails` and `Lose`. What a transaction wrote appears at `Commit`; an insert
of a key waits while another open transaction holds it, and fails once a
committed row has it. A key stands for (user, scope, key), a body for its hash,
`perform` for one created row. `KeyedExecution` is the promise alone, without a
table, statements or expiry of rows: what the attempts asked and when, a ledger of
effects, and the answers. `Execute` wants no effect of the key in force (a life of a
key is counted from when its attempt came); `Answer` tells an attempt that has no
effect of its own of the last effect of its key, which has its body and was in force
when it came. `Asked`, `Ledger` and `Given` are the refinement mapping.

**Sessions** (`refresh-token.service.ts`, `auth.service.ts`). One action per
statement of login, refresh, logout, change and reset. An UPDATE is two actions:
`TakeSnapshot` chooses its rows, `ApplyRevoke` waits for rotations that hold one of
them and then revokes; rows committed in between are missed, as in Postgres. So a
logout or a password change may miss the token a rotation commits after its
snapshot; `OverStaysOver` therefore speaks of families that are over, with no
rotation open, and no property claims that a revocation ends every session.

**EmailCodes** (`email-code.service.ts` and its callers). `FindRecent`,
`Supersede`, `Store`, `SendMail` for a send; `FindActive`, `CountWrong`, `Claim`,
`Apply` for a redemption. The row exists before its mail goes out, and the mail may
fail. Two sends at once may leave two codes that work. A guess reads the row before
it is counted, so the counter misses none but does not bound them.

**ApiClient** (`client.ts`, `secure-token-store.ts`, `session.ts`). One action
between two awaits of `execute`, `retryWithFreshToken`, `refreshSession`, `logout`,
`changePassword`, and one for the server's side of each. `refreshing` is the shared
promise. Faults, chosen in the initial state: lost calls and answers, restarts of
the app, and restarts that find one of two token entries written.

**Confirmations** (`confirmations.service.ts`). The three reads and the upsert of
an answer are separate actions, among those of the trash, edits, archiving and
deletion of rules and midnight. `Edit` is the PATCH: status, date, and the rule, which
it may clear or replace by another while `occurrenceDate` stays. The unique index
also covers rows in the trash; reads do not see them. `of`, a history variable of a
row, is the rule it was last linked to by an answer or a PATCH: the deletion of a rule
leaves it, a PATCH with `recurringRuleId: null` clears it. All rules have the same
dates, so that a row can answer the other rule's date.

**Ledger** (the other controllers and services, `owned-references.service.ts`,
`schema.prisma`, `soft-delete.extension.ts`). Eight tables of rows with an owner. A
request `Start`s, `Check`s its references one by one or `Read`s the row it will
merge with, and writes in one step; others run in between. `Commit` refuses what
the database refuses (`Consistent`: foreign keys and unique columns; a user who is
gone; a key that was stored meanwhile) and `Deleted` does what `onDelete` says.
`Retry` sends a draft again. `raced` remembers rows written after a read that was
stale: a PATCH of a rule or source that changed since it was read, a confirmation of a
subscription that is no longer suggested, and an import with the day of which another
one stored rows meanwhile (`Unseen`). The code allows these, and each property excepts
that row, the confirmed subscriptions or that day. What the user does while an import
runs is no exception: `extra` counts rows entered or restored, and a row taken out
after the import read its day leaves the day uncovered (`Covers`). `Updatable` is the
`deletedAt: null` of a PATCH's where. A transaction of several statements is one step. The name of an expense rule is required like its amount and
stands with it in one field. Detection of a subscription is the bit `covers`.
`topic` chooses which controllers a behaviour calls.

### The engine

**BudgetCalendar**, **Recurrence**, **RecurringRules**. A date is the number of days
since 1 January of the instance's second year; the month tables are computed from
`FirstMonth`, `LastMonth` and `FirstWeekday`. `InPhase` is a reference definition
of a cadence, independent of the code's jumps and loops. `RecurringRules` adds
`ruleStartDate`, the rebase of a rule's start, and the user who changes the payday
while days pass.

**Subscriptions** (`subscriptions.ts`) is the detector: groups by name or amount and
category, price clusters, the trailing run with at most one missing payment, price
levels and changes, the next date. **Forecasts** (`forecast-irregular-income.ts`,
`category-limits.ts`) is the forecast, the state of a limit, the lean month and its
cuts. **PastSpending** evaluates both over histories: the dates of the rule in
RecurringRules before the day of onboarding, told as `Stories` (payments missing, a
day early or late, over the end of a month too, changing their price, without a name,
or interleaved with a second series of the same name).

**Balance**, **BudgetDays**. Balance is the engine's arithmetic with the purchase
simulator; `Math.floor` of a quotient is `\div`. BudgetDays holds the rows that are
not in the trash and walks through days: expenses and incomes by hand (`Add`),
deletion, answers, archiving, midnight, before and after the end of a period.
`input` is `assembleBudgetInput` of the current rows, kept in a variable because
properties compare it before and after a step; it is a function of the other
variables. Onboarding is the initial state (with the sum spent before Finso). One
handler is one step here: its races are Confirmations' and Ledger's subject. The goal
is a constant: `currentAmount` is a correction made by hand.

### The phone

**AppCache** (`save-expense.ts`, `settings/queries.ts`, the screens). `rows` and `done`
are what the server stored, `cache` what each query holds, `fetch` the fetch of each
(`Asked`, `FetchRead` at the server, `FetchDone`). `Kinds` lists every mutation of
the app with the tables it changes and the keys it invalidates, `Reads` the tables
each query reads at the server; `Screens` the queries each screen shows. A submission of the
quick add runs through `Begin`, `Show`, `Store`, `Saved` or `SaveFails`, with `Undo`
at any time and `RetrySave`.

**AppLock**, **Phone** (`lock/store.ts`, `widget/update.ts`, `notifications/schedule.ts`).
AppLock is the lock, the widget and the session; the secure store answers its
calls in order, and the continuation of an `await` runs with the answer
(`StoreAnswers`). Phone adds the queue of reminder jobs, one system call per
`JobStep`. `owes` is a history variable: whether an absence of `LockAfter` or a
start has not been followed by a confirmed prompt.

**Forms** (`goal-form.tsx`, `settings/*-form.tsx`, `schedule.ts`, `forms.ts`). One
row, two phones. A form fills its fields once; `Submitted` is what each form's
"Zapisz" validates and compares with the row its list shows by then. `meant` is the
row as those who saved it meant it, field by field.

**Setup** (`app/(app)/onboarding`, `src/onboarding`, the API's conditional update).
The four steps over one draft, `Onward` and `Back`, `Finish`, the API's `Complete`,
`Refused` (409, then the account is read) and `Answered`; `Enter` opens the tabs.

## 3. Runs

States are distinct states TLC found. Every run passes.

| Run | Bounds | States | Question |
|---|---|---|---|
| `idempotency` | 2 attempts, 1 key or none, 2 bodies, TTL 2, clock 0..4 | 195,896 | does one key take effect once per lifetime, is every success backed and the one of its key and life, does everything settle? |
| `sessions` | 3 requests of any kind, 3 tokens | 76,459 | can races leave two usable tokens, two heirs, a revived session, a request that waits for ever? |
| `email_codes` | 4 requests, 2 codes, verification and change, 2 addresses, clock 0..2 | 1.5 million | is a code redeemed once, every guess counted, every confirmed address reached? |
| `confirmations` | 2 answers, 2 rules due on day 1, days 0..2, PATCHes to dates 1 and 2, 2 rows | 991,764 | is a due date paid once, and a deferred one asked about again? |
| `api_client` | 3 calls of any kind, 7 pairs of tokens, with and without all faults | 723,756 | do calls share refreshes, use fresh tokens, and all settle? |
| `ledger` | 3 requests (2 at once) in 10 topics, 2 days of a bank's history | 938,697 | do references, shapes, history, imports and keys hold among races, retries and cascades? |
| `recurring_rules` | 7 cadences, paydays 1, 10, 28, 3 creation days, 28 January to 21 March 2024, 2 changes; 266 stories, 4 days of looking, 3 days of tracking | 51,444 | do dates, rebased rules, detected subscriptions, forecasts and cuts agree with what the calendar and the history say? |
| `budget_days` | 2 rows, 2 amounts, rent every Friday, pay on the 11th, a goal due on the 8th, 7 to 11 March 2025 with payday 10 | 42,228 | is nothing charged twice or forgotten, are promises kept, is the app's and the simulator's arithmetic the server's? |
| `app_cache` | 2 expenses, 3 submissions, 1 change of any other screen, 2 failures, 1 unasked refetch, 1 query on screen | 1,318,043 | does the screen settle on what is stored, and does an undo hold? |
| `phone` | 2 accounts, 2 sign-ins or restarts, clock 0..2 and one set-back, 1 new budget, plans of 2 reminders | 3,530,994 | is there a peek after an absence, an amount or a reminder of an account that was left? |
| `forms` | 2 phones, 2 forms opened, 2 fields changed, 1 lost answer, 2 drafts | 3,520,854 | do edits of two phones meet, and is a thing created once? |
| `setup` | 2 phones, 4 answers, 2 sendings, 1 lost call, 1 restart | 1,511,658 | is the account set up with what was shown, and is a repeated attempt a success? |

Why these bounds are enough. The races of section 2 take two requests, or a
third to arrive in between; `sessions`, `api_client` and `ledger` have three, and as many
tokens as their requests can create, so that no request is held up by the bound.
`idempotency` has one key, since no action relates two, and `confirmations` one due
date of each of two rules, since a row keeps its date; the clock of the former passes the
lifetime twice, so that a key can expire, be used again and expire again.
`email_codes` allows one wrong guess, so that the limit is met. In `ledger`
a topic combines the controllers whose tables refer to one another (deletions with
what refers to the deleted); statements may overlap on one day, on both or on none, and a bank
day may have two rows that look alike. In `recurring_rules` the days pass a leap
February and a 31-day month, the cadences include the 1st, the 29th, 30th and 31st (so
that a day early or late is another month), and the histories lie on either side of the least number of payments and of periods. In
`budget_days` the third day is the last of a period; a Friday falls in each period,
one before the rule was added, and the rent's row with a date, without one and in
the trash combine. Amounts 1 and 7 lie on either side of the rent of 4, and leave
remainders when divided by the days that are left. In `app_cache` an expense can be
saved, fail, be retried and undone while a refetch is in flight; queries do not
influence one another except through the keys a change invalidates, so one on
screen at a time shows each of them. MCAppCache, MCPhone and MCLedger state
constraints that keep combinations out that share no state (a comment there says
which). In `forms` two edits of each phone's field cross; in `setup` a phone can go
back, change the payday, be overtaken and be killed. Every counter that could grow
is bounded by a constant of its module, named there as a bound.

The deadlock check is off in every run: a finite set of requests that are all
answered is the end of a behaviour, not a deadlock. That no one waits for ever is
stated as liveness instead.

## 4. Properties

Of the API: `AtMostOncePerLifetime`, `AnswersAreBacked`; `OneHeadPerFamily`,
`OneHeir`, `OverStaysOver` (of steps); `RedeemedOnce`, `EveryWrongGuessCounts`,
`ConfirmedAddressWasReached` (`EveryWrongGuessCounts` says that no guess is lost, not
that there are at most five); `PaidOnce` (a row is a payment of the rule it was last
linked to; one that the user's PATCH took off its rule is a payment of none, and its
due date may be paid again); `NoFalseAlarm` (for phones without faults,
whose calls only carry access tokens: with a lost refresh answer the code does sign
the user out), `RetryIsFresh`; `ReferencesStayOwn`, `ShapesHold`, `HistoryIsKept`
(of steps), `StatementsMerge`, `StoredOnce`. `HistoryIsKept` compares every column of
a row that stays in the trash (`StaysInTrash`) and lets a step clear only a reference
whose category or rule it deletes. `StatementsMerge` has two halves for each day: a day that
was covered has the bank's rows until the user takes one out, always; and it has no
more than those and the user's own, unless an import wrote without having seen what
another one stored of that day.

Of the engine: `OccurrencesAreExact`, `RebaseKeepsPayments` (of steps),
`SubscriptionIsFound`, `ForecastIsCautious`, `CutsMakeUp`; and of BudgetDays' steps
`OptimisticIsExact` (the app's shift and the simulator's verdict are the server's next
budget), `AnswersAreFair`, `PaymentsAreNotForgotten`, `PromiseKept`.
`RebaseKeepsPayments` says which rules must cover the new period, and not only what a
moved rule looks like: those that covered the old one, but no payment added after
onboarding (`CoversPeriod`); these have every date of their cadence in it, the others
gain and lose none. `SubscriptionIsFound` says that a confirmed subscription begins, to
within two days, with the next date of the series if every payment was made in the
month of its date; otherwise with that, the last one paid or the one after the next
(section 6).
`PaymentsAreNotForgotten` speaks of dates since the rule was added (`trackedSince`):
earlier dates of the period it was added in are put aside while that period lasts
and dropped at its end, which is what `occurrences.ts:39-42` describes.

Of the phone: `ScreenSettles`, `NumbersAreCurrent`, `UndoHolds`;
`NoPeekAfterAbsence`, `WidgetFollows`, `NoStrayReminders`; `EditsMeet`,
`CreatedOnce`; `AnswersAreShown`, `SetUpIsASuccess`.

Refinement: `ImplementsPromise` (Idempotency implements KeyedExecution: one effect per
life of a key, and every success is told of the effect of its own key, body and life).

Liveness: `EveryAttemptSettles`, `EveryRequestEnds`, `AskedAgain`, `EveryCallSettles`.

Each is broken by a mutant of the code's model that PROJECT.json names. Each module
also states its `TypeOK`, which the runs leave out: section 7 lists those that are
proved.

## 5. Fairness

* Idempotency and Sessions: weak fairness of each request's handler. Node resumes
  a continuation whose promise settled, and Postgres grants a lock when its holder
  ends. A request that has not arrived, a lost connection, and expiry are not fair.
  The sweeper is weakly fair: `setInterval` fires every hour, and a failed sweep is
  followed by another.
* ApiClient: weak fairness of a call's next continuation and of the server's
  answer (or the failure of the connection). Sending a call is not fair.
* Confirmations: midnight comes. Nobody is assumed to answer.
* The other modules are checked for safety only. What must hold once a phone is idle
  (`ScreenSettles`, `WidgetFollows`, `NoStrayReminders`) is stated of the idle states,
  which needs no fairness; that every step there ends is the platform's.

## 6. Known limits of the code

Behaviours the models reach, or that were met while modelling. No property denies
them; where a property would, it names the case it excepts.

Of the API:

* login writes the re-hashed old password over one that was changed between its read
  and its update (`auth.service.ts:89`; a comment says it only recomputes the hash);
* after a mail that failed, a second send within a minute is silent
  (`email-code.service.ts:97`; the comment at 47-48 says that the previous code still
  works and that `send` throws when no mail went out), and two sends at once leave
  two codes that work;
* "not yet" decided on a row read before another phone paid it overwrites the
  payment (`confirmations.service.ts:94`; the comment at 52-53 promises 409);
* two PATCHes of one rule or source that overlap are each validated against the row
  they read and may together leave one the API would refuse
  (`recurring-rules.service.ts:61`); two that add a schedule to one source leave a rule
  without an owner, and removing a source leaves its income rule;
  `{recurringRuleId: null}` together with a schedule leaves the source without it;
* five wrong guesses are a limit only for guesses that come one after another: those
  that read the row before any of them is counted are all tried
  (`email-code.service.ts:140-148`, the comment at 111-113);
* a payment that a PATCH took off its rule keeps its due date, which is open again and
  can be paid by a second row (`transactions.service.ts:173`);
* two imports with different keys at once store their rows twice
  (`transactions.service.ts:134`); a detected subscription confirmed after its
  suggestion is gone (confirmed twice at once, dismissed, or covered by a rule made by
  hand) still creates its rule (`subscriptions.service.ts:112`);
* a rotation holds a row of a token while its insert needs the row of the user, and the
  deletion of the account holds the latter while its cascade needs the former
  (`refresh-token.service.ts:60`): Postgres ends the cycle by failing one of the two.
  Sessions has no deletion, so `EveryRequestEnds` says nothing of it;
* templates and entries have no idempotency key: a save repeated after a lost
  answer stores them twice.

Of the engine:

* `nextSchedule` takes the month of the last payment and the median day
  (`subscriptions.ts:507-514`). A payment due on the 1st and made on 31 March gives a
  rule that starts on 1 April, the date already paid; one due on the 31st and made on
  1 April gives a rule that starts in May and leaves April out. The comment at 488-490
  (shifts of a few days cancel out) and "zapłacony cykl nie odlicza się drugi raz"
  (`docs/PRODUCT.md:500-501`) do not hold over the end of a month. More than one date
  is never repeated or left out.

Of the client:

* a call refused while changePassword's answer is on its way refreshes with a revoked
  token and signs the phone out (`client.ts:515`); a refresh that ends after logout
  stores its tokens again, and a restart opens the session that was left
  (`client.ts:388`);
* an edit form whose row is fetched again while it is open keeps its texts and sends
  them back as changes (`goal-form.tsx:169`; the comment at 93 says edits send only what
  changed). Nothing says which form an answer belongs to: a save answered after its
  form was left still calls `router.back()`;
* `useDraft` remembers the last content only: A, B and A again are three creations;
* the retry of an expense whose save failed after it was undone stores it, and the
  notice outlives logout, so that a retry by the next user stores the previous
  user's expense; a delete repeated after a lost answer is refused with 404 for ever;
* a simulation on screen is stale after a quick add, the list of recent expenses
  after an answer to a payment, and the payments to confirm after a change of rules
  or of the payday: those keys are not invalidated there. `Tracked` lists the keys
  `NumbersAreCurrent` speaks of;
* an onboarding whose answers changed after a lost answer keeps the first ones, as
  409 counts as success; the account of a session that was left may be stored by its
  late answer;
* an app killed between clearing the tokens and cleaning up leaves reminders and
  the snapshot (`cut`, `left` in the models); a small set-back of the clock is not
  noticed by the lock; a lock whose enabling is confirmed after the session ended
  stays on (`lock/store.ts:147`).

## 7. Proofs

TLAPS proves, for every value of the constants allowed by the named assumptions:

* **IdempotencyProofs** (`TTL` positive, `NoKey` not a key): `TypeCorrect`,
  `OncePerLifetime`, `Backed` and `ImplementsKeyedExecution`.
  `AtMostOncePerLifetime` is not inductive: it says nothing of the table. `IInv` adds
  that rows belong to effects (`RowsBacked`), that an effect in force has its row
  (`InForceHasRow`), that an open transaction is alone with its key and the table
  has no row of it (`HolderIsAlone`), and what attempts past their commit look like
  (`EffectsAreSent`), and that every earlier effect of a key was over when the one of
  its row was committed (`RowIsLast`). With these a commit finds no effect of its key in force, which
  is both the safety property and the guard of the abstract `Execute`.
  `StepPromise` maps `Arrive` with a key to `Ask`, `Commit` to `Execute`, the answers to
  `Answer`, `Tick` to `Pass` and everything else to a stutter; `RowIsLast` shows that a
  replay tells of the key's current life.
* **AccessProofs**, of Sessions (`None` is no token): `SessionsTypes`, `SingleHead`, `SingleHeir`
  and `NoRevival`. `SessionsInv` adds that families are named by tokens that were issued, that
  handlers work on issued tokens, and `ClaimHolds`: an open rotation holds a token that
  is still usable and nobody else holds it. So a commit replaces the one usable token
  of a family by another.
* **EmailCodesProofs** (`TTL`, `ResendAfter`, `MaxAttempts` positive, `None` neither a
  code nor an address): `TypeCorrect`, `SingleRedemption`, `NoGuessIsLost` and
  `NoUnreachedAddress`. `IInv` adds what a handler remembers between its statements
  (`LocalsHold`), that a granted code's row is used (`GrantsAreUsed`: a used row grants
  nobody else), that the counter of a row is the number of wrong guesses at it
  (`WrongGuessesCounted`), and that a code goes to the
  address it sets, or to the first address while the account is unconfirmed
  (`MailsFit`, and `SendsFit` for a mail not yet sent).
* **ApiClientProofs** (`MaxPair` positive, `None` no request): `TypeCorrect`,
  `RetriesAreFresh` under every fault, and `NoFalseTheft`. A refused call is retried with
  another access token because a pair on its way to the phone is in no store, no sent
  call and no other answer (`Fresh`); `Known` bounds every token by those issued;
  `OneRefresher` says that one request at most is refreshing, and `KeptAlive` that
  while only calls run and every answer arrives, the refresh token it presents, or
  the next one will find, is still usable.
* **LedgerProofs** (`TopicsAreParts`: a topic names controllers there are; `BankCounts`: the
  bank has finitely many days, each with a number of rows): `TypeCorrect`,
  `ReferencesAreOwn`, `ShapesAlwaysHold`, `HistoryStays`, `StatementsAreMerged` and
  `DraftsAreStoredOnce`. None of the properties is inductive: between a look-up and the
  write that relies on it, any other request runs. `IInv` keeps what survives that gap
  (`HandlersOK`): an id that was looked up is one that was given out, and its row,
  while it exists, is still fit to be referred to (`Checked`); what a PATCH will write
  fits the row it read (`SeenFits`); what a day has beyond what an import read of it, the
  user added, or another import stored it unseen (`ImportsKnow`). `Apart` says that an id names a row of one table only, so
  that a reference to a deleted row never finds another, and `KeyKept`, `StartedOnce` and
  `ConfirmedOnce` what keys, the account and covering rules remember. Every commit is
  shown to be a `Leads` step, of which there are four parts: each row is new or became
  what a row may become (`Wrote`), the trash keeps all columns but cleared references (`Untouched`), shapes stay, and a covering rule stays.
  The deletions of `onDelete` and the transactions of several statements are
  compositions of such steps. `StatementsMerge` counts rows, so its lemmas are about cardinalities.
  The proof also corrected a property: as `StoredOnce` stood, a behaviour longer than
  the run's three requests broke it (confirm a subscription, delete the rule that came of
  it, confirm again), which the code rightly allows: `Stops` excepts it.
* **EngineProofs**, of the dates (a calendar of whole months, cadences the API's schemas
  admit with intervals up to 52, and a calendar wide enough that a cycle of every
  cadence fits before the days lived: `CadencesAreSchedules`, `CalendarIsWide`):
  `OccurrencesOfAnyRule`, that the generators of `recurrence.ts`, with their jump to the
  first date and their walk from it, return exactly the days in phase with the rule in
  any span; with it `DatesAreExact` (`OccurrencesAreExact` of
  every reachable state) and `PaymentsAreKept` (`RebaseKeepsPayments` of every step). The
  invariant is small (`TypeOK`, `LivesOn`, `ScheduleKept`: a rule keeps the schedule of a
  cadence whatever its start): the weight lies in lemmas on months, remainders and the
  walk, which rest on one principle: a set of
  natural numbers has a least element, so there is a least month, or multiple, that
  is not before a day.
* **EngineProofs**, of the amounts (for all amounts and lengths of a period): `LimitWithinMorning`,
  `PlanIsCovered` (today's limit and the announced share of the days after it never
  exceed the morning's balance), `NextDaysIsKept` (the core of `PromiseKept`),
  `ShiftIsExact` (of `OptimisticIsExact`, field by field), `RateReachesGoal`,
  `RateDoesNotGrow`, and `SimulationForetells`: the simulator's balance and daily share
  are those the budget shows once the purchase is added, and a dearer purchase never
  leaves more, never delays a goal less, and is never judged affordable where a
  cheaper one is not. They rest on lemmas about the floor and the ceiling of a quotient.
* **EngineProofs**, of the days (`BudgetAssumption`; `ItemsAreRules`: schedules, amounts
  and start days are what the API's schemas admit; `DaysInCalendar`: the calendar's
  bounds surround the days lived and the goal's date): `BudgetTypes`, `NotForgotten`,
  `NightKeepsPromise`, `OptimisticExact` and `FairAnswers`. All four properties are of
  steps and compare what the rows assemble to before and after; `BudgetInv` makes the
  comparison possible: types, that a day-to-day expense is confirmed and not of the
  future (`DailyIsPast`: a planned one would be in the budget's sums but not in what the
  app shifts), and that the kept `input` is `assembleBudgetInput` of the current rows.
  `NotForgotten` uses that the generated dates of a span contain those of a shorter one
  (from `OccurrencesOfAnyRule`). For `NightKeepsPromise` the dates, the open ones, the
  goal's share and so the whole balance are shown not to change in a night within a
  period (`QuietNight`, `QuietGoal`, `QuietInput`); then `NextDaysIsKept` applies.
  `OptimisticExact` is `ShiftIsExact` and `SimulationForetells` of every reachable budget:
  a sum changes by the one value that changed (`SumButOne`). `FairAnswers` counts: an
  answer about an open date opens and closes no date but its own (`ClosesOne`,
  `ClosesNone`, through the count by which `openOccurrences` pairs answers without a
  date with the dates of their period), whatever the other rows of its rule are.
* **EngineProofs**, of the suggestions: `SuggestionsMakeUp` is the part of `CutsMakeUp` that
  is about the suggested limits, for every finite set of usual lines (one per category),
  every set of own limits and every shortfall. It assumes neither that three categories
  are candidates nor that a shortfall can be made up. Cuts are rounded up and limits
  down, so that sums over the candidates keep the proportion each of them has
  (`CutCovers`, `SumsInOrder`); a category left out has a limit at least as low
  (`LimitOnceTaken`). The mean a category usually takes and what a limit leaves per day
  are sums along a list, which stay with the run.
* **AppCacheProofs** (`SubmitsAreIds`: submissions are numbered): `TypeCorrect`, `Settled`,
  `Current` and `UndoneIsGone`. What the screen shows once all is idle is not inductive;
  `Counted` says of every state that, unless something of an expense is under way that
  ends in an invalidation or a notice (`Pending`), a valid cache and an answer already
  read count it exactly as the server does. `Announced`: an expense of which no failure
  was announced has one submission that is on its way or stored; `HandlersHold` and
  `NoticeHolds` say what each stage of a submission implies at the server;
  `ChangesHold` is the same argument for the mutations of the other screens.
* **AccessProofs**, of AppLock and Phone (`LockAfter` positive, `Skews` of the clock and `MaxVersion` naturals,
  `Nobody` no account): `TypeCorrect`, `NobodyPeeks`,
  `WidgetIsRight` and `NoneStray`. `LockInv` relates the moment the lock keeps to the
  absence that is owed (`MomentKept`), says that a lock that is off owes nothing, and
  that an enabling under way never meets a lock that is on (`Answerable`). `WidgetInv`:
  the calls the secure store has still to answer leave the snapshot the session calls
  for, and one of them redraws the widget unless it shows what is stored.
  `RemindersInv`: the jobs in the queue end with the reminders of the last plan, and
  every job but the running one begins by cancelling.
* **ScreensProofs**, of Confirmations (days a calendar has, `None` no rule): `TypeCorrect`,
  `AtMostOneRow` and `SinglePayment`. While a rule exists every row that was last linked
  to it carries its id, so the unique index knows every row of a due date, also those a
  PATCH gives it; once the rule is gone nothing adds one (`LinkedToRule`).
* **ScreensProofs**, of Setup (natural bounds, as in Forms): `SetupTypes`,
  `SetUpAsShown` and `SuccessIsShown`. The income of a draft is validated at its step and kept while later steps, and going back, change
  the payday under it: `IncomeIsShown` says that past that step the income kept is the
  one on the screen, `SentAsShown` that an attempt under way sent what was shown;
  `AnsweredMeansSaved` and `NeverRefused` carry the second property.
* **ScreensProofs**, of Forms: `FormTypes`, `EditsOfOneRowMeet` and `WrittenOnce`.
  `FormIsFresh`: a form whose row was not fetched again compares its fields with the row
  it was filled from, so (`ChangesDiffer`, for each kind of form) what it sends is among
  what its user touched (`SendsOwnChanges`). `DraftsAreCounted`: every draft sent or
  served has one of the numbers given out and says something that was said on the
  form, and a second number is given out only for the other content.

Confirmations, Setup and Forms share no variable; ScreensProofs extends all three, which
is why `Init`, `Next`, `Spec` and `TypeOK` of the latter two carry their module's name.
AccessProofs does the same for Phone and Sessions, the two sides of being signed in, and
EngineProofs for RecurringRules and BudgetDays.
Every assumption is a named ASSUME of the module it constrains, which TLC
evaluates in the run of that module. Bounds of counters are arbitrary constants in the
proofs: the theorems hold for all of them, and so for behaviours of any length.

Only model-checked: liveness (beyond this prover); what the recursive functions and
folds over histories compute (`SubscriptionIsFound`, `ForecastIsCautious`, and of
`CutsMakeUp` what `SuggestionsMakeUp` leaves out:
induction over data is beyond it too). The sums of BudgetDays are recursive as well, but
need no such induction: a set without a sum would have a smallest size (`SumsExist`), so
`SumFunction` obeys the step by which one value enters or leaves it.

## 8. Not modelled

PROJECT.json lists every part with its reason. In short:

* presentation: the web site, UI library, design tokens, tooling, texts, layout,
  animation, order and pages of lists, the CSV of the export, finding columns and
  amounts in a bank's CSV, wording of mails;
* libraries and configuration: JWT, argon2, React Query's own scheduling beyond what
  AppCache states, the API shell (pipes, filters, rate limits, minimal app version);
* the demo account and migrations.

Abstractions inside modelled parts: a transaction of several statements in Ledger is
one step; expenses there are confirmed ones (Confirmations has the others); detection
of a subscription is one bit there and a function in Subscriptions. A goal's delay is an
exact quotient, where the code divides doubles and rounds up (it may be one day
more). The detector's limits are the code's own, and `LooksLikeOne` in PastSpending
states what its histories must show: two series of one name are told apart by price
only. The rules of Confirmations have the same dates. In Forms a call that failed before it was served is never served later, a
phone has one mutation at a time and nothing is typed while it is under way. Setup
starts after registration and does not follow a phone once it is in the tabs.

## 9. Plan

Done: the API (`KeyedExecution`, `Idempotency`, `Sessions`, `EmailCodes`,
`Confirmations`, `Ledger`), the client (`ApiClient`), the engine (`BudgetCalendar`,
`Recurrence`, `RecurringRules`, `Subscriptions`, `Forecasts`, `PastSpending`,
`Balance`, `BudgetDays`), the phone (`AppCache`, `AppLock`, `Phone`, `Forms`, `Setup`)
and the proofs of section 7: every safety property of the runs `idempotency`,
`sessions`, `email_codes`, `confirmations`, `api_client`, `app_cache`, `phone`, `setup`,
`forms`, `ledger` and `budget_days`, the two of RecurringRules, and most of `CutsMakeUp`.

Next, in order:

1. What a list of expenses sums up to (`Total` of Forecasts), by its shortest
   counterexample as in `SumsExist`: then all of `CutsMakeUp`.
2. `AppCache` over `ApiClient`'s calls: a save whose call is repeated after a refresh.
