---------------------------- MODULE AppCacheProofs ---------------------------
(***************************************************************************)
(* Proofs of the three safety properties of AppCache, for any number of    *)
(* expenses, submissions, changes and failures.                            *)
(*                                                                         *)
(* A number on the screen may be wrong while something is under way for    *)
(* its expense (Pending); whatever ends it invalidates the screen and so   *)
(* drops the answers read before.  A failure keeps its notice, or a retry  *)
(* takes over (Announced), and an expense once deleted is never stored     *)
(* again because its key is used.                                          *)
(***************************************************************************)
EXTENDS AppCache, FiniteSetTheorems, TLAPS

(* A handler of the quick add, with what the server holds of its expense.  *)
Handler(h) ==
    /\ h.pc # "new" => h.expense \in Expenses
    /\ h.pc \in {"new", "cancelling"} => ~h.undone /\ h.call = "none"
    /\ h.pc \notin {"saved"} => h.delete = "none" /\ ~h.known
    /\ h.pc = "saved" => h.known /\ h.call = "stored" /\ (h.undone => h.delete # "none")
    /\ h.call = "stored" => h.expense \in keys
    /\ h.delete \in {"trashed", "ok"} => h.expense \in keys \ rows

HandlersHold == \A s \in Submits : Handler(submit[s])

NoticeHolds ==
    notice.kind # "none" =>
        /\ submit[notice.of].pc # "new"
        /\ notice.kind = "saved" => submit[notice.of].pc \in {"sent", "saved"}

(* Of an expense without an announced failure, one submission is on its    *)
(* way or was stored, and it is the one whose delete counts.               *)
Counts(s, e) ==
    submit[s].expense = e /\ submit[s].pc \in {"sent", "saved"} /\ submit[s].delete # "failed"

Announced ==
    \A e \in Expenses \ told :
        (\E s \in Submits : submit[s].expense = e /\ submit[s].pc \in {"sent", "saved", "failed"})
            => \E s \in Submits : Counts(s, e)

(* Something is under way for e that ends with an invalidation or a notice. *)
Pending(e) ==
    \E s \in Submits :
        /\ submit[s].expense = e
        /\ submit[s].pc \in {"cancelling", "sent"}
             \/ submit[s].delete \in {"sent", "trashed", "refused"}

Right(a, e) ==
    /\ {i \in a.items : i.expense = e} = IF e \in rows THEN {FromServer(e)} ELSE {}
    /\ a.shift[e] = 0

Counted ==
    \A q \in mounted \cap Counting, e \in Expenses \ told :
        ~Pending(e) => /\ ~cache[q].invalid => Right(cache[q], e)
                       /\ fetch[q].pc = "read" => Right(fetch[q].answer, e)

(* Changes.  An answer holds none that was not made, and once a change      *)
(* succeeded, those shown without a mark or fetched hold it.                *)
Seen(q) == {c \in done : change[c].kind.writes \cap Reads[q] # {}}

ChangesHold ==
    /\ \A c \in done : change[c].pc # "new"
    /\ \A q \in Queries :
          /\ cache[q].seen \subseteq Seen(q)
          /\ fetch[q].pc = "read" => fetch[q].answer.seen \subseteq Seen(q)
    /\ \A q \in mounted \cap Tracked, c \in done :
          (change[c].pc = "ok" /\ c \in Seen(q)) =>
              /\ ~cache[q].invalid => c \in cache[q].seen
              /\ fetch[q].pc = "read" => c \in fetch[q].answer.seen

IInv ==
    /\ TypeOK
    /\ HandlersHold
    /\ NoticeHolds
    /\ Announced
    /\ Counted
    /\ ChangesHold

-----------------------------------------------------------------------------
(* The queries, what may be done with an answer, and its type.              *)

LEMMA QueriesAre ==
    /\ Queries = {"budget", "simulation", "limits", "subscriptions", "transactions",
                  "confirmations", "sources", "rules", "goals", "templates"}
    /\ Counting \subseteq Queries /\ Tracked \subseteq Queries
BY DEF Queries, Reads, Counting, Tracked

(* The queries that count expenses read them, and every handler of the     *)
(* quick add refreshes them.                                               *)
LEMMA CountingQueries ==
    /\ Counting \subseteq RefreshFromServer
    /\ \A q \in Counting : ReadsExpenses(q)
<1>1. Counting \subseteq RefreshFromServer
  BY DEF Counting, RefreshFromServer, BudgetKeys
<1>2. ReadsExpenses("budget") /\ ReadsExpenses("limits")
  BY DEF ReadsExpenses, Reads, SnapshotReads, LimitsRead
<1>3. ReadsExpenses("transactions") /\ ReadsExpenses("subscriptions")
  BY DEF ReadsExpenses, Reads, ExpensesRead, SubscriptionsRead
<1> QED BY <1>1, <1>2, <1>3 DEF Counting

(* Whatever tables a mutation of a screen writes, it refreshes the tracked  *)
(* queries that read one of them.                                          *)
LEMMA TrackedAreRefreshed ==
    ASSUME NEW k \in Kinds, NEW q \in Tracked, k.writes \cap Reads[q] # {}
    PROVE  q \in k.refreshes
<1> USE DEF RefreshBudget, BudgetKeys, RefreshAfterExpenseChange, RefreshAfterDecision
<1>1. q \in {"budget", "limits", "subscriptions"} \/ q = "goals" \/ q = "templates"
  BY DEF Tracked
<1>2. CASE q \in {"budget", "limits", "subscriptions"}
  <2>1. Reads["budget"] = SnapshotReads /\ Reads["limits"] = LimitsRead
        /\ Reads["subscriptions"] = SubscriptionsRead
    BY DEF Reads
  <2> QED
    BY <1>2, <2>1 DEF Kinds, GoalForm, GoalTrash, GoalRestore, CommitmentForm, IncomeForm,
       LimitForm, TemplateForm, LeanMonthCard, ExpenseForm, ExpenseTrash, ExpenseRestore,
       ImportScreen, AnswerPayment, AnswerIncome, PaydaySettings, SubscriptionConfirm,
       SubscriptionDecision, SubscriptionUsed, SettingsForm, SnapshotReads, LimitsRead,
       SubscriptionsRead
<1>3. CASE q \in {"goals", "templates"}
  <2>1. Reads["goals"] = {"goals"} /\ Reads["templates"] = {"templates"}
    BY DEF Reads
  <2> QED
    BY <1>3, <2>1 DEF Kinds, GoalForm, GoalTrash, GoalRestore, CommitmentForm, IncomeForm,
       LimitForm, TemplateForm, LeanMonthCard, ExpenseForm, ExpenseTrash, ExpenseRestore,
       ImportScreen, AnswerPayment, AnswerIncome, PaydaySettings, SubscriptionConfirm,
       SubscriptionDecision, SubscriptionUsed, SettingsForm
<1> QED BY <1>1, <1>2, <1>3

(* What an invalidation does to the cache and to the requests.             *)
LEMMA Marking ==
    ASSUME NEW c \in [Queries -> Answers], NEW set, NEW q \in Queries
    PROVE  LET m == MarkedInvalid(c, set) IN
           /\ m \in [Queries -> Answers]
           /\ m[q].items = c[q].items /\ m[q].seen = c[q].seen /\ m[q].shift = c[q].shift
           /\ c[q].invalid => m[q].invalid
           /\ Invalidated(q, set) => m[q].invalid
<1> DEFINE m == MarkedInvalid(c, set)
<1>1. ASSUME NEW x \in Queries
      PROVE  [c[x] EXCEPT !.invalid = TRUE] \in Answers
  <2>1. PICK a \in Answers : a = c[x]
    OBVIOUS
  <2>2. [a EXCEPT !.invalid = TRUE] \in Answers
    BY DEF Answers
  <2> QED BY <2>1, <2>2
<1>2. m \in [Queries -> Answers]
  BY <1>1 DEF MarkedInvalid
<1>3. PICK a \in Answers : a = c[q]
  OBVIOUS
<1>4. LET b == [a EXCEPT !.invalid = TRUE] IN
      b.items = a.items /\ b.seen = a.seen /\ b.shift = a.shift /\ b.invalid
  BY DEF Answers
<1>5. m[q] = IF Invalidated(q, set) THEN [a EXCEPT !.invalid = TRUE] ELSE a
  BY <1>3 DEF MarkedInvalid
<1> QED BY <1>2, <1>3, <1>4, <1>5

(* What the quick add does to the cache: numbers of one expense move, in    *)
(* the budget and in the list, and the rest of each answer stays.           *)
Moved(c, d, e) ==
    /\ d \in [Queries -> Answers]
    /\ \A q \in Queries :
          /\ d[q].seen = c[q].seen /\ d[q].invalid = c[q].invalid
          /\ \A x \in Expenses \ {e} :
                /\ {i \in d[q].items : i.expense = x} = {i \in c[q].items : i.expense = x}
                /\ d[q].shift[x] = c[q].shift[x]

LEMMA Charging ==
    ASSUME NEW c \in [Queries -> Answers], NEW e \in Expenses, NEW n \in Int
    PROVE  Moved(c, Charge(c, e, n), e)
<1> DEFINE d == Charge(c, e, n)
<1>1. PICK a \in Answers : a = c["budget"]
  BY QueriesAre
<1>2. a.shift \in [Expenses -> Int]
  BY DEF Answers
<1>3. PICK b : b = [a EXCEPT !.shift = [a.shift EXCEPT ![e] = @ + n]]
  OBVIOUS
<1>4. [a.shift EXCEPT ![e] = @ + n] \in [Expenses -> Int]
  BY <1>2
<1>5. b \in Answers /\ b.seen = a.seen /\ b.invalid = a.invalid /\ b.items = a.items
      /\ \A x \in Expenses \ {e} : b.shift[x] = a.shift[x]
  BY <1>2, <1>3, <1>4 DEF Answers
<1>6. d = [c EXCEPT !["budget"] = b]
  BY <1>1, <1>3, QueriesAre DEF Charge
<1> HIDE DEF d
<1>7. d \in [Queries -> Answers]
  BY <1>5, <1>6
<1>8. \A q \in Queries : d[q] = IF q = "budget" THEN b ELSE c[q]
  BY <1>6
<1>9. Moved(c, d, e)
  BY <1>1, <1>5, <1>7, <1>8 DEF Moved
<1> QED BY <1>9 DEF d

LEMMA Listing ==
    ASSUME NEW c \in [Queries -> Answers], NEW e \in Expenses, NEW s \in Submits
    PROVE  Moved(c, Prepend(c, e, s), e)
<1> DEFINE d == Prepend(c, e, s)
<1>1. PICK a \in Answers : a = c["transactions"]
  BY QueriesAre
<1>2. LocalRow(e, s) \in Items /\ LocalRow(e, s).expense = e
  BY DEF LocalRow, Items
<1>3. PICK b : b = [a EXCEPT !.items = a.items \cup {LocalRow(e, s)}]
  OBVIOUS
<1>4. b \in Answers /\ b.seen = a.seen /\ b.invalid = a.invalid /\ b.shift = a.shift
      /\ b.items = a.items \cup {LocalRow(e, s)}
  BY <1>2, <1>3 DEF Answers
<1>5. \A x \in Expenses \ {e} :
        {i \in b.items : i.expense = x} = {i \in a.items : i.expense = x}
  BY <1>2, <1>4
<1>6. d = [c EXCEPT !["transactions"] = b]
  BY <1>1, <1>3, QueriesAre DEF Prepend
<1> HIDE DEF d
<1>7. d \in [Queries -> Answers]
  BY <1>4, <1>6
<1>8. \A q \in Queries : d[q] = IF q = "transactions" THEN b ELSE c[q]
  BY <1>6
<1>9. Moved(c, d, e)
  BY <1>1, <1>4, <1>5, <1>7, <1>8 DEF Moved
<1> QED BY <1>9 DEF d

LEMMA Unlisting ==
    ASSUME NEW c \in [Queries -> Answers], NEW e \in Expenses, NEW item, item.expense = e
    PROVE  Moved(c, Remove(c, item), e)
<1> DEFINE d == Remove(c, item)
<1>1. PICK a \in Answers : a = c["transactions"]
  BY QueriesAre
<1>2. PICK b : b = [a EXCEPT !.items = a.items \ {item}]
  OBVIOUS
<1>3. b \in Answers /\ b.seen = a.seen /\ b.invalid = a.invalid /\ b.shift = a.shift
      /\ b.items = a.items \ {item}
  BY <1>2 DEF Answers
<1>4. \A x \in Expenses \ {e} :
        {i \in b.items : i.expense = x} = {i \in a.items : i.expense = x}
  BY <1>3
<1>5. d = [c EXCEPT !["transactions"] = b]
  BY <1>1, <1>2, QueriesAre DEF Remove
<1> HIDE DEF d
<1>6. d \in [Queries -> Answers]
  BY <1>3, <1>5
<1>7. \A q \in Queries : d[q] = IF q = "transactions" THEN b ELSE c[q]
  BY <1>5
<1>8. Moved(c, d, e)
  BY <1>1, <1>3, <1>4, <1>6, <1>7 DEF Moved
<1> QED BY <1>8 DEF d

LEMMA MovedTwice ==
    ASSUME NEW a, NEW b, NEW c, NEW e, Moved(a, b, e), Moved(b, c, e)
    PROVE  Moved(a, c, e)
BY DEF Moved


-----------------------------------------------------------------------------
(* What a step leaves of the invariant that it does not touch.              *)

LEMMA Standing ==
    ASSUME TypeOK, HandlersHold, NEW s \in Submits
    PROVE  /\ submit[s] \in Handlers
           /\ submit[s].pc \in {"new", "cancelling", "sent", "saved", "failed"}
           /\ submit[s].expense \in Expenses \cup {Nobody}
           /\ submit[s].call \in {"none", "sent", "stored"}
           /\ submit[s].undone \in BOOLEAN /\ submit[s].known \in BOOLEAN
           /\ submit[s].delete \in {"none", "sent", "trashed", "refused", "ok", "failed"}
           /\ Handler(submit[s])
           /\ submit[s].pc # "new" => submit[s].expense \in Expenses
<1>1. submit[s] \in Handlers
  BY DEF TypeOK
<1>2. Handler(submit[s])
  BY DEF HandlersHold
<1>3. submit[s].pc # "new" => submit[s].expense \in Expenses
  BY <1>2 DEF Handler
<1> QED BY <1>1, <1>2, <1>3 DEF Handlers

(* No request is answered, and nothing shown is vouched for anew.           *)
FetchesKept == \A q \in Queries : fetch'[q].pc = "read" => fetch'[q] = fetch[q]

ScreensKept ==
    /\ FetchesKept
    /\ \A q \in Queries : /\ cache'[q].seen = cache[q].seen
                          /\ cache[q].invalid => cache'[q].invalid

LEMMA ChangesKept ==
    ASSUME ChangesHold, ScreensKept, UNCHANGED <<mounted, change, done>>
    PROVE  ChangesHold'
<1>1. \A q \in Queries : Seen(q)' = Seen(q)
  BY DEF Seen
<1>2. ASSUME NEW q \in Queries
      PROVE  /\ cache'[q].seen = cache[q].seen
             /\ cache[q].invalid => cache'[q].invalid
             /\ fetch'[q].pc = "read" => fetch'[q] = fetch[q]
  BY DEF ScreensKept, FetchesKept
<1>3. \A c \in done' : change'[c].pc # "new"
  BY DEF ChangesHold
<1>4. ASSUME NEW q \in Queries
      PROVE  /\ cache'[q].seen \subseteq Seen(q)'
             /\ fetch'[q].pc = "read" => fetch'[q].answer.seen \subseteq Seen(q)'
  BY <1>1, <1>2 DEF ChangesHold
<1>5. ASSUME NEW q \in mounted' \cap Tracked, NEW c \in done', change'[c].pc = "ok", c \in Seen(q)'
      PROVE  /\ ~cache'[q].invalid => c \in cache'[q].seen
             /\ fetch'[q].pc = "read" => c \in fetch'[q].answer.seen
  <2>1. q \in Queries
    BY QueriesAre
  <2>2. /\ ~cache[q].invalid => c \in cache[q].seen
        /\ fetch[q].pc = "read" => c \in fetch[q].answer.seen
    BY <1>1, <1>5, <2>1 DEF ChangesHold
  <2> QED BY <1>2, <2>1, <2>2
<1> QED BY <1>3, <1>4, <1>5 DEF ChangesHold

(* The handlers other than s stay as they are.                              *)
OnlyHandler(s) == \A t \in Submits \ {s} : submit'[t] = submit[t]

LEMMA HandlersKept ==
    ASSUME HandlersHold, NEW s \in Submits, OnlyHandler(s), Handler(submit[s])',
           keys \subseteq keys', (rows' \ rows) \cap keys = {}
    PROVE  HandlersHold'
<1>1. ASSUME NEW t \in Submits \ {s}
      PROVE  Handler(submit[t])'
  <2>1. Handler(submit[t]) /\ submit'[t] = submit[t]
    BY <1>1 DEF HandlersHold, OnlyHandler
  <2> QED BY <2>1 DEF Handler
<1> QED BY <1>1 DEF HandlersHold

(* A handler that sent its call never goes back, and its delete fails only  *)
(* with an announcement.                                                   *)
LEMMA NoticeKept ==
    ASSUME TypeOK, NoticeHolds, NEW s \in Submits, OnlyHandler(s), notice' = notice,
           submit[s].pc # "new" => submit'[s].pc # "new",
           submit[s].pc \in {"sent", "saved"} => submit'[s].pc \in {"sent", "saved"}
    PROVE  NoticeHolds'
<1>1. notice.kind # "none" => notice.of \in Submits
  BY DEF TypeOK
<1> QED BY <1>1 DEF NoticeHolds, OnlyHandler

LEMMA AnnouncedKept ==
    ASSUME Announced, NEW s \in Submits, OnlyHandler(s), told \subseteq told',
           submit'[s].expense = submit[s].expense,
           \/ submit[s].expense \in told'
           \/ /\ submit[s].pc \in {"sent", "saved", "failed"}
              /\ submit[s].pc \in {"sent", "saved"} => submit'[s].pc \in {"sent", "saved"}
              /\ submit'[s].delete = "failed" => submit[s].delete = "failed"
    PROVE  Announced'
<1> SUFFICES ASSUME NEW e \in Expenses \ told', NEW t \in Submits, submit'[t].expense = e,
                    submit'[t].pc \in {"sent", "saved", "failed"}
             PROVE  \E u \in Submits : Counts(u, e)'
  BY DEF Announced
<1>1. submit[t].expense = e /\ submit[t].pc \in {"sent", "saved", "failed"}
  BY DEF OnlyHandler
<1>2. PICK u \in Submits : Counts(u, e)
  BY <1>1 DEF Announced
<1>3. Counts(u, e)'
  BY <1>2 DEF Counts, OnlyHandler
<1> QED BY <1>3

(* The step is about one expense, which stays under way: the screens are    *)
(* right about the others as before.                                        *)
LEMMA OneExpense ==
    ASSUME Counted, NEW s \in Submits, NEW e \in Expenses, OnlyHandler(s),
           submit[s].expense # e => submit[s].pc = "new" /\ submit[s].delete = "none",
           Pending(e)',
           told' \ {e} = told \ {e}, rows' \ {e} = rows \ {e}, mounted' = mounted,
           Moved(cache, cache', e), FetchesKept
    PROVE  Counted'
<1> SUFFICES ASSUME NEW q \in mounted \cap Counting, NEW x \in Expenses \ told', ~Pending(x)'
             PROVE  /\ ~cache'[q].invalid => Right(cache[q], x)'
                    /\ fetch'[q].pc = "read" => Right(fetch[q].answer, x)'
  BY DEF Counted
<1>1. x # e /\ x \notin told
  OBVIOUS
<1>2. ~Pending(x)
  BY <1>1 DEF Pending, OnlyHandler
<1>3. /\ ~cache[q].invalid => Right(cache[q], x)
      /\ fetch[q].pc = "read" => Right(fetch[q].answer, x)
  BY <1>1, <1>2 DEF Counted
<1>4. q \in Queries
  BY QueriesAre
<1>5. (x \in rows') <=> (x \in rows)
  BY <1>1
<1>6. /\ cache'[q].invalid = cache[q].invalid
      /\ {i \in cache'[q].items : i.expense = x} = {i \in cache[q].items : i.expense = x}
      /\ cache'[q].shift[x] = cache[q].shift[x]
  BY <1>1, <1>4 DEF Moved
<1>7. Right(cache[q], x) => Right(cache[q], x)'
  BY <1>5, <1>6 DEF Right
<1>8. fetch'[q].pc = "read" => fetch'[q] = fetch[q]
  BY <1>4 DEF FetchesKept
<1>9. fetch'[q] = fetch[q] => (Right(fetch[q].answer, x) => Right(fetch[q].answer, x)')
  BY <1>5 DEF Right
<1> QED BY <1>3, <1>6, <1>7, <1>8, <1>9

(* A step after which every screen that counts expenses is asked again.     *)
LEMMA AllAskedAgain ==
    ASSUME TypeOK, NEW c \in [Queries -> Answers], cache' = MarkedInvalid(c, RefreshFromServer),
           Invalidate(RefreshFromServer), mounted' = mounted
    PROVE  /\ Counted'
           /\ cache' \in [Queries -> Answers]
           /\ FetchesKept
           /\ (\A q \in Queries : c[q].seen = cache[q].seen /\ c[q].invalid = cache[q].invalid)
                => ScreensKept
<1>1. ASSUME NEW q \in Queries
      PROVE  /\ cache'[q].seen = c[q].seen
             /\ c[q].invalid => cache'[q].invalid
             /\ Invalidated(q, RefreshFromServer) => cache'[q].invalid /\ fetch'[q].pc # "read"
             /\ fetch'[q].pc = "read" => fetch'[q] = fetch[q]
  <2>1. fetch'[q] = IF Invalidated(q, RefreshFromServer) THEN Asked ELSE fetch[q]
    BY DEF Invalidate
  <2>2. Asked.pc = "asked"
    BY DEF Asked
  <2> QED BY <2>1, <2>2, Marking
<1>2. ASSUME NEW q \in mounted \cap Counting
      PROVE  q \in Queries /\ Invalidated(q, RefreshFromServer)
  BY QueriesAre, CountingQueries DEF Invalidated
<1>3. Counted'
  BY <1>1, <1>2 DEF Counted
<1>4. FetchesKept
  BY <1>1 DEF FetchesKept
<1>5. cache' \in [Queries -> Answers]
  BY QueriesAre, Marking
<1> QED BY <1>1, <1>3, <1>4, <1>5 DEF ScreensKept

(* The requests stay of their type if none is answered.                     *)
Requests == [Queries -> [pc : {"idle", "asked"}] \cup [pc : {"read"}, answer : Answers]]

LEMMA RequestsTyped ==
    ASSUME NEW f, f = [q \in Queries |-> f[q]], fetch \in Requests,
           \A q \in Queries : f[q] \in {fetch[q], Idle, Asked}
    PROVE  f \in Requests
<1>1. Idle \in [pc : {"idle", "asked"}] /\ Asked \in [pc : {"idle", "asked"}]
  BY DEF Idle, Asked
<1>2. \A q \in Queries : f[q] \in [pc : {"idle", "asked"}] \cup [pc : {"read"}, answer : Answers]
  BY <1>1 DEF Requests
<1> QED BY <1>2 DEF Requests


LEMMA InvalidatedTyped ==
    ASSUME TypeOK, NEW set, Invalidate(set)
    PROVE  fetch' \in Requests
<1>1. fetch' = [q \in Queries |-> fetch'[q]]
  BY DEF Invalidate
<1>2. \A q \in Queries : fetch'[q] \in {fetch[q], Idle, Asked}
  BY DEF Invalidate
<1>3. fetch \in Requests
  BY DEF TypeOK, Requests
<1> QED BY <1>1, <1>2, <1>3, RequestsTyped

-----------------------------------------------------------------------------
LEMMA InitHolds == Init => IInv
<1> SUFFICES ASSUME Init PROVE IInv
  OBVIOUS
<1>1. NewSubmit \in Handlers /\ NewSubmit.pc = "new" /\ NewSubmit.delete = "none"
  BY DEF NewSubmit, Handlers
<1>2. PICK a : a = [items |-> {}, seen |-> {}, shift |-> NoShift, invalid |-> FALSE]
  OBVIOUS
<1>3. NoShift \in [Expenses -> Int] /\ \A e \in Expenses : NoShift[e] = 0
  BY DEF NoShift
<1>4. a \in Answers /\ a.seen = {} /\ a.items = {} /\ \A e \in Expenses : a.shift[e] = 0
  BY <1>2, <1>3 DEF Answers
<1>5. cache = [q \in Queries |-> a]
  BY <1>2 DEF Init
<1>6. Idle \in [pc : {"idle", "asked"}] /\ Idle.pc = "idle"
  BY DEF Idle
<1>7. fetch \in [Queries -> [pc : {"idle", "asked"}] \cup [pc : {"read"}, answer : Answers]]
      /\ \A q \in Queries : fetch[q].pc # "read"
  BY <1>6 DEF Init
<1>8. \A s \in Submits : submit[s] = NewSubmit
  BY DEF Init
<1>9. TypeOK
  <2>1. NoNotice \in [kind : {"none"}]
    BY DEF NoNotice
  <2>2. submit \in [Submits -> Handlers]
    BY <1>1 DEF Init
  <2>3. change \in [Changes -> [pc : {"new"}]]
    BY DEF Init
  <2>4. notice = NoNotice /\ mounted \subseteq Queries
        /\ rows = {} /\ keys = {} /\ done = {} /\ told = {}
    BY DEF Init
  <2>5. cache \in [Queries -> Answers]
    BY <1>4, <1>5
  <2> HIDE DEF Init
  <2> QED BY <1>7, <2>1, <2>2, <2>3, <2>4, <2>5 DEF TypeOK
<1>10. HandlersHold
  <2>1. Handler(NewSubmit)
    BY DEF Handler, NewSubmit
  <2> QED BY <1>8, <2>1 DEF HandlersHold
<1>11. NoticeHolds
  BY DEF Init, NoticeHolds, NoNotice
<1>12. Announced
  BY <1>1, <1>8 DEF Announced
<1>13. Counted
  <2>1. \A q \in Queries, e \in Expenses : Right(cache[q], e)
    BY <1>4, <1>5 DEF Right, Init
  <2> QED BY <1>7, <2>1, QueriesAre DEF Counted
<1>14. ChangesHold
  BY <1>4, <1>5, <1>7, QueriesAre DEF ChangesHold, Init
<1> QED BY <1>9, <1>10, <1>11, <1>12, <1>13, <1>14 DEF IInv

-----------------------------------------------------------------------------
(* The quick add.                                                           *)

LEMMA BeginStep ==
    ASSUME IInv, NEW s \in Submits, NEW e \in Expenses, Begin(s, e)
    PROVE  IInv'
<1> USE DEF IInv
<1>1. submit[s].pc = "new" /\ submit[s].delete = "none"
  BY Standing DEF Begin, Handler
<1>2. PICK h : h = [NewSubmit EXCEPT !.pc = "cancelling", !.expense = e]
  OBVIOUS
<1>3. /\ h \in Handlers /\ h.pc = "cancelling" /\ h.expense = e /\ h.call = "none"
      /\ ~h.undone /\ ~h.known /\ h.delete = "none"
  BY <1>2 DEF NewSubmit, Handlers
<1>4. submit' = [submit EXCEPT ![s] = h]
  BY <1>2 DEF Begin
<1>5. submit'[s] = h /\ OnlyHandler(s) /\ submit' \in [Submits -> Handlers]
  BY <1>3, <1>4 DEF TypeOK, OnlyHandler
<1>6. FetchesKept
  BY DEF FetchesKept, Begin, Idle
<1>7. TypeOK'
  <2>1. fetch' \in Requests
    <3>1. fetch' = [q \in Queries |-> fetch'[q]]
      BY DEF Begin
    <3>2. \A q \in Queries : fetch'[q] \in {fetch[q], Idle, Asked}
      BY DEF Begin
    <3>3. fetch \in Requests
      BY DEF TypeOK, Requests
    <3> QED BY <3>1, <3>2, <3>3, RequestsTyped
  <2> QED BY <1>5, <2>1 DEF TypeOK, Requests, Begin
<1>8. HandlersHold'
  <2>1. Handler(h)'
    BY <1>3 DEF Handler
  <2>2. Handler(submit[s])'
    BY <1>5, <2>1 DEF Handler
  <2> QED BY <1>5, <2>2, HandlersKept DEF Begin
<1>9. NoticeHolds'
  <2>1. notice.kind # "none" => notice.of \in Submits
    BY DEF TypeOK
  <2> QED BY <1>1, <1>5, <2>1 DEF NoticeHolds, OnlyHandler, Begin
<1>10. Announced'
  BY <1>1, <1>3, <1>5 DEF Announced, Counts, OnlyHandler, Begin
<1>11. Counted'
  <2>1. Pending(e)'
    BY <1>3, <1>5 DEF Pending
  <2>2. Moved(cache, cache', e)
    BY DEF Moved, TypeOK, Begin
  <2> QED BY <1>1, <1>5, <1>6, <2>1, <2>2, OneExpense DEF Begin
<1>12. ChangesHold'
  BY <1>6, ChangesKept DEF ScreensKept, Begin
<1> QED BY <1>7, <1>8, <1>9, <1>10, <1>11, <1>12

(* The retry of a failed save sends the expense it names.                   *)
LEMMA RetrySaveStep ==
    ASSUME IInv, NEW s \in Submits, RetrySave(s)
    PROVE  IInv'
<1>1. notice.of \in Submits /\ submit[notice.of].pc # "new"
  BY DEF IInv, TypeOK, NoticeHolds, RetrySave
<1>2. submit[notice.of].expense \in Expenses
  BY <1>1, Standing DEF IInv
<1> QED BY <1>2, BeginStep DEF RetrySave

LEMMA ShowStep ==
    ASSUME IInv, NEW s \in Submits, Show(s)
    PROVE  IInv'
<1> USE DEF IInv
<1>1. PICK e \in Expenses : e = submit[s].expense
  BY Standing DEF Show
<1>2. PICK g \in Handlers : g = submit[s]
  BY Standing
<1>3. /\ g.pc = "cancelling" /\ g.expense = e /\ ~g.undone /\ ~g.known /\ g.delete = "none"
  BY <1>1, <1>2, Standing DEF Show, Handler
<1>4. PICK h : h = [g EXCEPT !.pc = "sent", !.call = "sent"]
  OBVIOUS
<1>5. /\ h \in Handlers /\ h.pc = "sent" /\ h.expense = e /\ h.call = "sent"
      /\ ~h.undone /\ ~h.known /\ h.delete = "none"
  BY <1>3, <1>4 DEF Handlers
<1>6. submit' = [submit EXCEPT ![s] = h]
  BY <1>2, <1>4 DEF Show, TypeOK
<1>7. submit'[s] = h /\ OnlyHandler(s) /\ submit' \in [Submits -> Handlers]
  BY <1>5, <1>6 DEF TypeOK, OnlyHandler
<1>8. Moved(cache, cache', e)
  <2>1. Moved(cache, Charge(cache, e, 1), e)
    BY Charging DEF TypeOK
  <2>2. Moved(Charge(cache, e, 1), Prepend(Charge(cache, e, 1), e, s), e)
    BY <2>1, Listing DEF Moved
  <2> QED BY <1>1, <2>1, <2>2, MovedTwice DEF Show
<1>9. FetchesKept /\ ScreensKept
  BY <1>8 DEF FetchesKept, ScreensKept, Moved, Show
<1>10. notice' = [kind |-> "saved", of |-> s]
  BY DEF Show, Notice
<1>11. TypeOK'
  <2>1. cache' \in [Queries -> Answers]
    BY <1>8 DEF Moved
  <2>2. told' \subseteq Expenses
    BY DEF TypeOK, Show
  <2> QED BY <1>7, <1>10, <2>1, <2>2 DEF TypeOK, Show
<1>12. HandlersHold'
  <2>1. Handler(submit[s])'
    BY <1>5, <1>7 DEF Handler
  <2> QED BY <1>7, <2>1, HandlersKept DEF Show
<1>13. NoticeHolds'
  BY <1>5, <1>7, <1>10 DEF NoticeHolds
<1>14. Announced'
  <2>1. Counts(s, e)'
    BY <1>5, <1>7 DEF Counts
  <2>2. \A x \in Expenses \ {e} : x \in told' <=> x \in told
    BY <1>1 DEF Show
  <2> QED BY <1>2, <1>3, <1>5, <1>7, <2>1, <2>2 DEF Announced, Counts, OnlyHandler
<1>15. Counted'
  <2>1. Pending(e)'
    BY <1>5, <1>7 DEF Pending
  <2>2. told' \ {e} = told \ {e}
    BY <1>1 DEF Show
  <2> QED BY <1>1, <1>7, <1>8, <1>9, <2>1, <2>2, OneExpense DEF Show
<1>16. ChangesHold'
  BY <1>9, ChangesKept DEF Show
<1> QED BY <1>11, <1>12, <1>13, <1>14, <1>15, <1>16


LEMMA StoreStep ==
    ASSUME IInv, NEW s \in Submits, Store(s)
    PROVE  IInv'
<1> USE DEF IInv
<1>1. submit[s].pc \in {"sent", "failed"}
  BY Standing DEF Store, Handler
<1>2. PICK e \in Expenses : e = submit[s].expense
  BY <1>1, Standing
<1>3. PICK g \in Handlers : g = submit[s]
  BY Standing
<1>4. g.expense = e /\ g.delete = "none" /\ ~g.known /\ Handler(g)
  BY <1>1, <1>2, <1>3, Standing DEF Handler
<1>5. PICK h : h = [g EXCEPT !.call = "stored"]
  OBVIOUS
<1>6. /\ h \in Handlers /\ h.call = "stored"
      /\ h.pc = g.pc /\ h.expense = e /\ h.undone = g.undone /\ ~h.known /\ h.delete = "none"
  BY <1>4, <1>5 DEF Handlers
<1>7. submit' = [submit EXCEPT ![s] = h]
  BY <1>3, <1>5 DEF Store, TypeOK
<1>8. submit'[s] = h /\ OnlyHandler(s) /\ submit' \in [Submits -> Handlers]
  BY <1>6, <1>7 DEF TypeOK, OnlyHandler
<1>9. /\ keys' = keys \cup {e} /\ rows' = IF e \in keys THEN rows ELSE rows \cup {e}
      /\ UNCHANGED <<mounted, cache, fetch, notice, change, done, told>>
  BY <1>2 DEF Store
<1>10. TypeOK'
  <2>1. rows' \subseteq keys' /\ keys' \subseteq Expenses
    BY <1>9 DEF TypeOK
  <2> QED BY <1>8, <1>9, <2>1 DEF TypeOK
<1>11. HandlersHold'
  <2>1. h.expense \in keys'
    BY <1>6, <1>9
  <2>2. Handler(submit[s])'
    BY <1>1, <1>3, <1>4, <1>6, <1>8, <2>1 DEF Handler
  <2> QED BY <1>8, <1>9, <2>2, HandlersKept
<1>12. NoticeHolds' /\ Announced'
  BY <1>1, <1>2, <1>3, <1>4, <1>6, <1>8, <1>9, NoticeKept, AnnouncedKept
<1>13. Moved(cache, cache', e) /\ FetchesKept /\ ScreensKept
  BY <1>9 DEF Moved, FetchesKept, ScreensKept, TypeOK
<1>14. Counted'
  <2>1. CASE Pending(e)'
    BY <1>2, <1>8, <1>9, <1>13, <2>1, OneExpense
  <2>2. CASE ~Pending(e)'
    <3>1. ASSUME NEW x \in Expenses
          PROVE  Pending(x) <=> Pending(x)'
      <4>1. \A t \in Submits : /\ submit'[t].expense = submit[t].expense
                               /\ submit'[t].pc = submit[t].pc
                               /\ submit'[t].delete = submit[t].delete
        BY <1>2, <1>3, <1>4, <1>6, <1>8 DEF OnlyHandler
      <4> QED BY <4>1 DEF Pending
    <3>2. e \in told \/ e \in keys
      <4>1. SUFFICES ASSUME e \notin told PROVE e \in keys
        OBVIOUS
      <4>2. PICK t \in Submits : Counts(t, e)
        BY <1>1, <1>2, <4>1 DEF Announced
      <4>3. submit[t].pc = "saved"
        BY <2>2, <3>1, <4>2 DEF Counts, Pending
      <4> QED BY <4>2, <4>3, Standing DEF Handler, Counts
    <3>3. \A x \in Expenses \ told : x \in rows' <=> x \in rows
      BY <1>9, <3>2
    <3> QED BY <1>9, <3>1, <3>3 DEF Counted, Right
  <2> QED BY <2>1, <2>2
<1>15. ChangesHold'
  BY <1>9, <1>13, ChangesKept
<1> QED BY <1>10, <1>11, <1>12, <1>14, <1>15

LEMMA SavedStep ==
    ASSUME IInv, NEW s \in Submits, Saved(s)
    PROVE  IInv'
<1> USE DEF IInv
<1>1. PICK e \in Expenses : e = submit[s].expense
  BY Standing DEF Saved
<1>2. PICK g \in Handlers : g = submit[s]
  BY Standing
<1>3. /\ g.pc = "sent" /\ g.call = "stored" /\ g.expense = e /\ g.delete = "none"
      /\ g.undone \in BOOLEAN /\ e \in keys
  BY <1>1, <1>2, Standing DEF Saved, Handler
<1>4. PICK d : d = IF g.undone THEN "sent" ELSE g.delete
  OBVIOUS
<1>5. PICK h : h = [g EXCEPT !.pc = "saved", !.known = TRUE, !.delete = d]
  OBVIOUS
<1>6. /\ h \in Handlers /\ h.pc = "saved" /\ h.call = "stored" /\ h.expense = e
      /\ h.known /\ h.undone = g.undone /\ h.delete = IF g.undone THEN "sent" ELSE "none"
  BY <1>3, <1>4, <1>5 DEF Handlers
<1>7. submit' = [submit EXCEPT ![s] = h]
  BY <1>2, <1>4, <1>5 DEF Saved, TypeOK
<1>8. submit'[s] = h /\ OnlyHandler(s) /\ submit' \in [Submits -> Handlers]
  BY <1>6, <1>7 DEF TypeOK, OnlyHandler
<1>9. UNCHANGED <<mounted, notice, change, rows, keys, done, told>>
  BY DEF Saved
<1>10. HandlersHold'
  <2>1. Handler(submit[s])'
    BY <1>3, <1>6, <1>8, <1>9 DEF Handler
  <2> QED BY <1>8, <1>9, <2>1, HandlersKept
<1>11. NoticeHolds' /\ Announced'
  BY <1>1, <1>2, <1>3, <1>6, <1>8, <1>9, NoticeKept, AnnouncedKept
<1>12. /\ cache' \in [Queries -> Answers] /\ fetch' \in Requests
       /\ Counted' /\ ScreensKept
  <2>1. CASE g.undone
    <3>1. UNCHANGED <<cache, fetch>>
      BY <1>2, <2>1 DEF Saved
    <3>2. Moved(cache, cache', e) /\ FetchesKept /\ ScreensKept
      BY <3>1 DEF Moved, FetchesKept, ScreensKept, TypeOK
    <3>3. Pending(e)'
      BY <1>6, <1>8, <2>1 DEF Pending
    <3>4. Counted'
      BY <1>1, <1>8, <1>9, <3>2, <3>3, OneExpense
    <3> QED BY <3>1, <3>2, <3>4 DEF TypeOK, Requests
  <2>2. CASE ~g.undone
    <3>1. cache' = MarkedInvalid(cache, RefreshFromServer) /\ Invalidate(RefreshFromServer)
      BY <1>2, <2>2 DEF Saved
    <3>2. cache \in [Queries -> Answers]
      BY DEF TypeOK
    <3> QED BY <1>9, <3>1, <3>2, AllAskedAgain, InvalidatedTyped
  <2> QED BY <2>1, <2>2
<1>13. ChangesHold'
  BY <1>9, <1>12, ChangesKept
<1>14. TypeOK'
  BY <1>8, <1>9, <1>12 DEF TypeOK, Requests
<1> QED BY <1>10, <1>11, <1>12, <1>13, <1>14

LEMMA SaveFailsStep ==
    ASSUME IInv, NEW s \in Submits, SaveFails(s)
    PROVE  IInv'
<1> USE DEF IInv
<1>1. PICK e \in Expenses : e = submit[s].expense
  BY Standing DEF SaveFails
<1>2. PICK g \in Handlers : g = submit[s]
  BY Standing
<1>3. g.pc = "sent" /\ g.expense = e /\ g.delete = "none" /\ ~g.known /\ Handler(g)
  BY <1>1, <1>2, Standing DEF SaveFails, Handler
<1>4. PICK c : c = IF submit[s].undone THEN cache
                   ELSE Remove(Charge(cache, e, -1), LocalRow(e, s))
  OBVIOUS
<1>5. Moved(cache, c, e)
  <2>1. Moved(cache, cache, e)
    BY DEF Moved, TypeOK
  <2>2. Moved(cache, Charge(cache, e, -1), e)
    BY Charging DEF TypeOK
  <2>3. LocalRow(e, s).expense = e
    BY DEF LocalRow
  <2>4. Moved(Charge(cache, e, -1), Remove(Charge(cache, e, -1), LocalRow(e, s)), e)
    BY <2>2, <2>3, Unlisting DEF Moved
  <2>5. Moved(cache, Remove(Charge(cache, e, -1), LocalRow(e, s)), e)
    BY <2>2, <2>4, MovedTwice
  <2> QED BY <1>4, <2>1, <2>5
<1>6. PICK r \in BOOLEAN :
        submit' = [submit EXCEPT ![s].pc = "failed", ![s].call = IF r THEN @ ELSE "none"]
  BY DEF SaveFails
<1>7. PICK d : d = IF r THEN g.call ELSE "none"
  OBVIOUS
<1>8. PICK h : h = [g EXCEPT !.pc = "failed", !.call = d]
  OBVIOUS
<1>9. g.call \in {"none", "sent", "stored"} /\ d \in {g.call, "none"}
  BY <1>2, <1>7, Standing
<1>10. /\ h \in Handlers /\ h.pc = "failed" /\ h.call = d /\ h.expense = e
       /\ h.undone = g.undone /\ ~h.known /\ h.delete = "none"
  BY <1>3, <1>8, <1>9 DEF Handlers
<1>11. submit' = [submit EXCEPT ![s] = h]
  BY <1>2, <1>6, <1>7, <1>8 DEF TypeOK
<1>12. submit'[s] = h /\ OnlyHandler(s) /\ submit' \in [Submits -> Handlers]
  BY <1>10, <1>11 DEF TypeOK, OnlyHandler
<1>13. /\ UNCHANGED <<mounted, change, rows, keys, done>>
       /\ told' = told \cup {e} /\ notice' = [kind |-> "save-failed", of |-> s]
       /\ cache' = MarkedInvalid(c, RefreshFromServer) /\ Invalidate(RefreshFromServer)
  BY <1>1, <1>4 DEF SaveFails, Notice
<1>14. HandlersHold'
  <2>1. Handler(submit[s])'
    BY <1>3, <1>9, <1>10, <1>12, <1>13 DEF Handler
  <2> QED BY <1>12, <1>13, <2>1, HandlersKept
<1>15. NoticeHolds'
  BY <1>10, <1>12, <1>13 DEF NoticeHolds
<1>16. Announced'
  BY <1>1, <1>10, <1>12, <1>13, AnnouncedKept
<1>17. /\ cache' \in [Queries -> Answers] /\ fetch' \in Requests
       /\ Counted' /\ ScreensKept
  <2>1. c \in [Queries -> Answers]
        /\ \A q \in Queries : c[q].seen = cache[q].seen /\ c[q].invalid = cache[q].invalid
    BY <1>5 DEF Moved
  <2> QED BY <1>13, <2>1, AllAskedAgain, InvalidatedTyped
<1>18. ChangesHold'
  BY <1>13, <1>17, ChangesKept
<1>19. TypeOK'
  <2>1. told' \subseteq Expenses
    BY <1>13 DEF TypeOK
  <2> QED BY <1>12, <1>13, <1>17, <2>1 DEF TypeOK, Requests
<1> QED BY <1>14, <1>15, <1>16, <1>17, <1>18, <1>19


(* The undo takes the expense off the screen under the id the screen knows. *)
LEMMA UndoStep ==
    ASSUME IInv, NEW s \in Submits, Undo(s)
    PROVE  IInv'
<1> USE DEF IInv
<1>1. submit[s].pc \in {"sent", "saved"}
  BY DEF Undo, NoticeHolds, Notice
<1>2. PICK e \in Expenses : e = submit[s].expense
  BY <1>1, Standing
<1>3. PICK g \in Handlers : g = submit[s]
  BY Standing
<1>4. g.expense = e /\ g.known \in BOOLEAN /\ Handler(g) /\ (g.pc = "saved" <=> g.known)
  BY <1>1, <1>2, <1>3, Standing DEF Handler
<1>5. PICK d : d = IF g.known THEN "sent" ELSE g.delete
  OBVIOUS
<1>6. PICK h : h = [g EXCEPT !.undone = TRUE, !.delete = d]
  OBVIOUS
<1>7. /\ h \in Handlers /\ h.pc = g.pc /\ h.call = g.call /\ h.expense = e
      /\ h.known = g.known /\ h.undone /\ h.delete = IF g.known THEN "sent" ELSE g.delete
  BY <1>4, <1>5, <1>6 DEF Handlers
<1>8. submit' = [submit EXCEPT ![s] = h]
  BY <1>3, <1>5, <1>6 DEF Undo, TypeOK
<1>9. submit'[s] = h /\ OnlyHandler(s) /\ submit' \in [Submits -> Handlers]
  BY <1>7, <1>8 DEF TypeOK, OnlyHandler
<1>10. UNCHANGED <<mounted, fetch, change, rows, keys, done, told>> /\ notice' = NoNotice
  BY DEF Undo
<1>11. Moved(cache, cache', e)
  <2>1. PICK id : id = IF submit[s].known THEN FromServer(e) ELSE LocalRow(e, s)
    OBVIOUS
  <2>2. id.expense = e /\ LocalRow(e, s).expense = e
    BY <2>1 DEF FromServer, LocalRow
  <2>3. PICK a : a = Charge(cache, e, -1)
    OBVIOUS
  <2>4. PICK b : b = Remove(a, LocalRow(e, s))
    OBVIOUS
  <2>5. cache' = Remove(b, id)
    BY <1>2, <2>1, <2>3, <2>4 DEF Undo
  <2>6. Moved(cache, a, e)
    BY <2>3, Charging DEF TypeOK
  <2>7. Moved(a, b, e)
    BY <2>2, <2>4, <2>6, Unlisting DEF Moved
  <2>8. Moved(b, cache', e)
    BY <2>2, <2>5, <2>7, Unlisting DEF Moved
  <2> QED BY <2>6, <2>7, <2>8, MovedTwice
<1>12. HandlersHold'
  <2>1. Handler(submit[s])'
    BY <1>1, <1>3, <1>4, <1>7, <1>9, <1>10 DEF Handler
  <2> QED BY <1>9, <1>10, <2>1, HandlersKept
<1>13. NoticeHolds'
  BY <1>10 DEF NoticeHolds, NoNotice
<1>14. Announced'
  BY <1>1, <1>2, <1>3, <1>7, <1>9, <1>10, AnnouncedKept
<1>15. Counted'
  <2>1. Pending(e)'
    BY <1>1, <1>3, <1>4, <1>7, <1>9 DEF Pending
  <2>2. FetchesKept
    BY <1>10 DEF FetchesKept
  <2> QED BY <1>2, <1>9, <1>10, <1>11, <2>1, <2>2, OneExpense
<1>16. ChangesHold'
  BY <1>10, <1>11, ChangesKept DEF ScreensKept, FetchesKept, Moved
<1>17. TypeOK'
  <2>1. cache' \in [Queries -> Answers]
    BY <1>11 DEF Moved
  <2>2. notice' \in [kind : {"none"}]
    BY <1>10 DEF NoNotice
  <2> QED BY <1>9, <1>10, <2>1, <2>2 DEF TypeOK
<1> QED BY <1>12, <1>13, <1>14, <1>15, <1>16, <1>17

(* The steps of a delete: its handler was saved, and only `delete' moves.   *)
DeleteMoves(s, d) ==
    /\ OnlyHandler(s) /\ submit' \in [Submits -> Handlers]
    /\ submit'[s].delete = d
    /\ submit'[s].pc = submit[s].pc /\ submit'[s].expense = submit[s].expense
    /\ submit'[s].call = submit[s].call /\ submit'[s].known = submit[s].known
    /\ submit'[s].undone = submit[s].undone
    /\ submit[s].pc = "saved" /\ submit[s].expense \in Expenses

LEMMA Deleting ==
    ASSUME TypeOK, HandlersHold, NEW s \in Submits, submit[s].delete # "none",
           NEW d \in {"sent", "trashed", "refused", "ok", "failed"},
           submit' = [submit EXCEPT ![s].delete = d]
    PROVE  DeleteMoves(s, d)
<1>1. submit[s].pc = "saved" /\ submit[s].expense \in Expenses
  BY Standing DEF Handler
<1>2. PICK g \in Handlers : g = submit[s]
  BY Standing
<1>3. PICK h : h = [g EXCEPT !.delete = d]
  OBVIOUS
<1>4. /\ h \in Handlers /\ h.delete = d /\ h.pc = g.pc /\ h.expense = g.expense
      /\ h.call = g.call /\ h.known = g.known /\ h.undone = g.undone
  BY <1>3 DEF Handlers
<1>5. submit' = [submit EXCEPT ![s] = h]
  BY <1>2, <1>3 DEF TypeOK
<1>6. submit'[s] = h /\ OnlyHandler(s) /\ submit' \in [Submits -> Handlers]
  BY <1>4, <1>5 DEF TypeOK, OnlyHandler
<1> QED BY <1>1, <1>2, <1>4, <1>6 DEF DeleteMoves

LEMMA DeleteHandlers ==
    ASSUME TypeOK, HandlersHold, NEW s \in Submits,
           NEW d \in {"sent", "trashed", "refused", "ok", "failed"}, DeleteMoves(s, d),
           keys' = keys, rows' \subseteq rows,
           d \in {"trashed", "ok"} => submit[s].expense \notin rows'
    PROVE  HandlersHold'
<1>1. submit[s].call = "stored" /\ submit[s].known /\ submit[s].expense \in keys
  BY Standing DEF DeleteMoves, Handler
<1>2. Handler(submit[s])'
  BY <1>1 DEF DeleteMoves, Handler
<1> QED BY <1>2, HandlersKept DEF DeleteMoves

LEMMA TrashStep ==
    ASSUME IInv, NEW s \in Submits, Trash(s)
    PROVE  IInv'
<1> USE DEF IInv
<1>1. PICK e : e = submit[s].expense
  OBVIOUS
<1>2. PICK d \in {"trashed", "refused"} : d = IF e \in rows THEN "trashed" ELSE "refused"
  OBVIOUS
<1>3. submit' = [submit EXCEPT ![s].delete = d]
  BY <1>1, <1>2 DEF Trash
<1>4. DeleteMoves(s, d)
  BY <1>2, <1>3, Deleting DEF Trash
<1>5. rows' = rows \ {e} /\ UNCHANGED <<mounted, cache, fetch, notice, change, keys, done, told>>
  BY <1>1 DEF Trash
<1>6. TypeOK'
  BY <1>4, <1>5 DEF DeleteMoves, TypeOK
<1>7. HandlersHold'
  BY <1>1, <1>2, <1>4, <1>5, DeleteHandlers
<1>8. NoticeHolds' /\ Announced'
  BY <1>2, <1>4, <1>5, NoticeKept, AnnouncedKept DEF DeleteMoves
<1>9. Moved(cache, cache', e) /\ FetchesKept /\ ScreensKept
  BY <1>5 DEF Moved, FetchesKept, ScreensKept, TypeOK
<1>10. Counted'
  <2>1. Pending(e)'
    BY <1>1, <1>2, <1>4 DEF Pending, DeleteMoves
  <2> QED BY <1>1, <1>4, <1>5, <1>9, <2>1, OneExpense DEF DeleteMoves
<1>11. ChangesHold'
  BY <1>5, <1>9, ChangesKept
<1> QED BY <1>6, <1>7, <1>8, <1>10, <1>11

(* The end of a delete asks the screens again, whether it announces or not. *)
LEMMA DeleteEndsStep ==
    ASSUME IInv, NEW s \in Submits, NEW how \in {"ok", "failed"}, DeleteEnds(s, how),
           submit[s].delete \in {"sent", "trashed", "refused"},
           how = "ok" => submit[s].delete = "trashed" /\ told' = told /\ notice' = notice,
           how = "failed" => /\ told' = told \cup {submit[s].expense}
                             /\ notice' = Notice("undo-failed", s)
    PROVE  IInv'
<1> USE DEF IInv
<1>1. submit' = [submit EXCEPT ![s].delete = how]
  BY DEF DeleteEnds
<1>2. DeleteMoves(s, how)
  BY <1>1, Deleting
<1>3. /\ UNCHANGED <<mounted, change, rows, keys, done>>
      /\ cache' = MarkedInvalid(cache, RefreshFromServer) /\ Invalidate(RefreshFromServer)
  BY DEF DeleteEnds
<1>4. HandlersHold'
  <2>1. how = "ok" => submit[s].expense \notin rows'
    BY <1>3, Standing DEF Handler
  <2> QED BY <1>2, <1>3, <2>1, DeleteHandlers
<1>5. NoticeHolds'
  <2>1. CASE how = "ok"
    BY <1>2, <2>1, NoticeKept DEF DeleteMoves
  <2>2. CASE how = "failed"
    BY <1>2, <2>2 DEF DeleteMoves, NoticeHolds, Notice
  <2> QED BY <2>1, <2>2
<1>6. Announced'
  <2>1. CASE how = "ok"
    BY <1>2, <2>1, AnnouncedKept DEF DeleteMoves
  <2>2. CASE how = "failed"
    BY <1>2, <2>2, AnnouncedKept DEF DeleteMoves
  <2> QED BY <2>1, <2>2
<1>7. /\ cache' \in [Queries -> Answers] /\ fetch' \in Requests
      /\ Counted' /\ ScreensKept
  <2>1. cache \in [Queries -> Answers]
    BY DEF TypeOK
  <2> QED BY <1>3, <2>1, AllAskedAgain, InvalidatedTyped
<1>8. ChangesHold'
  BY <1>3, <1>7, ChangesKept
<1>9. TypeOK'
  <2>1. told' \subseteq Expenses
    BY <1>2 DEF DeleteMoves, TypeOK
  <2>2. CASE how = "ok"
    BY <1>2, <1>3, <1>7, <2>1, <2>2 DEF DeleteMoves, TypeOK, Requests
  <2>3. CASE how = "failed"
    <3>1. notice' = [kind |-> "undo-failed", of |-> s]
      BY <2>3 DEF Notice
    <3> QED BY <1>2, <1>3, <1>7, <2>1, <3>1 DEF DeleteMoves, TypeOK, Requests
  <2> QED BY <2>2, <2>3
<1> QED BY <1>4, <1>5, <1>6, <1>7, <1>8, <1>9

LEMMA RetryDeleteStep ==
    ASSUME IInv, NEW s \in Submits, RetryDelete(s)
    PROVE  IInv'
<1> USE DEF IInv
<1>1. DeleteMoves(s, "sent")
  BY Deleting DEF RetryDelete
<1>2. UNCHANGED <<mounted, cache, fetch, notice, change, rows, keys, done, told>>
  BY DEF RetryDelete
<1>3. TypeOK'
  BY <1>1, <1>2 DEF DeleteMoves, TypeOK
<1>4. HandlersHold'
  BY <1>1, <1>2, DeleteHandlers
<1>5. NoticeHolds' /\ Announced'
  BY <1>1, <1>2, NoticeKept, AnnouncedKept DEF DeleteMoves
<1>6. PICK e \in Expenses : e = submit[s].expense
  BY <1>1 DEF DeleteMoves
<1>7. Moved(cache, cache', e) /\ FetchesKept /\ ScreensKept
  BY <1>2 DEF Moved, FetchesKept, ScreensKept, TypeOK
<1>8. Counted'
  <2>1. Pending(e)'
    BY <1>1, <1>6 DEF Pending, DeleteMoves
  <2> QED BY <1>1, <1>2, <1>6, <1>7, <2>1, OneExpense DEF DeleteMoves
<1>9. ChangesHold'
  BY <1>2, <1>7, ChangesKept
<1> QED BY <1>3, <1>4, <1>5, <1>8, <1>9

LEMMA DismissStep ==
    ASSUME IInv, Dismiss
    PROVE  IInv'
<1> USE DEF IInv
<1>1. UNCHANGED <<mounted, cache, fetch, submit, change, rows, keys, done, told>>
      /\ notice' = NoNotice
  BY DEF Dismiss
<1>2. TypeOK'
  <2>1. notice' \in [kind : {"none"}]
    BY <1>1 DEF NoNotice
  <2> QED BY <1>1, <2>1 DEF TypeOK
<1>3. HandlersHold' /\ NoticeHolds'
  BY <1>1 DEF HandlersHold, Handler, NoticeHolds, NoNotice
<1>4. Announced' /\ Counted'
  BY <1>1 DEF Announced, Counts, Counted, Pending, Right
<1>5. ChangesHold'
  BY <1>1, ChangesKept DEF ScreensKept, FetchesKept
<1> QED BY <1>2, <1>3, <1>4, <1>5


-----------------------------------------------------------------------------
(* The query client.                                                        *)

(* What a step of the query client or of another screen leaves alone.       *)
QuickAddKept == UNCHANGED <<mounted, submit, notice, rows, keys, told>>

LEMMA QuickAddStands ==
    ASSUME HandlersHold, NoticeHolds, Announced, QuickAddKept
    PROVE  /\ HandlersHold' /\ NoticeHolds' /\ Announced'
           /\ \A e \in Expenses : Pending(e)' <=> Pending(e)
<1> USE DEF QuickAddKept
<1>1. HandlersHold' /\ NoticeHolds'
  BY DEF HandlersHold, Handler, NoticeHolds
<1>2. Announced'
  BY DEF Announced, Counts
<1>3. \A e \in Expenses : Pending(e)' <=> Pending(e)
  BY DEF Pending
<1> QED BY <1>1, <1>2, <1>3

(* Screens that are left, marked or asked again are as right as before.     *)
LEMMA CountedStands ==
    ASSUME HandlersHold, NoticeHolds, Announced, Counted, QuickAddKept, ScreensKept,
           \A q \in Queries : /\ cache'[q].items = cache[q].items
                              /\ cache'[q].shift = cache[q].shift
    PROVE  Counted'
<1> SUFFICES ASSUME NEW q \in mounted \cap Counting, NEW e \in Expenses \ told, ~Pending(e)'
             PROVE  /\ ~cache'[q].invalid => Right(cache[q], e)'
                    /\ fetch'[q].pc = "read" => Right(fetch[q].answer, e)'
  BY DEF Counted, QuickAddKept
<1>1. ~Pending(e)
  BY QuickAddStands
<1>2. q \in Queries
  BY QueriesAre
<1>3. /\ ~cache[q].invalid => Right(cache[q], e)
      /\ fetch[q].pc = "read" => Right(fetch[q].answer, e)
  BY <1>1 DEF Counted
<1>4. /\ cache[q].invalid => cache'[q].invalid
      /\ cache'[q].items = cache[q].items /\ cache'[q].shift = cache[q].shift
      /\ fetch'[q].pc = "read" => fetch'[q] = fetch[q]
  BY <1>2 DEF ScreensKept, FetchesKept
<1>5. Right(cache[q], e) => Right(cache[q], e)'
  BY <1>4 DEF Right, QuickAddKept
<1>6. fetch'[q] = fetch[q] => (Right(fetch[q].answer, e) => Right(fetch[q].answer, e)')
  BY DEF Right, QuickAddKept
<1> QED BY <1>3, <1>4, <1>5, <1>6

(* What the API answers is right about every expense and every change.      *)
LEMMA AnswersAreRight ==
    ASSUME TypeOK, NEW q \in Queries
    PROVE  /\ Answer(q) \in Answers
           /\ Answer(q).seen = Seen(q)
           /\ q \in Counting => \A e \in Expenses : Right(Answer(q), e)
<1>1. PICK items : items = IF ReadsExpenses(q) THEN {FromServer(e) : e \in rows} ELSE {}
  OBVIOUS
<1>2. \A e \in rows : e \in Expenses /\ FromServer(e) \in Items /\ FromServer(e).expense = e
  BY DEF TypeOK, FromServer, Items
<1>3. items \subseteq Items
  BY <1>1, <1>2
<1>4. Seen(q) \subseteq Changes
  BY DEF Seen, TypeOK
<1>5. NoShift \in [Expenses -> Int] /\ \A e \in Expenses : NoShift[e] = 0
  BY DEF NoShift
<1>6. PICK a : a = [items |-> items, seen |-> Seen(q), shift |-> NoShift, invalid |-> FALSE]
  OBVIOUS
<1>7. a = Answer(q)
  BY <1>1, <1>6 DEF Answer, Seen
<1>8. a \in Answers /\ a.seen = Seen(q) /\ a.items = items /\ a.shift = NoShift
  BY <1>3, <1>4, <1>5, <1>6 DEF Answers
<1>9. ASSUME NEW e \in Expenses, q \in Counting
      PROVE  {i \in items : i.expense = e} = IF e \in rows THEN {FromServer(e)} ELSE {}
  <2>1. items = {FromServer(x) : x \in rows}
    BY <1>1, <1>9, CountingQueries
  <2> QED BY <1>2, <2>1
<1>10. ASSUME q \in Counting, NEW e \in Expenses
       PROVE  Right(a, e)
  BY <1>5, <1>8, <1>9, <1>10 DEF Right
<1> QED BY <1>7, <1>8, <1>10

LEMMA FetchReadStep ==
    ASSUME IInv, NEW q \in Queries, FetchRead(q)
    PROVE  IInv'
<1> USE DEF IInv
<1>1. PICK a : a = Answer(q)
  OBVIOUS
<1>2. /\ a \in Answers /\ a.seen = Seen(q)
      /\ q \in Counting => \A e \in Expenses : Right(a, e)
  BY <1>1, AnswersAreRight
<1>3. PICK r : r = [pc |-> "read", answer |-> a]
  OBVIOUS
<1>4. r \in [pc : {"read"}, answer : Answers] /\ r.pc = "read" /\ r.answer = a
  BY <1>2, <1>3
<1>5. fetch' = [fetch EXCEPT ![q] = r]
  BY <1>1, <1>3 DEF FetchRead
<1>6. UNCHANGED <<mounted, cache, submit, notice, change, rows, keys, done, told>>
  BY DEF FetchRead
<1>7. QuickAddKept
  BY <1>6 DEF QuickAddKept
<1>8. \A p \in Queries : fetch'[p] = IF p = q THEN r ELSE fetch[p]
  BY <1>5 DEF TypeOK
<1>9. TypeOK'
  <2>1. fetch' \in Requests
    BY <1>4, <1>5 DEF TypeOK, Requests
  <2> QED BY <1>6, <2>1 DEF TypeOK, Requests
<1>10. Counted'
  <2> SUFFICES ASSUME NEW p \in mounted \cap Counting, NEW e \in Expenses \ told, ~Pending(e)'
               PROVE  /\ ~cache[p].invalid => Right(cache[p], e)'
                      /\ fetch'[p].pc = "read" => Right(fetch[p].answer, e)'
    BY <1>6 DEF Counted
  <2>1. ~Pending(e) /\ p \in Queries
    BY <1>7, QuickAddStands, QueriesAre
  <2>2. /\ ~cache[p].invalid => Right(cache[p], e)
        /\ fetch[p].pc = "read" => Right(fetch[p].answer, e)
    BY <2>1 DEF Counted
  <2>3. ~cache[p].invalid => Right(cache[p], e)'
    BY <1>6, <2>2 DEF Right
  <2>4. CASE p = q
    <3>1. fetch'[p].answer = a /\ Right(a, e)
      BY <1>2, <1>4, <1>8, <2>1, <2>4
    <3> QED BY <1>6, <2>3, <3>1 DEF Right
  <2>5. CASE p # q
    <3>1. fetch'[p] = fetch[p]
      BY <1>8, <2>1, <2>5
    <3> QED BY <1>6, <2>2, <2>3, <3>1 DEF Right
  <2> QED BY <2>4, <2>5
<1>11. ChangesHold'
  <2>1. \A p \in Queries : Seen(p)' = Seen(p)
    BY <1>6 DEF Seen
  <2>2. \A p \in Queries : fetch'[p].pc = "read" => fetch'[p].answer.seen \subseteq Seen(p)
    BY <1>2, <1>4, <1>8 DEF ChangesHold
  <2>3. ASSUME NEW p \in mounted \cap Tracked, NEW c \in done, change[c].pc = "ok", c \in Seen(p)
        PROVE  /\ ~cache[p].invalid => c \in cache[p].seen
               /\ fetch'[p].pc = "read" => c \in fetch'[p].answer.seen
    <3>1. p \in Queries
      BY QueriesAre
    <3> QED BY <1>2, <1>4, <1>8, <2>3, <3>1 DEF ChangesHold
  <2>5. \A c \in done' : change'[c].pc # "new"
    BY <1>6 DEF ChangesHold
  <2>6. \A p \in Queries : /\ cache'[p].seen \subseteq Seen(p)'
                           /\ fetch'[p].pc = "read" => fetch'[p].answer.seen \subseteq Seen(p)'
    BY <1>6, <2>1, <2>2 DEF ChangesHold
  <2>7. ASSUME NEW p \in mounted' \cap Tracked, NEW c \in done', change'[c].pc = "ok",
               c \in Seen(p)'
        PROVE  /\ ~cache'[p].invalid => c \in cache'[p].seen
               /\ fetch'[p].pc = "read" => c \in fetch'[p].answer.seen
    <3>1. p \in mounted \cap Tracked /\ c \in done /\ change[c].pc = "ok"
      BY <1>6, <2>7
    <3>2. c \in Seen(p)
      BY <2>1, <2>7, <3>1, QueriesAre
    <3> QED BY <1>6, <2>3, <3>1, <3>2
  <2> QED BY <2>5, <2>6, <2>7 DEF ChangesHold
<1> QED BY <1>7, <1>9, <1>10, <1>11, QuickAddStands

LEMMA FetchDoneStep ==
    ASSUME IInv, NEW q \in Queries, FetchDone(q)
    PROVE  IInv'
<1> USE DEF IInv
<1>1. PICK r : r = fetch[q]
  OBVIOUS
<1>2. r.pc = "read" /\ r.answer \in Answers
  <2>1. r \in [pc : {"idle", "asked"}] \cup [pc : {"read"}, answer : Answers] /\ r.pc = "read"
    BY <1>1 DEF TypeOK, FetchDone
  <2> QED BY <2>1
<1>3. PICK a \in Answers : a = r.answer
  BY <1>2
<1>4. /\ cache' = [cache EXCEPT ![q] = a] /\ fetch' = [fetch EXCEPT ![q] = Idle]
      /\ UNCHANGED <<mounted, submit, notice, change, rows, keys, done, told>>
  BY <1>1, <1>3 DEF FetchDone
<1>5. QuickAddKept
  BY <1>4 DEF QuickAddKept
<1>6. /\ \A p \in Queries : cache'[p] = IF p = q THEN a ELSE cache[p]
      /\ \A p \in Queries : fetch'[p] = IF p = q THEN Idle ELSE fetch[p]
  BY <1>4 DEF TypeOK
<1>7. Idle \in [pc : {"idle", "asked"}] /\ Idle.pc = "idle"
  BY DEF Idle
<1>8. TypeOK'
  <2>1. cache' \in [Queries -> Answers]
    BY <1>4 DEF TypeOK
  <2>2. fetch' \in Requests
    BY <1>4, <1>7 DEF TypeOK, Requests
  <2> QED BY <1>4, <2>1, <2>2 DEF TypeOK, Requests
<1>9. Counted'
  <2> SUFFICES ASSUME NEW p \in mounted \cap Counting, NEW e \in Expenses \ told, ~Pending(e)'
               PROVE  /\ ~cache'[p].invalid => Right(cache[p], e)'
                      /\ fetch'[p].pc = "read" => Right(fetch[p].answer, e)'
    BY <1>4 DEF Counted
  <2>1. ~Pending(e) /\ p \in Queries
    BY <1>5, QuickAddStands, QueriesAre
  <2>2. /\ ~cache[p].invalid => Right(cache[p], e)
        /\ fetch[p].pc = "read" => Right(fetch[p].answer, e)
    BY <2>1 DEF Counted
  <2>3. CASE p = q
    <3>1. Right(a, e) /\ cache'[p] = a /\ fetch'[p].pc # "read"
      BY <1>1, <1>2, <1>3, <1>6, <1>7, <2>1, <2>2, <2>3
    <3> QED BY <1>4, <3>1 DEF Right
  <2>4. CASE p # q
    <3>1. fetch'[p] = fetch[p] /\ cache'[p] = cache[p]
      BY <1>6, <2>1, <2>4
    <3> QED BY <1>4, <2>2, <3>1 DEF Right
  <2> QED BY <2>3, <2>4
<1>10. ChangesHold'
  <2>1. \A p \in Queries : Seen(p)' = Seen(p)
    BY <1>4 DEF Seen
  <2>2. a.seen \subseteq Seen(q)
    BY <1>1, <1>2, <1>3 DEF ChangesHold
  <2>3. \A p \in Queries : /\ cache'[p].seen \subseteq Seen(p)
                           /\ fetch'[p].pc = "read" => fetch'[p].answer.seen \subseteq Seen(p)
    BY <1>6, <1>7, <2>2 DEF ChangesHold
  <2>4. ASSUME NEW p \in mounted \cap Tracked, NEW c \in done, change[c].pc = "ok", c \in Seen(p)
        PROVE  /\ ~cache'[p].invalid => c \in cache'[p].seen
               /\ fetch'[p].pc = "read" => c \in fetch'[p].answer.seen
    <3>1. p \in Queries
      BY QueriesAre
    <3>2. CASE p = q
      BY <1>1, <1>2, <1>3, <1>6, <1>7, <2>4, <3>1, <3>2 DEF ChangesHold
    <3>3. CASE p # q
      <4>1. cache'[p] = cache[p] /\ fetch'[p] = fetch[p]
        BY <1>6, <3>1, <3>3
      <4> QED BY <2>4, <4>1 DEF ChangesHold
    <3> QED BY <3>2, <3>3
  <2>5. \A c \in done' : change'[c].pc # "new"
    BY <1>4 DEF ChangesHold
  <2>6. \A p \in Queries : /\ cache'[p].seen \subseteq Seen(p)'
                           /\ fetch'[p].pc = "read" => fetch'[p].answer.seen \subseteq Seen(p)'
    BY <1>4, <2>1, <2>3 DEF ChangesHold
  <2>7. ASSUME NEW p \in mounted' \cap Tracked, NEW c \in done', change'[c].pc = "ok",
               c \in Seen(p)'
        PROVE  /\ ~cache'[p].invalid => c \in cache'[p].seen
               /\ fetch'[p].pc = "read" => c \in fetch'[p].answer.seen
    <3>1. p \in mounted \cap Tracked /\ c \in done /\ change[c].pc = "ok"
      BY <1>4, <2>7
    <3>2. c \in Seen(p)
      BY <2>1, <2>7, <3>1, QueriesAre
    <3> QED BY <1>4, <2>4, <3>1, <3>2
  <2> QED BY <2>5, <2>6, <2>7 DEF ChangesHold
<1> QED BY <1>5, <1>8, <1>9, <1>10, QuickAddStands

(* A request that is given up, or one nobody needed.                        *)
LEMMA RequestStep ==
    ASSUME IInv, NEW q \in Queries, FetchFails(q) \/ Refetch(q)
    PROVE  IInv'
<1> USE DEF IInv
<1>1. PICK r \in {Idle, Asked} : fetch' = [fetch EXCEPT ![q] = r]
  BY DEF FetchFails, Refetch
<1>2. UNCHANGED <<mounted, cache, submit, notice, change, rows, keys, done, told>>
  BY DEF FetchFails, Refetch
<1>3. r \in [pc : {"idle", "asked"}] /\ r.pc # "read"
  BY <1>1 DEF Idle, Asked
<1>4. FetchesKept /\ ScreensKept
  BY <1>1, <1>2, <1>3 DEF FetchesKept, ScreensKept, TypeOK
<1>5. QuickAddKept
  BY <1>2 DEF QuickAddKept
<1>6. TypeOK'
  <2>1. fetch' \in Requests
    BY <1>1, <1>3 DEF TypeOK, Requests
  <2> QED BY <1>2, <2>1 DEF TypeOK, Requests
<1>7. Counted'
  BY <1>2, <1>4, <1>5, CountedStands
<1>8. ChangesHold'
  BY <1>2, <1>4, ChangesKept
<1> QED BY <1>5, <1>6, <1>7, <1>8, QuickAddStands


-----------------------------------------------------------------------------
(* Changes made on other screens.                                           *)

(* One change goes on; those that were made keep their kind.                *)
OneChange(c) ==
    /\ \A x \in Changes \ {c} : change'[x] = change[x]
    /\ change[c].pc # "new" => change'[c].pc # "new" /\ change'[c].kind = change[c].kind

LEMMA ChangeMoves ==
    ASSUME TypeOK, NEW c \in Changes, change[c].pc # "new",
           NEW d \in {"sent", "applied", "ok", "failed"},
           change' = [change EXCEPT ![c].pc = d]
    PROVE  /\ change' \in [Changes -> [pc : {"new"}]
                             \cup [pc : {"sent", "applied", "ok", "failed"}, kind : Kinds]]
           /\ OneChange(c) /\ change'[c].pc = d /\ change[c].kind \in Kinds
<1>1. PICK g \in [pc : {"sent", "applied", "ok", "failed"}, kind : Kinds] : g = change[c]
  <2>1. change[c] \in [pc : {"new"}] \cup [pc : {"sent", "applied", "ok", "failed"}, kind : Kinds]
    BY DEF TypeOK
  <2> QED BY <2>1
<1>2. PICK h : h = [g EXCEPT !.pc = d]
  OBVIOUS
<1>3. /\ h \in [pc : {"sent", "applied", "ok", "failed"}, kind : Kinds]
      /\ h.pc = d /\ h.kind = g.kind /\ g.kind \in Kinds
  BY <1>2
<1>4. change' = [change EXCEPT ![c] = h]
  BY <1>1, <1>2 DEF TypeOK
<1>5. change' \in [Changes -> [pc : {"new"}]
                     \cup [pc : {"sent", "applied", "ok", "failed"}, kind : Kinds]]
  BY <1>3, <1>4 DEF TypeOK
<1>6. change'[c] = h /\ \A x \in Changes \ {c} : change'[x] = change[x]
  BY <1>4 DEF TypeOK
<1> QED BY <1>1, <1>3, <1>5, <1>6 DEF OneChange

(* What a query reads of the changes stays, but for those just made.        *)
LEMMA SeenKept ==
    ASSUME TypeOK, ChangesHold, NEW c \in Changes, OneChange(c), NEW q \in Queries,
           done \subseteq done', done' \subseteq done \cup {c}
    PROVE  /\ Seen(q) \subseteq Seen(q)'
           /\ \A x \in done : x \in Seen(q)' => x \in Seen(q)
<1>1. \A x \in done : x \in Changes /\ change'[x].kind = change[x].kind
  BY DEF TypeOK, ChangesHold, OneChange
<1> QED BY <1>1 DEF Seen

(* A change that did not just succeed leaves the screens alone.             *)
LEMMA ChangeStands ==
    ASSUME TypeOK, ChangesHold, NEW c \in Changes, OneChange(c), ScreensKept,
           done \subseteq done', done' \subseteq done \cup {c}, mounted' = mounted,
           c \in done' => change'[c].pc # "new",
           change'[c].pc = "ok" =>
               \A q \in mounted \cap Tracked :
                  c \in Seen(q)' => cache'[q].invalid /\ fetch'[q].pc # "read"
    PROVE  ChangesHold'
<1>1. \A x \in done' : change'[x].pc # "new"
  BY DEF ChangesHold, OneChange, TypeOK
<1>2. ASSUME NEW q \in Queries
      PROVE  /\ cache'[q].seen = cache[q].seen
             /\ cache[q].invalid => cache'[q].invalid
             /\ fetch'[q].pc = "read" => fetch'[q] = fetch[q]
             /\ Seen(q) \subseteq Seen(q)'
             /\ \A x \in done : x \in Seen(q)' => x \in Seen(q)
  BY SeenKept DEF ScreensKept, FetchesKept
<1>3. ASSUME NEW q \in Queries
      PROVE  /\ cache'[q].seen \subseteq Seen(q)'
             /\ fetch'[q].pc = "read" => fetch'[q].answer.seen \subseteq Seen(q)'
  BY <1>2 DEF ChangesHold
<1>4. ASSUME NEW q \in mounted' \cap Tracked, NEW x \in done', change'[x].pc = "ok",
             x \in Seen(q)'
      PROVE  /\ ~cache'[q].invalid => x \in cache'[q].seen
             /\ fetch'[q].pc = "read" => x \in fetch'[q].answer.seen
  <2>1. q \in Queries /\ q \in mounted \cap Tracked
    BY QueriesAre
  <2>2. CASE x = c
    BY <1>4, <2>1, <2>2
  <2>3. CASE x # c
    <3>1. x \in done /\ x \in Changes
      BY <2>3 DEF TypeOK
    <3>2. change[x].pc = "ok"
      BY <1>4, <2>3, <3>1 DEF OneChange
    <3>3. x \in Seen(q)
      BY <1>2, <1>4, <2>1, <3>1
    <3>4. /\ ~cache[q].invalid => x \in cache[q].seen
          /\ fetch[q].pc = "read" => x \in fetch[q].answer.seen
      BY <2>1, <3>1, <3>2, <3>3 DEF ChangesHold
    <3> QED BY <1>2, <2>1, <3>4
  <2> QED BY <2>2, <2>3
<1> QED BY <1>1, <1>3, <1>4 DEF ChangesHold

(* A change that is sent, made or left failed touches no screen.            *)
LEMMA ChangeStep ==
    ASSUME IInv, NEW c \in Changes, OneChange(c), QuickAddKept, UNCHANGED <<cache, fetch>>,
           change' \in [Changes -> [pc : {"new"}]
                          \cup [pc : {"sent", "applied", "ok", "failed"}, kind : Kinds]],
           change'[c].pc \in {"sent", "applied", "failed"},
           done' \in {done, done \cup {c}}
    PROVE  IInv'
<1> USE DEF IInv
<1>1. ScreensKept
  BY DEF ScreensKept, FetchesKept
<1>2. TypeOK'
  BY DEF TypeOK, QuickAddKept
<1>3. Counted'
  BY <1>1, CountedStands
<1>4. ChangesHold'
  BY <1>1, ChangeStands DEF QuickAddKept
<1> QED BY <1>2, <1>3, <1>4, QuickAddStands

LEMMA MutateStep ==
    ASSUME IInv, NEW c \in Changes, NEW k \in Kinds, Mutate(c, k)
    PROVE  IInv'
<1>1. PICK h : h = [pc |-> "sent", kind |-> k]
  OBVIOUS
<1>2. h \in [pc : {"sent", "applied", "ok", "failed"}, kind : Kinds] /\ h.pc = "sent"
  BY <1>1
<1>3. change' = [change EXCEPT ![c] = h] /\ change[c].pc = "new"
  BY <1>1 DEF Mutate
<1>4. /\ change' \in [Changes -> [pc : {"new"}]
                        \cup [pc : {"sent", "applied", "ok", "failed"}, kind : Kinds]]
      /\ change'[c] = h /\ OneChange(c)
  BY <1>2, <1>3 DEF IInv, TypeOK, OneChange
<1>5. QuickAddKept /\ UNCHANGED <<cache, fetch, done>>
  BY DEF Mutate, QuickAddKept
<1> QED BY <1>2, <1>4, <1>5, ChangeStep

LEMMA ApplyStep ==
    ASSUME IInv, NEW c \in Changes, Apply(c) \/ ChangeFails(c) \/ Resubmit(c)
    PROVE  IInv'
<1>1. PICK d \in {"sent", "applied", "failed"} : change' = [change EXCEPT ![c].pc = d]
  BY DEF Apply, ChangeFails, Resubmit
<1>2. change[c].pc # "new"
  BY DEF Apply, ChangeFails, Resubmit
<1>3. QuickAddKept /\ UNCHANGED <<cache, fetch>> /\ done' \in {done, done \cup {c}}
  BY DEF Apply, ChangeFails, Resubmit, QuickAddKept
<1>4. /\ change' \in [Changes -> [pc : {"new"}]
                        \cup [pc : {"sent", "applied", "ok", "failed"}, kind : Kinds]]
      /\ OneChange(c) /\ change'[c].pc = d
  BY <1>1, <1>2, ChangeMoves DEF IInv
<1> QED BY <1>3, <1>4, ChangeStep

(* A success asks again for every tracked query its change can be seen in.  *)
LEMMA SucceedStep ==
    ASSUME IInv, NEW c \in Changes, Succeed(c)
    PROVE  IInv'
<1> USE DEF IInv
<1>1. PICK set : set = change[c].kind.refreshes
  OBVIOUS
<1>2. /\ change[c].pc = "applied" /\ change' = [change EXCEPT ![c].pc = "ok"]
      /\ cache' = MarkedInvalid(cache, set) /\ Invalidate(set)
      /\ UNCHANGED <<mounted, submit, notice, rows, keys, done, told>>
  BY <1>1 DEF Succeed
<1>3. /\ change' \in [Changes -> [pc : {"new"}]
                        \cup [pc : {"sent", "applied", "ok", "failed"}, kind : Kinds]]
      /\ OneChange(c) /\ change'[c].pc = "ok" /\ change[c].kind \in Kinds
  BY <1>2, ChangeMoves
<1>4. QuickAddKept
  BY <1>2 DEF QuickAddKept
<1>5. ASSUME NEW q \in Queries
      PROVE  /\ cache'[q].items = cache[q].items /\ cache'[q].shift = cache[q].shift
             /\ cache'[q].seen = cache[q].seen
             /\ cache[q].invalid => cache'[q].invalid
             /\ Invalidated(q, set) => cache'[q].invalid /\ fetch'[q].pc # "read"
             /\ fetch'[q].pc = "read" => fetch'[q] = fetch[q]
  <2>1. fetch'[q] = IF Invalidated(q, set) THEN Asked ELSE fetch[q]
    BY <1>2 DEF Invalidate
  <2>2. Asked.pc = "asked"
    BY DEF Asked
  <2>3. cache \in [Queries -> Answers]
    BY DEF TypeOK
  <2> QED BY <1>2, <2>1, <2>2, <2>3, Marking
<1>6. ScreensKept
  BY <1>5 DEF ScreensKept, FetchesKept
<1>7. TypeOK'
  <2>1. cache' \in [Queries -> Answers]
    BY <1>2, Marking, QueriesAre DEF TypeOK
  <2>2. fetch' \in Requests
    BY <1>2, InvalidatedTyped
  <2> QED BY <1>2, <1>3, <2>1, <2>2 DEF TypeOK, Requests
<1>8. Counted'
  BY <1>4, <1>5, <1>6, CountedStands
<1>9. ASSUME NEW q \in mounted \cap Tracked, c \in Seen(q)'
      PROVE  cache'[q].invalid /\ fetch'[q].pc # "read"
  <2>1. change'[c].kind = change[c].kind
    BY <1>2, <1>3 DEF OneChange
  <2>2. change[c].kind.writes \cap Reads[q] # {}
    BY <1>9, <2>1 DEF Seen
  <2>3. q \in set
    BY <1>1, <1>3, <2>2, TrackedAreRefreshed
  <2> QED BY <1>5, <2>3, QueriesAre DEF Invalidated
<1>10. ChangesHold'
  BY <1>2, <1>3, <1>6, <1>9, ChangeStands
<1> QED BY <1>4, <1>7, <1>8, <1>10, QuickAddStands

-----------------------------------------------------------------------------
LEMMA StutterHolds ==
    ASSUME IInv, UNCHANGED vars
    PROVE  IInv'
<1> USE DEF IInv, vars
<1>1. QuickAddKept /\ ScreensKept
  BY DEF QuickAddKept, ScreensKept, FetchesKept
<1>2. TypeOK'
  BY DEF TypeOK
<1>3. Counted'
  BY <1>1, CountedStands
<1>4. ChangesHold'
  BY <1>1, ChangesKept
<1> QED BY <1>1, <1>2, <1>3, <1>4, QuickAddStands

LEMMA StepHolds == IInv /\ [Next]_vars => IInv'
<1> SUFFICES ASSUME IInv, [Next]_vars PROVE IInv'
  OBVIOUS
<1>1. ASSUME NEW q \in Queries, FetchRead(q) \/ FetchDone(q) \/ FetchFails(q) \/ Refetch(q)
      PROVE  IInv'
  BY <1>1, FetchReadStep, FetchDoneStep, RequestStep
<1>2. ASSUME NEW s \in Submits, NEW e \in Expenses, SaveExpense(s, e)
      PROVE  IInv'
  BY <1>2, BeginStep DEF SaveExpense
<1>3. ASSUME NEW s \in Submits,
             RetrySave(s) \/ Show(s) \/ Store(s) \/ Saved(s) \/ SaveFails(s) \/ Undo(s)
      PROVE  IInv'
  BY <1>3, RetrySaveStep, ShowStep, StoreStep, SavedStep, SaveFailsStep, UndoStep
<1>4. ASSUME NEW s \in Submits, Trash(s) \/ RetryDelete(s)
      PROVE  IInv'
  BY <1>4, TrashStep, RetryDeleteStep
<1>5. ASSUME NEW s \in Submits, Deleted(s)
      PROVE  IInv'
  BY <1>5, DeleteEndsStep DEF Deleted
<1>6. ASSUME NEW s \in Submits, DeleteFails(s)
      PROVE  IInv'
  <2>1. submit[s].delete \in {"sent", "trashed", "refused"} /\ DeleteEnds(s, "failed")
        /\ told' = told \cup {submit[s].expense} /\ notice' = Notice("undo-failed", s)
    BY <1>6 DEF DeleteFails
  <2> QED BY <2>1, DeleteEndsStep
<1>7. ASSUME NEW c \in Changes, NEW k \in Kinds, Mutate(c, k)
      PROVE  IInv'
  BY <1>7, MutateStep
<1>8. ASSUME NEW c \in Changes, Apply(c) \/ Succeed(c) \/ ChangeFails(c) \/ Resubmit(c)
      PROVE  IInv'
  BY <1>8, ApplyStep, SucceedStep
<1> QED
  BY <1>1, <1>2, <1>3, <1>4, <1>5, <1>6, <1>7, <1>8, DismissStep, StutterHolds DEF Next

LEMMA Inductive == Spec => []IInv
BY InitHolds, StepHolds, PTL DEF Spec

(* The app's caches, requests, handlers and changes have their type.        *)
THEOREM TypeCorrect == Spec => []TypeOK
<1>1. IInv => TypeOK
  BY DEF IInv
<1> QED BY <1>1, Inductive, PTL

(* Once nothing is under way, each screen that counts expenses charges an   *)
(* expense once if the server stores it and never if not, whatever fetches, *)
(* failures, undos and retries met it, unless a failure was announced.      *)
THEOREM Settled == Spec => []ScreenSettles
<1>1. ASSUME IInv PROVE ScreenSettles
  <2> SUFFICES ASSUME Quiet, NEW q \in mounted \cap Counting, NEW e \in Expenses \ told,
                      ~cache[q].invalid
               PROVE  Charged(q, e) = IF e \in rows THEN 1 ELSE 0
    BY DEF ScreenSettles
  <2>1. ~Pending(e)
    BY DEF Quiet, Pending
  <2>2. Right(cache[q], e)
    BY <1>1, <2>1 DEF IInv, Counted
  <2>3. PICK items : items = {i \in cache[q].items : i.expense = e}
    OBVIOUS
  <2>4. Cardinality(items) = IF e \in rows THEN 1 ELSE 0
    <3>1. CASE e \in rows
      BY <2>2, <2>3, <3>1, FS_Singleton DEF Right
    <3>2. CASE e \notin rows
      BY <2>2, <2>3, <3>2, FS_EmptySet DEF Right
    <3> QED BY <3>1, <3>2
  <2>5. Charged(q, e) = Cardinality(items) + 0
    BY <2>2, <2>3 DEF Charged, Right
  <2> QED BY <2>4, <2>5
<1> QED BY <1>1, Inductive, PTL

(* Once nothing is under way and no change was left failed, the screens of  *)
(* the tracked queries show every change made on any screen of the app.     *)
THEOREM Current == Spec => []NumbersAreCurrent
<1>1. ASSUME IInv PROVE NumbersAreCurrent
  <2> SUFFICES ASSUME Quiet, \A c \in Changes : change[c].pc # "failed",
                      NEW q \in mounted \cap Tracked, ~cache[q].invalid
               PROVE  cache[q].seen = Answer(q).seen
    BY DEF NumbersAreCurrent
  <2>1. q \in Queries
    BY QueriesAre
  <2>2. Answer(q).seen = Seen(q)
    BY <1>1, <2>1, AnswersAreRight DEF IInv
  <2>3. cache[q].seen \subseteq Seen(q)
    BY <1>1, <2>1 DEF IInv, ChangesHold
  <2>4. ASSUME NEW c \in Seen(q) PROVE c \in cache[q].seen
    <3>1. c \in done /\ c \in Changes
      BY <1>1 DEF Seen, IInv, TypeOK
    <3>2. change[c].pc = "ok"
      BY <1>1, <3>1 DEF IInv, ChangesHold, Quiet
    <3> QED BY <1>1, <3>1, <3>2 DEF IInv, ChangesHold
  <2> QED BY <2>2, <2>3, <2>4
<1> QED BY <1>1, Inductive, PTL

(* Once nothing is under way, an expense that was undone is not stored,     *)
(* even if its save was answered after the undo, unless another submission  *)
(* of it succeeded or a failure was announced.                              *)
THEOREM UndoneIsGone == Spec => []UndoHolds
<1>1. ASSUME IInv PROVE UndoHolds
  <2> SUFFICES ASSUME Quiet, NEW e \in Expenses \ told,
                      NEW s \in Submits, submit[s].expense = e, submit[s].undone,
                      \A t \in Submits : submit[t].expense = e =>
                          submit[t].undone \/ submit[t].pc = "failed"
               PROVE  e \notin rows
    BY DEF UndoHolds
  <2>1. submit[s].pc \in {"saved", "failed"}
    BY <1>1, Standing DEF IInv, Handler, Quiet
  <2>2. PICK t \in Submits : Counts(t, e)
    BY <1>1, <2>1 DEF IInv, Announced
  <2>3. submit[t].pc = "saved" /\ submit[t].undone
    BY <2>2 DEF Counts, Quiet
  <2>4. submit[t].delete = "ok"
    BY <1>1, <2>2, <2>3, Standing DEF IInv, Handler, Counts, Quiet
  <2> QED BY <1>1, <2>2, <2>4, Standing DEF IInv, Handler, Counts
<1> QED BY <1>1, Inductive, PTL


=============================================================================
