------------------------------- MODULE Ledger -------------------------------
(***************************************************************************)
(* What a user keeps in the API beside the answers to payments: categories, *)
(* templates, limits, goals, expenses, incomes, their sources and rules.    *)
(*                                                                         *)
(* A request is one HTTP call.  Its handler checks, one await after         *)
(* another, the references of the body, or reads the row it will merge the  *)
(* body with, and only then writes, in one statement or one transaction.    *)
(* Between any two of these steps other requests run.  The database adds    *)
(* its own rules: foreign keys with what a deletion does to them, and       *)
(* unique columns.  A request whose answer was lost may be sent again.      *)
(***************************************************************************)
EXTENDS Integers, Sequences, FiniteSets, SequencesExt

CONSTANTS
    Handlers,       \* bound: requests
    Topics,         \* bound: which parts of the API one behaviour calls, and how often
    Days, Bank      \* the days of the user's bank history, and its rows of each

VARIABLES
    topic,      \* bound: the topic of this behaviour
    db,         \* table -> id -> row
    user,       \* the User row: whether it exists, whether onboarding was completed
    serial,     \* the last id given out
    keys,       \* Idempotency-Keys stored (one per draft of the app)
    handler,    \* request -> its handler
    made,       \* draft -> times it was carried out
    raced,      \* rows and suggestions written after a read that was stale, and
                \* the imports, with their day, that did not see what another stored
    extra, covered      \* day -> rows added by hand; whether a statement covers it

vars == <<topic, db, user, serial, keys, handler, made, raced, extra, covered>>

Parts ==
    {"categories", "templates", "limits", "goals", "entries", "transactions", "imports",
     "rules", "sources", "subscriptions", "onboarding", "account"}

ASSUME HandlersAreNumbers == Handlers \subseteq Nat \ {0}
ASSUME TopicsAreParts == \A some \in Topics : some.parts \subseteq Parts
ASSUME BankCounts == IsFiniteSet(Days) /\ Bank \in [Days -> Nat]

NULL == 0
Today == CHOOSE day \in Days : TRUE
Me == "me"
Them == "them"
System == "system"

(* f over g, and a single row: @@ and :> of the standard module TLC, which  *)
(* the proof system cannot expand.                                          *)
Over(f, g) == [x \in DOMAIN f \cup DOMAIN g |-> IF x \in DOMAIN f THEN f[x] ELSE g[x]]
Only(id, row) == [i \in {id} |-> row]

-----------------------------------------------------------------------------
(* The schema: who may refer to whom, and what a deletion does to it.       *)
Key(field, to, onDelete) == [field |-> field, to |-> to, onDelete |-> onDelete]

RuleKeys == {Key("category", "categories", "SetNull")}
SourceKeys == {Key("rule", "rules", "SetNull")}
EntryKeys == {Key("source", "sources", "NoAction")}
TransactionKeys ==
    {Key("category", "categories", "SetNull"), Key("rule", "rules", "SetNull")}
TemplateKeys == {Key("category", "categories", "SetNull")}
LimitKeys == {Key("category", "categories", "Cascade")}

KeysOf == [categories |-> {}, goals |-> {}, rules |-> RuleKeys, sources |-> SourceKeys,
           entries |-> EntryKeys, transactions |-> TransactionKeys,
           templates |-> TemplateKeys, limits |-> LimitKeys]
Tables == DOMAIN KeysOf
Trashable == {"goals", "entries", "transactions"}

Rows(d, t) == {d[t][i] : i \in DOMAIN d[t]}
Distinct(d, t, f) ==
    \A i, j \in DOMAIN d[t] : d[t][i][f] = d[t][j][f] /\ d[t][i][f] # NULL => i = j

(* What the database accepts at the end of a statement.                     *)
Consistent(d) ==
    /\ \A t \in Tables : \A k \in KeysOf[t], r \in Rows(d, t) :
          r[k.field] \in DOMAIN d[k.to] \cup {NULL}
    /\ Distinct(d, "sources", "rule") /\ Distinct(d, "limits", "category")

(* DELETE of a row, with what its foreign keys do.                          *)
Deleted(d, t, id) ==
    LET Refers(u, r, how) == \E k \in KeysOf[u] :
            k.to = t /\ k.onDelete = how /\ r[k.field] = id
        Cleared(u, r) == [f \in DOMAIN r |->
            IF \E k \in KeysOf[u] : k.field = f /\ k.to = t /\ k.onDelete = "SetNull" /\ r[f] = id
            THEN NULL ELSE r[f]]
        Kept(u) == {i \in DOMAIN d[u] : ~Refers(u, d[u][i], "Cascade")} \ (IF u = t THEN {id} ELSE {})
    IN [u \in Tables |-> [i \in Kept(u) |-> Cleared(u, d[u][i])]]

Own(d, t, id) == id \in DOMAIN d[t] /\ d[t][id].owner = Me
Set(d, t, id, change) == [d EXCEPT ![t][id] = Over(change, @)]
Insert(d, t, id, row) == [d EXCEPT ![t] = Over(Only(id, row), @)]

-----------------------------------------------------------------------------
(* References sent in a body (OwnedReferencesService).                      *)
Ref(to, id, kind) == [to |-> to, id |-> id, kind |-> kind]
CategoryRef(body) ==
    IF "category" \in DOMAIN body THEN <<Ref("categories", body.category, "any")>> ELSE <<>>
RuleRef(body, kind) ==
    IF "rule" \in DOMAIN body THEN <<Ref("rules", body.rule, kind)>> ELSE <<>>
SourceRef(body) == <<Ref("sources", body.source, "any")>>

assertCategory(id) == id \in DOMAIN db.categories /\ db.categories[id].owner \in {Me, System}
assertRecurringRuleMutant(id, kind) == Own(db, "rules", id)
assertRecurringRule(id, kind) == Own(db, "rules", id) /\ db.rules[id].kind = kind
assertIncomeSource(id) == Own(db, "sources", id)

Granted(ref) ==
    CASE ref.to = "categories" -> ref.id = NULL \/ assertCategory(ref.id)
      [] ref.to = "rules" -> ref.id = NULL \/ assertRecurringRule(ref.id, ref.kind)
      [] ref.to = "sources" -> assertIncomeSource(ref.id)

-----------------------------------------------------------------------------
(* Shapes of a rule and of a source.  The name of an expense rule is        *)
(* required like its amount, and stands with it in one field.               *)
checkScheduleAnchors(s) ==
    IF s.frequency = "WEEKLY" THEN s.dayOfWeek /\ ~s.dayOfMonth
    ELSE s.dayOfMonth /\ ~s.dayOfWeek

checkShape(r) ==
    /\ checkScheduleAnchors(r)
    /\ r.kind = "EXPENSE" => r.amount # NULL
    /\ r.kind = "INCOME" => r.category = NULL /\ ~r.subscription

checkSourceShape(s, hasSchedule) ==
    /\ s.kind = "REGULAR" => s.amount # NULL
    /\ s.kind = "IRREGULAR" => s.amount = NULL /\ ~hasSchedule

Weekly == [frequency |-> "WEEKLY", dayOfWeek |-> TRUE, dayOfMonth |-> FALSE]
Monthly == [frequency |-> "MONTHLY", dayOfWeek |-> FALSE, dayOfMonth |-> TRUE]
Schedules == {Weekly, Monthly}
NoSchedule == [frequency |-> "none"]
IncomeRule(schedule) ==
    Over(schedule, [owner |-> Me, kind |-> "INCOME", amount |-> NULL, category |-> NULL,
                    subscription |-> FALSE, covers |-> FALSE, active |-> TRUE])
ExpenseRule(schedule, category, subscription, covers) ==
    Over(schedule, [owner |-> Me, kind |-> "EXPENSE", amount |-> 1, category |-> category,
                    subscription |-> subscription, covers |-> covers, active |-> TRUE])
Source(kind, amount, rule) == [owner |-> Me, kind |-> kind, amount |-> amount, rule |-> rule]
Expense(day, category, rule) ==
    [owner |-> Me, day |-> day, amount |-> 1, category |-> category, rule |-> rule,
     trashed |-> FALSE]

-----------------------------------------------------------------------------
(* The requests of the API, controller by controller.                       *)
Request(does, table, id, body) ==
    [does |-> does, table |-> table, id |-> id, body |-> body]
Mine(table) == {i \in DOMAIN db[table] : db[table][i].owner = Me}
Edits(table, bodies) ==
    {Request("patch", table, i, b) : i \in Mine(table), b \in bodies}
Deletes(table) == {Request("delete", table, i, <<>>) : i \in DOMAIN db[table]}
Restores(table) == {Request("restore", table, i, <<>>) : i \in DOMAIN db[table]}
Posts(table, bodies) == {Request("post", table, NULL, b) : b \in bodies}

Optional(table) == DOMAIN db[table] \cup {NULL}
NewAmount == [amount |-> 2]
SomeCategory == {[category |-> c] : c \in Optional("categories")}

(* Bodies the schemas accept.                                               *)
NewEntry(s) == [owner |-> Me, source |-> s, amount |-> 1, trashed |-> FALSE]
NewGoal == [owner |-> Me, amount |-> 1, trashed |-> FALSE]
NewTransactions ==
    {Expense(d, NULL, NULL) : d \in Days}
        \cup {Expense(Today, c, NULL) : c \in Optional("categories")}
        \cup {Expense(Today, NULL, r) : r \in Optional("rules")}
TransactionChanges ==
    {NewAmount} \cup SomeCategory \cup {[rule |-> r] : r \in Optional("rules")}
        \cup {[day |-> d] : d \in Days}
NewRules ==
    {ExpenseRule(Monthly, c, FALSE, FALSE) : c \in Optional("categories")}
        \cup {ExpenseRule(Weekly, NULL, FALSE, TRUE), IncomeRule(Monthly)}
RuleChanges ==
    Schedules \cup SomeCategory \cup
        {[subscription |-> TRUE], [active |-> FALSE], [frequency |-> "WEEKLY"],
         [dayOfMonth |-> FALSE, dayOfWeek |-> TRUE], [amount |-> NULL]}
NewSources ==
    {Source("IRREGULAR", NULL, NULL)}
        \cup {Source("REGULAR", 1, r) : r \in Optional("rules")}
        \cup {Over([schedule |-> s], Source("REGULAR", 1, NULL)) : s \in Schedules}
SourceChanges ==
    {[schedule |-> s] : s \in Schedules \cup {NoSchedule}}
        \cup {[rule |-> r] : r \in Optional("rules")}
        \cup {NewAmount, [kind |-> "IRREGULAR", amount |-> NULL],
              [kind |-> "IRREGULAR", amount |-> NULL, schedule |-> NoSchedule]}
OnboardingAnswers ==
    [kind : {"REGULAR", "IRREGULAR"}, category : DOMAIN db.categories, more : BOOLEAN]

CategoryRequests == Posts("categories", {[owner |-> Me]}) \cup Deletes("categories")
TemplateRequests ==
    Posts("templates", {Over([owner |-> Me], b) : b \in SomeCategory})
        \cup Edits("templates", SomeCategory) \cup Deletes("templates")
LimitRequests ==
    {Request(does, "limits", NULL, [category |-> c]) :
        does \in {"put", "unset"}, c \in DOMAIN db.categories}
GoalRequests ==
    Posts("goals", {NewGoal})
        \cup Edits("goals", {NewAmount}) \cup Deletes("goals") \cup Restores("goals")
EntryRequests ==
    Posts("entries", {NewEntry(s) : s \in DOMAIN db.sources})
        \cup Edits("entries", {NewAmount}) \cup Deletes("entries") \cup Restores("entries")
TransactionRequests ==
    Posts("transactions", NewTransactions) \cup Edits("transactions", TransactionChanges)
        \cup Deletes("transactions") \cup Restores("transactions")
ImportRequests ==
    {Request("import", "imports", NULL, [days |-> ds]) : ds \in SUBSET Days \ {{}}}
RuleRequests ==
    Posts("rules", NewRules) \cup Edits("rules", RuleChanges) \cup Deletes("rules")
SourceRequests ==
    Posts("sources", NewSources) \cup Edits("sources", SourceChanges) \cup Deletes("sources")
SubscriptionRequests ==
    {Request(does, "subscriptions", NULL, <<>>) : does \in {"confirm", "dismiss", "undismiss"}}
        \cup {Request("used", "subscriptions", r, <<>>) : r \in DOMAIN db.rules}
OnboardingRequests == {Request("onboard", "onboarding", NULL, b) : b \in OnboardingAnswers}
AccountRequests == {Request("close", "account", NULL, <<>>)}

RequestsOf(part) ==
    CASE part = "categories" -> CategoryRequests
      [] part = "templates" -> TemplateRequests
      [] part = "limits" -> LimitRequests
      [] part = "goals" -> GoalRequests
      [] part = "entries" -> EntryRequests
      [] part = "transactions" -> TransactionRequests
      [] part = "imports" -> ImportRequests
      [] part = "rules" -> RuleRequests
      [] part = "sources" -> SourceRequests
      [] part = "subscriptions" -> SubscriptionRequests
      [] part = "onboarding" -> OnboardingRequests
      [] part = "account" -> AccountRequests
Requests == UNION {RequestsOf(part) : part \in topic.parts}

-----------------------------------------------------------------------------
(* How a request is handled.                                                *)
NewHandler == [request |-> Request("none", "none", NULL, <<>>), draft |-> 0,
               todo |-> <<>>, seen |-> <<>>, status |-> "new"]

(* Rows of a day an import would recognise: alike, and not in the trash.    *)
Live(d, day) ==
    Cardinality({i \in DOMAIN d.transactions : LET r == d.transactions[i] IN
        r.owner = Me /\ r.day = day /\ r.amount = 1 /\ ~r.trashed})

(* The series of payments in the user's history is still suggested.         *)
Detected ==
    /\ ~user.dismissed
    /\ ~\E r \in Rows(db, "rules") :
          r.owner = Me /\ r.kind = "EXPENSE" /\ r.active /\ r.covers

NoRows == [i \in {} |-> 0]

(* The seed, and somebody else's data.                                      *)
Others ==
    [t \in Tables |->
        CASE t = "categories" -> Over(Only(1, [owner |-> System]), Only(2, [owner |-> Them]))
          [] t = "rules" -> Only(3, [IncomeRule(Monthly) EXCEPT !.owner = Them])
          [] t = "sources" -> Only(4, [Source("REGULAR", 1, 3) EXCEPT !.owner = Them])
          [] OTHER -> NoRows]

(* A user with a category of their own, a payment in it, a salary with an   *)
(* entry (which may be in the trash), and one row of everything else.       *)
Settled(trashed) ==
    [t \in Tables |-> Over(Others[t],
        CASE t = "categories" -> Only(5, [owner |-> Me])
          [] t = "rules" -> Over(Only(6, ExpenseRule(Monthly, 5, FALSE, FALSE)),
                                 Only(7, IncomeRule(Monthly)))
          [] t = "sources" -> Only(8, Source("REGULAR", 1, 7))
          [] t = "entries" -> Only(9, [NewEntry(8) EXCEPT !.trashed = trashed])
          [] t = "transactions" -> Only(10, [Expense(Today, 5, 6) EXCEPT !.trashed = trashed])
          [] t = "templates" -> Only(11, [owner |-> Me, category |-> 5])
          [] t = "limits" -> Only(12, [owner |-> Me, category |-> 5])
          [] t = "goals" -> Only(13, [NewGoal EXCEPT !.trashed = trashed]))]

Init ==
    /\ topic \in Topics
    /\ \/ db = Others /\ user = [exists |-> TRUE, onboarded |-> FALSE, dismissed |-> FALSE]
       \/ /\ \E trashed \in BOOLEAN : db = Settled(trashed)
          /\ user = [exists |-> TRUE, onboarded |-> TRUE, dismissed |-> FALSE]
    /\ serial = 13 /\ keys = {}
    /\ handler = [h \in Handlers |-> NewHandler]
    /\ made = [h \in Handlers |-> 0] /\ raced = {}
    /\ extra = [day \in Days |-> Live(db, day)]
    /\ covered = [day \in Days |-> FALSE]

(* What the app sends as a draft, with one key for every delivery.          *)
Drafted(r) ==
    \/ r.does \in {"import", "confirm"}
    \/ r.does = "post" /\ r.table \in {"transactions", "goals", "rules", "sources"}

Creates(r) == r.does \in {"post", "import", "confirm", "onboard"}

(* The routes that answer through idempotentPost.                           *)
KeyedMutant(r) ==
    r.does = "confirm" \/ (r.does = "post" /\ r.table \in {"transactions", "goals", "rules"})
Keyed(r) ==
    \/ r.does \in {"import", "confirm"}
    \/ r.does = "post" /\ r.table \in {"transactions", "goals", "rules", "sources"}
Replayed(h) == Keyed(handler[h].request) /\ handler[h].draft \in keys

Reads(r) ==
    \/ r.does = "patch" /\ r.table \in {"rules", "sources"}
    \/ r.does \in {"import", "confirm", "close"}

References(r) ==
    LET b == r.body IN
    IF r.does \notin {"post", "patch", "put", "onboard"} THEN <<>>
    ELSE CASE r.table = "transactions" -> CategoryRef(b) \o RuleRef(b, "EXPENSE")
           [] r.table = "sources" -> RuleRef(b, "INCOME")
           [] r.table = "entries" -> IF r.does = "post" THEN SourceRef(b) ELSE <<>>
           [] OTHER -> CategoryRef(b)

Start(h, r, draft) ==
    /\ handler[h].status = "new" /\ h <= topic.requests
    /\ \A g \in Handlers : handler[g].status = "new" => h <= g
    /\ handler' = [handler EXCEPT ![h] =
            [request |-> r, draft |-> draft, todo |-> References(r), seen |-> <<>>,
             status |-> IF Keyed(r) /\ draft \in keys THEN "replayed"
                        ELSE IF Reads(r) THEN "read" ELSE "check"]]
    /\ UNCHANGED <<db, user, serial, keys, made, raced, extra, covered>>

Arrive(h, r) == Start(h, r, h)

(* The answer was lost, or is late: the app sends the same draft again.     *)
Retry(h, g) ==
    /\ handler[g].status # "new" /\ handler[g].draft = g
    /\ Creates(handler[g].request)
    /\ Start(h, handler[g].request, g)

Answer(h, status) == handler' = [handler EXCEPT ![h].status = status]
Refuse(h) ==
    /\ Answer(h, "refused")
    /\ UNCHANGED <<db, user, serial, keys, made, raced, extra, covered>>

(* One reference of the body is looked up.                                  *)
Check(h) ==
    /\ handler[h].status = "check" /\ handler[h].todo # <<>>
    /\ IF Granted(Head(handler[h].todo))
       THEN /\ handler' = [handler EXCEPT ![h].todo = Tail(@)]
            /\ UNCHANGED <<db, user, serial, keys, made, raced, extra, covered>>
       ELSE Refuse(h)

-----------------------------------------------------------------------------
(* What a handler reads before it writes.                                   *)
HasRead(h, seen) ==
    /\ handler' = [handler EXCEPT ![h].seen = seen, ![h].status = "check"]
    /\ UNCHANGED <<db, user, serial, keys, made, raced, extra, covered>>

RuleFitsMutant(body, row) == "frequency" \in DOMAIN body => checkShape(Over(body, row))
RuleFits(body, row) == checkShape(Over(body, row))
SourceFits(body, row) ==
    LET merged == Over(body, row) IN
    checkSourceShape(merged,
        IF "schedule" \in DOMAIN body THEN body.schedule # NoSchedule ELSE merged.rule # NULL)

ReadRow(h) ==
    LET r == handler[h].request IN
    /\ r.does = "patch"
    /\ IF /\ Own(db, r.table, r.id)
          /\ IF r.table = "rules" THEN RuleFits(r.body, db.rules[r.id])
             ELSE SourceFits(r.body, db.sources[r.id])
       THEN HasRead(h, db[r.table][r.id])
       ELSE Refuse(h)

ReadExisting(h) ==
    /\ handler[h].request.does = "import"
    /\ HasRead(h, [day \in handler[h].request.body.days |-> Live(db, day)])

(* The series' category is the one its expenses had when they were read.    *)
ReadOverview(h) ==
    /\ handler[h].request.does = "confirm"
    /\ IF user.exists /\ Detected
       THEN \E c \in {c \in DOMAIN db.categories : assertCategory(c)} \cup {NULL} :
              /\ handler' = [handler EXCEPT ![h].status = "check", ![h].seen = [category |-> c],
                                            ![h].todo = CategoryRef([category |-> c])]
              /\ UNCHANGED <<db, user, serial, keys, made, raced, extra, covered>>
       ELSE Refuse(h)

(* deleteAccount: the password is right (a wrong one ends here).            *)
ReadUser(h) ==
    /\ handler[h].request.does = "close"
    /\ IF user.exists THEN HasRead(h, <<>>) ELSE Refuse(h)

Read(h) ==
    /\ handler[h].status = "read"
    /\ ReadRow(h) \/ ReadExisting(h) \/ ReadOverview(h) \/ ReadUser(h)

-----------------------------------------------------------------------------
(* The write.                                                               *)

(* A statement covers a day from the moment its rows were read: a row the   *)
(* user takes out after that is taken out of the statement.                 *)
Covers(h, day) ==
    day \in handler[h].request.body.days /\ Live(db, day) >= handler[h].seen[day]

(* It commits, unless the user is gone, a foreign key fails or a column is  *)
(* not unique, or the key of its draft was stored in the meantime.          *)
Commit(h, d, inserted) ==
    LET r == handler[h].request IN
    IF Replayed(h) \/ ~Consistent(d) \/ ~user.exists
    THEN Answer(h, "refused") /\ UNCHANGED <<db, serial, keys, made, extra, covered>>
    ELSE /\ db' = d /\ serial' = serial + inserted
         /\ Answer(h, "done")
         /\ keys' = IF Keyed(r) THEN keys \cup {handler[h].draft} ELSE keys
         /\ made' = [made EXCEPT ![handler[h].draft] = @ + (IF Creates(r) THEN 1 ELSE 0)]
         /\ extra' = [day \in Days |->
                extra[day] + IF r.does # "import" /\ Live(d, day) > Live(db, day)
                             THEN Live(d, day) - Live(db, day) ELSE 0]
         /\ covered' = [day \in Days |->
                IF r.does = "import" THEN covered[day] \/ Covers(h, day)
                ELSE covered[day] /\ Live(d, day) >= Live(db, day)]

PostRow(h) ==
    LET r == handler[h].request IN
    /\ r.does = "post" /\ (r.table = "sources" => "schedule" \notin DOMAIN r.body)
    /\ Commit(h, Insert(db, r.table, serial + 1, r.body), 1)
    /\ UNCHANGED <<user, raced>>

PostSourceWithSchedule(h) ==
    LET r == handler[h].request IN
    /\ r.does = "post" /\ r.table = "sources" /\ "schedule" \in DOMAIN r.body
    /\ Commit(h, Insert(Insert(db, "rules", serial + 1, IncomeRule(r.body.schedule)),
                        "sources", serial + 2, Source(r.body.kind, r.body.amount, serial + 1)), 2)
    /\ UNCHANGED <<user, raced>>

Stale(h) == db[handler[h].request.table][handler[h].request.id] # handler[h].seen
MarkRaced(h, thing, stale) ==
    raced' = IF stale /\ handler'[h].status = "done" THEN raced \cup {thing} ELSE raced

(* An update is not filtered by the extension: its where says deletedAt: null. *)
UpdatableMutant(t, id) == Own(db, t, id)
Updatable(t, id) == Own(db, t, id) /\ (t \in Trashable => ~db[t][id].trashed)

PatchRow(h) ==
    LET r == handler[h].request IN
    /\ r.does = "patch" /\ r.table # "sources"
    /\ IF Updatable(r.table, r.id)
       THEN /\ Commit(h, Set(db, r.table, r.id, r.body), 0)
            /\ MarkRaced(h, <<r.table, r.id>>, r.table = "rules" /\ Stale(h))
            /\ UNCHANGED user
       ELSE Refuse(h)

(* The rule is the one linked when the row was read.                        *)
PatchSource(h) ==
    LET r == handler[h].request
        b == r.body
        linked == handler[h].seen.rule
        scheduled == "schedule" \in DOMAIN b
        fields == Restrict(b, DOMAIN b \ {"schedule"})
        written(d, change) == Set(d, "sources", r.id, Over(change, fields))
    IN
    /\ r.does = "patch" /\ r.table = "sources"
    /\ IF \/ ~Own(db, "sources", r.id)
          \/ scheduled /\ linked # NULL /\ ~Own(db, "rules", linked)
       THEN Refuse(h)
       ELSE /\ IF ~scheduled THEN Commit(h, written(db, <<>>), 0)
               ELSE IF b.schedule = NoSchedule
               THEN LET detached == written(db, [rule |-> NULL]) IN
                    Commit(h, IF linked = NULL THEN detached
                              ELSE Deleted(detached, "rules", linked), 0)
               ELSE IF linked # NULL
               THEN Commit(h, written(Set(db, "rules", linked, b.schedule), <<>>), 0)
               ELSE Commit(h, written(Insert(db, "rules", serial + 1, IncomeRule(b.schedule)),
                                      [rule |-> serial + 1]), 1)
            /\ MarkRaced(h, <<"sources", r.id>>, Stale(h))
            /\ UNCHANGED user

(* The soft delete of prisma/soft-delete.extension.ts, and its undoing.     *)
TrashRow(h) ==
    LET r == handler[h].request IN
    /\ r.does \in {"delete", "restore"} /\ r.table \in Trashable
    /\ IF Own(db, r.table, r.id) /\ db[r.table][r.id].trashed = (r.does = "restore")
       THEN /\ Commit(h, Set(db, r.table, r.id, [trashed |-> r.does = "delete"]), 0)
            /\ UNCHANGED <<user, raced>>
       ELSE Refuse(h)

DeleteRow(h) ==
    LET r == handler[h].request IN
    /\ r.does = "delete" /\ r.table \notin Trashable
    /\ IF Own(db, r.table, r.id)
       THEN Commit(h, Deleted(db, r.table, r.id), 0) /\ UNCHANGED <<user, raced>>
       ELSE Refuse(h)

(* One limit per category: the upsert finds it or creates it.               *)
SetLimit(h) ==
    LET c == handler[h].request.body.category
        found == \E l \in Rows(db, "limits") : l.category = c IN
    /\ handler[h].request.does = "put"
    /\ IF found THEN Commit(h, db, 0)
       ELSE Commit(h, Insert(db, "limits", serial + 1, [owner |-> Me, category |-> c]), 1)
    /\ UNCHANGED <<user, raced>>

UnsetLimit(h) ==
    LET limits == {i \in DOMAIN db.limits :
                     db.limits[i].category = handler[h].request.body.category} IN
    /\ handler[h].request.does = "unset"
    /\ IF limits = {} THEN Refuse(h)
       ELSE /\ \E i \in limits : Commit(h, Deleted(db, "limits", i), 0)
            /\ UNCHANGED <<user, raced>>

(* Every row of the statement takes one of the rows read, while there is one. *)
FreshMutant(seen, day) == IF seen[day] = 0 THEN Bank[day] ELSE 0
Fresh(seen, day) == IF Bank[day] > seen[day] THEN Bank[day] - seen[day] ELSE 0

(* Imports that have read a day to which h adds rows, and have yet to write. *)
Unseen(h, seen) ==
    {x \in {"import"} \X (Handlers \ {h}) \X DOMAIN seen :
        LET other == handler[x[2]] IN
        /\ other.request.does = "import" /\ other.status = "check"
        /\ x[3] \in DOMAIN other.seen /\ Fresh(seen, x[3]) > 0}

ImportRows(h) ==
    LET seen == handler[h].seen
        new == SetToSeq(UNION {{day} \X (1..Fresh(seen, day)) : day \in DOMAIN seen})
        rows == [i \in serial + 1..serial + Len(new) |-> Expense(new[i - serial][1], NULL, NULL)]
    IN
    /\ handler[h].request.does = "import"
    /\ Commit(h, [db EXCEPT !.transactions = Over(rows, @)], Len(new))
    /\ raced' = IF handler'[h].status = "done" THEN raced \cup Unseen(h, seen) ELSE raced
    /\ UNCHANGED user

ConfirmSubscription(h) ==
    /\ handler[h].request.does = "confirm"
    /\ Commit(h, Insert(db, "rules", serial + 1,
                   ExpenseRule(Monthly, handler[h].seen.category, TRUE, TRUE)), 1)
    /\ MarkRaced(h, <<"confirm", NULL>>, ~Detected)
    /\ UNCHANGED user

(* "To nie subskrypcja", and "Cofnij".                                      *)
Dismiss(h) ==
    LET does == handler[h].request.does IN
    /\ does \in {"dismiss", "undismiss"}
    /\ Commit(h, db, 0)
    /\ user' = [user EXCEPT !.dismissed = user.exists /\ does = "dismiss"]
    /\ UNCHANGED raced

(* "Uzywam": only the day of it is written.                                 *)
MarkUsed(h) ==
    LET id == handler[h].request.id IN
    /\ handler[h].request.does = "used"
    /\ IF /\ Own(db, "rules", id) /\ db.rules[id].kind = "EXPENSE"
          /\ db.rules[id].subscription /\ db.rules[id].active
       THEN Commit(h, db, 0) /\ UNCHANGED <<user, raced>>
       ELSE Refuse(h)

-----------------------------------------------------------------------------
(* The account.                                                             *)
OtherCategory == 1      \* "Inne" of the seed

createIncome(d, body) ==
    IF body.kind = "REGULAR"
    THEN Insert(Insert(d, "rules", serial + 1, IncomeRule(Monthly)),
                "sources", serial + 2, Source("REGULAR", 1, serial + 1))
    ELSE LET source == Insert(d, "sources", serial + 2, Source("IRREGULAR", NULL, NULL)) IN
         IF body.more
         THEN Insert(source, "entries", serial + 3,
                     NewEntry(serial + 2))
         ELSE source

(* The conditional update decides; all the rows follow in its transaction.  *)
CommitOnboarding(h, d) ==
    IF user.onboarded THEN Refuse(h)
    ELSE /\ Commit(h, d, 5)
         /\ user' = [user EXCEPT !.onboarded = user.exists /\ Consistent(d)]

Onboard(h) ==
    LET body == handler[h].request.body
        income == createIncome(db, body)
        commitment == Insert(income, "rules", serial + 4,
                             ExpenseRule(Monthly, body.category, FALSE, FALSE))
        spent == Insert(commitment, "transactions", serial + 5,
                        [Expense(Today, OtherCategory, NULL)
                            EXCEPT !.amount = 3])
    IN
    /\ handler[h].request.does = "onboard"
    /\ CommitOnboarding(h, IF body.more THEN spent ELSE commitment)
    /\ UNCHANGED raced

(* One DELETE of the User row takes everything with it.                     *)
CloseAccount(h) ==
    LET Foreign(t) == {i \in DOMAIN db[t] : db[t][i].owner # Me} IN
    /\ handler[h].request.does = "close"
    /\ IF user.exists
       THEN /\ db' = [t \in Tables |-> Restrict(db[t], Foreign(t))]
            /\ user' = [exists |-> FALSE, onboarded |-> FALSE, dismissed |-> FALSE]
            /\ keys' = {}
            /\ Answer(h, "done")
            /\ UNCHANGED <<serial, made, raced, extra, covered>>
       ELSE Refuse(h)

Write(h) ==
    /\ handler[h].status = "check" /\ handler[h].todo = <<>>
    /\ \/ PostRow(h) \/ PostSourceWithSchedule(h) \/ PatchRow(h) \/ PatchSource(h)
       \/ TrashRow(h) \/ DeleteRow(h) \/ SetLimit(h) \/ UnsetLimit(h) \/ ImportRows(h)
       \/ ConfirmSubscription(h) \/ Dismiss(h) \/ MarkUsed(h) \/ Onboard(h)
       \/ CloseAccount(h)

Next ==
    /\ UNCHANGED topic
    /\ \E h \in Handlers :
        \/ \E r \in Requests : Arrive(h, r)
        \/ \E g \in Handlers : Retry(h, g)
        \/ Check(h) \/ Read(h) \/ Write(h)

Spec == Init /\ [][Next]_vars

-----------------------------------------------------------------------------
TypeOK ==
    /\ topic \in Topics /\ DOMAIN db = Tables /\ Consistent(db) /\ serial \in Nat
    /\ user \in [exists : BOOLEAN, onboarded : BOOLEAN, dismissed : BOOLEAN]
    /\ keys \subseteq Handlers /\ made \in [Handlers -> Nat]
    /\ DOMAIN handler = Handlers
    /\ \A h \in Handlers :
          handler[h].status \in {"new", "read", "check", "done", "refused", "replayed"}
    /\ extra \in [Days -> Nat] /\ covered \in [Days -> BOOLEAN]

(* Every category, rule and source a user's row refers to is their own, or  *)
(* a category of the system; an expense never hangs on the schedule of an   *)
(* income, nor a source on an expense's; and a closed account leaves        *)
(* nothing, whatever was being written meanwhile.                           *)
ReferencesStayOwn ==
    /\ \A t \in Tables : \A k \in KeysOf[t], r \in Rows(db, t) :
          (r.owner = Me /\ r[k.field] # NULL) =>
             LET to == db[k.to][r[k.field]] IN
             /\ to.owner \in {Me} \cup (IF k.to = "categories" THEN {System} ELSE {})
             /\ k.to = "rules" => to.kind = IF t = "sources" THEN "INCOME" ELSE "EXPENSE"
    /\ ~user.exists => \A t \in Tables : \A r \in Rows(db, t) : r.owner # Me

(* A rule and a source keep a shape the API accepts through any sequence of *)
(* PATCHes, deletions and onboarding; unless the row was changed between    *)
(* the read and the write of its PATCH, by another PATCH or by the deletion *)
(* of its category or rule: what was checked then is not what is written.   *)
ShapesHold ==
    /\ \A i \in DOMAIN db.rules : <<"rules", i>> \notin raced => checkShape(db.rules[i])
    /\ \A i \in DOMAIN db.sources : <<"sources", i>> \notin raced =>
          checkSourceShape(db.sources[i], db.sources[i].rule # NULL)

(* A row after a write that leaves it in the trash: all its columns are as  *)
(* they were, but for a reference cleared because what it led to is gone.   *)
StaysInTrash(d, t, old, new) ==
    /\ DOMAIN new = DOMAIN old
    /\ \A f \in DOMAIN old :
          \/ new[f] = old[f]
          \/ /\ new[f] = NULL
             /\ \E k \in KeysOf[t] :
                   k.field = f /\ k.onDelete = "SetNull" /\ old[f] \notin DOMAIN d[k.to]

(* Expenses, incomes and goals leave the database only with the account;    *)
(* in the trash no column of theirs changes, except that the deletion of a  *)
(* category or a rule clears the reference to it; and an income never loses *)
(* its source: nothing deleted elsewhere takes them along.                  *)
HistoryIsKept ==
    [][user'.exists => \A t \in Trashable : \A i \in DOMAIN db[t] :
          /\ i \in DOMAIN db'[t]
          /\ db[t][i].trashed /\ db'[t][i].trashed =>
                StaysInTrash(db', t, db[t][i], db'[t][i])
          /\ t = "entries" => db'[t][i].source = db[t][i].source]_vars

(* Statements that overlap are merged, day by day.  A day some statement    *)
(* covered has each row of the bank, until the user takes one out.  No day  *)
(* has more than the bank's rows and those the user entered or restored,    *)
(* whatever was entered, changed, trashed or restored while an import ran;  *)
(* unless two imports of the day overlapped, one storing rows of it that    *)
(* the other had not read: the code does store them twice then.             *)
StatementsMerge ==
    user.exists => \A day \in Days :
        /\ covered[day] => Live(db, day) >= Bank[day]
        /\ (\A h \in Handlers : handler[h].status = "done" => <<"import", h, day>> \notin raced)
              => Live(db, day) <= Bank[day] + extra[day]

(* A rule is deleted, or paused.                                            *)
Stops(r) ==
    r.table = "rules" /\ (r.does = "delete" \/ (r.does = "patch" /\ "active" \in DOMAIN r.body))

(* What is sent again with the same key is stored once, however the answers *)
(* and the deliveries interleave; an account starts once, and a suggested   *)
(* subscription becomes one rule, unless a rule that stood for it was       *)
(* stopped, or the suggestion was gone by the time its confirmation was     *)
(* written (confirmed twice at once, dismissed meanwhile, or covered by a   *)
(* rule the user made): the code does not look again.                       *)
StoredOnce ==
    /\ \A h \in Handlers : Drafted(handler[h].request) => made[handler[h].draft] <= 1
    /\ Cardinality({h \in Handlers : handler[h].request.does = "onboard"
                                     /\ handler[h].status = "done"}) <= 1
    /\ (<<"confirm", NULL>> \notin raced
        /\ ~\E h \in Handlers : handler[h].status = "done" /\ Stops(handler[h].request)) =>
          Cardinality({h \in Handlers : handler[h].request.does = "confirm"
                                       /\ handler[h].status = "done"}) <= 1
=============================================================================
