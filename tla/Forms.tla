------------------------------- MODULE Forms --------------------------------
(***************************************************************************)
(* The forms of the app, on the phones of one account.                      *)
(*                                                                         *)
(* A form fills its fields from the row in the cached list when it opens    *)
(* and never again; the list is asked for again while the form is open, and *)
(* "Zapisz" compares the fields with the row as the list shows it then.     *)
(* What differs is sent (PATCH).  A form that creates sends a draft with an *)
(* Idempotency-Key, the same one again as long as it says the same.         *)
(*                                                                         *)
(* Texts are kept by what they mean: "old" is what the row said first,      *)
(* "new" another text that can be saved, "wrong" one that cannot.           *)
(***************************************************************************)
EXTENDS Integers, FiniteSets

CONSTANTS
    Devices,        \* the phones of the account
    MaxOpened,      \* bound: forms opened on a row, on all phones together
    MaxTyped,       \* bound: changes of a field, on all phones together
    MaxFaults,      \* bound: calls whose answer is lost
    MaxSaves        \* bound: drafts of each phone

ASSUME FormsBounds ==
    MaxOpened \in Nat /\ MaxTyped \in Nat /\ MaxFaults \in Nat /\ MaxSaves \in Nat

VARIABLES
    row,        \* server: the row that is edited, or Gone
    made,       \* server: rows created, as their keys and contents
    list,       \* phone -> the row as its cached list shows it
    fetch,      \* phone -> the answer on its way to that list
    screen,     \* phone -> the form it shows
    call,       \* phone -> its mutation under way
    drafts,     \* phone -> drafts made so far
    opened, typed, faults,      \* bounded counters
    meant,      \* history: the row as the users that saved it meant it
    overtaken   \* history: a form was saved after its row changed under it

formsVars == <<row, made, list, fetch, screen, call, drafts, opened, typed, faults, meant, overtaken>>

-----------------------------------------------------------------------------
(* Rows.  A schedule keeps its start until one is sent.                     *)

Gone == [form |-> "none"]
Nothing == [what |-> "none"]
NoDay == 0

Schedule(frequency, interval, day) ==
    [frequency |-> frequency, interval |-> interval, day |-> day, start |-> "kept"]

Goal(deadline) ==
    [form |-> "goal", name |-> "old", target |-> "old", saved |-> "old", deadline |-> deadline]
Rule(schedule) ==
    [form |-> "commitment", name |-> "old", amount |-> "old", category |-> "old",
     subscription |-> "old", schedule |-> schedule]
Source(kind) ==
    [form |-> "income", kind |-> kind, name |-> "old", amount |-> "old",
     schedule |-> Schedule("MONTHLY", 1, 1)]
Expense == [form |-> "expense", amount |-> "old", category |-> "old", note |-> "old", date |-> "old"]
Limit == [form |-> "limit", amount |-> "old"]
Template == [form |-> "template", name |-> "old", amount |-> "old", category |-> "old"]

Rows == {Goal("old"), Goal("past"), Rule(Schedule("MONTHLY", 1, 1)), Rule(Schedule("WEEKLY", 2, 1)),
         Rule(Schedule("YEARLY", 1, 1)), Source("REGULAR"), Source("IRREGULAR"), Expense, Limit,
         Template}

Fields(r) == DOMAIN r \ {"form", "kind"}

-----------------------------------------------------------------------------
(* The schedule part of a form.                                             *)

scheduleFieldsOf(s) ==
    LET weekly == s.frequency = "WEEKLY" IN
    [cadence |-> IF ~weekly THEN "MONTHLY" ELSE IF s.interval = 2 THEN "BIWEEKLY" ELSE "WEEKLY",
     dayOfMonth |-> IF weekly THEN NoDay ELSE s.day,
     dayOfWeek |-> IF weekly THEN s.day ELSE NoDay,
     week |-> "none"]

isSameSchedule(fields, stored) ==
    LET before == scheduleFieldsOf(stored) IN
    /\ fields.cadence = before.cadence
    /\ IF fields.cadence = "MONTHLY" THEN fields.dayOfMonth = stored.day
       ELSE fields.dayOfWeek = stored.day /\ fields.week = "none"

validateSchedule(fields) ==
    IF fields.cadence = "MONTHLY" THEN fields.dayOfMonth # NoDay
    ELSE fields.dayOfWeek # NoDay /\ (fields.cadence = "BIWEEKLY" => fields.week # "none")

toSchedule(fields) ==
    LET monthly == fields.cadence = "MONTHLY" IN
    [frequency |-> IF monthly THEN "MONTHLY" ELSE "WEEKLY",
     interval |-> IF fields.cadence = "BIWEEKLY" THEN 2 ELSE 1,
     day |-> IF monthly THEN fields.dayOfMonth ELSE fields.dayOfWeek,
     start |-> "anew"]

-----------------------------------------------------------------------------
(* What "Zapisz" does with the fields of a form on a row: whether they can  *)
(* be saved, and which are sent.                                            *)

Filled(r) ==
    [f \in Fields(r) |-> IF f = "schedule" THEN scheduleFieldsOf(r.schedule) ELSE r[f]]

(* Mutant: the whole form is sent.                                          *)
DiffersMutant(fields, r, set) == IF \E f \in set : fields[f] # r[f] THEN set ELSE {}
Differs(fields, r, set) == {f \in set : fields[f] # r[f]}
Fine(fields, set) == \A f \in set : fields[f] # "wrong"

GoalForm(fields, goal) ==
    [valid |-> /\ Fine(fields, {"name", "target", "saved"})
               /\ fields.deadline # goal.deadline => fields.deadline # "past",
     change |-> Differs(fields, goal, {"name", "target", "saved", "deadline"})]

ScheduleChange(fields, r) == IF isSameSchedule(fields.schedule, r.schedule) THEN {} ELSE {"schedule"}

CommitmentForm(fields, rule) ==
    LET yearly == rule.schedule.frequency = "YEARLY"
        schedule == IF yearly THEN {} ELSE ScheduleChange(fields, rule) IN
    [valid |-> /\ Fine(fields, {"name", "amount", "category"})
               /\ schedule # {} => validateSchedule(fields.schedule),
     change |-> Differs(fields, rule, {"name", "amount", "category", "subscription"}) \cup schedule]

IncomeForm(fields, source) ==
    LET regular == source.kind = "REGULAR"
        schedule == IF regular THEN ScheduleChange(fields, source) ELSE {} IN
    [valid |-> /\ Fine(fields, IF regular THEN {"name", "amount"} ELSE {"name"})
               /\ schedule # {} => validateSchedule(fields.schedule),
     change |-> Differs(fields, source, IF regular THEN {"name", "amount"} ELSE {"name"})
                  \cup schedule]

TemplateForm(fields, template) ==
    [valid |-> Fine(fields, {"name", "amount", "category"}),
     change |-> Differs(fields, template, {"name", "amount", "category"})]

LimitForm(fields, limit) ==
    [valid |-> Fine(fields, {"amount"}), change |-> Differs(fields, limit, {"amount"})]

ExpenseForm(fields, expense) ==
    [valid |-> Fine(fields, {"amount"}),
     change |-> Differs(fields, expense, {"amount", "category", "note", "date"})]

Submitted(fields, r) ==
    CASE r.form = "goal" -> GoalForm(fields, r)
      [] r.form = "commitment" -> CommitmentForm(fields, r)
      [] r.form = "income" -> IncomeForm(fields, r)
      [] r.form = "template" -> TemplateForm(fields, r)
      [] r.form = "limit" -> LimitForm(fields, r)
      [] r.form = "expense" -> ExpenseForm(fields, r)

(* The row with some fields saved.                                          *)
Patched(r, fields, set) ==
    [f \in DOMAIN r |-> IF f \notin set THEN r[f]
                        ELSE IF f = "schedule" THEN toSchedule(fields.schedule) ELSE fields[f]]

-----------------------------------------------------------------------------
TheList == [on |-> "list"]

FormsInit ==
    /\ row \in Rows \cup {Gone} /\ meant = row
    /\ list = [p \in Devices |-> row] /\ fetch = [p \in Devices |-> Nothing]
    /\ screen = [p \in Devices |-> TheList] /\ call = [p \in Devices |-> Nothing]
    /\ drafts = [p \in Devices |-> 0] /\ made = {}
    /\ opened = 0 /\ typed = 0 /\ faults = 0 /\ overtaken = FALSE

Contents == {"this", "that"}

Draft == [what: {"create"}, state: {"sent"}, key: Devices \X Nat, content: Contents]

(* A row keeps its fields, whatever they say.                               *)
IsRow(r) == r = Gone \/ \E x \in Rows : DOMAIN r = DOMAIN x /\ r.form = x.form

IsScreen(s) ==
    \/ s = TheList
    \/ s \in [on: {"new"}, content: Contents, last: {Nothing} \cup Draft, said: SUBSET Contents]
    \/ s.on = "edit" /\ DOMAIN s = {"on", "fields", "filled", "changed"} /\ s.changed \in BOOLEAN

IsCall(c) ==
    \/ c = Nothing
    \/ c \in Draft \cup [what: {"remove"}, state: {"sent"}]
              \cup [what: {"create", "remove", "change"}, state: {"served", "missing"}]
    \/ c.what = "change" /\ c.state = "sent" /\ "form" \notin c.set

FormsTypeOK ==
    /\ IsRow(row) /\ IsRow(meant)
    /\ made \subseteq [key: Devices \X Nat, content: Contents]
    /\ \A view \in {list, fetch, screen, call} : DOMAIN view = Devices
    /\ \A p \in Devices :
         /\ IsRow(list[p]) /\ (fetch[p] = Nothing \/ IsRow(fetch[p].row))
         /\ IsScreen(screen[p]) /\ IsCall(call[p])
    /\ drafts \in [Devices -> 0..MaxSaves]
    /\ opened \in 0..MaxOpened /\ typed \in 0..MaxTyped /\ faults \in 0..MaxFaults /\ overtaken \in BOOLEAN

-----------------------------------------------------------------------------
(* Opening and filling a form.                                              *)

OpenEdit(p) ==
    /\ screen[p] = TheList /\ list[p] # Gone
    /\ opened < MaxOpened /\ opened' = opened + 1
    /\ screen' = [screen EXCEPT ![p] =
                     [on |-> "edit", fields |-> Filled(list[p]), filled |-> Filled(list[p]),
                      changed |-> FALSE]]
    /\ UNCHANGED <<row, made, list, fetch, call, drafts, typed, faults, meant, overtaken>>

(* A goal's year may go back only where the row's own is past already.      *)
TextsOf(p, f) ==
    CASE f \in {"category", "subscription", "note", "date"} -> {"old", "new"}
      [] f = "deadline" -> {"old", "new"} \cup {list[p].deadline}
      [] OTHER -> {"old", "new", "wrong"}

Shown(p) ==
    IF list[p].form = "income" /\ list[p].kind = "IRREGULAR" THEN {"name"}
    ELSE IF list[p].form = "commitment" /\ list[p].schedule.frequency = "YEARLY"
    THEN Fields(list[p]) \ {"schedule"} ELSE Fields(list[p])

ScheduleFields(fields) ==
    {[fields EXCEPT !.cadence = c] : c \in {"MONTHLY", "BIWEEKLY", "WEEKLY"}}
      \cup (IF fields.cadence = "MONTHLY" THEN {[fields EXCEPT !.dayOfMonth = d] : d \in {NoDay, 1, 2}}
            ELSE {[fields EXCEPT !.dayOfWeek = d] : d \in {1, 2}})
      \cup (IF fields.cadence = "BIWEEKLY" THEN {[fields EXCEPT !.week = w] : w \in {"this", "next"}}
            ELSE {})

Type(p, f) ==
    /\ screen[p].on = "edit" /\ f \in Shown(p) /\ typed < MaxTyped
    /\ call[p] = Nothing   \* bound: nothing is typed while a save is under way
    /\ \E v \in IF f = "schedule" THEN ScheduleFields(screen[p].fields[f]) ELSE TextsOf(p, f) :
          v # screen[p].fields[f] /\ screen' = [screen EXCEPT ![p].fields[f] = v]
    /\ typed' = typed + 1
    /\ UNCHANGED <<row, made, list, fetch, call, drafts, opened, faults, meant, overtaken>>

Leave(p) ==
    /\ screen[p].on # "list"
    /\ screen' = [screen EXCEPT ![p] = TheList]
    /\ UNCHANGED <<row, made, list, fetch, call, drafts, opened, typed, faults, meant, overtaken>>

-----------------------------------------------------------------------------
(* Saving and removing.                                                     *)

(* The fields the user has changed since the form was filled.               *)
Touched(p) == {f \in DOMAIN screen[p].fields : screen[p].fields[f] # screen[p].filled[f]}

Save(p) ==
    LET s == Submitted(screen[p].fields, list[p]) IN
    /\ screen[p].on = "edit" /\ s.valid
    /\ IF s.change = {}
       THEN /\ screen' = [screen EXCEPT ![p] = TheList]
            /\ UNCHANGED <<call, overtaken>>
       ELSE /\ call[p] = Nothing    \* bound: one mutation of a phone at a time
            /\ call' = [call EXCEPT ![p] =
                           [what |-> "change", state |-> "sent", fields |-> screen[p].fields,
                            set |-> s.change, touched |-> Touched(p)]]
            /\ overtaken' = (overtaken \/ screen[p].changed)
            /\ UNCHANGED screen
    /\ UNCHANGED <<row, made, list, fetch, drafts, opened, typed, faults, meant>>

(* A removed row goes to the trash; a source with entries is archived.      *)
Trash(p) ==
    /\ screen[p].on = "edit" /\ call[p] = Nothing
    /\ call' = [call EXCEPT ![p] = [what |-> "remove", state |-> "sent"]]
    /\ UNCHANGED <<row, made, list, fetch, screen, drafts, opened, typed, faults, meant, overtaken>>

-----------------------------------------------------------------------------
(* Forms that create.  Their content is one of two; a template has no key.  *)

OpenNew(p) ==
    /\ screen[p] = TheList /\ call[p] = Nothing
    /\ row = Gone /\ list[p] = Gone /\ drafts[p] = 0     \* bound: one visit, to an empty list
    /\ screen' = [screen EXCEPT ![p] =
                     [on |-> "new", content |-> "this", last |-> Nothing, said |-> {}]]
    /\ UNCHANGED <<row, made, list, fetch, call, drafts, opened, typed, faults, meant, overtaken>>

Retype(p) ==
    /\ screen[p].on = "new" /\ typed < MaxTyped
    /\ screen' = [screen EXCEPT ![p].content = IF @ = "this" THEN "that" ELSE "this"]
    /\ typed' = typed + 1
    /\ UNCHANGED <<row, made, list, fetch, call, drafts, opened, faults, meant, overtaken>>

(* Mutant: a draft, and a key, for every tap.                               *)
useDraftMutant(p) ==
    [what |-> "create", state |-> "sent", key |-> <<p, drafts[p] + 1>>,
     content |-> screen[p].content]
useDraft(p) ==
    LET last == screen[p].last
        new == [what |-> "create", state |-> "sent", key |-> <<p, drafts[p] + 1>>,
                content |-> screen[p].content]
    IN  IF last # Nothing /\ last.content = screen[p].content THEN last ELSE new

Create(p) ==
    LET new == useDraft(p) IN
    /\ screen[p].on = "new" /\ call[p] = Nothing
    /\ new.key[2] =< MaxSaves
    /\ drafts' = [drafts EXCEPT ![p] = new.key[2]]
    /\ screen' = [screen EXCEPT ![p].last = new, ![p].said = @ \cup {new.content}]
    /\ call' = [call EXCEPT ![p] = new]
    /\ UNCHANGED <<row, made, list, fetch, opened, typed, faults, meant, overtaken>>

-----------------------------------------------------------------------------
(* The API (Ledger, Idempotency), and its answers.                          *)

Serve(p) ==
    /\ call[p] # Nothing /\ call[p].state = "sent"
    /\ LET c == call[p]
           missing == c.what # "create" /\ row = Gone
       IN  /\ call' = [call EXCEPT ![p] =
                          [what |-> c.what, state |-> IF missing THEN "missing" ELSE "served"]]
           /\ row' = IF missing \/ c.what = "create" THEN row
                     ELSE IF c.what = "remove" THEN Gone ELSE Patched(row, c.fields, c.set)
           /\ meant' = IF c.what = "change" /\ ~missing
                       THEN Patched(meant, c.fields, c.touched \cap c.set) ELSE meant
           /\ made' = IF c.what = "create" THEN made \cup {[key |-> c.key, content |-> c.content]}
                      ELSE made
    /\ UNCHANGED <<list, fetch, screen, drafts, opened, typed, faults, overtaken>>

(* The list is asked for anew, and the form on screen closes: router.back() *)
(* does not know which.                                                     *)
Succeeds(p) ==
    /\ call[p] # Nothing /\ call[p].state = "served"
    /\ call' = [call EXCEPT ![p] = Nothing]
    /\ fetch' = [fetch EXCEPT ![p] = Nothing]
    /\ screen' = [screen EXCEPT ![p] = TheList]
    /\ UNCHANGED <<row, made, list, drafts, opened, typed, faults, meant, overtaken>>

(* The form stays, with the reason above it.                                *)
Fails(p) ==
    /\ call[p] # Nothing
    /\ \/ call[p].state = "missing" /\ UNCHANGED faults
       \/ faults < MaxFaults /\ faults' = faults + 1
    /\ call' = [call EXCEPT ![p] = Nothing]
    /\ UNCHANGED <<row, made, list, fetch, screen, drafts, opened, typed, meant, overtaken>>

-----------------------------------------------------------------------------
(* The list is fetched again when a screen that shows it opens, when the    *)
(* phone is back online and after a save.                                   *)

Read(p) ==
    /\ fetch[p] = Nothing /\ row # list[p]
    /\ fetch' = [fetch EXCEPT ![p] = [what |-> "list", row |-> row]]
    /\ UNCHANGED <<row, made, list, screen, call, drafts, opened, typed, faults, meant, overtaken>>

(* The form gets the new row, but keeps its fields.  Without a row it is    *)
(* gone too; that of an expense keeps the row it has (its query failed).    *)
Refetched(p) ==
    /\ fetch[p] # Nothing
    /\ fetch' = [fetch EXCEPT ![p] = Nothing]
    /\ IF fetch[p].row = Gone /\ list[p].form = "expense" /\ screen[p].on = "edit"
       THEN UNCHANGED <<list, screen>>
       ELSE /\ list' = [list EXCEPT ![p] = fetch[p].row]
            /\ screen' = [screen EXCEPT ![p] =
                  IF screen[p].on # "edit" THEN @
                  ELSE IF fetch[p].row = Gone THEN TheList ELSE [@ EXCEPT !.changed = TRUE]]
    /\ UNCHANGED <<row, made, call, drafts, opened, typed, faults, meant, overtaken>>

-----------------------------------------------------------------------------
FormsNext ==
    \E p \in Devices :
        \/ OpenEdit(p) \/ Leave(p) \/ Save(p) \/ Trash(p)
        \/ \E f \in {"name", "target", "saved", "deadline", "amount", "category", "subscription",
                     "schedule", "note", "date"} : Type(p, f)
        \/ OpenNew(p) \/ Retype(p) \/ Create(p)
        \/ Serve(p) \/ Succeeds(p) \/ Fails(p) \/ Read(p) \/ Refetched(p)

FormsSpec == FormsInit /\ [][FormsNext]_formsVars

-----------------------------------------------------------------------------
(* Two people who edit one row at once both keep what they changed: the row *)
(* is as those who saved it meant it, field by field, whatever was resent   *)
(* after a lost answer.  Only a form whose row was fetched again while it   *)
(* was open is left out: it takes what the other changed for its own change *)
(* and sends the old text back, though goal-form.tsx:93 and                 *)
(* commitment-form.tsx:53 mean to send only what changed.                   *)
EditsMeet == (row # Gone /\ ~overtaken) => row = meant

(* What is typed once is created once, however often saving it fails and is *)
(* tried again (forms.ts:55-60).                                            *)
CreatedOnce ==
    \A p \in Devices :
        (screen[p].on = "new" /\ Cardinality(screen[p].said) = 1)
            => Cardinality({m \in made : m.key[1] = p}) =< 1
=============================================================================
