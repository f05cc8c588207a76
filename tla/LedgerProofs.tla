---------------------------- MODULE LedgerProofs ----------------------------
(***************************************************************************)
(* Proofs of the properties of Ledger, for any number of requests in       *)
(* flight, of rows, of days and of rows of the bank, and for any topic: a  *)
(* request may call every part of the API in one behaviour.                *)
(*                                                                         *)
(* A request checks its references one at a time, and only later writes    *)
(* them.  The argument is about the time in between (Checked): a row that  *)
(* was fit when it was looked up still is, for as long as it exists, since *)
(* no write changes the owner of a row or the kind of a rule; an id is     *)
(* never given out again; and if the row is gone, the foreign key refuses  *)
(* the write.  So every write only brings references that are fit or to    *)
(* nothing (ReferencesWritten), whichever handler it is of, and what the   *)
(* tables hold is kept by writes of that kind alone (Wrote).               *)
(*                                                                         *)
(* The other properties follow the same plan: a property of one write      *)
(* (History, ShapesStay, StandsOn, Counted), which every handler's write   *)
(* has, and one lemma that such a write keeps the invariant (WrittenKeeps).*)
(***************************************************************************)
EXTENDS Ledger, FiniteSetTheorems, TLAPS

-----------------------------------------------------------------------------
(* The columns of a table that the proofs speak of.                         *)
Fields ==
    [categories |-> {"owner"},
     goals |-> {"owner", "amount", "trashed"},
     rules |-> {"owner", "kind", "amount", "category", "subscription", "covers", "active",
                "frequency", "dayOfWeek", "dayOfMonth"},
     sources |-> {"owner", "kind", "amount", "rule"},
     entries |-> {"owner", "source", "amount", "trashed"},
     transactions |-> {"owner", "day", "amount", "category", "rule", "trashed"},
     templates |-> {"owner", "category"},
     limits |-> {"owner", "category"}]

(* Those a PATCH may send.                                                  *)
Changes ==
    [goals |-> {"amount"}, entries |-> {"amount"}, templates |-> {"category"},
     transactions |-> {"day", "amount", "category", "rule"},
     rules |-> {"amount", "category", "subscription", "active",
                "frequency", "dayOfWeek", "dayOfMonth"},
     sources |-> {"kind", "amount", "rule", "schedule"}]

HasFields(t, r) == Fields[t] \subseteq DOMAIN r

(* Rows have their columns, and no id was given out twice.                  *)
Stored(d, n) ==
    /\ DOMAIN d = Tables
    /\ \A t \in Tables : \A i \in DOMAIN d[t] : i \in 1..n /\ HasFields(t, d[t][i])

-----------------------------------------------------------------------------
(* What a request may carry.                                                *)
Posted(t, b) ==
    /\ t \in {"categories", "templates", "goals", "entries", "transactions", "rules", "sources"}
    /\ HasFields(t, b) /\ b.owner = Me
    /\ t = "rules" => checkShape(b)
    /\ t = "sources" => checkSourceShape(b, b.rule # NULL)
    /\ (t = "sources" /\ "schedule" \in DOMAIN b) =>
          b.schedule \in Schedules /\ b.kind = "REGULAR"

Patched(t, b) ==
    /\ t \in DOMAIN Changes /\ DOMAIN b \subseteq Changes[t]
    /\ "schedule" \in DOMAIN b =>
          b.schedule \in Schedules \cup {NoSchedule} /\ "rule" \notin DOMAIN b

Valid(r) ==
    /\ r = Request(r.does, r.table, r.id, r.body)
    /\ r.does \in {"post", "patch", "delete", "restore", "put", "unset", "import",
                   "confirm", "dismiss", "undismiss", "used", "onboard", "close"}
    /\ r.does = "post" => Posted(r.table, r.body)
    /\ r.does = "patch" => Patched(r.table, r.body)
    /\ r.does = "delete" => r.table \in Tables
    /\ r.does \in {"put", "unset"} =>
          r.table = "limits" /\ r.body = [category |-> r.body.category]
    /\ r.does = "import" => r.table = "imports" /\ r.body.days \subseteq Days
    /\ r.does = "onboard" =>
          /\ r.table = "onboarding"
          /\ r.body = [kind |-> r.body.kind, category |-> r.body.category, more |-> r.body.more]
    /\ r.does \in {"confirm", "dismiss", "undismiss", "used"} => r.table = "subscriptions"

-----------------------------------------------------------------------------
(* References of a body that were looked up: their row was fit then, and as *)
(* long as it exists it still is.                                           *)
Sent(r) ==
    LET b == r.body
        sends == r.does \in {"post", "patch", "put", "onboard"} IN
    (IF sends /\ "category" \in DOMAIN b /\ r.table \notin {"sources", "entries"}
     THEN {Ref("categories", b.category, "any")} ELSE {})
    \cup (IF sends /\ "rule" \in DOMAIN b /\ r.table = "transactions"
          THEN {Ref("rules", b.rule, "EXPENSE")} ELSE {})
    \cup (IF sends /\ "rule" \in DOMAIN b /\ r.table = "sources"
          THEN {Ref("rules", b.rule, "INCOME")} ELSE {})
    \cup (IF r.does = "post" /\ r.table = "entries"
          THEN {Ref("sources", b.source, "any")} ELSE {})

Fit(to, kind, row) ==
    /\ row.owner = Me \/ (to = "categories" /\ row.owner = System)
    /\ to = "rules" => row.kind = kind

Checked(d, n, ref) ==
    \/ ref.id = NULL /\ ref.to # "sources"
    \/ /\ ref.id \in 1..n
       /\ ref.id \in DOMAIN d[ref.to] => Fit(ref.to, ref.kind, d[ref.to][ref.id])

-----------------------------------------------------------------------------
(* A handler x: what it will refer to, and what it read.                    *)
SentBy(x) ==
    IF x.request.does = "confirm" THEN {Ref("categories", x.seen.category, "any")}
    ELSE Sent(x.request)

SeenFits(x, d, n) ==
    LET r == x.request IN
    /\ (r.does = "patch" /\ r.table = "rules") => RuleFits(r.body, x.seen)
    /\ (r.does = "patch" /\ r.table = "sources") =>
          /\ SourceFits(r.body, x.seen) /\ HasFields("sources", x.seen)
          /\ Checked(d, n, Ref("rules", x.seen.rule, "INCOME"))
    /\ r.does = "import" => x.seen \in [r.body.days -> Nat]

(* What it will refer to is to be looked up, or was.                        *)
Looked(x, d, n) ==
    /\ x.todo \in Seq(SentBy(x))
    /\ \A ref \in SentBy(x) : Checked(d, n, ref) \/ \E i \in 1..Len(x.todo) : x.todo[i] = ref

Statuses == {"new", "read", "check", "done", "refused", "replayed"}
IsHandler(x) ==
    x \in [request : {x.request}, draft : {x.draft}, todo : {x.todo}, seen : {x.seen},
           status : {x.status}]

Handling(x, d, n) ==
    /\ IsHandler(x) /\ x.status \in Statuses
    /\ x.status = "new" => x.request.does = "none"
    /\ x.status # "new" => Valid(x.request)
    /\ x.status = "read" => x.todo = References(x.request) /\ Reads(x.request)
    /\ x.status = "check" => SeenFits(x, d, n) /\ Looked(x, d, n)

(* A draft is the request of the handler it is named after.                 *)
Known(x, all) ==
    /\ x.draft \in Handlers /\ all[x.draft].status # "new"
    /\ all[x.draft].draft = x.draft /\ all[x.draft].request = x.request

HandlersOK ==
    /\ DOMAIN handler = Handlers
    /\ \A h \in Handlers :
          /\ Handling(handler[h], db, serial)
          /\ handler[h].status # "new" => Known(handler[h], handler)

StateOK ==
    /\ topic \in Topics /\ serial \in Nat
    /\ Stored(db, serial) /\ Consistent(db)
    /\ user \in [exists : BOOLEAN, onboarded : BOOLEAN, dismissed : BOOLEAN]
    /\ Checked(db, serial, Ref("categories", OtherCategory, "any"))
    /\ keys \subseteq Handlers /\ made \in [Handlers -> Nat]
    /\ extra \in [Days -> Nat] /\ covered \in [Days -> BOOLEAN]

(* A reference of the user's is to a row of theirs, or a category of the    *)
(* system; somebody else's rows refer to nothing of the user's.             *)
Target(t, k, row) == Fit(k.to, IF t = "sources" THEN "INCOME" ELSE "EXPENSE", row)
Owned(d) ==
    \A t \in Tables : \A k \in KeysOf[t], i \in DOMAIN d[t] :
        (d[t][i].owner = Me /\ d[t][i][k.field] # NULL) =>
            Target(t, k, d[k.to][d[t][i][k.field]])
Apart(d) ==
    \A t \in Tables : \A k \in KeysOf[t], i \in DOMAIN d[t] :
        (d[t][i].owner # Me /\ d[t][i][k.field] # NULL) =>
            d[k.to][d[t][i][k.field]].owner # Me
Emptied == ~user.exists => \A t \in Tables : \A i \in DOMAIN db[t] : db[t][i].owner # Me

(* What was carried out is on record while the account exists.              *)
KeyKept ==
    \A d \in Handlers :
        /\ Keyed(handler[d].request) => made[d] <= 1
        /\ (Keyed(handler[d].request) /\ made[d] = 1 /\ user.exists) => d \in keys
        /\ handler[d].status = "new" => made[d] = 0

Done(does) == {h \in Handlers : handler[h].request.does = does /\ handler[h].status = "done"}
StartedOnce ==
    /\ \A g, h \in Done("onboard") : g = h
    /\ (Done("onboard") # {} /\ user.exists) => user.onboarded

Stopped == \E h \in Handlers : handler[h].status = "done" /\ Stops(handler[h].request)
Stands(r) == r.owner = Me /\ r.kind = "EXPENSE" /\ r.active /\ r.covers
ConfirmedOnce ==
    (<<"confirm", NULL>> \notin raced /\ ~Stopped) =>
        /\ \A g, h \in Done("confirm") : g = h
        /\ (Done("confirm") # {} /\ user.exists) =>
              \E i \in DOMAIN db.rules : Stands(db.rules[i])

(* An import that has read a day and has yet to write: what the day has     *)
(* beyond what was read, the user added.                                    *)
Waits(x, day) ==
    x.request.does = "import" /\ x.status = "check" /\ day \in x.request.body.days
ImportsKnow ==
    \A g \in Handlers, day \in Days :
        (user.exists /\ Waits(handler[g], day) /\ <<"import", g, day>> \notin raced) =>
            Live(db, day) <= handler[g].seen[day] + extra[day]

IInv ==
    /\ StateOK /\ HandlersOK /\ Owned(db) /\ Apart(db) /\ Emptied
    /\ KeyKept /\ StartedOnce /\ ConfirmedOnce /\ ShapesHold /\ StatementsMerge
    /\ ImportsKnow

-----------------------------------------------------------------------------
(* The tables and their keys.                                               *)
LEMMA TheTables ==
    /\ Tables = {"categories", "goals", "rules", "sources", "entries", "transactions",
                 "templates", "limits"}
    /\ Trashable \subseteq Tables
    /\ KeysOf["categories"] = {} /\ KeysOf["goals"] = {}
    /\ KeysOf["rules"] = {Key("category", "categories", "SetNull")}
    /\ KeysOf["sources"] = {Key("rule", "rules", "SetNull")}
    /\ KeysOf["entries"] = {Key("source", "sources", "NoAction")}
    /\ KeysOf["transactions"] =
          {Key("category", "categories", "SetNull"), Key("rule", "rules", "SetNull")}
    /\ KeysOf["templates"] = {Key("category", "categories", "SetNull")}
    /\ KeysOf["limits"] = {Key("category", "categories", "Cascade")}
  BY DEF Tables, Trashable, KeysOf, RuleKeys, SourceKeys, EntryKeys, TransactionKeys,
         TemplateKeys, LimitKeys

(* A key is one of eight.                                                   *)
LEMMA TheKeys ==
    ASSUME NEW t \in Tables, NEW k \in KeysOf[t]
    PROVE  /\ k.to \in Tables /\ k.to # t /\ k.field \in Fields[t]
           /\ k.field \in {"category", "rule", "source"}
           /\ k.onDelete = "Cascade" => t = "limits"
           /\ t = "entries" => k.onDelete = "NoAction" /\ k.field = "source" /\ k.to = "sources"
           /\ t # "entries" => k.field # "source" /\ k.to # "sources"
           /\ k.field = "category" <=> k.to = "categories"
           /\ k.field = "rule" <=> k.to = "rules"
           /\ k.to = "rules" => t \in {"sources", "transactions"}
  BY TheTables DEF Key, Fields

(* Over, field by field.                                                    *)
LEMMA Overlaid ==
    ASSUME NEW f, NEW g
    PROVE  /\ DOMAIN Over(f, g) = DOMAIN f \cup DOMAIN g
           /\ \A x \in DOMAIN f : Over(f, g)[x] = f[x]
           /\ \A x \in DOMAIN g : x \notin DOMAIN f => Over(f, g)[x] = g[x]
  BY DEF Over

(* A single row.                                                            *)
LEMMA OneRow ==
    ASSUME NEW id, NEW row
    PROVE  DOMAIN Only(id, row) = {id} /\ Only(id, row)[id] = row
  BY DEF Only

-----------------------------------------------------------------------------
(* What the three statements do to the tables.                              *)
LEMMA InsertIs ==
    ASSUME NEW d, DOMAIN d = Tables, NEW t \in Tables, NEW id, NEW row
    PROVE  LET e == Insert(d, t, id, row) IN
           /\ DOMAIN e = Tables
           /\ \A u \in Tables : u # t => e[u] = d[u]
           /\ DOMAIN e[t] = DOMAIN d[t] \cup {id}
           /\ e[t][id] = row
           /\ \A i \in DOMAIN d[t] : i # id => e[t][i] = d[t][i]
  <1> DEFINE new == Over(Only(id, row), d[t])
  <1>1. Insert(d, t, id, row) = [d EXCEPT ![t] = new]
    BY DEF Insert
  <1>2. /\ DOMAIN new = DOMAIN d[t] \cup {id} /\ new[id] = row
        /\ \A i \in DOMAIN d[t] : i # id => new[i] = d[t][i]
    <2> DEFINE one == Only(id, row)
    <2>1. DOMAIN one = {id} /\ one[id] = row
      BY OneRow
    <2> HIDE DEF one
    <2>2. /\ DOMAIN Over(one, d[t]) = DOMAIN one \cup DOMAIN d[t]
          /\ \A x \in DOMAIN one : Over(one, d[t])[x] = one[x]
          /\ \A x \in DOMAIN d[t] : x \notin DOMAIN one => Over(one, d[t])[x] = d[t][x]
      BY Overlaid
    <2> QED
      BY <2>1, <2>2 DEF one
  <1> HIDE DEF new
  <1> QED
    BY <1>1, <1>2

(* One row of one table changes.                                            *)
LEMMA SetIs ==
    ASSUME NEW d, DOMAIN d = Tables, NEW t \in Tables, NEW id \in DOMAIN d[t], NEW change
    PROVE  LET e == Set(d, t, id, change) IN
           /\ DOMAIN e = Tables
           /\ \A u \in Tables : u # t => e[u] = d[u]
           /\ DOMAIN e[t] = DOMAIN d[t]
           /\ e[t][id] = Over(change, d[t][id])
           /\ \A i \in DOMAIN d[t] : i # id => e[t][i] = d[t][i]
  <1> DEFINE new == Over(change, d[t][id])
  <1>1. Set(d, t, id, change) = [d EXCEPT ![t] = [d[t] EXCEPT ![id] = new]]
    BY DEF Set
  <1> HIDE DEF new
  <1>2. /\ DOMAIN [d[t] EXCEPT ![id] = new] = DOMAIN d[t]
        /\ [d[t] EXCEPT ![id] = new][id] = new
        /\ \A i \in DOMAIN d[t] : i # id => [d[t] EXCEPT ![id] = new][i] = d[t][i]
    OBVIOUS
  <1> QED
    BY <1>1, <1>2 DEF new

(* A deleted row may take limits with it, and clear other rows' references. *)
LEMMA DeletedIs ==
    ASSUME NEW d, DOMAIN d = Tables, NEW t \in Tables, NEW id
    PROVE  LET e == Deleted(d, t, id) IN
           /\ DOMAIN e = Tables
           /\ \A u \in Tables : \A i \in DOMAIN e[u] :
                /\ i \in DOMAIN d[u] /\ DOMAIN e[u][i] = DOMAIN d[u][i]
                /\ \A f \in DOMAIN d[u][i] :
                     \/ e[u][i][f] = d[u][i][f]
                     \/ /\ e[u][i][f] = NULL /\ u # "entries"
                        /\ \E k \in KeysOf[u] : /\ k.field = f /\ k.onDelete = "SetNull"
                                                /\ d[u][i][f] \notin DOMAIN e[k.to]
           /\ \A u \in Tables \ {"limits"} : \A i \in DOMAIN d[u] :
                u # t \/ i # id => i \in DOMAIN e[u]
  <1> DEFINE Refers(u, r, how) == \E k \in KeysOf[u] :
                 k.to = t /\ k.onDelete = how /\ r[k.field] = id
             Cleared(u, r) == [f \in DOMAIN r |->
                 IF \E k \in KeysOf[u] : k.field = f /\ k.to = t /\ k.onDelete = "SetNull" /\ r[f] = id
                 THEN NULL ELSE r[f]]
             Kept(u) == {i \in DOMAIN d[u] : ~Refers(u, d[u][i], "Cascade")}
                          \ (IF u = t THEN {id} ELSE {})
             e == [u \in Tables |-> [i \in Kept(u) |-> Cleared(u, d[u][i])]]
  <1>1. Deleted(d, t, id) = e
    BY DEF Deleted
  <1>2. ASSUME NEW u \in Tables, NEW i \in DOMAIN e[u]
        PROVE  /\ i \in DOMAIN d[u] /\ DOMAIN e[u][i] = DOMAIN d[u][i]
               /\ \A f \in DOMAIN d[u][i] :
                     \/ e[u][i][f] = d[u][i][f]
                     \/ /\ e[u][i][f] = NULL /\ u # "entries"
                        /\ \E k \in KeysOf[u] : /\ k.field = f /\ k.onDelete = "SetNull"
                                                /\ d[u][i][f] \notin DOMAIN e[k.to]
    <2>1. i \in DOMAIN d[u] /\ e[u][i] = Cleared(u, d[u][i])
      OBVIOUS
    <2> SUFFICES ASSUME NEW f \in DOMAIN d[u][i], Cleared(u, d[u][i])[f] # d[u][i][f]
                 PROVE  /\ Cleared(u, d[u][i])[f] = NULL /\ u # "entries"
                        /\ \E k \in KeysOf[u] : /\ k.field = f /\ k.onDelete = "SetNull"
                                                /\ d[u][i][f] \notin DOMAIN e[k.to]
      BY <2>1
    <2>2. /\ Cleared(u, d[u][i])[f] = NULL
          /\ \E k \in KeysOf[u] : k.field = f /\ k.to = t /\ k.onDelete = "SetNull"
                                 /\ d[u][i][f] = id
      OBVIOUS
    <2>3. id \notin DOMAIN e[t]
      OBVIOUS
    <2> HIDE DEF e
    <2> QED
      BY <2>2, <2>3, TheKeys
  <1>3. ASSUME NEW u \in Tables \ {"limits"}, NEW i \in DOMAIN d[u], u # t \/ i # id
        PROVE  i \in DOMAIN e[u]
    <2>1. ~Refers(u, d[u][i], "Cascade")
      BY TheKeys
    <2>2. i \in Kept(u)
      BY <2>1, <1>3
    <2> HIDE DEF Kept, Cleared
    <2> QED
      BY <2>2
  <1> HIDE DEF e
  <1>4. DOMAIN e = Tables
    BY DEF e
  <1> QED
    BY <1>1, <1>2, <1>3, <1>4

-----------------------------------------------------------------------------
(* What a write may do: a row it leaves keeps its owner and, a rule, its    *)
(* kind; a row it adds has a new id and is the user's; and a reference it   *)
(* brings is to a row that is fit, while that row exists.                   *)
Good(d, m, t, k, x) == x \in 1..m /\ (x \in DOMAIN d[k.to] => Target(t, k, d[k.to][x]))

Became(t, r, s) ==
    HasFields(t, s) /\ s.owner = r.owner /\ (t = "rules" => s.kind = r.kind)
Added(t, s) == HasFields(t, s) /\ s.owner = Me

RowsWritten(d, n, e, m) ==
    \A t \in Tables : \A i \in DOMAIN e[t] :
        \/ i \in DOMAIN d[t] /\ Became(t, d[t][i], e[t][i])
        \/ i \in n + 1..m /\ Added(t, e[t][i])
ReferencesWritten(d, e, m) ==
    \A t \in Tables : \A k \in KeysOf[t], i \in DOMAIN e[t] :
        \/ e[t][i][k.field] = NULL
        \/ i \in DOMAIN d[t] /\ e[t][i][k.field] = d[t][i][k.field]
        \/ e[t][i].owner = Me /\ Good(e, m, t, k, e[t][i][k.field])
Wrote(d, n, e, m) ==
    /\ n \in Nat /\ m \in Nat /\ n <= m /\ DOMAIN e = Tables
    /\ RowsWritten(d, n, e, m) /\ ReferencesWritten(d, e, m)

(* Rows keep their columns, and ids stay below the last one given out.      *)
LEMMA WroteStored ==
    ASSUME NEW d, NEW n, NEW e, NEW m, Stored(d, n), Wrote(d, n, e, m)
    PROVE  Stored(e, m)
  BY DEF Stored, Wrote, RowsWritten, Became, Added

(* A row that was fit to be referred to stays so.                           *)
LEMMA TargetStays ==
    ASSUME NEW t \in Tables, NEW k \in KeysOf[t], NEW r, NEW s,
           Target(t, k, r), Became(k.to, r, s)
    PROVE  Target(t, k, s)
  BY DEF Target, Fit, Became

(* One write after another, in one transaction.                             *)
LEMMA WroteWrote ==
    ASSUME NEW d, NEW n, NEW e, NEW m, NEW f, NEW p,
           Wrote(d, n, e, m), Wrote(e, m, f, p)
    PROVE  Wrote(d, n, f, p)
  <1>1. n \in Nat /\ m \in Nat /\ p \in Nat /\ n <= m /\ m <= p /\ DOMAIN f = Tables
    BY DEF Wrote
  <1>2. ASSUME NEW t \in Tables, NEW i \in DOMAIN f[t]
        PROVE  \/ i \in DOMAIN d[t] /\ Became(t, d[t][i], f[t][i])
               \/ i \in n + 1..p /\ Added(t, f[t][i])
    <2>1. CASE i \in m + 1..p /\ Added(t, f[t][i])
      BY <2>1, <1>1
    <2>2. CASE i \in DOMAIN e[t] /\ Became(t, e[t][i], f[t][i])
      <3>1. \/ i \in DOMAIN d[t] /\ Became(t, d[t][i], e[t][i])
            \/ i \in n + 1..m /\ Added(t, e[t][i])
        BY <2>2 DEF Wrote, RowsWritten
      <3> QED
        BY <3>1, <2>2, <1>1 DEF Became, Added
    <2> QED
      BY <2>1, <2>2 DEF Wrote, RowsWritten
  <1>3. ASSUME NEW t \in Tables, NEW k \in KeysOf[t], NEW i \in DOMAIN f[t]
        PROVE  \/ f[t][i][k.field] = NULL
               \/ i \in DOMAIN d[t] /\ f[t][i][k.field] = d[t][i][k.field]
               \/ f[t][i].owner = Me /\ Good(f, p, t, k, f[t][i][k.field])
    <2> DEFINE x == f[t][i][k.field]
    <2>1. \/ x = NULL \/ (i \in DOMAIN e[t] /\ x = e[t][i][k.field])
          \/ f[t][i].owner = Me /\ Good(f, p, t, k, x)
      <3>1. ReferencesWritten(e, f, p)
        BY DEF Wrote
      <3> QED
        BY <3>1 DEF ReferencesWritten
    <2>2. CASE i \in DOMAIN e[t] /\ x = e[t][i][k.field]
      <3>1. \/ x = NULL \/ (i \in DOMAIN d[t] /\ x = d[t][i][k.field])
            \/ e[t][i].owner = Me /\ Good(e, m, t, k, x)
        <4>1. ReferencesWritten(d, e, m)
          BY DEF Wrote
        <4> QED
          BY <4>1, <2>2 DEF ReferencesWritten
      <3>2. ASSUME e[t][i].owner = Me, Good(e, m, t, k, x)
            PROVE  f[t][i].owner = Me /\ Good(f, p, t, k, x)
        <4>1. f[t][i].owner = Me
          BY <2>2, <3>2 DEF Wrote, RowsWritten, Became, Added
        <4>2. k.to \in Tables
          BY TheKeys
        <4>3. ASSUME x \in DOMAIN f[k.to]
              PROVE  Target(t, k, f[k.to][x])
          <5>1. x \in DOMAIN e[k.to] /\ Became(k.to, e[k.to][x], f[k.to][x])
            BY <4>2, <4>3, <3>2, <1>1 DEF Wrote, RowsWritten, Good
          <5> QED
            BY <5>1, <3>2, TargetStays DEF Good
        <4> QED
          BY <4>1, <4>3, <3>2, <1>1 DEF Good
      <3> QED
        BY <3>1, <3>2
    <2> QED
      BY <2>1, <2>2
  <1> QED
    BY <1>1, <1>2, <1>3 DEF Wrote, RowsWritten, ReferencesWritten

(* Writing nothing is such a write.                                         *)
LEMMA WroteNothing ==
    ASSUME NEW d, NEW n \in Nat, Stored(d, n)
    PROVE  Wrote(d, n, d, n)
  BY DEF Wrote, RowsWritten, ReferencesWritten, Stored, Became

-----------------------------------------------------------------------------
(* The three statements write so.                                           *)
Refers(d, m, t, row) == \A k \in KeysOf[t] :
    row[k.field] = NULL \/ Good(d, m, t, k, row[k.field])

(* A new row whose references are fit is such a write.                      *)
LEMMA InsertWrote ==
    ASSUME NEW d, NEW n \in Nat, Stored(d, n), NEW m \in Nat,
           NEW t \in Tables, NEW id \in n + 1..m, NEW row, Added(t, row), Refers(d, m, t, row)
    PROVE  Wrote(d, n, Insert(d, t, id, row), m)
  <1> DEFINE e == Insert(d, t, id, row)
  <1>1. /\ DOMAIN e = Tables /\ \A u \in Tables : u # t => e[u] = d[u]
        /\ DOMAIN e[t] = DOMAIN d[t] \cup {id} /\ e[t][id] = row
        /\ \A i \in DOMAIN d[t] : i # id => e[t][i] = d[t][i]
    BY InsertIs DEF Stored
  <1> HIDE DEF e
  <1>2. ASSUME NEW u \in Tables, NEW i \in DOMAIN e[u]
        PROVE  \/ i \in DOMAIN d[u] /\ e[u][i] = d[u][i] /\ HasFields(u, e[u][i])
               \/ u = t /\ i = id /\ e[u][i] = row
    BY <1>1 DEF Stored
  <1>3. RowsWritten(d, n, e, m)
    BY <1>2 DEF RowsWritten, Became
  <1>4. ReferencesWritten(d, e, m)
    <2> SUFFICES ASSUME NEW k \in KeysOf[t], row[k.field] # NULL
                 PROVE  Good(e, m, t, k, row[k.field])
      BY <1>2 DEF ReferencesWritten, Added
    <2>1. e[k.to] = d[k.to]
      BY <1>1, TheKeys
    <2> QED
      BY <2>1 DEF Refers, Good
  <1> QED
    BY <1>1, <1>3, <1>4 DEF Wrote, e

(* A change whose references are fit is such a write.                       *)
LEMMA SetWrote ==
    ASSUME NEW d, NEW n \in Nat, Stored(d, n), NEW t \in Tables, NEW id \in DOMAIN d[t],
           NEW change, "owner" \notin DOMAIN change, t = "rules" => "kind" \notin DOMAIN change,
           d[t][id].owner = Me,
           \A k \in KeysOf[t] : k.field \in DOMAIN change =>
               change[k.field] = NULL \/ Good(d, n, t, k, change[k.field])
    PROVE  Wrote(d, n, Set(d, t, id, change), n)
  <1> DEFINE e == Set(d, t, id, change)
             row == Over(change, d[t][id])
  <1>1. /\ DOMAIN e = Tables /\ \A u \in Tables : u # t => e[u] = d[u]
        /\ DOMAIN e[t] = DOMAIN d[t] /\ e[t][id] = row
        /\ \A i \in DOMAIN d[t] : i # id => e[t][i] = d[t][i]
    BY SetIs DEF Stored
  <1>2. /\ DOMAIN row = DOMAIN change \cup DOMAIN d[t][id]
        /\ \A x \in DOMAIN change : row[x] = change[x]
        /\ \A x \in DOMAIN d[t][id] : x \notin DOMAIN change => row[x] = d[t][id][x]
    BY Overlaid
  <1> HIDE DEF e, row
  <1>3. Became(t, d[t][id], row)
    <2>1. HasFields(t, d[t][id])
      BY DEF Stored
    <2>2. "owner" \in DOMAIN d[t][id] /\ (t = "rules" => "kind" \in DOMAIN d[t][id])
      BY <2>1, TheTables DEF HasFields, Fields
    <2> QED
      BY <2>1, <2>2, <1>2 DEF HasFields, Became
  <1>4. RowsWritten(d, n, e, n)
    BY <1>1, <1>3 DEF RowsWritten, Became, Stored
  <1>5. ReferencesWritten(d, e, n)
    <2> SUFFICES ASSUME NEW k \in KeysOf[t]
                 PROVE  \/ row[k.field] = NULL \/ row[k.field] = d[t][id][k.field]
                        \/ row.owner = Me /\ Good(e, n, t, k, row[k.field])
      BY <1>1 DEF ReferencesWritten
    <2>1. e[k.to] = d[k.to] /\ k.field \in DOMAIN d[t][id]
      BY <1>1, TheKeys DEF Stored, HasFields
    <2> QED
      BY <2>1, <1>2, <1>3 DEF Good, Became
  <1> QED
    BY <1>1, <1>4, <1>5 DEF Wrote, e

(* A deletion brings no reference.                                          *)
LEMMA DeletedWrote ==
    ASSUME NEW d, NEW n \in Nat, Stored(d, n), NEW t \in Tables, NEW id
    PROVE  Wrote(d, n, Deleted(d, t, id), n)
  <1> DEFINE e == Deleted(d, t, id)
  <1>1. /\ DOMAIN e = Tables
        /\ \A u \in Tables : \A i \in DOMAIN e[u] :
             /\ i \in DOMAIN d[u] /\ DOMAIN e[u][i] = DOMAIN d[u][i]
             /\ \A f \in DOMAIN d[u][i] :
                  \/ e[u][i][f] = d[u][i][f]
                  \/ /\ e[u][i][f] = NULL /\ u # "entries"
                     /\ \E k \in KeysOf[u] : k.field = f
    BY DeletedIs DEF Stored
  <1> HIDE DEF e
  <1>2. ASSUME NEW u \in Tables, NEW i \in DOMAIN e[u]
        PROVE  i \in DOMAIN d[u] /\ Became(u, d[u][i], e[u][i])
    <2>1. HasFields(u, d[u][i]) /\ DOMAIN e[u][i] = DOMAIN d[u][i]
      BY <1>1 DEF Stored
    <2>2. "owner" \in DOMAIN d[u][i] /\ (u = "rules" => "kind" \in DOMAIN d[u][i])
      BY <2>1, TheTables DEF HasFields, Fields
    <2> QED
      BY <2>1, <2>2, <1>1, TheKeys DEF HasFields, Became
  <1>3. ASSUME NEW u \in Tables, NEW k \in KeysOf[u], NEW i \in DOMAIN e[u]
        PROVE  \/ e[u][i][k.field] = NULL \/ e[u][i][k.field] = d[u][i][k.field]
    <2>1. HasFields(u, d[u][i]) /\ k.field \in Fields[u]
      BY <1>1, TheKeys DEF Stored
    <2> QED
      BY <2>1, <1>1 DEF HasFields
  <1> QED
    BY <1>1, <1>2, <1>3 DEF Wrote, RowsWritten, ReferencesWritten, e

-----------------------------------------------------------------------------
(* What follows from that of references and of ownership.                   *)
LEMMA ConsistentRefers ==
    ASSUME NEW d, Consistent(d), NEW t \in Tables, NEW k \in KeysOf[t], NEW i \in DOMAIN d[t],
           d[t][i][k.field] # NULL
    PROVE  d[t][i][k.field] \in DOMAIN d[k.to]
  BY DEF Consistent, Rows

(* A row referred to before and after a write is the same row.              *)
LEMMA SameTarget ==
    ASSUME NEW d, NEW n, NEW e, NEW m, Stored(d, n), Wrote(d, n, e, m),
           NEW t \in Tables, NEW k \in KeysOf[t], NEW x \in DOMAIN d[k.to], x \in DOMAIN e[k.to]
    PROVE  Became(k.to, d[k.to][x], e[k.to][x])
  <1>1. k.to \in Tables
    BY TheKeys
  <1>2. n \in Nat /\ m \in Nat /\ x \in 1..n
    BY <1>1 DEF Stored, Wrote
  <1> QED
    BY <1>1, <1>2 DEF Wrote, RowsWritten

(* The user's references lead to the user's rows or the system's, after any *)
(* such write.                                                              *)
LEMMA OwnedAfter ==
    ASSUME NEW d, NEW n, NEW e, NEW m, Stored(d, n), Wrote(d, n, e, m),
           Consistent(d), Consistent(e), Owned(d)
    PROVE  Owned(e)
  <1> SUFFICES ASSUME NEW t \in Tables, NEW k \in KeysOf[t], NEW i \in DOMAIN e[t],
                      e[t][i].owner = Me, e[t][i][k.field] # NULL
               PROVE  Target(t, k, e[k.to][e[t][i][k.field]])
    BY DEF Owned
  <1> DEFINE x == e[t][i][k.field]
  <1>1. x \in DOMAIN e[k.to]
    BY ConsistentRefers
  <1>2. \/ i \in DOMAIN d[t] /\ x = d[t][i][k.field]
        \/ Good(e, m, t, k, x)
    <2>1. ReferencesWritten(d, e, m)
      BY DEF Wrote
    <2> QED
      BY <2>1 DEF ReferencesWritten
  <1>3. CASE i \in DOMAIN d[t] /\ x = d[t][i][k.field]
    <2>1. x \in DOMAIN d[k.to]
      BY <1>3, ConsistentRefers
    <2>2. Became(t, d[t][i], e[t][i])
      BY <1>3 DEF Wrote, RowsWritten, Stored
    <2>3. Target(t, k, d[k.to][x])
      BY <1>3, <2>2 DEF Owned, Became
    <2>4. Became(k.to, d[k.to][x], e[k.to][x])
      BY <1>1, <2>1, SameTarget
    <2> QED
      BY <2>3, <2>4, TargetStays
  <1> QED
    BY <1>1, <1>2, <1>3 DEF Good

(* Nobody else's reference leads to a row of the user, after any such       *)
(* write.                                                                   *)
LEMMA ApartAfter ==
    ASSUME NEW d, NEW n, NEW e, NEW m, Stored(d, n), Wrote(d, n, e, m),
           Consistent(d), Consistent(e), Apart(d)
    PROVE  Apart(e)
  <1> SUFFICES ASSUME NEW t \in Tables, NEW k \in KeysOf[t], NEW i \in DOMAIN e[t],
                      e[t][i].owner # Me, e[t][i][k.field] # NULL
               PROVE  e[k.to][e[t][i][k.field]].owner # Me
    BY DEF Apart
  <1> DEFINE x == e[t][i][k.field]
  <1>1. x \in DOMAIN e[k.to]
    BY ConsistentRefers
  <1>2. i \in DOMAIN d[t] /\ Became(t, d[t][i], e[t][i])
    BY DEF Wrote, RowsWritten, Added
  <1>3. x = d[t][i][k.field]
    <2>1. ReferencesWritten(d, e, m)
      BY DEF Wrote
    <2> QED
      BY <2>1 DEF ReferencesWritten
  <1>4. x \in DOMAIN d[k.to]
    BY <1>2, <1>3, ConsistentRefers
  <1>5. Became(k.to, d[k.to][x], e[k.to][x])
    BY <1>1, <1>4, SameTarget
  <1>6. d[t][i].owner # Me /\ d[k.to][x].owner # Me
    BY <1>2, <1>3 DEF Apart, Became
  <1> QED
    BY <1>5, <1>6 DEF Became

-----------------------------------------------------------------------------
(* What the trash, and the rows that may lie there, keep.                   *)
Untouched(d, e) ==
    \A t \in Trashable : \A i \in DOMAIN d[t] :
        /\ i \in DOMAIN e[t] /\ e[t][i].trashed = d[t][i].trashed
        /\ StaysInTrash(e, t, d[t][i], e[t][i])
        /\ t = "entries" => e[t][i].source = d[t][i].source

(* A row that is as it was.                                                 *)
LEMMA SameInTrash ==
    ASSUME NEW d, NEW t, NEW row
    PROVE  StaysInTrash(d, t, row, row)
  BY DEF StaysInTrash

(* An insertion leaves the history as it was.                               *)
LEMMA InsertUntouched ==
    ASSUME NEW d, NEW n \in Nat, Stored(d, n), NEW m \in Nat,
           NEW t \in Tables, NEW id \in n + 1..m, NEW row
    PROVE  Untouched(d, Insert(d, t, id, row))
  <1> DEFINE e == Insert(d, t, id, row)
  <1>1. /\ \A u \in Tables : u # t => e[u] = d[u]
        /\ DOMAIN e[t] = DOMAIN d[t] \cup {id}
        /\ \A i \in DOMAIN d[t] : i # id => e[t][i] = d[t][i]
    BY InsertIs DEF Stored
  <1>2. id \notin DOMAIN d[t]
    BY DEF Stored
  <1> HIDE DEF e
  <1> QED
    BY <1>1, <1>2, SameInTrash, TheTables DEF Untouched, e

(* So does a change of any other table's row.                               *)
LEMMA SetUntouched ==
    ASSUME NEW d, NEW n \in Nat, Stored(d, n), NEW t \in Tables \ Trashable,
           NEW id \in DOMAIN d[t], NEW change
    PROVE  Untouched(d, Set(d, t, id, change))
  BY SetIs, SameInTrash, TheTables DEF Untouched, Stored

(* A deletion in any other table clears references to the row: an entry's   *)
(* source is not deleted.                                                   *)
LEMMA DeletedUntouched ==
    ASSUME NEW d, NEW n \in Nat, Stored(d, n), NEW t \in Tables \ Trashable, NEW id
    PROVE  Untouched(d, Deleted(d, t, id))
  <1> DEFINE e == Deleted(d, t, id)
  <1> SUFFICES ASSUME NEW u \in Trashable, NEW i \in DOMAIN d[u]
               PROVE  /\ i \in DOMAIN e[u] /\ e[u][i].trashed = d[u][i].trashed
                      /\ StaysInTrash(e, u, d[u][i], e[u][i])
                      /\ u = "entries" => e[u][i].source = d[u][i].source
    BY DEF Untouched
  <1>1. u \in Tables \ {"limits"} /\ u # t
    BY TheTables DEF Trashable
  <1>2. i \in DOMAIN e[u]
    BY <1>1, DeletedIs DEF Stored
  <1>3. HasFields(u, d[u][i])
    BY <1>1 DEF Stored
  <1>4. "trashed" \in DOMAIN d[u][i] /\ (u = "entries" => "source" \in DOMAIN d[u][i])
    BY <1>3 DEF Trashable, HasFields, Fields
  <1>5. /\ DOMAIN e[u][i] = DOMAIN d[u][i]
        /\ \A f \in DOMAIN d[u][i] :
             \/ e[u][i][f] = d[u][i][f]
             \/ /\ e[u][i][f] = NULL /\ u # "entries"
                /\ \E k \in KeysOf[u] : /\ k.field = f /\ k.onDelete = "SetNull"
                                        /\ d[u][i][f] \notin DOMAIN e[k.to]
    BY <1>1, <1>2, DeletedIs DEF Stored
  <1> HIDE DEF e
  <1>6. \A k \in KeysOf[u] : k.field # "trashed"
    BY <1>1, TheKeys
  <1>7. StaysInTrash(e, u, d[u][i], e[u][i])
    BY <1>5 DEF StaysInTrash
  <1> QED
    BY <1>2, <1>4, <1>5, <1>6, <1>7

(* Two such writes leave it too: an id that is gone is not given out again. *)
LEMMA UntouchedTwice ==
    ASSUME NEW d, NEW n, NEW e, NEW m, NEW f, NEW p, Stored(d, n), Consistent(d),
           Wrote(d, n, e, m), Wrote(e, m, f, p), Untouched(d, e), Untouched(e, f)
    PROVE  Untouched(d, f)
  <1> SUFFICES ASSUME NEW t \in Trashable, NEW i \in DOMAIN d[t]
               PROVE  /\ i \in DOMAIN f[t] /\ f[t][i].trashed = d[t][i].trashed
                      /\ StaysInTrash(f, t, d[t][i], f[t][i])
                      /\ t = "entries" => f[t][i].source = d[t][i].source
    BY DEF Untouched
  <1>1. /\ i \in DOMAIN e[t] /\ StaysInTrash(e, t, d[t][i], e[t][i])
        /\ StaysInTrash(f, t, e[t][i], f[t][i])
    BY DEF Untouched
  <1>2. ASSUME NEW k \in KeysOf[t], d[t][i][k.field] \notin DOMAIN e[k.to],
               d[t][i][k.field] # NULL
        PROVE  d[t][i][k.field] \notin DOMAIN f[k.to]
    <2> DEFINE x == d[t][i][k.field]
    <2>1. t \in Tables /\ k.to \in Tables
      BY TheTables, TheKeys
    <2>2. x \in DOMAIN d[k.to]
      BY <1>2, <2>1, ConsistentRefers
    <2>3. x \in 1..n
      BY <2>1, <2>2 DEF Stored
    <2>4. x \in DOMAIN f[k.to] => x \in DOMAIN e[k.to] \/ x \in m + 1..p
      BY <2>1 DEF Wrote, RowsWritten
    <2>5. n \in Nat /\ m \in Nat /\ n <= m
      BY DEF Wrote
    <2> HIDE DEF x
    <2>6. x \notin m + 1..p
      BY <2>3, <2>5
    <2> QED
      BY <1>2, <2>4, <2>6 DEF x
  <1>3. StaysInTrash(f, t, d[t][i], f[t][i])
    <2> SUFFICES ASSUME NEW c \in DOMAIN d[t][i]
                 PROVE  \/ f[t][i][c] = d[t][i][c]
                        \/ /\ f[t][i][c] = NULL
                           /\ \E k \in KeysOf[t] : /\ k.field = c /\ k.onDelete = "SetNull"
                                                   /\ d[t][i][c] \notin DOMAIN f[k.to]
      BY <1>1 DEF StaysInTrash
    <2>1. \/ f[t][i][c] = e[t][i][c]
          \/ /\ f[t][i][c] = NULL
             /\ \E k \in KeysOf[t] : /\ k.field = c /\ k.onDelete = "SetNull"
                                     /\ e[t][i][c] \notin DOMAIN f[k.to]
      BY <1>1 DEF StaysInTrash
    <2>2. CASE e[t][i][c] = d[t][i][c]
      BY <2>1, <2>2
    <2>3. CASE e[t][i][c] # d[t][i][c]
      <3>1. PICK k \in KeysOf[t] : /\ k.field = c /\ k.onDelete = "SetNull"
                                   /\ d[t][i][c] \notin DOMAIN e[k.to]
        BY <1>1, <2>3 DEF StaysInTrash
      <3>2. e[t][i][c] = NULL /\ f[t][i][c] = NULL /\ d[t][i][c] # NULL
        BY <1>1, <2>1, <2>3 DEF StaysInTrash
      <3>3. d[t][i][c] \notin DOMAIN f[k.to]
        BY <1>2, <3>1, <3>2
      <3> QED
        BY <3>1, <3>2, <3>3
    <2> QED
      BY <2>2, <2>3
  <1> QED
    BY <1>1, <1>3 DEF Untouched

-----------------------------------------------------------------------------
(* Shapes: a row outside X that a write leaves badly shaped was so before.  *)
SourceShape(s) == checkSourceShape(s, s.rule # NULL)
ShapesStay(d, e, X) ==
    /\ \A i \in DOMAIN e["rules"] :
          \/ <<"rules", i>> \in X
          \/ checkShape(e["rules"][i])
          \/ i \in DOMAIN d["rules"] /\ ~checkShape(d["rules"][i])
    /\ \A i \in DOMAIN e["sources"] :
          \/ <<"sources", i>> \in X
          \/ SourceShape(e["sources"][i])
          \/ i \in DOMAIN d["sources"] /\ ~SourceShape(d["sources"][i])

(* Shapes survive two writes that keep them.                                *)
LEMMA ShapesStayTwice ==
    ASSUME NEW d, NEW e, NEW f, NEW X, ShapesStay(d, e, X), ShapesStay(e, f, X)
    PROVE  ShapesStay(d, f, X)
  BY DEF ShapesStay

(* A new row brings its shape.                                              *)
LEMMA InsertShapes ==
    ASSUME NEW d, NEW n, Stored(d, n), NEW t \in Tables, NEW id, NEW row, NEW X,
           t = "rules" => checkShape(row), t = "sources" => SourceShape(row)
    PROVE  ShapesStay(d, Insert(d, t, id, row), X)
  <1> DEFINE e == Insert(d, t, id, row)
  <1>1. \A u \in Tables : \A i \in DOMAIN e[u] :
            (u = t /\ i = id /\ e[u][i] = row) \/ (i \in DOMAIN d[u] /\ e[u][i] = d[u][i])
    BY InsertIs DEF Stored
  <1>2. "rules" \in Tables /\ "sources" \in Tables
    BY TheTables
  <1> HIDE DEF e
  <1> QED
    BY <1>1, <1>2 DEF ShapesStay, e

(* A changed row has a shape, or its PATCH was raced.                       *)
LEMMA SetShapes ==
    ASSUME NEW d, NEW n, Stored(d, n), NEW t \in Tables, NEW id \in DOMAIN d[t], NEW change, NEW X,
           t = "rules" =>
               <<t, id>> \in X \/ (checkShape(d[t][id]) => checkShape(Over(change, d[t][id]))),
           t = "sources" =>
               <<t, id>> \in X \/ (SourceShape(d[t][id]) => SourceShape(Over(change, d[t][id])))
    PROVE  ShapesStay(d, Set(d, t, id, change), X)
  <1> DEFINE e == Set(d, t, id, change)
             row == Over(change, d[t][id])
  <1>1. \A u \in Tables : \A i \in DOMAIN e[u] :
            i \in DOMAIN d[u] /\ (e[u][i] = d[u][i] \/ (u = t /\ i = id /\ e[u][i] = row))
    BY SetIs DEF Stored
  <1>2. "rules" \in Tables /\ "sources" \in Tables
    BY TheTables
  <1> HIDE DEF e, row
  <1>3. /\ t = "rules" => <<t, id>> \in X \/ (checkShape(d[t][id]) => checkShape(row))
        /\ t = "sources" => <<t, id>> \in X \/ (SourceShape(d[t][id]) => SourceShape(row))
    BY DEF row
  <1> QED
    BY <1>1, <1>2, <1>3 DEF ShapesStay, e

(* A deletion clears references only: a rule without its category, or a     *)
(* source without its schedule, keeps its shape.                            *)
LEMMA DeletedShapes ==
    ASSUME NEW d, NEW n, Stored(d, n), NEW t \in Tables, NEW id, NEW X
    PROVE  ShapesStay(d, Deleted(d, t, id), X)
  <1> DEFINE e == Deleted(d, t, id)
  <1>1. \A u \in Tables : \A i \in DOMAIN e[u] :
            /\ i \in DOMAIN d[u] /\ DOMAIN e[u][i] = DOMAIN d[u][i]
            /\ \A f \in DOMAIN d[u][i] :
                  \/ e[u][i][f] = d[u][i][f]
                  \/ /\ e[u][i][f] = NULL /\ u # "entries"
                     /\ \E k \in KeysOf[u] : k.field = f
    BY DeletedIs DEF Stored
  <1>2. "rules" \in Tables /\ "sources" \in Tables
    BY TheTables
  <1> HIDE DEF e
  <1>3. ASSUME NEW i \in DOMAIN e["rules"]
        PROVE  i \in DOMAIN d["rules"] /\ (checkShape(d["rules"][i]) => checkShape(e["rules"][i]))
    <2> DEFINE r == d["rules"][i]
               s == e["rules"][i]
    <2>1. i \in DOMAIN d["rules"] /\ Fields["rules"] \subseteq DOMAIN r
      BY <1>1, <1>2 DEF Stored, HasFields
    <2>2. \A k \in KeysOf["rules"] : k.field = "category"
      BY TheTables DEF Key
    <2>3. \A f \in DOMAIN r : s[f] = r[f] \/ (s[f] = NULL /\ f = "category")
      BY <1>1, <1>2, <2>2
    <2> HIDE DEF r, s
    <2>4. /\ s.kind = r.kind /\ s.amount = r.amount /\ s.subscription = r.subscription
          /\ s.frequency = r.frequency /\ s.dayOfWeek = r.dayOfWeek /\ s.dayOfMonth = r.dayOfMonth
          /\ s.category = r.category \/ s.category = NULL
      BY <2>1, <2>3 DEF Fields
    <2>5. checkShape(r) => checkShape(s)
      BY <2>4 DEF checkShape, checkScheduleAnchors
    <2> QED
      BY <2>1, <2>5 DEF r, s
  <1>4. ASSUME NEW i \in DOMAIN e["sources"]
        PROVE  i \in DOMAIN d["sources"] /\ (SourceShape(d["sources"][i]) => SourceShape(e["sources"][i]))
    <2> DEFINE r == d["sources"][i]
               s == e["sources"][i]
    <2>1. i \in DOMAIN d["sources"] /\ Fields["sources"] \subseteq DOMAIN r
      BY <1>1, <1>2 DEF Stored, HasFields
    <2>2. \A k \in KeysOf["sources"] : k.field = "rule"
      BY TheTables DEF Key
    <2>3. \A f \in DOMAIN r : s[f] = r[f] \/ (s[f] = NULL /\ f = "rule")
      BY <1>1, <1>2, <2>2
    <2> HIDE DEF r, s
    <2>4. /\ s.kind = r.kind /\ s.amount = r.amount
          /\ s.rule = r.rule \/ s.rule = NULL
      BY <2>1, <2>3 DEF Fields
    <2>5. SourceShape(r) => SourceShape(s)
      BY <2>4 DEF SourceShape, checkSourceShape
    <2> QED
      BY <2>1, <2>5 DEF r, s
  <1> QED
    BY <1>3, <1>4 DEF ShapesStay, e

-----------------------------------------------------------------------------
(* A rule that stands for the suggested payments goes on doing so.          *)
StandsOn(d, e) ==
    \A i \in DOMAIN d["rules"] :
        Stands(d["rules"][i]) => i \in DOMAIN e["rules"] /\ Stands(e["rules"][i])

(* A rule that stands for the subscription survives two writes that keep    *)
(* it.                                                                      *)
LEMMA StandsOnTwice ==
    ASSUME NEW d, NEW e, NEW f, StandsOn(d, e), StandsOn(e, f)
    PROVE  StandsOn(d, f)
  BY DEF StandsOn

(* An insertion keeps the rule that stands for it.                          *)
LEMMA InsertStands ==
    ASSUME NEW d, NEW n \in Nat, Stored(d, n), NEW m \in Nat, NEW t \in Tables,
           NEW id \in n + 1..m, NEW row
    PROVE  StandsOn(d, Insert(d, t, id, row))
  <1> DEFINE e == Insert(d, t, id, row)
  <1>1. /\ \A u \in Tables : u # t => e[u] = d[u]
        /\ DOMAIN e[t] = DOMAIN d[t] \cup {id}
        /\ \A i \in DOMAIN d[t] : i # id => e[t][i] = d[t][i]
    BY InsertIs DEF Stored
  <1>2. id \notin DOMAIN d[t]
    BY DEF Stored
  <1> HIDE DEF e
  <1> QED
    BY <1>1, <1>2, TheTables DEF StandsOn, e

(* A change keeps it, unless it pauses the rule.                            *)
LEMMA SetStands ==
    ASSUME NEW d, NEW n, Stored(d, n), NEW t \in Tables, NEW id \in DOMAIN d[t], NEW change,
           t = "rules" => DOMAIN change \cap {"owner", "kind", "active", "covers"} = {}
    PROVE  StandsOn(d, Set(d, t, id, change))
  <1> DEFINE e == Set(d, t, id, change)
             row == Over(change, d[t][id])
  <1>1. /\ \A u \in Tables : u # t => e[u] = d[u]
        /\ DOMAIN e[t] = DOMAIN d[t] /\ e[t][id] = row
        /\ \A i \in DOMAIN d[t] : i # id => e[t][i] = d[t][i]
    BY SetIs DEF Stored
  <1>2. \A x \in DOMAIN d[t][id] : x \notin DOMAIN change => row[x] = d[t][id][x]
    BY Overlaid
  <1>3. Fields[t] \subseteq DOMAIN d[t][id]
    BY DEF Stored, HasFields
  <1> HIDE DEF e, row
  <1>4. t = "rules" => /\ row.owner = d[t][id].owner /\ row.kind = d[t][id].kind
                       /\ row.active = d[t][id].active /\ row.covers = d[t][id].covers
    BY <1>2, <1>3 DEF Fields
  <1>5. ASSUME t = "rules", NEW i \in DOMAIN d[t]
        PROVE  Stands(d[t][i]) => Stands(e[t][i])
    BY <1>1, <1>4, <1>5 DEF Stands
  <1> QED
    BY <1>1, <1>5, TheTables DEF StandsOn, e

(* A deletion keeps it, unless it is deleted itself.                        *)
LEMMA DeletedStands ==
    ASSUME NEW d, NEW n, Stored(d, n), NEW t \in Tables, NEW id,
           t = "rules" /\ id \in DOMAIN d["rules"] => ~Stands(d["rules"][id])
    PROVE  StandsOn(d, Deleted(d, t, id))
  <1> DEFINE e == Deleted(d, t, id)
  <1> SUFFICES ASSUME NEW i \in DOMAIN d["rules"], Stands(d["rules"][i])
               PROVE  i \in DOMAIN e["rules"] /\ Stands(e["rules"][i])
    BY DEF StandsOn
  <1>1. "rules" \in Tables \ {"limits"} /\ ("rules" # t \/ i # id)
    BY TheTables
  <1>2. i \in DOMAIN e["rules"]
    BY <1>1, DeletedIs DEF Stored
  <1>3. \A f \in DOMAIN d["rules"][i] :
            \/ e["rules"][i][f] = d["rules"][i][f]
            \/ \E k \in KeysOf["rules"] : k.field = f
    BY <1>1, <1>2, DeletedIs DEF Stored
  <1>4. \A k \in KeysOf["rules"] : k.field = "category"
    BY TheTables DEF Key
  <1>5. Fields["rules"] \subseteq DOMAIN d["rules"][i]
    BY <1>1 DEF Stored, HasFields
  <1> DEFINE r == d["rules"][i]
             s == e["rules"][i]
  <1> HIDE DEF r, s
  <1>6. s.owner = r.owner /\ s.kind = r.kind /\ s.active = r.active /\ s.covers = r.covers
    BY <1>3, <1>4, <1>5 DEF Fields, r, s
  <1> QED
    BY <1>2, <1>6 DEF Stands, r, s

-----------------------------------------------------------------------------
(* Rules and sources the handlers themselves compose.                       *)
LEMMA IncomeRuleIs ==
    ASSUME NEW s \in Schedules
    PROVE  LET r == IncomeRule(s) IN
           /\ Added("rules", r) /\ checkShape(r) /\ r.category = NULL /\ r.kind = "INCOME"
  <1> DEFINE rest == [owner |-> Me, kind |-> "INCOME", amount |-> NULL, category |-> NULL,
                      subscription |-> FALSE, covers |-> FALSE, active |-> TRUE]
             r == Over(s, rest)
  <1>1. /\ DOMAIN s = {"frequency", "dayOfWeek", "dayOfMonth"}
        /\ checkScheduleAnchors(s)
    BY DEF Schedules, Weekly, Monthly, checkScheduleAnchors
  <1>2. DOMAIN rest = {"owner", "kind", "amount", "category", "subscription", "covers", "active"}
    OBVIOUS
  <1>3. /\ DOMAIN r = DOMAIN s \cup DOMAIN rest
        /\ \A x \in DOMAIN s : r[x] = s[x]
        /\ \A x \in DOMAIN rest : x \notin DOMAIN s => r[x] = rest[x]
    BY Overlaid
  <1>4. IncomeRule(s) = r
    BY DEF IncomeRule
  <1>5. /\ r.owner = Me /\ r.kind = "INCOME" /\ r.category = NULL /\ r.subscription = FALSE
    BY <1>1, <1>2, <1>3
  <1>6. r.frequency = s.frequency /\ r.dayOfWeek = s.dayOfWeek /\ r.dayOfMonth = s.dayOfMonth
    BY <1>1, <1>3
  <1>7. Fields["rules"] \subseteq DOMAIN r
    BY <1>1, <1>2, <1>3 DEF Fields
  <1> HIDE DEF r
  <1>8. checkShape(r)
    BY <1>1, <1>5, <1>6 DEF checkShape, checkScheduleAnchors
  <1> QED
    BY <1>4, <1>5, <1>7, <1>8 DEF Added, HasFields

(* An expense rule the handlers compose has its shape; with its detected    *)
(* series covered, it stands for the subscription.                          *)
LEMMA ExpenseRuleIs ==
    ASSUME NEW s \in Schedules, NEW c, NEW subscription, NEW covers
    PROVE  LET r == ExpenseRule(s, c, subscription, covers) IN
           /\ Added("rules", r) /\ checkShape(r) /\ r.category = c /\ r.kind = "EXPENSE"
           /\ covers = TRUE => Stands(r)
  <1> DEFINE rest == [owner |-> Me, kind |-> "EXPENSE", amount |-> 1, category |-> c,
                      subscription |-> subscription, covers |-> covers, active |-> TRUE]
             r == Over(s, rest)
  <1>1. /\ DOMAIN s = {"frequency", "dayOfWeek", "dayOfMonth"}
        /\ checkScheduleAnchors(s)
    BY DEF Schedules, Weekly, Monthly, checkScheduleAnchors
  <1>2. DOMAIN rest = {"owner", "kind", "amount", "category", "subscription", "covers", "active"}
    OBVIOUS
  <1>3. /\ DOMAIN r = DOMAIN s \cup DOMAIN rest
        /\ \A x \in DOMAIN s : r[x] = s[x]
        /\ \A x \in DOMAIN rest : x \notin DOMAIN s => r[x] = rest[x]
    BY Overlaid
  <1>4. ExpenseRule(s, c, subscription, covers) = r
    BY DEF ExpenseRule
  <1>5. /\ r.owner = Me /\ r.kind = "EXPENSE" /\ r.category = c /\ r.amount = 1
        /\ r.active = TRUE /\ r.covers = covers
    BY <1>1, <1>2, <1>3
  <1>6. r.frequency = s.frequency /\ r.dayOfWeek = s.dayOfWeek /\ r.dayOfMonth = s.dayOfMonth
    BY <1>1, <1>3
  <1>7. Fields["rules"] \subseteq DOMAIN r
    BY <1>1, <1>2, <1>3 DEF Fields
  <1> HIDE DEF r
  <1>8. checkShape(r)
    BY <1>1, <1>5, <1>6 DEF checkShape, checkScheduleAnchors, NULL
  <1>9. covers = TRUE => Stands(r)
    BY <1>5 DEF Stands
  <1> QED
    BY <1>4, <1>5, <1>7, <1>8, <1>9 DEF Added, HasFields

-----------------------------------------------------------------------------
(* Every request the API takes is valid.                                    *)
LEMMA RequestIs ==
    ASSUME NEW does, NEW table, NEW id, NEW body
    PROVE  LET r == Request(does, table, id, body) IN
           r.does = does /\ r.table = table /\ r.id = id /\ r.body = body
  BY DEF Request

(* POST, table by table.                                                    *)
LEMMA PostsValid ==
    ASSUME NEW t, NEW bodies, \A b \in bodies : Posted(t, b), NEW r \in Posts(t, bodies)
    PROVE  Valid(r)
  BY DEF Posts, Request, Valid

(* PATCH, table by table.                                                   *)
LEMMA EditsValid ==
    ASSUME NEW t, NEW bodies, \A b \in bodies : Patched(t, b), NEW r \in Edits(t, bodies)
    PROVE  Valid(r)
  BY DEF Edits, Request, Valid

(* DELETE and restore.                                                      *)
LEMMA DeletesValid ==
    ASSUME NEW t \in Tables, NEW r \in Deletes(t) \cup Restores(t)
    PROVE  Valid(r)
  BY DEF Deletes, Restores, Request, Valid

(* Bodies of categories, goals, entries, templates and expenses.            *)
LEMMA SimpleBodies ==
    /\ Posted("categories", [owner |-> Me])
    /\ Posted("goals", NewGoal) /\ Patched("goals", NewAmount)
    /\ \A s : Posted("entries", NewEntry(s))
    /\ Patched("entries", NewAmount)
    /\ \A c : Patched("templates", [category |-> c])
    /\ \A d, c, r : Posted("transactions", Expense(d, c, r))
    /\ \A b \in TransactionChanges : Patched("transactions", b)
  BY DEF Posted, Patched, HasFields, Fields, Changes, NewGoal, NewEntry, NewAmount, Expense,
         TransactionChanges, SomeCategory

(* Bodies of templates.                                                     *)
LEMMA TemplateBodies ==
    ASSUME NEW c
    PROVE  Posted("templates", Over([owner |-> Me], [category |-> c]))
  <1> DEFINE f == [owner |-> Me]
             g == [category |-> c]
  <1>1. DOMAIN f = {"owner"} /\ f["owner"] = Me /\ DOMAIN g = {"category"}
    OBVIOUS
  <1> HIDE DEF f, g
  <1>3. /\ DOMAIN Over(f, g) = DOMAIN f \cup DOMAIN g
        /\ \A x \in DOMAIN f : Over(f, g)[x] = f[x]
    BY Overlaid
  <1>2. DOMAIN Over(f, g) = {"owner", "category"} /\ Over(f, g).owner = Me
    BY <1>1, <1>3
  <1> QED
    BY <1>2 DEF f, g, Posted, HasFields, Fields

(* Bodies of rules.                                                         *)
LEMMA RuleBodies ==
    /\ \A b \in NewRules : Posted("rules", b)
    /\ \A b \in RuleChanges : Patched("rules", b)
  <1>1. Weekly \in Schedules /\ Monthly \in Schedules
    BY DEF Schedules
  <1>2. ASSUME NEW b, Added("rules", b), checkShape(b)
        PROVE  Posted("rules", b)
    BY <1>2 DEF Posted, Added
  <1>5. \A c : LET b == ExpenseRule(Monthly, c, FALSE, FALSE) IN Added("rules", b) /\ checkShape(b)
    BY <1>1, ExpenseRuleIs
  <1>6. LET b == ExpenseRule(Weekly, NULL, FALSE, TRUE) IN Added("rules", b) /\ checkShape(b)
    BY <1>1, ExpenseRuleIs
  <1>7. Added("rules", IncomeRule(Monthly)) /\ checkShape(IncomeRule(Monthly))
    BY <1>1, IncomeRuleIs
  <1>3. \A b \in NewRules : Added("rules", b) /\ checkShape(b)
    BY <1>5, <1>6, <1>7 DEF NewRules
  <1>4. \A b \in RuleChanges : Patched("rules", b)
    BY DEF RuleChanges, Schedules, Weekly, Monthly, SomeCategory, Patched, Changes
  <1> QED
    BY <1>2, <1>3, <1>4

(* Bodies of sources.                                                       *)
LEMMA SourceBodies ==
    /\ \A b \in NewSources : Posted("sources", b)
    /\ \A b \in SourceChanges : Patched("sources", b)
  <1>1. Posted("sources", Source("IRREGULAR", NULL, NULL))
    BY DEF Posted, Source, HasFields, Fields, checkSourceShape
  <1>2. \A r : Posted("sources", Source("REGULAR", 1, r))
    BY DEF Posted, Source, HasFields, Fields, checkSourceShape, NULL
  <1>3. ASSUME NEW s \in Schedules
        PROVE  Posted("sources", Over([schedule |-> s], Source("REGULAR", 1, NULL)))
    <2> DEFINE f == [schedule |-> s]
               g == Source("REGULAR", 1, NULL)
               b == Over(f, g)
    <2>1. /\ DOMAIN f = {"schedule"} /\ f["schedule"] = s
          /\ DOMAIN g = {"owner", "kind", "amount", "rule"}
          /\ g["owner"] = Me /\ g["kind"] = "REGULAR" /\ g["amount"] = 1 /\ g["rule"] = NULL
      BY DEF Source
    <2> HIDE DEF f, g
    <2>4. /\ DOMAIN b = DOMAIN f \cup DOMAIN g
          /\ \A x \in DOMAIN f : b[x] = f[x]
          /\ \A x \in DOMAIN g : x \notin DOMAIN f => b[x] = g[x]
      BY Overlaid
    <2> HIDE DEF b
    <2>2. /\ DOMAIN b = {"schedule", "owner", "kind", "amount", "rule"}
          /\ b["schedule"] = s /\ b["owner"] = Me /\ b["kind"] = "REGULAR"
          /\ b["amount"] = 1 /\ b["rule"] = NULL
      BY <2>1, <2>4
    <2>3. Posted("sources", b)
      BY <2>2 DEF Posted, HasFields, Fields, checkSourceShape, NULL
    <2> QED
      BY <2>3 DEF b, f, g
  <1>4. \A b \in NewSources : Posted("sources", b)
    BY <1>1, <1>2, <1>3 DEF NewSources
  <1>5. \A b \in SourceChanges : Patched("sources", b)
    BY DEF SourceChanges, NewAmount, Patched, Changes
  <1> QED
    BY <1>4, <1>5

(* The parts of the API, one by one.                                        *)
LEMMA PartsValid ==
    ASSUME NEW part \in Parts, NEW r \in RequestsOf(part)
    PROVE  Valid(r)
  <1> USE DEF RequestsOf, Parts
  <1>1. CASE part \in {"categories", "goals", "entries"}
    <2>1. r \in CategoryRequests \cup GoalRequests \cup EntryRequests
      BY <1>1
    <2>2. CASE r \in CategoryRequests
      BY <2>2, SimpleBodies, PostsValid, DeletesValid, TheTables DEF CategoryRequests
    <2>3. CASE r \in GoalRequests
      BY <2>3, SimpleBodies, PostsValid, EditsValid, DeletesValid, TheTables DEF GoalRequests
    <2>4. CASE r \in EntryRequests
      BY <2>4, SimpleBodies, PostsValid, EditsValid, DeletesValid, TheTables DEF EntryRequests
    <2> QED
      BY <2>1, <2>2, <2>3, <2>4
  <1>2. CASE part \in {"templates", "limits", "transactions"}
    <2>1. r \in TemplateRequests \cup LimitRequests \cup TransactionRequests
      BY <1>2
    <2>2. CASE r \in TemplateRequests
      <3>1. \A b \in {Over([owner |-> Me], b) : b \in SomeCategory} : Posted("templates", b)
        BY TemplateBodies DEF SomeCategory
      <3>2. \A b \in SomeCategory : Patched("templates", b)
        BY SimpleBodies DEF SomeCategory
      <3> QED
        BY <2>2, <3>1, <3>2, PostsValid, EditsValid, DeletesValid, TheTables DEF TemplateRequests
    <2>3. CASE r \in LimitRequests
      BY <2>3 DEF LimitRequests, Valid, Request
    <2>4. CASE r \in TransactionRequests
      <3>1. \A b \in NewTransactions : Posted("transactions", b)
        BY SimpleBodies DEF NewTransactions
      <3> QED
        BY <2>4, <3>1, SimpleBodies, PostsValid, EditsValid, DeletesValid, TheTables
        DEF TransactionRequests
    <2> QED
      BY <2>1, <2>2, <2>3, <2>4
  <1>3. CASE part \in {"rules", "sources"}
    <2>1. r \in RuleRequests \cup SourceRequests
      BY <1>3
    <2> QED
      BY <2>1, RuleBodies, SourceBodies, PostsValid, EditsValid, DeletesValid, TheTables
      DEF RuleRequests, SourceRequests
  <1>4. CASE part \in {"imports", "subscriptions", "onboarding", "account"}
    <2>1. r \in ImportRequests \cup SubscriptionRequests \cup OnboardingRequests \cup AccountRequests
      BY <1>4
    <2>2. CASE r \in ImportRequests
      BY <2>2 DEF ImportRequests, Request, Valid
    <2>3. CASE r \in SubscriptionRequests
      BY <2>3 DEF SubscriptionRequests, Request, Valid
    <2>4. CASE r \in OnboardingRequests
      BY <2>4 DEF OnboardingRequests, OnboardingAnswers, Request, Valid
    <2>5. CASE r \in AccountRequests
      BY <2>5 DEF AccountRequests, Request, Valid
    <2> QED
      BY <2>1, <2>2, <2>3, <2>4, <2>5
  <1> QED
    BY <1>1, <1>2, <1>3, <1>4

(* And all of them.                                                         *)
LEMMA RequestsValid ==
    ASSUME topic \in Topics, NEW r \in Requests
    PROVE  Valid(r)
  BY PartsValid, TopicsAreParts DEF Requests

-----------------------------------------------------------------------------
(* The references a handler looks up are those its body sends.              *)
Lists(s, S) == s \in Seq(S) /\ \A ref \in S : \E i \in 1..Len(s) : s[i] = ref

(* A list of one reference.                                                 *)
LEMMA Singleton ==
    ASSUME NEW a
    PROVE  Lists(<<a>>, {a}) /\ Lists(<<>>, {})
  BY DEF Lists

(* Two lists of references, one after the other.                            *)
LEMMA TwoLists ==
    ASSUME NEW s, NEW S, NEW t, NEW T, Lists(s, S), Lists(t, T)
    PROVE  Lists(s \o t, S \cup T)
  <1>1. s \in Seq(S \cup T) /\ t \in Seq(S \cup T)
    BY DEF Lists
  <1>2. s \o t \in Seq(S \cup T) /\ Len(s \o t) = Len(s) + Len(t)
    BY <1>1
  <1>3. ASSUME NEW ref \in S
        PROVE  \E i \in 1..Len(s \o t) : (s \o t)[i] = ref
    <2>1. PICK i \in 1..Len(s) : s[i] = ref
      BY DEF Lists
    <2>2. i \in 1..Len(s \o t) /\ (s \o t)[i] = s[i]
      BY <1>1, <1>2
    <2> QED
      BY <2>1, <2>2
  <1>4. ASSUME NEW ref \in T
        PROVE  \E i \in 1..Len(s \o t) : (s \o t)[i] = ref
    <2>1. PICK i \in 1..Len(t) : t[i] = ref
      BY DEF Lists
    <2>2. Len(s) + i \in 1..Len(s \o t) /\ (s \o t)[Len(s) + i] = t[i]
      BY <1>1, <1>2
    <2> QED
      BY <2>1, <2>2
  <1> QED
    BY <1>2, <1>3, <1>4 DEF Lists

(* The references of a body, in the order they are looked up, are those it  *)
(* will write.                                                              *)
LEMMA ReferencesAre ==
    ASSUME NEW r
    PROVE  Lists(References(r), Sent(r))
  <1> DEFINE b == r.body
             sends == r.does \in {"post", "patch", "put", "onboard"}
             C == IF "category" \in DOMAIN b THEN {Ref("categories", b.category, "any")} ELSE {}
             R(kind) == IF "rule" \in DOMAIN b THEN {Ref("rules", b.rule, kind)} ELSE {}
  <1>1. Lists(CategoryRef(b), C)
    BY Singleton DEF CategoryRef
  <1>2. Lists(RuleRef(b, "EXPENSE"), R("EXPENSE")) /\ Lists(RuleRef(b, "INCOME"), R("INCOME"))
    BY Singleton DEF RuleRef
  <1>3. Lists(SourceRef(b), {Ref("sources", b.source, "any")})
    BY Singleton DEF SourceRef
  <1>4. CASE ~sends
    <2>1. References(r) = <<>> /\ Sent(r) = {}
      BY <1>4 DEF References, Sent
    <2> QED
      BY <2>1, Singleton
  <1>5. CASE sends /\ r.table = "transactions"
    <2>1. References(r) = CategoryRef(b) \o RuleRef(b, "EXPENSE") /\ Sent(r) = C \cup R("EXPENSE")
      BY <1>5 DEF References, Sent
    <2> HIDE DEF C, R, b
    <2> QED
      BY <2>1, <1>1, <1>2, TwoLists
  <1>6. CASE sends /\ r.table = "sources"
    <2>1. References(r) = RuleRef(b, "INCOME") /\ Sent(r) = R("INCOME")
      BY <1>6 DEF References, Sent
    <2> QED
      BY <2>1, <1>2
  <1>7. CASE sends /\ r.table = "entries"
    <2>1. CASE r.does = "post"
      <3>1. References(r) = SourceRef(b) /\ Sent(r) = {Ref("sources", b.source, "any")}
        BY <1>7, <2>1 DEF References, Sent
      <3> QED
        BY <3>1, <1>3
    <2>2. CASE r.does # "post"
      <3>1. References(r) = <<>> /\ Sent(r) = {}
        BY <1>7, <2>2 DEF References, Sent
      <3> QED
        BY <3>1, Singleton
    <2> QED
      BY <2>1, <2>2
  <1>8. CASE sends /\ r.table \notin {"transactions", "sources", "entries"}
    <2>1. References(r) = CategoryRef(b) /\ Sent(r) = C
      BY <1>8 DEF References, Sent
    <2> QED
      BY <2>1, <1>1
  <1> QED
    BY <1>4, <1>5, <1>6, <1>7, <1>8

(* Each of them is of a known table.                                        *)
LEMMA SentAre ==
    ASSUME NEW x, NEW ref \in SentBy(x)
    PROVE  /\ ref.to \in {"categories", "rules", "sources"} /\ ref.to \in Tables
           /\ ref = Ref(ref.to, ref.id, ref.kind)
  BY TheTables DEF SentBy, Sent, Ref

-----------------------------------------------------------------------------
(* What was looked up stays fit, whatever others write meanwhile.           *)
LEMMA CheckedAfter ==
    ASSUME NEW d, NEW n, NEW e, NEW m, Stored(d, n), Wrote(d, n, e, m),
           NEW ref, ref.to \in Tables, Checked(d, n, ref)
    PROVE  Checked(e, m, ref)
  <1> SUFFICES ASSUME ref.id \in 1..n,
                      ref.id \in DOMAIN d[ref.to] => Fit(ref.to, ref.kind, d[ref.to][ref.id])
               PROVE  /\ ref.id \in 1..m
                      /\ ref.id \in DOMAIN e[ref.to] => Fit(ref.to, ref.kind, e[ref.to][ref.id])
    BY DEF Checked
  <1>1. n \in Nat /\ m \in Nat /\ n <= m
    BY DEF Wrote
  <1>2. ASSUME ref.id \in DOMAIN e[ref.to]
        PROVE  Fit(ref.to, ref.kind, e[ref.to][ref.id])
    <2>1. /\ ref.id \in DOMAIN d[ref.to]
          /\ Became(ref.to, d[ref.to][ref.id], e[ref.to][ref.id])
      BY <1>1, <1>2 DEF Wrote, RowsWritten
    <2> QED
      BY <2>1 DEF Fit, Became
  <1> QED
    BY <1>1, <1>2

(* What a waiting handler knows stays true while others write.              *)
LEMMA HandlingAfter ==
    ASSUME NEW d, NEW n, NEW e, NEW m, Stored(d, n), Wrote(d, n, e, m),
           NEW x, Handling(x, d, n)
    PROVE  Handling(x, e, m)
  <1>1. ASSUME x.status = "check"
        PROVE  SeenFits(x, e, m) /\ Looked(x, e, m)
    <2>1. SeenFits(x, d, n) /\ Looked(x, d, n)
      BY <1>1 DEF Handling
    <2>2. SeenFits(x, e, m)
      <3> DEFINE ref == Ref("rules", x.seen.rule, "INCOME")
      <3>1. ref.to \in Tables
        BY TheTables DEF Ref
      <3>2. Checked(d, n, ref) => Checked(e, m, ref)
        BY <3>1, CheckedAfter
      <3> QED
        BY <2>1, <3>2 DEF SeenFits
    <2>3. Looked(x, e, m)
      BY <2>1, SentAre, CheckedAfter DEF Looked
    <2> QED
      BY <2>2, <2>3
  <1> QED
    BY <1>1 DEF Handling

-----------------------------------------------------------------------------
(* One handler moves.                                                       *)
Moves(h, x) ==
    /\ handler' = [handler EXCEPT ![h] = x]
    /\ x.request = handler[h].request /\ x.draft = handler[h].draft
    /\ handler[h].status # "new" /\ x.status # "new"

(* One handler moves on; the others are as they were.                       *)
LEMMA HandlersMove ==
    ASSUME HandlersOK, NEW h \in Handlers, NEW x, Moves(h, x), Handling(x, db', serial'),
           \A y : Handling(y, db, serial) => Handling(y, db', serial')
    PROVE  HandlersOK'
  <1>1. /\ DOMAIN handler' = Handlers /\ handler'[h] = x
        /\ \A g \in Handlers : g # h => handler'[g] = handler[g]
    BY DEF Moves, HandlersOK
  <1>2. \A g \in Handlers : /\ handler'[g].request = handler[g].request
                            /\ handler'[g].draft = handler[g].draft
                            /\ handler'[g].status # "new" <=> handler[g].status # "new"
    BY <1>1 DEF Moves
  <1>3. \A g \in Handlers : Handling(handler'[g], db', serial')
    BY <1>1 DEF HandlersOK
  <1>4. \A g \in Handlers : handler'[g].status # "new" => Known(handler'[g], handler')
    BY <1>2 DEF HandlersOK, Known
  <1> QED
    BY <1>1, <1>3, <1>4 DEF HandlersOK

(* One handler starts, with a draft of its own or an earlier one's.         *)
LEMMA HandlersStart ==
    ASSUME HandlersOK, NEW h \in Handlers, handler[h].status = "new", NEW x,
           handler' = [handler EXCEPT ![h] = x], UNCHANGED <<db, serial>>,
           Handling(x, db, serial), x.status # "new",
           \/ x.draft = h
           \/ /\ x.draft \in Handlers /\ handler[x.draft].status # "new"
              /\ handler[x.draft].draft = x.draft /\ handler[x.draft].request = x.request
    PROVE  HandlersOK'
  <1>1. /\ DOMAIN handler' = Handlers /\ handler'[h] = x
        /\ \A g \in Handlers : g # h => handler'[g] = handler[g]
    BY DEF HandlersOK
  <1>2. \A g \in Handlers : Handling(handler'[g], db', serial')
    BY <1>1 DEF HandlersOK
  <1>3. ASSUME NEW g \in Handlers, g # h, handler[g].status # "new"
        PROVE  Known(handler'[g], handler')
    <2>1. Known(handler[g], handler) /\ handler[g].draft # h
      BY <1>3 DEF HandlersOK, Known
    <2> QED
      BY <1>1, <1>3, <2>1 DEF Known
  <1>4. Known(x, handler')
    BY <1>1 DEF Known
  <1> QED
    BY <1>1, <1>2, <1>3, <1>4 DEF HandlersOK

-----------------------------------------------------------------------------
(* The rows of a day are finitely many.                                     *)
LEMMA FiniteRows ==
    ASSUME NEW d, NEW n \in Nat, Stored(d, n), NEW t \in Tables, NEW S \in SUBSET (DOMAIN d[t])
    PROVE  IsFiniteSet(S) /\ Cardinality(S) \in Nat
  <1>1. S \subseteq 1..n
    BY DEF Stored
  <1>2. IsFiniteSet(1..n)
    BY FS_Interval
  <1>3. IsFiniteSet(S)
    BY <1>1, <1>2, FS_Subset
  <1> QED
    BY <1>3, FS_CardinalityType

(* So they can be counted.                                                  *)
LEMMA LiveNat ==
    ASSUME NEW d, NEW n \in Nat, Stored(d, n), NEW day
    PROVE  Live(d, day) \in Nat
  <1> DEFINE S == {i \in DOMAIN d.transactions : LET r == d.transactions[i] IN
                     r.owner = Me /\ r.day = day /\ r.amount = 1 /\ ~r.trashed}
  <1>1. "transactions" \in Tables /\ S \subseteq DOMAIN d["transactions"]
    BY TheTables
  <1>2. Live(d, day) = Cardinality(S)
    BY DEF Live
  <1> HIDE DEF S
  <1> QED
    BY <1>1, <1>2, FiniteRows

-----------------------------------------------------------------------------
(* Nothing is written: a request arrives, looks something up or is refused. *)
UserType == [exists : BOOLEAN, onboarded : BOOLEAN, dismissed : BOOLEAN]
SameAccount ==
    user' \in UserType /\ user'.exists = user.exists /\ user'.onboarded = user.onboarded

(* A handler that waits to write an import has read the days as they are.   *)
Informed(old, new) ==
    \A day \in Days : Waits(new, day) =>
        \/ Waits(old, day) /\ new.seen = old.seen
        \/ new.seen[day] = Live(db, day)

Quiet(h) ==
    /\ UNCHANGED <<topic, db, serial, keys, made, raced, extra, covered>> /\ SameAccount
    /\ \A g \in Handlers : g # h => handler'[g] = handler[g]
    /\ handler[h].status # "done" /\ handler'[h].status \notin {"new", "done"}
    /\ handler'[h].request = handler[h].request \/ handler[h].status = "new"
    /\ Informed(handler[h], handler'[h])

(* Such a step keeps the invariant.                                         *)
LEMMA QuietKeeps ==
    ASSUME IInv, NEW h \in Handlers, Quiet(h), HandlersOK'
    PROVE  IInv'
  <1> USE DEF Quiet
  <1>1. StateOK'
    BY DEF IInv, StateOK, SameAccount, UserType
  <1>2. Owned(db)' /\ Apart(db)'
    BY DEF IInv, Owned, Apart
  <1>3. Emptied' /\ ShapesHold'
    BY DEF IInv, Emptied, SameAccount, ShapesHold
  <1>8. \A g \in Handlers : handler'[g].status = "done" <=> handler[g].status = "done"
    OBVIOUS
  <1>9. StatementsMerge'
    BY <1>8 DEF IInv, SameAccount, StatementsMerge
  <1>10. ImportsKnow'
    <2> SUFFICES ASSUME NEW g \in Handlers, NEW day \in Days, user.exists,
                        Waits(handler'[g], day), <<"import", g, day>> \notin raced
                 PROVE  Live(db, day) <= handler'[g].seen[day] + extra[day]
      BY DEF ImportsKnow, SameAccount, Live
    <2>1. Live(db, day) \in Nat /\ extra[day] \in Nat
      BY LiveNat DEF IInv, StateOK
    <2>2. CASE Waits(handler[g], day) /\ handler'[g].seen = handler[g].seen
      BY <2>2 DEF IInv, ImportsKnow
    <2>3. CASE handler'[g].seen[day] = Live(db, day)
      BY <2>1, <2>3
    <2> QED
      BY <2>2, <2>3 DEF Informed
  <1>4. \A does : Done(does)' = Done(does)
    BY DEF Done
  <1>5. Stopped' <=> Stopped
    BY DEF Stopped
  <1>6. KeyKept'
    <2> SUFFICES ASSUME NEW g \in Handlers
                 PROVE  /\ Keyed(handler[g].request)' => made[g] <= 1
                        /\ (Keyed(handler[g].request)' /\ made[g] = 1 /\ user.exists) => g \in keys
                        /\ handler'[g].status = "new" => made[g] = 0
      BY DEF KeyKept, SameAccount
    <2>1. made[g] \in Nat
      BY DEF IInv, StateOK
    <2>2. CASE handler'[g].request = handler[g].request
      BY <2>2 DEF IInv, KeyKept
    <2>3. CASE handler[g].status = "new"
      BY <2>1, <2>3 DEF IInv, KeyKept
    <2> QED
      BY <2>2, <2>3
  <1>7. StartedOnce' /\ ConfirmedOnce'
    BY <1>4, <1>5 DEF IInv, StartedOnce, ConfirmedOnce, SameAccount
  <1> QED
    BY <1>1, <1>2, <1>3, <1>6, <1>7, <1>9, <1>10 DEF IInv

-----------------------------------------------------------------------------
(* A request is carried out.                                                *)
History(d, e) ==
    \A t \in Trashable : \A i \in DOMAIN d[t] :
        /\ i \in DOMAIN e[t]
        /\ d[t][i].trashed /\ e[t][i].trashed => StaysInTrash(e, t, d[t][i], e[t][i])
        /\ t = "entries" => e[t][i].source = d[t][i].source

(* A history left as it was is kept.                                        *)
LEMMA UntouchedHistory ==
    ASSUME NEW d, NEW e, Untouched(d, e)
    PROVE  History(d, e)
  BY DEF Untouched, History

(* Nothing happens to it when nothing is written.                           *)
LEMMA SameHistory ==
    ASSUME NEW d
    PROVE  History(d, d)
  BY SameInTrash DEF History

Written(h) ==
    LET r == handler[h].request IN
    /\ UNCHANGED topic
    /\ handler[h].status = "check" /\ handler' = [handler EXCEPT ![h].status = "done"]
    /\ user.exists /\ ~Replayed(h) /\ Consistent(db')
    /\ Wrote(db, serial, db', serial') /\ History(db, db')
    /\ keys' = IF Keyed(r) THEN keys \cup {handler[h].draft} ELSE keys
    /\ made' = [made EXCEPT ![handler[h].draft] = @ + (IF Creates(r) THEN 1 ELSE 0)]
    /\ raced \subseteq raced' /\ ShapesStay(db, db', raced')
    /\ StandsOn(db, db') \/ Stops(r)
    /\ r.does = "confirm" => \E i \in DOMAIN db'["rules"] : Stands(db'["rules"][i])
    /\ (r.does = "confirm" /\ <<"confirm", NULL>> \notin raced') =>
          ~\E i \in DOMAIN db["rules"] : Stands(db["rules"][i])
    /\ user' \in UserType /\ user'.exists
    /\ user'.onboarded = (user.onboarded \/ r.does = "onboard")
    /\ r.does = "onboard" => ~user.onboarded
    /\ extra' \in [Days -> Nat] /\ covered' \in [Days -> BOOLEAN]
    /\ StatementsMerge' /\ ImportsKnow'

(* Shapes, after a write that keeps them.                                   *)
LEMMA ShapesAfter ==
    ASSUME ShapesHold, raced \subseteq raced', ShapesStay(db, db', raced')
    PROVE  ShapesHold'
  BY DEF ShapesHold, ShapesStay, SourceShape

(* The handlers, after the write.                                           *)
LEMMA WrittenHandler ==
    ASSUME IInv, NEW h \in Handlers, Written(h)
    PROVE  /\ HandlersOK'
           /\ handler'[h] = [handler[h] EXCEPT !.status = "done"]
           /\ \A g \in Handlers : g # h => handler'[g] = handler[g]
           /\ \A g \in Handlers : handler'[g].request = handler[g].request
  <1> DEFINE x == [handler[h] EXCEPT !.status = "done"]
  <1>1. handler' = [handler EXCEPT ![h] = x]
    BY DEF Written
  <1>2. DOMAIN handler = Handlers /\ Handling(handler[h], db, serial)
    BY DEF IInv, HandlersOK
  <1>3. /\ IsHandler(x) /\ x.request = handler[h].request /\ x.draft = handler[h].draft
        /\ x.status = "done"
    BY <1>2 DEF Handling, IsHandler
  <1>4. handler[h].status = "check"
    BY DEF Written
  <1>5. Valid(x.request)
    BY <1>2, <1>3, <1>4 DEF Handling
  <1> HIDE DEF x
  <1>6. Handling(x, db', serial')
    BY <1>3, <1>5 DEF Handling, Statuses
  <1>7. Moves(h, x)
    BY <1>1, <1>3, <1>4 DEF Moves
  <1>8. \A y : Handling(y, db, serial) => Handling(y, db', serial')
    BY HandlingAfter DEF IInv, StateOK, Written
  <1>9. HandlersOK'
    BY <1>6, <1>7, <1>8, HandlersMove DEF IInv
  <1>10. /\ handler'[h] = x
         /\ \A g \in Handlers : g # h => handler'[g] = handler[g]
         /\ \A g \in Handlers : handler'[g].request = handler[g].request
    BY <1>1, <1>2, <1>3
  <1> QED
    BY <1>9, <1>10 DEF x

(* What was carried out once, after the write.                              *)
LEMMA WrittenOnce ==
    ASSUME IInv, NEW h \in Handlers, Written(h)
    PROVE  KeyKept' /\ StartedOnce' /\ ConfirmedOnce'
  <1> DEFINE r == handler[h].request
             draft == handler[h].draft
  <1>1. /\ \A g \in Handlers : g # h => handler'[g] = handler[g]
        /\ \A g \in Handlers : handler'[g].request = handler[g].request
        /\ handler'[h].status = "done" /\ handler[h].status = "check"
    <2>1. IsHandler(handler[h])
      BY DEF IInv, HandlersOK, Handling
    <2>2. handler'[h].status = "done"
      BY <2>1, WrittenHandler DEF IsHandler
    <2> QED
      BY <2>2, WrittenHandler DEF Written
  <1>2. draft \in Handlers /\ handler[draft].request = r /\ handler[draft].status # "new"
    BY <1>1 DEF IInv, HandlersOK, Known
  <1>3. KeyKept'
    <2>1. /\ made \in [Handlers -> Nat]
          /\ made' = [made EXCEPT ![draft] = @ + (IF Creates(r) THEN 1 ELSE 0)]
          /\ keys' = IF Keyed(r) THEN keys \cup {draft} ELSE keys
          /\ user.exists /\ (Keyed(r) => draft \notin keys)
      BY DEF IInv, StateOK, Written, Replayed
    <2>2. ASSUME NEW g \in Handlers
          PROVE  /\ Keyed(handler[g].request) => made'[g] <= 1
                 /\ (Keyed(handler[g].request) /\ made'[g] = 1) => g \in keys'
                 /\ handler'[g].status = "new" => made'[g] = 0
      <3>1. /\ Keyed(handler[g].request) => made[g] <= 1
            /\ (Keyed(handler[g].request) /\ made[g] = 1) => g \in keys
            /\ handler[g].status = "new" => made[g] = 0
        BY <2>1 DEF IInv, KeyKept
      <3>2. CASE g # draft
        <4>1. made'[g] = made[g] /\ (g \in keys => g \in keys')
          BY <2>1, <3>2
        <4>2. handler'[g].status = "new" => handler[g].status = "new"
          BY <1>1
        <4> QED
          BY <3>1, <4>1, <4>2
      <3>3. CASE g = draft
        <4>1. handler'[g].status # "new"
          BY <1>1, <1>2, <3>3
        <4>2. Keyed(r) => made[g] = 0 /\ made'[g] \in {0, 1} /\ g \in keys'
          BY <1>2, <2>1, <3>1, <3>3
        <4> QED
          BY <1>2, <3>3, <4>1, <4>2
      <3> QED
        BY <3>2, <3>3
    <2> QED
      BY <1>1, <2>2 DEF KeyKept
  <1>4. ASSUME NEW does
        PROVE  Done(does)' = IF r.does = does THEN Done(does) \cup {h} ELSE Done(does)
    BY <1>1 DEF Done
  <1>5. Stopped' <=> Stopped \/ Stops(r)
    BY <1>1 DEF Stopped
  <1>6. StartedOnce'
    <2>1. user.exists /\ StartedOnce
      BY DEF Written, IInv
    <2>2. CASE r.does = "onboard"
      <3>1. Done("onboard") = {}
        BY <2>1, <2>2 DEF Written, StartedOnce
      <3> QED
        BY <1>4, <2>2, <3>1 DEF StartedOnce, Written
    <2>3. CASE r.does # "onboard"
      BY <1>4, <2>1, <2>3 DEF StartedOnce, Written
    <2> QED
      BY <2>2, <2>3
  <1>7. ConfirmedOnce'
    <2> SUFFICES ASSUME <<"confirm", NULL>> \notin raced', ~Stopped'
                 PROVE  /\ \A f, g \in Done("confirm")' : f = g
                        /\ Done("confirm")' # {} =>
                              \E i \in DOMAIN db'["rules"] : Stands(db'["rules"][i])
      BY DEF ConfirmedOnce
    <2>1. <<"confirm", NULL>> \notin raced /\ ~Stopped /\ ~Stops(r)
      BY <1>5 DEF Written
    <2>2. /\ \A f, g \in Done("confirm") : f = g
          /\ Done("confirm") # {} => \E i \in DOMAIN db["rules"] : Stands(db["rules"][i])
      BY <2>1 DEF IInv, ConfirmedOnce, Written
    <2>3. CASE r.does = "confirm"
      <3>1. Done("confirm") = {}
        BY <2>2, <2>3 DEF Written
      <3> QED
        BY <1>4, <2>3, <3>1 DEF Written
    <2>4. CASE r.does # "confirm"
      <3>1. StandsOn(db, db')
        BY <2>1 DEF Written
      <3> QED
        BY <1>4, <2>2, <2>4, <3>1 DEF StandsOn
    <2> QED
      BY <2>3, <2>4
  <1> QED
    BY <1>3, <1>6, <1>7

(* A request carried out keeps the invariant.                               *)
LEMMA WrittenKeeps ==
    ASSUME IInv, NEW h \in Handlers, Written(h)
    PROVE  IInv'
  <1>1. Stored(db, serial) /\ Consistent(db) /\ Owned(db) /\ Apart(db)
    BY DEF IInv, StateOK
  <1>2. Wrote(db, serial, db', serial') /\ Consistent(db')
    BY DEF Written
  <1>3. StateOK'
    <2>1. handler[h].draft \in Handlers
      BY DEF Written, IInv, HandlersOK, Known
    <2>2. topic' \in Topics /\ keys' \subseteq Handlers /\ made' \in [Handlers -> Nat]
      BY <2>1 DEF IInv, StateOK, Written
    <2>3. Stored(db', serial') /\ serial' \in Nat
      BY <1>1, <1>2, WroteStored DEF Wrote
    <2>4. Checked(db', serial', Ref("categories", OtherCategory, "any"))
      BY <1>1, <1>2, CheckedAfter, TheTables DEF Ref, IInv, StateOK
    <2> QED
      BY <1>2, <2>2, <2>3, <2>4 DEF StateOK, Written, UserType
  <1>4. Owned(db') /\ Apart(db')
    BY <1>1, <1>2, OwnedAfter, ApartAfter
  <1>5. HandlersOK' /\ KeyKept' /\ StartedOnce' /\ ConfirmedOnce'
    BY WrittenHandler, WrittenOnce
  <1>6. ShapesHold' /\ StatementsMerge' /\ ImportsKnow' /\ Emptied'
    BY ShapesAfter DEF Written, IInv, Emptied
  <1> QED
    BY <1>3, <1>4, <1>5, <1>6 DEF IInv

-----------------------------------------------------------------------------
(* The steps that write nothing.                                            *)
Keeps == UNCHANGED <<topic, db, user, serial, keys, made, raced, extra, covered>>

(* A step that moves one handler and writes nothing.                        *)
LEMMA QuietStep ==
    ASSUME IInv, NEW h \in Handlers, NEW x, handler' = [handler EXCEPT ![h] = x], Keeps,
           Moves(h, x), handler[h].status # "done", x.status # "done", Handling(x, db, serial),
           Informed(handler[h], x)
    PROVE  IInv' /\ db' = db
  <1>1. HandlersOK'
    BY HandlersMove DEF IInv, Keeps
  <1>2. Quiet(h)
    BY DEF Quiet, Keeps, Moves, SameAccount, IInv, StateOK, HandlersOK, UserType
  <1> QED
    BY <1>1, <1>2, QuietKeeps DEF Quiet

(* A request arrives.                                                       *)
LEMMA StartKeeps ==
    ASSUME IInv, NEW h \in Handlers, NEW r, Valid(r), NEW draft, Start(h, r, draft), UNCHANGED topic,
           \/ draft = h
           \/ /\ draft \in Handlers /\ handler[draft].status # "new"
              /\ handler[draft].draft = draft /\ handler[draft].request = r
    PROVE  IInv' /\ db' = db
  <1> DEFINE status == IF Keyed(r) /\ draft \in keys THEN "replayed"
                       ELSE IF Reads(r) THEN "read" ELSE "check"
             x == [request |-> r, draft |-> draft, todo |-> References(r), seen |-> <<>>,
                   status |-> status]
  <1>1. /\ handler' = [handler EXCEPT ![h] = x] /\ handler[h].status = "new"
        /\ UNCHANGED <<db, user, serial, keys, made, raced, extra, covered>>
    BY DEF Start
  <1>2. x.request = r /\ x.draft = draft /\ x.todo = References(r) /\ x.status = status
    OBVIOUS
  <1>3. IsHandler(x)
    BY DEF IsHandler
  <1> HIDE DEF x
  <1>4. ASSUME status = "check"
        PROVE  SeenFits(x, db, serial) /\ Looked(x, db, serial)
    <2>1. ~Reads(r)
      BY <1>4
    <2>2. SentBy(x) = Sent(r)
      BY <1>2, <2>1 DEF SentBy, Reads
    <2>3. Lists(References(r), Sent(r))
      BY ReferencesAre
    <2> QED
      BY <1>2, <2>1, <2>2, <2>3 DEF SeenFits, Looked, Lists, Reads
  <1>5. Handling(x, db, serial)
    BY <1>2, <1>3, <1>4 DEF Handling, Statuses
  <1>6. x.status \notin {"new", "done"}
    BY <1>2
  <1>7. HandlersOK'
    BY <1>1, <1>2, <1>5, <1>6, HandlersStart DEF IInv
  <1>9. Informed(handler[h], x)
    BY <1>2 DEF Informed, Waits, Reads
  <1>8. Quiet(h)
    <2>1. /\ handler'[h] = x /\ \A g \in Handlers : g # h => handler'[g] = handler[g]
      BY <1>1 DEF IInv, HandlersOK
    <2> QED
      BY <1>1, <1>6, <1>9, <2>1 DEF Quiet, SameAccount, IInv, StateOK, UserType
  <1> QED
    BY <1>1, <1>7, <1>8, QuietKeeps

(* For the first time.                                                      *)
LEMMA ArriveKeeps ==
    ASSUME IInv, NEW h \in Handlers, NEW r \in Requests, Arrive(h, r), UNCHANGED topic
    PROVE  IInv' /\ db' = db
  <1>1. Valid(r)
    BY RequestsValid DEF IInv, StateOK
  <1> QED
    BY <1>1, StartKeeps DEF Arrive

(* Or again, with the key of its draft.                                     *)
LEMMA RetryKeeps ==
    ASSUME IInv, NEW h \in Handlers, NEW g \in Handlers, Retry(h, g), UNCHANGED topic
    PROVE  IInv' /\ db' = db
  <1>1. Valid(handler[g].request)
    BY DEF IInv, HandlersOK, Handling, Retry
  <1> QED
    BY <1>1, StartKeeps DEF Retry

(* A request is refused.                                                    *)
LEMMA RefuseKeeps ==
    ASSUME IInv, NEW h \in Handlers, handler[h].status \in {"read", "check"}, Refuse(h),
           UNCHANGED topic
    PROVE  IInv' /\ db' = db
  <1> DEFINE x == [handler[h] EXCEPT !.status = "refused"]
  <1>1. handler' = [handler EXCEPT ![h] = x] /\ Keeps
    BY DEF Refuse, Answer, Keeps
  <1>2. Handling(handler[h], db, serial)
    BY DEF IInv, HandlersOK
  <1>3. /\ IsHandler(x) /\ x.request = handler[h].request /\ x.draft = handler[h].draft
        /\ x.status = "refused"
    BY <1>2 DEF Handling, IsHandler
  <1> HIDE DEF x
  <1>4. Handling(x, db, serial)
    BY <1>2, <1>3 DEF Handling, Statuses
  <1> QED
    BY <1>1, <1>3, <1>4, QuietStep DEF Moves, Informed, Waits

-----------------------------------------------------------------------------
(* A reference that is granted is fit.                                      *)
LEMMA GrantedChecked ==
    ASSUME IInv, NEW ref, ref.to \in {"categories", "rules", "sources"}, Granted(ref)
    PROVE  Checked(db, serial, ref)
  <1>1. \A t \in Tables : \A i \in DOMAIN db[t] : i \in 1..serial
    BY DEF IInv, StateOK, Stored
  <1>2. CASE ref.to = "categories"
    BY <1>1, <1>2, TheTables DEF Granted, assertCategory, Checked, Fit
  <1>3. CASE ref.to = "rules"
    BY <1>1, <1>3, TheTables DEF Granted, assertRecurringRule, Own, Checked, Fit
  <1>4. CASE ref.to = "sources"
    BY <1>1, <1>4, TheTables DEF Granted, assertIncomeSource, Own, Checked, Fit
  <1> QED
    BY <1>2, <1>3, <1>4

(* A reference is looked up.                                                *)
LEMMA CheckKeeps ==
    ASSUME IInv, NEW h \in Handlers, Check(h), UNCHANGED topic
    PROVE  IInv' /\ db' = db
  <1> DEFINE old == handler[h]
             x == [old EXCEPT !.todo = Tail(@)]
  <1>1. old.status = "check" /\ old.todo # <<>>
    BY DEF Check
  <1>2. CASE ~Granted(Head(old.todo))
    BY <1>1, <1>2, RefuseKeeps DEF Check
  <1>3. CASE Granted(Head(old.todo))
    <2>1. handler' = [handler EXCEPT ![h] = x] /\ Keeps
      BY <1>3 DEF Check, Keeps
    <2>2. Handling(old, db, serial)
      BY DEF IInv, HandlersOK
    <2>3. SeenFits(old, db, serial) /\ Looked(old, db, serial) /\ Valid(old.request)
      BY <1>1, <2>2 DEF Handling
    <2>4. /\ IsHandler(x) /\ x.request = old.request /\ x.draft = old.draft
          /\ x.status = "check" /\ x.seen = old.seen /\ x.todo = Tail(old.todo)
      BY <1>1, <2>2 DEF Handling, IsHandler
    <2> DEFINE todo == old.todo
               S == SentBy(old)
    <2>5. SentBy(x) = S
      BY <2>4 DEF SentBy
    <2>6. todo \in Seq(S) /\ todo # <<>>
      BY <1>1, <2>3 DEF Looked
    <2>7. Checked(db, serial, Head(todo))
      <3>1. Head(todo) \in S
        BY <2>6
      <3> QED
        BY <1>3, <3>1, SentAre, GrantedChecked
    <2>8. Tail(todo) \in Seq(S)
      <3> HIDE DEF S, todo
      <3> QED
        BY <2>6
    <2>9. ASSUME NEW ref \in S
          PROVE  Checked(db, serial, ref) \/ \E i \in 1..Len(Tail(todo)) : Tail(todo)[i] = ref
      <3>1. CASE Checked(db, serial, ref)
        BY <3>1
      <3>2. CASE \E i \in 1..Len(todo) : todo[i] = ref
        <4>1. PICK i \in 1..Len(todo) : todo[i] = ref
          BY <3>2
        <4>2. CASE i = 1
          BY <2>6, <2>7, <4>1, <4>2
        <4>3. CASE i # 1
          <5>1. i - 1 \in 1..Len(Tail(todo)) /\ Tail(todo)[i - 1] = ref
            BY <2>6, <4>1, <4>3
          <5> QED
            BY <5>1
        <4> QED
          BY <4>2, <4>3
      <3> QED
        BY <2>3, <3>1, <3>2 DEF Looked
    <2> HIDE DEF x, S
    <2>10. SeenFits(x, db, serial) /\ Looked(x, db, serial)
      BY <2>3, <2>4, <2>5, <2>8, <2>9 DEF SeenFits, Looked
    <2>11. Handling(x, db, serial)
      BY <2>3, <2>4, <2>10 DEF Handling, Statuses
    <2> QED
      BY <1>1, <2>1, <2>4, <2>11, QuietStep DEF Moves, Informed, Waits
  <1> QED
    BY <1>2, <1>3

-----------------------------------------------------------------------------
(* What a handler reads fits what it will write.                            *)
LEMMA ReadFits ==
    ASSUME IInv, NEW h \in Handlers, handler[h].status = "read", NEW x, IsHandler(x),
           handler' = [handler EXCEPT ![h] = x], Keeps,
           x.request = handler[h].request, x.draft = handler[h].draft, x.status = "check",
           SeenFits(x, db, serial), Looked(x, db, serial), Informed(handler[h], x)
    PROVE  IInv' /\ db' = db
  <1>1. Valid(x.request)
    BY DEF IInv, HandlersOK, Handling
  <1>2. Handling(x, db, serial)
    BY <1>1 DEF Handling, Statuses
  <1> QED
    BY <1>2, QuietStep DEF Moves



(* A handler has read what it needs.                                        *)
LEMMA HasReadKeeps ==
    ASSUME IInv, NEW h \in Handlers, handler[h].status = "read", NEW seen, HasRead(h, seen),
           UNCHANGED topic, handler[h].request.does # "confirm",
           \A x : (x.request = handler[h].request /\ x.seen = seen) =>
                     SeenFits(x, db, serial) /\ Informed(handler[h], x)
    PROVE  IInv' /\ db' = db
  <1> DEFINE old == handler[h]
             x == [old EXCEPT !.seen = seen, !.status = "check"]
  <1>1. handler' = [handler EXCEPT ![h] = x] /\ Keeps
    BY DEF HasRead, Keeps
  <1>2. IsHandler(old) /\ old.todo = References(old.request)
    BY DEF IInv, HandlersOK, Handling
  <1>3. /\ IsHandler(x) /\ x.request = old.request /\ x.draft = old.draft
        /\ x.status = "check" /\ x.seen = seen /\ x.todo = References(x.request)
    <2> HIDE DEF old
    <2> QED
      BY <1>2 DEF IsHandler
  <1> HIDE DEF x
  <1>4. SentBy(x) = Sent(x.request)
    BY <1>3 DEF SentBy
  <1>5. Looked(x, db, serial)
    BY <1>3, <1>4, ReferencesAre DEF Looked, Lists
  <1>6. SeenFits(x, db, serial) /\ Informed(old, x)
    BY <1>3
  <1> QED
    BY <1>1, <1>3, <1>5, <1>6, ReadFits

(* The row a PATCH will be merged with: the merged row has its shape.       *)
LEMMA ReadRowKeeps ==
    ASSUME IInv, NEW h \in Handlers, handler[h].status = "read", ReadRow(h), UNCHANGED topic
    PROVE  IInv' /\ db' = db
  <1> DEFINE r == handler[h].request
             row == db[r.table][r.id]
             fits == IF r.table = "rules" THEN RuleFits(r.body, db.rules[r.id])
                     ELSE SourceFits(r.body, row)
  <1>1. r.does = "patch" /\ r.table \in {"rules", "sources"}
    BY DEF ReadRow, IInv, HandlersOK, Handling, Reads
  <1>4. IF Own(db, r.table, r.id) /\ fits THEN HasRead(h, row) ELSE Refuse(h)
    <2>1. CASE r.table = "rules"
      BY <2>1 DEF ReadRow
    <2>2. CASE r.table = "sources"
      BY <2>2 DEF ReadRow
    <2> QED
      BY <1>1, <2>1, <2>2
  <1>2. CASE ~(Own(db, r.table, r.id) /\ fits)
    BY <1>2, <1>4, RefuseKeeps
  <1>3. CASE Own(db, r.table, r.id) /\ fits
    <2>1. HasRead(h, row)
      BY <1>3, <1>4
    <2>2. /\ Stored(db, serial) /\ Owned(db) /\ Consistent(db)
          /\ r.table \in Tables /\ r.id \in DOMAIN db[r.table] /\ row.owner = Me
      BY <1>1, <1>3, TheTables DEF IInv, StateOK, Own
    <2>3. r.table = "sources" => /\ HasFields("sources", row)
                                 /\ Checked(db, serial, Ref("rules", row.rule, "INCOME"))
      <3> SUFFICES ASSUME r.table = "sources"
                   PROVE  /\ HasFields("sources", row)
                          /\ Checked(db, serial, Ref("rules", row.rule, "INCOME"))
        OBVIOUS
      <3> DEFINE k == Key("rule", "rules", "SetNull")
      <3>1. k \in KeysOf["sources"] /\ k.field = "rule" /\ k.to = "rules"
        BY TheTables DEF Key
      <3>2. "sources" \in Tables /\ "rules" \in Tables
        BY TheTables
      <3>3. row.rule # NULL => /\ row.rule \in DOMAIN db["rules"]
                               /\ Target("sources", k, db["rules"][row.rule])
        BY <2>2, <3>1, <3>2, ConsistentRefers DEF Owned
      <3>4. row.rule # NULL => /\ row.rule \in 1..serial
                               /\ Fit("rules", "INCOME", db["rules"][row.rule])
        BY <2>2, <3>1, <3>2, <3>3 DEF Target, Stored
      <3> QED
        BY <2>2, <3>4 DEF Checked, Ref, Stored
    <2>4. /\ r.table = "rules" => RuleFits(r.body, row)
          /\ r.table = "sources" => SourceFits(r.body, row)
      BY <1>3
    <2>5. ASSUME NEW x, x.request = r, x.seen = row
          PROVE  SeenFits(x, db, serial) /\ Informed(handler[h], x)
      <3>1. Informed(handler[h], x)
        BY <1>1, <2>5 DEF Informed, Waits
      <3> HIDE DEF r, row
      <3> QED
        BY <1>1, <2>3, <2>4, <2>5, <3>1 DEF SeenFits
    <2> QED
      BY <1>1, <2>1, <2>5, HasReadKeeps
  <1> QED
    BY <1>2, <1>3

(* The rows of the days an import covers.                                   *)
LEMMA ReadExistingKeeps ==
    ASSUME IInv, NEW h \in Handlers, handler[h].status = "read", ReadExisting(h), UNCHANGED topic
    PROVE  IInv' /\ db' = db
  <1> DEFINE days == handler[h].request.body.days
             seen == [day \in days |-> Live(db, day)]
  <1>1. handler[h].request.does = "import" /\ HasRead(h, seen)
    BY DEF ReadExisting
  <1>2. seen \in [days -> Nat]
    BY LiveNat DEF IInv, StateOK
  <1>3. \A day \in days : seen[day] = Live(db, day)
    OBVIOUS
  <1> HIDE DEF seen
  <1>4. \A x : (x.request = handler[h].request /\ x.seen = seen) =>
                  SeenFits(x, db, serial) /\ Informed(handler[h], x)
    BY <1>1, <1>2, <1>3 DEF SeenFits, Informed, Waits
  <1> QED
    BY <1>1, <1>4, HasReadKeeps

(* The user to be deleted.                                                  *)
LEMMA ReadUserKeeps ==
    ASSUME IInv, NEW h \in Handlers, handler[h].status = "read", ReadUser(h), UNCHANGED topic
    PROVE  IInv' /\ db' = db
  <1>1. handler[h].request.does = "close"
    BY DEF ReadUser
  <1>2. \A x : x.request = handler[h].request =>
                  SeenFits(x, db, serial) /\ Informed(handler[h], x)
    BY <1>1 DEF SeenFits, Informed, Waits
  <1> QED
    BY <1>1, <1>2, HasReadKeeps, RefuseKeeps DEF ReadUser

(* The suggestion to be confirmed, with the category of its payments.       *)
LEMMA ReadOverviewKeeps ==
    ASSUME IInv, NEW h \in Handlers, handler[h].status = "read", ReadOverview(h), UNCHANGED topic
    PROVE  IInv' /\ db' = db
  <1>1. CASE Refuse(h)
    BY <1>1, RefuseKeeps
  <1>2. CASE ~Refuse(h)
    <2> DEFINE old == handler[h]
    <2>1. PICK c : /\ handler' = [handler EXCEPT ![h].status = "check", ![h].seen = [category |-> c],
                                                ![h].todo = CategoryRef([category |-> c])]
                   /\ UNCHANGED <<db, user, serial, keys, made, raced, extra, covered>>
      BY <1>2 DEF ReadOverview
    <2> DEFINE ref == Ref("categories", c, "any")
               x == [old EXCEPT !.status = "check", !.seen = [category |-> c], !.todo = <<ref>>]
    <2>2. CategoryRef([category |-> c]) = <<ref>>
      BY DEF CategoryRef
    <2>3. h \in DOMAIN handler /\ IsHandler(old)
      BY DEF IInv, HandlersOK, Handling
    <2>4. handler' = [handler EXCEPT ![h] = x] /\ Keeps
      BY <2>1, <2>2, <2>3 DEF Keeps
    <2>5. /\ IsHandler(x) /\ x.request = old.request /\ x.draft = old.draft
          /\ x.status = "check" /\ x.seen = [category |-> c] /\ x.todo = <<ref>>
      <3> DEFINE seen == [category |-> c]
                 todo == <<ref>>
      <3> HIDE DEF old, seen, todo
      <3>1. x = [old EXCEPT !.status = "check", !.seen = seen, !.todo = todo]
        BY DEF seen, todo
      <3>2. /\ IsHandler(x) /\ x.request = old.request /\ x.draft = old.draft
            /\ x.status = "check" /\ x.seen = seen /\ x.todo = todo
        BY <2>3, <3>1 DEF IsHandler
      <3> QED
        BY <3>2 DEF seen, todo
    <2> HIDE DEF x
    <2>6. x.request.does = "confirm"
      BY <2>5 DEF ReadOverview
    <2>7. SentBy(x) = {ref}
      BY <2>5, <2>6 DEF SentBy
    <2>8. Looked(x, db, serial)
      BY <2>5, <2>7, Singleton DEF Looked, Lists
    <2>9. SeenFits(x, db, serial) /\ Informed(old, x)
      BY <2>6 DEF SeenFits, Informed, Waits
    <2> QED
      BY <2>4, <2>5, <2>8, <2>9, ReadFits
  <1> QED
    BY <1>1, <1>2

(* Any of these.                                                            *)
LEMMA ReadKeeps ==
    ASSUME IInv, NEW h \in Handlers, Read(h), UNCHANGED topic
    PROVE  IInv' /\ db' = db
  BY ReadRowKeeps, ReadExistingKeeps, ReadOverviewKeeps, ReadUserKeeps DEF Read

-----------------------------------------------------------------------------
(* The write commits or is refused.                                         *)
Commits(h, d) == ~Replayed(h) /\ Consistent(d) /\ user.exists
Counted(h, d) ==
    LET r == handler[h].request IN
    /\ extra' = [day \in Days |->
            extra[day] + IF r.does # "import" /\ Live(d, day) > Live(db, day)
                         THEN Live(d, day) - Live(db, day) ELSE 0]
    /\ covered' = [day \in Days |->
            IF r.does = "import" THEN covered[day] \/ Covers(h, day)
            ELSE covered[day] /\ Live(d, day) >= Live(db, day)]
Refused(h, d) ==
    /\ ~Commits(h, d) /\ handler'[h].status = "refused"
    /\ handler' = [handler EXCEPT ![h].status = "refused"]
    /\ UNCHANGED <<db, serial, keys, made, extra, covered>>
Accepted(h, d, k) ==
    LET r == handler[h].request IN
    /\ Commits(h, d) /\ handler'[h].status = "done"
    /\ handler' = [handler EXCEPT ![h].status = "done"]
    /\ db' = d /\ serial' = serial + k
    /\ keys' = IF Keyed(r) THEN keys \cup {handler[h].draft} ELSE keys
    /\ made' = [made EXCEPT ![handler[h].draft] = @ + (IF Creates(r) THEN 1 ELSE 0)]
    /\ Counted(h, d)

(* A commit is refused, or it carries the request out.                      *)
LEMMA CommitEither ==
    ASSUME IInv, NEW h \in Handlers, NEW d, NEW k, Commit(h, d, k)
    PROVE  Refused(h, d) \/ Accepted(h, d, k)
  <1>1. h \in DOMAIN handler /\ IsHandler(handler[h])
    BY DEF IInv, HandlersOK, Handling
  <1>2. \A status : handler' = [handler EXCEPT ![h].status = status] => handler'[h].status = status
    BY <1>1 DEF IsHandler
  <1>3. CASE ~Commits(h, d)
    BY <1>2, <1>3 DEF Commit, Commits, Refused, Answer
  <1>4. CASE Commits(h, d)
    BY <1>2, <1>4 DEF Commit, Commits, Accepted, Answer, Counted
  <1> QED
    BY <1>3, <1>4

(* Whatever is not an import counts what it adds to a day as the user's own. *)
LEMMA CountedType ==
    ASSUME IInv, NEW h \in Handlers, NEW d, NEW k \in Nat, Stored(d, k), Counted(h, d)
    PROVE  extra' \in [Days -> Nat] /\ covered' \in [Days -> BOOLEAN]
  <1>1. \A day : Live(d, day) \in Nat /\ Live(db, day) \in Nat
    BY LiveNat DEF IInv, StateOK
  <1>2. extra \in [Days -> Nat] /\ covered \in [Days -> BOOLEAN]
    BY DEF IInv, StateOK
  <1>3. extra' \in [Days -> Nat]
    BY <1>1, <1>2 DEF Counted
  <1>4. covered' \in [Days -> BOOLEAN]
    BY <1>1, <1>2 DEF Counted, Covers
  <1> QED
    BY <1>3, <1>4

(* Statements stay merged, and imports that wait know the days, while the   *)
(* user enters rows by hand.                                                *)
LEMMA OthersMerge ==
    ASSUME IInv, NEW h \in Handlers, handler[h].request.does # "import", user.exists,
           handler[h].status = "check", handler' = [handler EXCEPT ![h].status = "done"],
           handler'[h].status = "done",
           NEW k \in Nat, Stored(db', k), Counted(h, db'), raced \subseteq raced'
    PROVE  StatementsMerge' /\ ImportsKnow'
  <1>1. ASSUME NEW day \in Days
        PROVE  /\ Live(db', day) \in Nat /\ Live(db, day) \in Nat
               /\ Bank[day] \in Nat /\ extra[day] \in Nat
               /\ extra'[day] = extra[day] + IF Live(db', day) > Live(db, day)
                                             THEN Live(db', day) - Live(db, day) ELSE 0
               /\ covered'[day] => covered[day] /\ Live(db', day) >= Live(db, day)
    BY LiveNat, BankCounts DEF IInv, StateOK, Counted
  <1>2. \A g \in Handlers : g # h => handler'[g] = handler[g]
    BY DEF IInv, HandlersOK
  <1>3. StatementsMerge'
    <2> SUFFICES ASSUME NEW day \in Days
                 PROVE  /\ covered'[day] => Live(db', day) >= Bank[day]
                        /\ (\A g \in Handlers : handler'[g].status = "done" =>
                                                <<"import", g, day>> \notin raced')
                              => Live(db', day) <= Bank[day] + extra'[day]
      BY DEF StatementsMerge, Live
    <2>1. covered[day] => Live(db, day) >= Bank[day]
      BY DEF IInv, StatementsMerge
    <2>2. ASSUME \A g \in Handlers : handler'[g].status = "done" =>
                                        <<"import", g, day>> \notin raced'
          PROVE  Live(db, day) <= Bank[day] + extra[day]
      <3>1. \A g \in Handlers : handler[g].status = "done" => <<"import", g, day>> \notin raced
        BY <1>2, <2>2
      <3> QED
        BY <3>1 DEF IInv, StatementsMerge
    <2>3. CASE \A g \in Handlers : handler'[g].status = "done" =>
                                      <<"import", g, day>> \notin raced'
      BY <1>1, <2>1, <2>2, <2>3
    <2>4. covered'[day] => Live(db', day) >= Bank[day]
      BY <1>1, <2>1
    <2> QED
      BY <2>3, <2>4
  <1>4. ImportsKnow'
    <2> SUFFICES ASSUME NEW g \in Handlers, NEW day \in Days,
                        Waits(handler'[g], day), <<"import", g, day>> \notin raced'
                 PROVE  Live(db', day) <= handler'[g].seen[day] + extra'[day]
      BY DEF ImportsKnow, Live
    <2>1. g # h
      BY DEF Waits
    <2>2. handler'[g] = handler[g]
      BY <1>2, <2>1
    <2>3. Live(db, day) <= handler[g].seen[day] + extra[day]
      BY <2>2 DEF IInv, ImportsKnow
    <2>4. handler[g].seen[day] \in Nat
      BY <2>2 DEF IInv, HandlersOK, Handling, SeenFits, Waits
    <2> QED
      BY <1>1, <2>2, <2>3, <2>4
  <1> QED
    BY <1>3, <1>4

-----------------------------------------------------------------------------
(* A write whose statements are known.                                      *)
Races(h) ==
    /\ handler'[h].status = "done" => raced \subseteq raced'
    /\ handler'[h].status # "done" => raced' = raced
Suggests(h, d) ==
    handler[h].request.does = "confirm" =>
        /\ \E i \in DOMAIN d["rules"] : Stands(d["rules"][i])
        /\ (handler'[h].status = "done" /\ <<"confirm", NULL>> \notin raced') =>
              ~\E i \in DOMAIN db["rules"] : Stands(db["rules"][i])
Onboards(h) ==
    LET onboards == handler[h].request.does = "onboard" IN
    /\ user' \in UserType /\ user'.exists = user.exists
    /\ user'.onboarded = (user.onboarded \/ (onboards /\ handler'[h].status = "done"))
    /\ onboards => ~user.onboarded

(* A commit keeps the invariant and the history, if what it writes is of    *)
(* the kind above.                                                          *)
LEMMA CommitKeeps ==
    ASSUME IInv, NEW h \in Handlers, handler[h].status = "check", NEW d, NEW k \in Nat,
           Commit(h, d, k), UNCHANGED topic,
           Wrote(db, serial, d, serial + k), History(db, d), Races(h),
           handler'[h].status = "done" => ShapesStay(db, d, raced'),
           StandsOn(db, d) \/ Stops(handler[h].request), Suggests(h, d), Onboards(h),
           (handler[h].request.does = "import" /\ handler'[h].status = "done") =>
               StatementsMerge' /\ ImportsKnow'
    PROVE  IInv' /\ History(db, db')
  <1>1. CASE Refused(h, d)
    <2> DEFINE x == [handler[h] EXCEPT !.status = "refused"]
    <2>1. handler' = [handler EXCEPT ![h] = x]
      BY <1>1 DEF Refused
    <2>2. Handling(handler[h], db, serial) /\ DOMAIN handler = Handlers
      BY DEF IInv, HandlersOK
    <2>3. /\ IsHandler(x) /\ x.request = handler[h].request /\ x.draft = handler[h].draft
          /\ x.status = "refused"
      BY <2>2 DEF Handling, IsHandler
    <2> HIDE DEF x
    <2>4. Handling(x, db, serial)
      BY <2>2, <2>3 DEF Handling, Statuses
    <2>5. UNCHANGED <<db, serial>>
      BY <1>1 DEF Refused
    <2>6. HandlersOK'
      BY <2>1, <2>3, <2>4, <2>5, HandlersMove DEF Moves, IInv
    <2>7. SameAccount /\ raced' = raced
      BY <1>1 DEF Refused, Onboards, Races, SameAccount, IInv, StateOK
    <2>8. Quiet(h)
      BY <1>1, <2>1, <2>2, <2>3, <2>7 DEF Quiet, Refused, Informed, Waits
    <2>9. History(db, db')
      BY <2>5, SameHistory
    <2> QED
      BY <2>6, <2>8, <2>9, QuietKeeps
  <1>2. CASE Accepted(h, d, k)
    <2>1. /\ db' = d /\ serial' = serial + k /\ user.exists /\ Consistent(d) /\ ~Replayed(h)
          /\ handler' = [handler EXCEPT ![h].status = "done"] /\ handler'[h].status = "done"
          /\ Counted(h, d)
      BY <1>2 DEF Accepted, Commits
    <2>2. Stored(d, serial + k) /\ serial + k \in Nat
      BY WroteStored DEF IInv, StateOK, Wrote
    <2>3. raced \subseteq raced'
      BY <2>1 DEF Races
    <2>4. extra' \in [Days -> Nat] /\ covered' \in [Days -> BOOLEAN]
      BY <2>1, <2>2, CountedType
    <2>5. StatementsMerge' /\ ImportsKnow'
      BY <2>1, <2>2, <2>3, OthersMerge
    <2>6. Written(h)
      BY <1>2, <2>1, <2>3, <2>4, <2>5 DEF Written, Accepted, Suggests, Onboards
    <2> QED
      BY <2>1, <2>6, WrittenKeeps
  <1> QED
    BY <1>1, <1>2, CommitEither

-----------------------------------------------------------------------------
(* A handler that writes: what it refers to was looked up.                  *)
AtWrite(h) == handler[h].status = "check" /\ handler[h].todo = <<>>

(* A handler about to write.                                                *)
LEMMA WriterIs ==
    ASSUME IInv, NEW h \in Handlers, AtWrite(h)
    PROVE  /\ Stored(db, serial) /\ serial \in Nat /\ Consistent(db) /\ DOMAIN db = Tables
           /\ Valid(handler[h].request) /\ SeenFits(handler[h], db, serial)
           /\ \A ref \in SentBy(handler[h]) : Checked(db, serial, ref)
  BY DEF IInv, StateOK, Stored, HandlersOK, Handling, AtWrite, Looked

(* A reference that was looked up may be written.                           *)
LEMMA CheckedGood ==
    ASSUME NEW d, NEW n \in Nat, NEW m \in Nat, n <= m, NEW t \in Tables, NEW k \in KeysOf[t],
           NEW ref, Checked(d, n, ref), ref.to = k.to,
           k.to = "rules" => ref.kind = IF t = "sources" THEN "INCOME" ELSE "EXPENSE"
    PROVE  ref.id = NULL \/ Good(d, m, t, k, ref.id)
  BY DEF Checked, Good, Target, Fit

(* The references of a body may be written, once all were looked up.        *)
LEMMA SentRefers ==
    ASSUME IInv, NEW h \in Handlers, AtWrite(h), NEW m \in Nat, serial <= m,
           handler[h].request.does \in {"post", "patch"}, handler[h].request.table \in Tables,
           handler[h].request.does = "patch" => handler[h].request.table # "entries",
           NEW k \in KeysOf[handler[h].request.table], k.field \in DOMAIN handler[h].request.body
    PROVE  \/ handler[h].request.body[k.field] = NULL
           \/ Good(db, m, handler[h].request.table, k, handler[h].request.body[k.field])
  <1> DEFINE r == handler[h].request
             t == r.table
             kind == IF k.to = "rules" THEN IF t = "sources" THEN "INCOME" ELSE "EXPENSE" ELSE "any"
             ref == Ref(k.to, r.body[k.field], kind)
  <1>1. ref \in Sent(r)
    <2>4. t \in Tables /\ k \in KeysOf[t]
      OBVIOUS
    <2>5. r.does \in {"post", "patch"} /\ (r.does = "patch" => t # "entries") /\ k.field \in DOMAIN r.body
      OBVIOUS
    <2> HIDE DEF r
    <2>1. CASE k.field = "category"
      <3>1. k.to = "categories" /\ t \notin {"sources", "entries"}
        BY <2>1, <2>4, TheTables, TheKeys DEF Key
      <3> QED
        BY <2>1, <2>5, <3>1 DEF Sent
    <2>2. CASE k.field = "rule"
      <3>1. k.to = "rules" /\ t \in {"sources", "transactions"}
        BY <2>2, <2>4, TheKeys
      <3> QED
        BY <2>2, <2>5, <3>1 DEF Sent
    <2>3. CASE k.field = "source"
      <3>1. k.to = "sources" /\ t = "entries"
        BY <2>3, <2>4, TheKeys
      <3> QED
        BY <2>3, <2>5, <3>1 DEF Sent
    <2> QED
      BY <2>1, <2>2, <2>3, <2>4, TheKeys
  <1>2. SentBy(handler[h]) = Sent(r)
    BY DEF SentBy
  <1>3. Checked(db, serial, ref) /\ serial \in Nat
    BY <1>1, <1>2, WriterIs
  <1>4. ref.to = k.to /\ ref.id = r.body[k.field] /\ ref.kind = kind
    BY DEF Ref
  <1> HIDE DEF ref
  <1> QED
    BY <1>3, <1>4, CheckedGood

(* A write with nothing else about it.                                      *)
LEMMA PlainKeeps ==
    ASSUME IInv, NEW h \in Handlers, handler[h].status = "check", NEW d, NEW k \in Nat,
           Commit(h, d, k), UNCHANGED <<topic, user, raced>>,
           handler[h].request.does \notin {"confirm", "import", "onboard"},
           Wrote(db, serial, d, serial + k), History(db, d), ShapesStay(db, d, raced),
           StandsOn(db, d) \/ Stops(handler[h].request)
    PROVE  IInv' /\ History(db, db')
  BY CommitKeeps DEF Races, Suggests, Onboards, IInv, StateOK, UserType

(* One that changes no row.                                                 *)
LEMMA SameRows ==
    ASSUME NEW d, NEW n \in Nat, Stored(d, n), NEW X
    PROVE  /\ Wrote(d, n, d, n + 0) /\ History(d, d)
           /\ ShapesStay(d, d, X) /\ StandsOn(d, d)
  <1>1. n + 0 = n
    OBVIOUS
  <1> QED
    BY <1>1, WroteNothing, SameHistory, TheTables DEF ShapesStay, StandsOn, Stored

-----------------------------------------------------------------------------
(* The writes, one by one.                                                  *)
LEMMA PostRowKeeps ==
    ASSUME IInv, NEW h \in Handlers, AtWrite(h), PostRow(h), UNCHANGED topic
    PROVE  IInv' /\ History(db, db')
  <1> DEFINE r == handler[h].request
             t == r.table
             d == Insert(db, t, serial + 1, r.body)
  <1>1. /\ r.does = "post" /\ (t = "sources" => "schedule" \notin DOMAIN r.body)
        /\ Commit(h, d, 1) /\ UNCHANGED <<user, raced>>
    BY DEF PostRow
  <1>2. Stored(db, serial) /\ serial \in Nat /\ Posted(t, r.body)
    BY <1>1, WriterIs DEF Valid
  <1>3. t \in Tables /\ HasFields(t, r.body) /\ r.body.owner = Me
        /\ serial + 1 \in serial + 1..serial + 1 /\ serial + 1 \in Nat
    BY <1>2, TheTables DEF Posted
  <1>4. Refers(db, serial + 1, t, r.body)
    <2> SUFFICES ASSUME NEW k \in KeysOf[t]
                 PROVE  \/ r.body[k.field] = NULL
                        \/ Good(db, serial + 1, t, k, r.body[k.field])
      BY DEF Refers
    <2>1. k.field \in DOMAIN r.body
      BY <1>3, TheKeys DEF HasFields
    <2> QED
      BY <1>1, <1>2, <1>3, <2>1, SentRefers
  <1>5. Wrote(db, serial, d, serial + 1)
    BY <1>2, <1>3, <1>4, InsertWrote DEF Added
  <1>6. History(db, d) /\ StandsOn(db, d)
    BY <1>2, <1>3, InsertUntouched, UntouchedHistory, InsertStands
  <1>7. ShapesStay(db, d, raced)
    BY <1>2, <1>3, InsertShapes DEF Posted, SourceShape
  <1> HIDE DEF d
  <1> QED
    BY <1>1, <1>5, <1>6, <1>7, PlainKeeps DEF AtWrite

(* PATCH of anything but a source.                                          *)
LEMMA PatchRowKeeps ==
    ASSUME IInv, NEW h \in Handlers, AtWrite(h), PatchRow(h), UNCHANGED topic
    PROVE  IInv' /\ History(db, db')
  <1> DEFINE r == handler[h].request
             t == r.table
             id == r.id
             d == Set(db, t, id, r.body)
  <1>1. r.does = "patch" /\ t # "sources"
    BY DEF PatchRow
  <1>2. /\ Stored(db, serial) /\ serial \in Nat /\ Patched(t, r.body)
        /\ SeenFits(handler[h], db, serial)
    BY <1>1, WriterIs DEF Valid
  <1>3. CASE ~Updatable(t, id)
    <2>1. Refuse(h)
      BY <1>3 DEF PatchRow
    <2> QED
      BY <2>1, RefuseKeeps, SameHistory DEF AtWrite
  <1>4. CASE Updatable(t, id)
    <2>1. /\ Commit(h, d, 0) /\ user' = user
          /\ MarkRaced(h, <<t, id>>, t = "rules" /\ Stale(h))
      BY <1>4 DEF PatchRow
    <2>2. /\ t \in Tables /\ id \in DOMAIN db[t] /\ db[t][id].owner = Me
          /\ t # "entries" \/ KeysOf[t] = {Key("source", "sources", "NoAction")}
          /\ DOMAIN r.body \subseteq Changes[t]
      BY <1>2, <1>4, TheTables DEF Updatable, Own, Patched, Changes
    <2>3. "owner" \notin DOMAIN r.body /\ (t = "rules" => "kind" \notin DOMAIN r.body)
      BY <1>1, <1>2 DEF Patched, Changes
    <2>4. ASSUME NEW k \in KeysOf[t], k.field \in DOMAIN r.body
          PROVE  r.body[k.field] = NULL \/ Good(db, serial, t, k, r.body[k.field])
      <3>1. t # "entries"
        BY <1>2, <2>4, TheTables DEF Patched, Changes, Key
      <3> QED
        BY <1>1, <1>2, <2>2, <2>4, <3>1, SentRefers
    <2>5. serial + 0 = serial
      BY <1>2
    <2>6. Wrote(db, serial, d, serial + 0)
      BY <1>2, <2>2, <2>3, <2>4, <2>5, SetWrote
    <2>7. History(db, d)
      <3>1. CASE t \in Trashable
        <4>1. /\ DOMAIN d = Tables /\ \A u \in Tables : u # t => d[u] = db[u]
              /\ DOMAIN d[t] = DOMAIN db[t] /\ d[t][id] = Over(r.body, db[t][id])
              /\ \A i \in DOMAIN db[t] : i # id => d[t][i] = db[t][i]
          BY <1>2, <2>2, SetIs DEF Stored
        <4>2. ~db[t][id].trashed
          BY <1>4, <3>1 DEF Updatable
        <4>3. t = "entries" => d[t][id].source = db[t][id].source
          <5> SUFFICES ASSUME t = "entries"
                       PROVE  Over(r.body, db[t][id]).source = db[t][id].source
            BY <4>1
          <5>1. "source" \in DOMAIN db[t][id] /\ "source" \notin DOMAIN r.body
            BY <1>2, <2>2 DEF Stored, HasFields, Fields, Changes
          <5> DEFINE old == db[t][id]
                     body == r.body
          <5> HIDE DEF old, body
          <5>2. \A x \in DOMAIN old : x \notin DOMAIN body => Over(body, old)[x] = old[x]
            BY Overlaid
          <5> QED
            BY <5>1, <5>2 DEF old, body
        <4> HIDE DEF d
        <4> QED
          BY <4>1, <4>2, <4>3, SameInTrash, TheTables DEF History
      <3>2. CASE t \notin Trashable
        BY <1>2, <2>2, <3>2, SetUntouched, UntouchedHistory
      <3> QED
        BY <3>1, <3>2
    <2>8. ASSUME handler'[h].status = "done"
          PROVE  ShapesStay(db, d, raced')
      <3>1. t = "rules" => <<t, id>> \in raced' \/ checkShape(Over(r.body, db[t][id]))
        <4> SUFFICES ASSUME t = "rules", <<t, id>> \notin raced'
                     PROVE  checkShape(Over(r.body, db[t][id]))
          OBVIOUS
        <4>1. db[t][id] = handler[h].seen
          BY <2>1, <2>8 DEF MarkRaced, Stale
        <4> QED
          BY <1>1, <1>2, <4>1 DEF SeenFits, RuleFits
      <3> QED
        BY <1>1, <1>2, <2>2, <3>1, SetShapes
    <2>9. StandsOn(db, d) \/ Stops(r)
      <3> SUFFICES ASSUME ~Stops(r)
                   PROVE  StandsOn(db, d)
        OBVIOUS
      <3>1. t = "rules" => DOMAIN r.body \cap {"owner", "kind", "active", "covers"} = {}
        BY <1>1, <1>2 DEF Stops, Patched, Changes
      <3> QED
        BY <1>2, <2>2, <3>1, SetStands
    <2>10. Races(h) /\ Suggests(h, d) /\ Onboards(h)
      BY <1>1, <2>1 DEF Races, MarkRaced, Suggests, Onboards, IInv, StateOK, UserType
    <2> HIDE DEF d
    <2> QED
      BY <1>1, <2>1, <2>6, <2>7, <2>8, <2>9, <2>10, CommitKeeps DEF AtWrite
  <1> QED
    BY <1>3, <1>4

(* Into the trash and out of it.                                            *)
LEMMA TrashRowKeeps ==
    ASSUME IInv, NEW h \in Handlers, AtWrite(h), TrashRow(h), UNCHANGED topic
    PROVE  IInv' /\ History(db, db')
  <1> DEFINE r == handler[h].request
             t == r.table
             id == r.id
             change == [trashed |-> r.does = "delete"]
             d == Set(db, t, id, change)
  <1>1. r.does \in {"delete", "restore"} /\ t \in Trashable
    BY DEF TrashRow
  <1>2. Stored(db, serial) /\ serial \in Nat /\ t \in Tables
    BY <1>1, WriterIs, TheTables
  <1>3. CASE ~(Own(db, t, id) /\ db[t][id].trashed = (r.does = "restore"))
    <2>1. Refuse(h)
      BY <1>3 DEF TrashRow
    <2> QED
      BY <2>1, RefuseKeeps, SameHistory DEF AtWrite
  <1>4. CASE Own(db, t, id) /\ db[t][id].trashed = (r.does = "restore")
    <2>1. Commit(h, d, 0) /\ UNCHANGED <<user, raced>>
      BY <1>4 DEF TrashRow
    <2>2. /\ id \in DOMAIN db[t] /\ db[t][id].owner = Me /\ DOMAIN change = {"trashed"}
          /\ t \notin {"rules", "sources"}
      BY <1>1, <1>4 DEF Own, Trashable
    <2>3. \A k \in KeysOf[t] : k.field \notin DOMAIN change
      BY <1>2, <2>2, TheKeys
    <2>4. /\ DOMAIN d = Tables /\ \A u \in Tables : u # t => d[u] = db[u]
          /\ DOMAIN d[t] = DOMAIN db[t] /\ d[t][id] = Over(change, db[t][id])
          /\ \A i \in DOMAIN db[t] : i # id => d[t][i] = db[t][i]
      BY <1>2, <2>2, SetIs DEF Stored
    <2>5. \A f \in DOMAIN db[t][id] \ {"trashed"} : d[t][id][f] = db[t][id][f]
      <3> DEFINE row == db[t][id]
      <3> HIDE DEF change, row
      <3>1. \A f \in DOMAIN row : f \notin DOMAIN change => Over(change, row)[f] = row[f]
        BY Overlaid
      <3> QED
        BY <2>2, <2>4, <3>1 DEF row
    <2>6. t = "entries" => "source" \in DOMAIN db[t][id]
      BY <1>1, <1>2, <2>2 DEF Stored, HasFields, Fields, Trashable
    <2>11. ~(db[t][id].trashed /\ d[t][id].trashed)
      <3> DEFINE row == db[t][id]
      <3>1. "trashed" \in DOMAIN change /\ change.trashed = (r.does = "delete")
        OBVIOUS
      <3> HIDE DEF change, row
      <3>2. \A f \in DOMAIN change : Over(change, row)[f] = change[f]
        BY Overlaid
      <3>3. Over(change, row).trashed = change.trashed
        BY <3>1, <3>2
      <3> QED
        BY <1>1, <1>4, <2>4, <3>1, <3>3 DEF row
    <2> HIDE DEF change
    <2>7. serial + 0 = serial /\ Wrote(db, serial, d, serial)
      BY <1>2, <2>2, <2>3, SetWrote
    <2>8. ShapesStay(db, d, raced)
      BY <1>2, <2>2, SetShapes
    <2>9. StandsOn(db, d)
      BY <1>2, <2>2, SetStands
    <2> HIDE DEF d
    <2>10. History(db, d)
      BY <2>4, <2>5, <2>6, <2>11, SameInTrash, TheTables DEF History
    <2> QED
      BY <1>1, <2>1, <2>7, <2>8, <2>9, <2>10, PlainKeeps DEF AtWrite
  <1> QED
    BY <1>3, <1>4

(* DELETE of a row that has no trash.                                       *)
LEMMA DeleteRowKeeps ==
    ASSUME IInv, NEW h \in Handlers, AtWrite(h), DeleteRow(h), UNCHANGED topic
    PROVE  IInv' /\ History(db, db')
  <1> DEFINE r == handler[h].request
             d == Deleted(db, r.table, r.id)
  <1>1. r.does = "delete" /\ r.table \notin Trashable
    BY DEF DeleteRow
  <1>2. Stored(db, serial) /\ serial \in Nat /\ r.table \in Tables \ Trashable
    BY <1>1, WriterIs DEF Valid
  <1>3. CASE ~Own(db, r.table, r.id)
    BY <1>3, RefuseKeeps, SameHistory DEF DeleteRow, AtWrite
  <1>4. CASE Own(db, r.table, r.id)
    <2>1. Commit(h, d, 0) /\ UNCHANGED <<user, raced>>
      BY <1>4 DEF DeleteRow
    <2>2. serial + 0 = serial /\ Wrote(db, serial, d, serial)
      BY <1>2, DeletedWrote
    <2>3. History(db, d) /\ ShapesStay(db, d, raced)
      BY <1>2, DeletedUntouched, UntouchedHistory, DeletedShapes
    <2>4. StandsOn(db, d) \/ Stops(r)
      BY <1>1, <1>2, DeletedStands DEF Stops
    <2> HIDE DEF d
    <2> QED
      BY <1>1, <2>1, <2>2, <2>3, <2>4, PlainKeeps DEF AtWrite
  <1> QED
    BY <1>3, <1>4

(* A limit is taken away.                                                   *)
LEMMA UnsetLimitKeeps ==
    ASSUME IInv, NEW h \in Handlers, AtWrite(h), UnsetLimit(h), UNCHANGED topic
    PROVE  IInv' /\ History(db, db')
  <1>1. handler[h].request.does = "unset"
    BY DEF UnsetLimit
  <1>2. Stored(db, serial) /\ serial \in Nat /\ "limits" \in Tables \ Trashable
    BY WriterIs, TheTables DEF Trashable
  <1>3. CASE Refuse(h)
    BY <1>3, RefuseKeeps, SameHistory DEF AtWrite
  <1>4. CASE ~Refuse(h)
    <2>1. PICK i : Commit(h, Deleted(db, "limits", i), 0) /\ UNCHANGED <<user, raced>>
      BY <1>4 DEF UnsetLimit
    <2> DEFINE d == Deleted(db, "limits", i)
    <2>2. serial + 0 = serial /\ Wrote(db, serial, d, serial)
      BY <1>2, DeletedWrote
    <2>3. History(db, d) /\ ShapesStay(db, d, raced) /\ StandsOn(db, d)
      BY <1>2, DeletedUntouched, UntouchedHistory, DeletedShapes, DeletedStands
    <2>4. Commit(h, d, 0)
      BY <2>1
    <2> HIDE DEF d
    <2> QED
      BY <1>1, <2>1, <2>2, <2>3, <2>4, PlainKeeps DEF AtWrite
  <1> QED
    BY <1>3, <1>4

(* A limit is set.                                                          *)
LEMMA SetLimitKeeps ==
    ASSUME IInv, NEW h \in Handlers, AtWrite(h), SetLimit(h), UNCHANGED topic
    PROVE  IInv' /\ History(db, db')
  <1> DEFINE r == handler[h].request
             c == r.body.category
             row == [owner |-> Me, category |-> c]
             d == Insert(db, "limits", serial + 1, row)
  <1>1. r.does = "put" /\ UNCHANGED <<user, raced>>
    BY DEF SetLimit
  <1>2. /\ Stored(db, serial) /\ serial \in Nat /\ r.table = "limits"
        /\ r.body = [category |-> r.body.category]
        /\ \A ref \in Sent(r) : Checked(db, serial, ref)
    BY <1>1, WriterIs DEF Valid, SentBy
  <1>3. CASE Commit(h, db, 0)
    BY <1>1, <1>2, <1>3, SameRows, PlainKeeps DEF AtWrite
  <1>4. CASE Commit(h, d, 1)
    <2>1. "limits" \in Tables /\ serial + 1 \in serial + 1..serial + 1 /\ serial + 1 \in Nat
      BY <1>2, TheTables
    <2>2. Added("limits", row)
      BY DEF Added, HasFields, Fields
    <2>3. Checked(db, serial, Ref("categories", c, "any"))
      <3>1. "category" \in DOMAIN r.body
        BY <1>2
      <3>2. Ref("categories", c, "any") \in Sent(r)
        BY <1>1, <1>2, <3>1 DEF Sent
      <3> QED
        BY <1>2, <3>2
    <2>4. Refers(db, serial + 1, "limits", row)
      <3> DEFINE ref == Ref("categories", c, "any")
      <3>1. ref.to = "categories" /\ ref.id = c /\ row.category = c
        BY DEF Ref
      <3>2. \A k \in KeysOf["limits"] : k.field = "category" /\ k.to = "categories"
        BY TheTables DEF Key
      <3>4. Checked(db, serial, ref) /\ serial <= serial + 1
        BY <1>2, <2>3
      <3> HIDE DEF ref
      <3>3. ASSUME NEW k \in KeysOf["limits"]
            PROVE  ref.id = NULL \/ Good(db, serial + 1, "limits", k, ref.id)
        BY <1>2, <2>1, <3>1, <3>2, <3>4, CheckedGood
      <3> QED
        BY <3>1, <3>2, <3>3 DEF Refers
    <2>5. Wrote(db, serial, d, serial + 1)
      BY <1>2, <2>1, <2>2, <2>4, InsertWrote
    <2>6. History(db, d) /\ StandsOn(db, d) /\ ShapesStay(db, d, raced)
      BY <1>2, <2>1, InsertUntouched, UntouchedHistory, InsertStands, InsertShapes
    <2> HIDE DEF d
    <2> QED
      BY <1>1, <1>4, <2>5, <2>6, PlainKeeps DEF AtWrite
  <1> QED
    BY <1>3, <1>4 DEF SetLimit

(* A suggestion is dismissed, or asked for again.                           *)
LEMMA DismissKeeps ==
    ASSUME IInv, NEW h \in Handlers, AtWrite(h), Dismiss(h), UNCHANGED topic
    PROVE  IInv' /\ History(db, db')
  <1>1. /\ handler[h].request.does \in {"dismiss", "undismiss"} /\ Commit(h, db, 0)
        /\ user' = [user EXCEPT !.dismissed =
                      user.exists /\ handler[h].request.does = "dismiss"] /\ raced' = raced
    BY DEF Dismiss
  <1>2. user \in UserType /\ user' \in UserType
    BY <1>1 DEF IInv, StateOK, UserType
  <1>3. Onboards(h) /\ Races(h) /\ Suggests(h, db)
    BY <1>1, <1>2 DEF Onboards, Races, Suggests, UserType
  <1> QED
    BY <1>1, <1>3, WriterIs, SameRows, CommitKeeps DEF AtWrite

(* A subscription is marked as used.                                        *)
LEMMA MarkUsedKeeps ==
    ASSUME IInv, NEW h \in Handlers, AtWrite(h), MarkUsed(h), UNCHANGED topic
    PROVE  IInv' /\ History(db, db')
  <1>1. handler[h].request.does = "used"
    BY DEF MarkUsed
  <1>2. CASE Refuse(h)
    BY <1>2, RefuseKeeps, SameHistory DEF AtWrite
  <1>3. CASE ~Refuse(h)
    <2>1. Commit(h, db, 0) /\ UNCHANGED <<user, raced>>
      BY <1>3 DEF MarkUsed
    <2> QED
      BY <1>1, <2>1, WriterIs, SameRows, PlainKeeps DEF AtWrite
  <1> QED
    BY <1>2, <1>3

-----------------------------------------------------------------------------
(* Statements that follow each other in one transaction.                    *)
Leads(d, n, e, m, X) ==
    Wrote(d, n, e, m) /\ Untouched(d, e) /\ ShapesStay(d, e, X) /\ StandsOn(d, e)

(* One write after another, with all their properties.                      *)
LEMMA LeadsTwice ==
    ASSUME NEW d, NEW n, NEW e, NEW m, NEW f, NEW p, NEW X,
           Stored(d, n), Consistent(d), Leads(d, n, e, m, X), Leads(e, m, f, p, X)
    PROVE  Leads(d, n, f, p, X)
  BY WroteWrote, UntouchedTwice, ShapesStayTwice, StandsOnTwice DEF Leads

(* An id never given out may be passed over.                                *)
LEMMA LeadsFurther ==
    ASSUME NEW d, NEW n, NEW e, NEW m, NEW p \in Nat, NEW X, Leads(d, n, e, m, X), m <= p
    PROVE  Leads(d, n, e, p, X)
  <1>1. n \in Nat /\ m \in Nat /\ n <= m /\ 1..m \subseteq 1..p /\ n + 1..m \subseteq n + 1..p
    BY DEF Leads, Wrote
  <1>2. RowsWritten(d, n, e, p) /\ ReferencesWritten(d, e, p) /\ n <= p
    BY <1>1 DEF Leads, Wrote, RowsWritten, ReferencesWritten, Good
  <1> QED
    BY <1>1, <1>2 DEF Leads, Wrote

(* An insertion, with all its properties.                                   *)
LEMMA InsertLeads ==
    ASSUME NEW d, NEW n \in Nat, Stored(d, n), NEW m \in Nat,
           NEW t \in Tables, NEW id \in n + 1..m, NEW row, Added(t, row), Refers(d, m, t, row),
           t = "rules" => checkShape(row), t = "sources" => SourceShape(row), NEW X
    PROVE  Leads(d, n, Insert(d, t, id, row), m, X) /\ Stored(Insert(d, t, id, row), m)
  <1>1. Leads(d, n, Insert(d, t, id, row), m, X)
    BY InsertWrote, InsertUntouched, InsertShapes, InsertStands DEF Leads
  <1> QED
    BY <1>1, WroteStored DEF Leads

(* A rule of the user's income, to which a source may refer.                *)
LEMMA IncomeRuleLeads ==
    ASSUME NEW d, NEW n \in Nat, Stored(d, n), NEW s \in Schedules, NEW X
    PROVE  LET e == Insert(d, "rules", n + 1, IncomeRule(s)) IN
           /\ Leads(d, n, e, n + 1, X) /\ Stored(e, n + 1) /\ e["sources"] = d["sources"]
           /\ \A k \in KeysOf["sources"] : Good(e, n + 1, "sources", k, n + 1)
  <1> DEFINE row == IncomeRule(s)
             e == Insert(d, "rules", n + 1, row)
  <1>1. Added("rules", row) /\ checkShape(row) /\ row.category = NULL /\ row.kind = "INCOME"
    BY IncomeRuleIs
  <1>2. /\ "rules" \in Tables /\ "sources" \in Tables
        /\ \A k \in KeysOf["rules"] : k.field = "category"
        /\ \A k \in KeysOf["sources"] : k.to = "rules"
    BY TheTables DEF Key
  <1> HIDE DEF row
  <1>3. Refers(d, n + 1, "rules", row)
    BY <1>1, <1>2 DEF Refers
  <1>4. n + 1 \in n + 1..n + 1 /\ n + 1 \in Nat /\ n + 1 \in 1..n + 1
    OBVIOUS
  <1>5. Leads(d, n, e, n + 1, X) /\ Stored(e, n + 1)
    BY <1>1, <1>2, <1>3, <1>4, InsertLeads
  <1>6. e["sources"] = d["sources"] /\ e["rules"][n + 1] = row
    BY <1>2, InsertIs DEF Stored
  <1> HIDE DEF e
  <1>7. \A k \in KeysOf["sources"] : Good(e, n + 1, "sources", k, n + 1)
    BY <1>1, <1>2, <1>4, <1>6 DEF Good, Target, Fit, Added
  <1> QED
    BY <1>5, <1>6, <1>7 DEF e, row

(* A source on a rule of an income.                                         *)
LEMMA SourceLeads ==
    ASSUME NEW d, NEW n \in Nat, Stored(d, n), NEW m \in Nat, NEW id \in n + 1..m,
           NEW kind, NEW amount, NEW rule, checkSourceShape(Source(kind, amount, rule), rule # NULL),
           rule = NULL \/ \A k \in KeysOf["sources"] : Good(d, m, "sources", k, rule), NEW X
    PROVE  LET e == Insert(d, "sources", id, Source(kind, amount, rule)) IN
           /\ Leads(d, n, e, m, X) /\ Stored(e, m)
           /\ \A k \in KeysOf["entries"] : Good(e, m, "entries", k, id)
  <1> DEFINE row == Source(kind, amount, rule)
             e == Insert(d, "sources", id, row)
  <1>1. Added("sources", row) /\ SourceShape(row) /\ row.rule = rule /\ row.owner = Me
    BY DEF Added, HasFields, Fields, SourceShape, Source
  <1>2. /\ "sources" \in Tables
        /\ \A k \in KeysOf["sources"] : k.field = "rule"
        /\ \A k \in KeysOf["entries"] : k.to = "sources"
    BY TheTables DEF Key
  <1> HIDE DEF row
  <1>3. Refers(d, m, "sources", row)
    BY <1>1, <1>2 DEF Refers
  <1>5. Leads(d, n, e, m, X) /\ Stored(e, m)
    BY <1>1, <1>2, <1>3, InsertLeads
  <1>6. e["sources"][id] = row
    BY <1>2, InsertIs DEF Stored
  <1> HIDE DEF e
  <1>7. \A k \in KeysOf["entries"] : Good(e, m, "entries", k, id)
    BY <1>1, <1>2, <1>6 DEF Good, Target, Fit
  <1> QED
    BY <1>5, <1>7 DEF e, row

(* POST of a source with its schedule.                                      *)
LEMMA PostSourceKeeps ==
    ASSUME IInv, NEW h \in Handlers, AtWrite(h), PostSourceWithSchedule(h), UNCHANGED topic
    PROVE  IInv' /\ History(db, db')
  <1> DEFINE r == handler[h].request
             b == r.body
             e == Insert(db, "rules", serial + 1, IncomeRule(b.schedule))
             d == Insert(e, "sources", serial + 2, Source(b.kind, b.amount, serial + 1))
  <1>1. /\ r.does = "post" /\ r.table = "sources" /\ "schedule" \in DOMAIN b
        /\ Commit(h, d, 2) /\ UNCHANGED <<user, raced>>
    BY DEF PostSourceWithSchedule
  <1>2. Stored(db, serial) /\ serial \in Nat /\ Consistent(db) /\ Posted("sources", b)
    BY <1>1, WriterIs DEF Valid
  <1>3. b.schedule \in Schedules /\ b.kind = "REGULAR" /\ b.amount # NULL
    BY <1>1, <1>2 DEF Posted, checkSourceShape
  <1>4. /\ Leads(db, serial, e, serial + 1, raced) /\ Stored(e, serial + 1)
        /\ \A k \in KeysOf["sources"] : Good(e, serial + 1, "sources", k, serial + 1)
    BY <1>2, <1>3, IncomeRuleLeads
  <1> HIDE DEF e
  <1>5. /\ serial + 1 \in Nat /\ serial + 2 \in Nat /\ serial + 2 \in (serial + 1) + 1..serial + 2
        /\ 1..serial + 1 \subseteq 1..serial + 2 /\ serial + 1 # NULL
    BY <1>2 DEF NULL
  <1>6. \A k \in KeysOf["sources"] : Good(e, serial + 2, "sources", k, serial + 1)
    BY <1>4, <1>5 DEF Good
  <1>7. checkSourceShape(Source(b.kind, b.amount, serial + 1), serial + 1 # NULL)
    BY <1>3 DEF checkSourceShape, Source
  <1>8. Leads(e, serial + 1, d, serial + 2, raced)
    BY <1>4, <1>5, <1>6, <1>7, SourceLeads
  <1> HIDE DEF d
  <1>9. Leads(db, serial, d, serial + 2, raced)
    BY <1>2, <1>4, <1>8, LeadsTwice
  <1> QED
    BY <1>1, <1>9, PlainKeeps, UntouchedHistory DEF AtWrite, Leads

-----------------------------------------------------------------------------
(* What a PATCH leaves in a source's row.                                   *)
LEMMA MergedSource ==
    ASSUME NEW b, NEW change, NEW row, HasFields("sources", row), DOMAIN change \subseteq {"rule"}
    PROVE  LET fields == Restrict(b, DOMAIN b \ {"schedule"})
               w == Over(change, fields)
               final == Over(w, row)
               merged == Over(b, row)
           IN
           /\ DOMAIN w \subseteq DOMAIN change \cup DOMAIN b
           /\ \A x \in DOMAIN w : w[x] = IF x \in DOMAIN change THEN change[x] ELSE b[x]
           /\ final.kind = merged.kind /\ final.amount = merged.amount
           /\ final.rule = IF "rule" \in DOMAIN change THEN change["rule"] ELSE merged.rule
           /\ "rule" \notin DOMAIN b => merged.rule = row.rule
           /\ "rule" \in DOMAIN b => merged.rule = b["rule"]
  <1> DEFINE fields == Restrict(b, DOMAIN b \ {"schedule"})
             w == Over(change, fields)
             final == Over(w, row)
             merged == Over(b, row)
  <1>1. {"kind", "amount", "rule"} \subseteq DOMAIN row
    BY DEF HasFields, Fields
  <1>2. /\ DOMAIN fields = DOMAIN b \ {"schedule"}
        /\ \A x \in DOMAIN fields : fields[x] = b[x]
    BY DEF Restrict
  <1> HIDE DEF fields
  <1>3. /\ DOMAIN w = DOMAIN change \cup DOMAIN fields
        /\ \A x \in DOMAIN change : w[x] = change[x]
        /\ \A x \in DOMAIN fields : x \notin DOMAIN change => w[x] = fields[x]
    BY Overlaid
  <1> HIDE DEF w
  <1>4. /\ \A x \in DOMAIN w : final[x] = w[x]
        /\ \A x \in DOMAIN row : x \notin DOMAIN w => final[x] = row[x]
    BY Overlaid
  <1>5. /\ \A x \in DOMAIN b : merged[x] = b[x]
        /\ \A x \in DOMAIN row : x \notin DOMAIN b => merged[x] = row[x]
    BY Overlaid
  <1> HIDE DEF final, merged
  <1>6. ASSUME NEW x \in {"kind", "amount", "rule"}
        PROVE  final[x] = IF x \in DOMAIN change THEN change[x] ELSE merged[x]
    BY <1>1, <1>2, <1>3, <1>4, <1>5
  <1>7. /\ final.kind = merged.kind /\ final.amount = merged.amount
        /\ final.rule = IF "rule" \in DOMAIN change THEN change["rule"] ELSE merged.rule
    BY <1>6
  <1>8. /\ DOMAIN w \subseteq DOMAIN change \cup DOMAIN b
        /\ \A x \in DOMAIN w : w[x] = IF x \in DOMAIN change THEN change[x] ELSE b[x]
    BY <1>2, <1>3
  <1>9. /\ "rule" \notin DOMAIN b => merged.rule = row.rule
        /\ "rule" \in DOMAIN b => merged.rule = b["rule"]
    BY <1>1, <1>5
  <1> QED
    BY <1>7, <1>8, <1>9 DEF final, merged, w, fields

(* The row of a source after any of its PATCHes has its shape, or was       *)
(* raced.                                                                   *)
LEMMA WrittenSource ==
    ASSUME NEW d, NEW n \in Nat, Stored(d, n), NEW id \in DOMAIN d["sources"],
           d["sources"][id].owner = Me, NEW b, Patched("sources", b), NEW change,
           DOMAIN change \subseteq {"rule"}, NEW has \in BOOLEAN, NEW X,
           LET row == d["sources"][id]
               rule == IF "rule" \in DOMAIN change THEN change["rule"]
                       ELSE IF "rule" \in DOMAIN b THEN b["rule"] ELSE row.rule
               changed == "rule" \in DOMAIN change \/ "rule" \in DOMAIN b
           IN
           /\ changed => rule = NULL \/ \A k \in KeysOf["sources"] : Good(d, n, "sources", k, rule)
           /\ <<"sources", id>> \in X \/ (checkSourceShape(Over(b, row), has) /\ has = (rule # NULL))
    PROVE  Leads(d, n, Set(d, "sources", id, Over(change, Restrict(b, DOMAIN b \ {"schedule"}))),
                 n, X)
  <1> DEFINE row == d["sources"][id]
             fields == Restrict(b, DOMAIN b \ {"schedule"})
             w == Over(change, fields)
             final == Over(w, row)
             merged == Over(b, row)
             rule == IF "rule" \in DOMAIN change THEN change["rule"]
                     ELSE IF "rule" \in DOMAIN b THEN b["rule"] ELSE row.rule
  <1>1. "sources" \in Tables \ Trashable /\ \A k \in KeysOf["sources"] : k.field = "rule"
    BY TheTables DEF Key, Trashable
  <1>2. HasFields("sources", row)
    BY <1>1 DEF Stored
  <1>3. /\ DOMAIN w \subseteq DOMAIN change \cup DOMAIN b
        /\ \A x \in DOMAIN w : w[x] = IF x \in DOMAIN change THEN change[x] ELSE b[x]
        /\ final.kind = merged.kind /\ final.amount = merged.amount
        /\ final.rule = IF "rule" \in DOMAIN change THEN change["rule"] ELSE merged.rule
        /\ "rule" \notin DOMAIN b => merged.rule = row.rule
        /\ "rule" \in DOMAIN b => merged.rule = b["rule"]
    BY <1>2, MergedSource
  <1>4. final.rule = rule
    BY <1>3
  <1>5. "owner" \notin DOMAIN w
    BY <1>3 DEF Patched, Changes
  <1>6. ASSUME NEW k \in KeysOf["sources"], k.field \in DOMAIN w
        PROVE  w[k.field] = NULL \/ Good(d, n, "sources", k, w[k.field])
    <2>1. "rule" \in DOMAIN change \/ "rule" \in DOMAIN b
      BY <1>1, <1>3, <1>6
    <2>2. w[k.field] = rule
      BY <1>1, <1>3, <1>6, <2>1
    <2> QED
      BY <2>1, <2>2
  <1>7. <<"sources", id>> \in X \/ SourceShape(final)
    <2>1. ASSUME checkSourceShape(merged, has), has = (rule # NULL)
          PROVE  SourceShape(final)
      <3> HIDE DEF final, merged, rule
      <3> QED
        BY <1>3, <1>4, <2>1 DEF SourceShape, checkSourceShape
    <2> QED
      BY <2>1
  <1> HIDE DEF w
  <1>8. Wrote(d, n, Set(d, "sources", id, w), n)
    BY <1>1, <1>5, <1>6, SetWrote
  <1>9. Untouched(d, Set(d, "sources", id, w)) /\ StandsOn(d, Set(d, "sources", id, w))
    BY <1>1, SetUntouched, SetStands
  <1>10. ShapesStay(d, Set(d, "sources", id, w), X)
    BY <1>1, <1>7, SetShapes
  <1> QED
    BY <1>8, <1>9, <1>10 DEF Leads, w

(* The rows that a PATCH of a source overlapped with are marked.            *)
Excused(h) ==
    IF Stale(h) THEN raced \cup {<<"sources", handler[h].request.id>>} ELSE raced

(* The PATCH of a source's row as a write.                                  *)
LEMMA PatchedSource ==
    ASSUME IInv, NEW h \in Handlers, AtWrite(h), UNCHANGED <<topic, user>>,
           handler[h].request.does = "patch",
           NEW d, NEW k \in Nat, Commit(h, d, k), Leads(db, serial, d, serial + k, Excused(h)),
           MarkRaced(h, <<"sources", handler[h].request.id>>, Stale(h))
    PROVE  IInv' /\ History(db, db')
  <1>1. handler'[h].status = "done" => raced' = Excused(h)
    BY DEF MarkRaced, Excused
  <1>2. Races(h) /\ Suggests(h, d) /\ Onboards(h)
    BY DEF Races, MarkRaced, Suggests, Onboards, IInv, StateOK, UserType
  <1>3. History(db, d)
    BY UntouchedHistory DEF Leads
  <1> QED
    BY <1>1, <1>2, <1>3, CommitKeeps DEF AtWrite, Leads

(* The rule linked when the row was read is an income's, if it still exists. *)
LEMMA LinkedRule ==
    ASSUME IInv, NEW h \in Handlers, AtWrite(h), handler[h].request.does = "patch",
           handler[h].request.table = "sources"
    PROVE  /\ Patched("sources", handler[h].request.body)
           /\ SourceFits(handler[h].request.body, handler[h].seen)
           /\ handler[h].seen.rule \in DOMAIN db["rules"] =>
                 handler[h].seen.rule # NULL /\ db["rules"][handler[h].seen.rule].kind = "INCOME"
  <1>1. /\ Patched("sources", handler[h].request.body) /\ SeenFits(handler[h], db, serial)
        /\ Stored(db, serial)
    BY WriterIs DEF Valid
  <1> DEFINE ref == Ref("rules", handler[h].seen.rule, "INCOME")
  <1>2. SourceFits(handler[h].request.body, handler[h].seen) /\ Checked(db, serial, ref)
    BY <1>1 DEF SeenFits
  <1>3. ref.to = "rules" /\ ref.id = handler[h].seen.rule /\ ref.kind = "INCOME"
    BY DEF Ref
  <1> HIDE DEF ref
  <1>4. \A i \in DOMAIN db["rules"] : i # NULL
    BY <1>1, TheTables DEF Stored, NULL
  <1> QED
    BY <1>1, <1>2, <1>3, <1>4 DEF Checked, Fit

(* A new schedule of an income's rule.                                      *)
LEMMA RescheduledLeads ==
    ASSUME NEW d, NEW n \in Nat, Stored(d, n), NEW id \in DOMAIN d["rules"],
           d["rules"][id].owner = Me, d["rules"][id].kind = "INCOME", NEW s \in Schedules, NEW X
    PROVE  /\ Leads(d, n, Set(d, "rules", id, s), n, X)
           /\ Set(d, "rules", id, s)["sources"] = d["sources"]
  <1> DEFINE row == d["rules"][id]
             new == Over(s, row)
  <1>1. /\ "rules" \in Tables \ Trashable /\ "sources" \in Tables
        /\ \A k \in KeysOf["rules"] : k.field = "category"
    BY TheTables DEF Key, Trashable
  <1>2. /\ DOMAIN s = {"frequency", "dayOfWeek", "dayOfMonth"}
        /\ checkScheduleAnchors(s)
    BY DEF Schedules, Weekly, Monthly, checkScheduleAnchors
  <1>3. Fields["rules"] \subseteq DOMAIN row
    BY <1>1 DEF Stored, HasFields
  <1>4. /\ \A x \in DOMAIN s : new[x] = s[x]
        /\ \A x \in DOMAIN row : x \notin DOMAIN s => new[x] = row[x]
    BY Overlaid
  <1>5. checkShape(row) => checkShape(new)
    <2> HIDE DEF new, row
    <2>1. /\ new.frequency = s.frequency /\ new.dayOfWeek = s.dayOfWeek
          /\ new.dayOfMonth = s.dayOfMonth
      BY <1>2, <1>4
    <2>2. /\ new.kind = row.kind /\ new.category = row.category
          /\ new.subscription = row.subscription /\ new.amount = row.amount
      BY <1>2, <1>3, <1>4 DEF Fields
    <2> QED
      BY <1>2, <2>1, <2>2 DEF checkShape, checkScheduleAnchors
  <1>6. /\ "owner" \notin DOMAIN s /\ "kind" \notin DOMAIN s
        /\ DOMAIN s \cap {"owner", "kind", "active", "covers"} = {}
        /\ \A k \in KeysOf["rules"] : k.field \notin DOMAIN s
    BY <1>1, <1>2
  <1>7. Wrote(d, n, Set(d, "rules", id, s), n)
    BY <1>1, <1>6, SetWrote
  <1>8. Untouched(d, Set(d, "rules", id, s)) /\ StandsOn(d, Set(d, "rules", id, s))
    BY <1>1, <1>6, SetUntouched, SetStands
  <1>9. ShapesStay(d, Set(d, "rules", id, s), X)
    BY <1>1, <1>5, SetShapes
  <1>10. Set(d, "rules", id, s)["sources"] = d["sources"]
    BY <1>1, SetIs DEF Stored
  <1> QED
    BY <1>7, <1>8, <1>9, <1>10 DEF Leads

(* PATCH of a source and its schedule.                                      *)
LEMMA PatchSourceKeeps ==
    ASSUME IInv, NEW h \in Handlers, AtWrite(h), PatchSource(h), UNCHANGED topic
    PROVE  IInv' /\ History(db, db')
  <1> DEFINE r == handler[h].request
             b == r.body
             id == r.id
             seen == handler[h].seen
             linked == seen.rule
             scheduled == "schedule" \in DOMAIN b
             fields == Restrict(b, DOMAIN b \ {"schedule"})
             written(d, change) == Set(d, "sources", id, Over(change, fields))
             X == Excused(h)
             detached == written(db, [rule |-> NULL])
             moved == Set(db, "rules", linked, b.schedule)
             added == Insert(db, "rules", serial + 1, IncomeRule(b.schedule))
  <1>1. r.does = "patch" /\ r.table = "sources"
    BY DEF PatchSource
  <1>2. /\ Stored(db, serial) /\ serial \in Nat /\ Consistent(db)
        /\ Patched("sources", b) /\ SourceFits(b, seen)
        /\ linked \in DOMAIN db["rules"] => linked # NULL /\ db["rules"][linked].kind = "INCOME"
    BY <1>1, WriterIs, LinkedRule
  <1>3. "sources" \in Tables /\ "rules" \in Tables \ Trashable
    BY TheTables DEF Trashable
  <1>4. CASE ~Own(db, "sources", id) \/ (scheduled /\ linked # NULL /\ ~Own(db, "rules", linked))
    <2>1. Refuse(h)
      BY <1>4 DEF PatchSource
    <2> QED
      BY <2>1, RefuseKeeps, SameHistory DEF AtWrite
  <1>5. CASE Own(db, "sources", id) /\ (scheduled /\ linked # NULL => Own(db, "rules", linked))
    <2>1. /\ IF ~scheduled THEN Commit(h, written(db, <<>>), 0)
             ELSE IF b.schedule = NoSchedule
             THEN Commit(h, IF linked = NULL THEN detached ELSE Deleted(detached, "rules", linked), 0)
             ELSE IF linked # NULL THEN Commit(h, written(moved, <<>>), 0)
             ELSE Commit(h, written(added, [rule |-> serial + 1]), 1)
          /\ MarkRaced(h, <<"sources", id>>, Stale(h)) /\ user' = user
      BY <1>5 DEF PatchSource
    <2>2. id \in DOMAIN db["sources"] /\ db["sources"][id].owner = Me
      BY <1>5 DEF Own
    <2>3. <<"sources", id>> \in X \/ db["sources"][id] = seen
      BY <1>1 DEF Excused, Stale
    <2>4. scheduled => b.schedule \in Schedules \cup {NoSchedule} /\ "rule" \notin DOMAIN b
      BY <1>2 DEF Patched
    <2>5. LET merged == Over(b, seen) IN
          checkSourceShape(merged, IF scheduled THEN b.schedule # NoSchedule ELSE merged.rule # NULL)
      BY <1>2 DEF SourceFits
    <2>6. /\ DOMAIN <<>> = {} /\ DOMAIN [rule |-> NULL] = {"rule"}
          /\ DOMAIN [rule |-> serial + 1] = {"rule"}
      OBVIOUS
    <2>7. serial + 0 = serial
      BY <1>2
    <2> HIDE DEF X
    <2>8. CASE ~scheduled
      <3> DEFINE row == db["sources"][id]
                 rule == IF "rule" \in DOMAIN b THEN b["rule"] ELSE row.rule
                 has == rule # NULL
      <3>1. "rule" \in DOMAIN b =>
                rule = NULL \/ \A k \in KeysOf["sources"] : Good(db, serial, "sources", k, rule)
        <4> SUFFICES ASSUME "rule" \in DOMAIN b, NEW k \in KeysOf["sources"]
                     PROVE  b["rule"] = NULL \/ Good(db, serial, "sources", k, b["rule"])
          OBVIOUS
        <4>1. k.field = "rule"
          BY TheTables DEF Key
        <4> QED
          BY <1>1, <1>2, <1>3, <4>1, SentRefers
      <3>2. <<"sources", id>> \in X \/ checkSourceShape(Over(b, row), has)
        <4> SUFFICES ASSUME row = seen
                     PROVE  checkSourceShape(Over(b, row), has)
          BY <2>3
        <4>1. HasFields("sources", row)
          BY <1>2, <1>3, <2>2 DEF Stored
        <4>2. Over(b, row).rule = rule
          <5>1. "rule" \in DOMAIN row
            BY <4>1 DEF HasFields, Fields
          <5> HIDE DEF row, b
          <5>2. /\ \A x \in DOMAIN b : Over(b, row)[x] = b[x]
                /\ \A x \in DOMAIN row : x \notin DOMAIN b => Over(b, row)[x] = row[x]
            BY DEF Over
          <5> QED
            BY <5>1, <5>2
        <4>3. checkSourceShape(Over(b, row), Over(b, row).rule # NULL)
          BY <2>5, <2>8
        <4> QED
          BY <4>2, <4>3
      <3>3. Leads(db, serial, written(db, <<>>), serial, X)
        <4>1. has \in BOOLEAN /\ "rule" \notin DOMAIN <<>> /\ DOMAIN <<>> \subseteq {"rule"}
          OBVIOUS
        <4> QED
          BY <1>2, <2>2, <3>1, <3>2, <4>1, WrittenSource
      <3> QED
        BY <1>1, <2>1, <2>7, <2>8, <3>3, PatchedSource DEF X
    <2>9. CASE scheduled /\ b.schedule = NoSchedule
      <3>1. Leads(db, serial, detached, serial, X)
        <4>1. <<"sources", id>> \in X \/ checkSourceShape(Over(b, db["sources"][id]), FALSE)
          BY <2>3, <2>5, <2>9
        <4>2. FALSE = ([rule |-> NULL]["rule"] # NULL) /\ [rule |-> NULL]["rule"] = NULL
          OBVIOUS
        <4> QED
          BY <1>2, <2>2, <2>6, <4>1, <4>2, WrittenSource
      <3>2. CASE linked = NULL
        BY <1>1, <2>1, <2>7, <2>9, <3>1, <3>2, PatchedSource DEF X
      <3>3. CASE linked # NULL
        <4> HIDE DEF detached
        <4> DEFINE d == Deleted(detached, "rules", linked)
        <4>1. Stored(detached, serial)
          BY <1>2, <3>1, WroteStored DEF Leads
        <4>2. detached["rules"] = db["rules"]
          BY <1>2, <1>3, <2>2, SetIs DEF Stored, detached
        <4>3. linked \in DOMAIN detached["rules"] => ~Stands(detached["rules"][linked])
          BY <1>2, <4>2 DEF Stands
        <4>4. Leads(detached, serial, d, serial, X)
          BY <1>2, <1>3, <4>1, <4>3, DeletedWrote, DeletedUntouched, DeletedShapes, DeletedStands
          DEF Leads
        <4> HIDE DEF d
        <4>5. Leads(db, serial, d, serial + 0, X)
          BY <1>2, <2>7, <3>1, <4>4, LeadsTwice
        <4>6. Commit(h, d, 0)
          BY <2>1, <2>9, <3>3 DEF d
        <4> QED
          BY <1>1, <2>1, <4>5, <4>6, PatchedSource DEF X
      <3> QED
        BY <3>2, <3>3
    <2>10. CASE scheduled /\ b.schedule # NoSchedule /\ linked # NULL
      <3>1. b.schedule \in Schedules /\ linked \in DOMAIN db["rules"] /\ db["rules"][linked].owner = Me
        BY <1>5, <2>4, <2>10 DEF Own
      <3>2. Leads(db, serial, moved, serial, X) /\ moved["sources"] = db["sources"]
        BY <1>2, <3>1, RescheduledLeads
      <3> HIDE DEF moved
      <3>3. Stored(moved, serial)
        BY <1>2, <3>2, WroteStored DEF Leads
      <3>4. <<"sources", id>> \in X \/ (/\ checkSourceShape(Over(b, moved["sources"][id]), TRUE)
                                       /\ TRUE = (moved["sources"][id].rule # NULL))
        BY <2>3, <2>5, <2>10, <3>2
      <3>5. "rule" \notin DOMAIN <<>> /\ DOMAIN <<>> \subseteq {"rule"}
        OBVIOUS
      <3>6. Leads(moved, serial, written(moved, <<>>), serial, X)
        BY <1>2, <2>2, <2>4, <2>10, <3>2, <3>3, <3>4, <3>5, WrittenSource
      <3>7. Leads(db, serial, written(moved, <<>>), serial + 0, X)
        BY <1>2, <2>7, <3>2, <3>6, LeadsTwice
      <3> QED
        BY <1>1, <2>1, <2>10, <3>7, PatchedSource DEF X
    <2>11. CASE scheduled /\ b.schedule # NoSchedule /\ linked = NULL
      <3>1. b.schedule \in Schedules
        BY <2>4, <2>11
      <3>2. /\ Leads(db, serial, added, serial + 1, X) /\ Stored(added, serial + 1)
            /\ added["sources"] = db["sources"]
            /\ \A k \in KeysOf["sources"] : Good(added, serial + 1, "sources", k, serial + 1)
        BY <1>2, <3>1, IncomeRuleLeads
      <3> HIDE DEF added
      <3> DEFINE change == [rule |-> serial + 1]
      <3>3. DOMAIN change = {"rule"} /\ change["rule"] = serial + 1 /\ serial + 1 \in Nat
            /\ TRUE = (serial + 1 # NULL)
        BY <1>2 DEF NULL
      <3>4. <<"sources", id>> \in X \/ checkSourceShape(Over(b, added["sources"][id]), TRUE)
        BY <2>3, <2>5, <2>11, <3>2
      <3> HIDE DEF change
      <3>5. Leads(added, serial + 1, written(added, change), serial + 1, X)
        BY <1>2, <2>2, <3>2, <3>3, <3>4, WrittenSource
      <3>6. Leads(db, serial, written(added, change), serial + 1, X)
        BY <1>2, <3>2, <3>5, LeadsTwice
      <3>7. Commit(h, written(added, change), 1)
        BY <2>1, <2>11 DEF change
      <3> QED
        BY <1>1, <2>1, <3>6, <3>7, PatchedSource DEF X
    <2> QED
      BY <2>8, <2>9, <2>10, <2>11
  <1> QED
    BY <1>4, <1>5

-----------------------------------------------------------------------------
(* A rule of the user's expenses, in a category that was looked up.         *)
LEMMA ExpenseRuleLeads ==
    ASSUME NEW d, NEW n \in Nat, Stored(d, n), NEW c, NEW subscription, NEW covers, NEW X,
           Checked(d, n, Ref("categories", c, "any"))
    PROVE  LET e == Insert(d, "rules", n + 1, ExpenseRule(Monthly, c, subscription, covers)) IN
           /\ Leads(d, n, e, n + 1, X) /\ Stored(e, n + 1)
           /\ covers = TRUE => \E i \in DOMAIN e["rules"] : Stands(e["rules"][i])
  <1> DEFINE row == ExpenseRule(Monthly, c, subscription, covers)
             ref == Ref("categories", c, "any")
             e == Insert(d, "rules", n + 1, row)
  <1>1. /\ Added("rules", row) /\ checkShape(row) /\ row.category = c
        /\ covers = TRUE => Stands(row)
    BY ExpenseRuleIs DEF Schedules
  <1>2. /\ "rules" \in Tables
        /\ \A k \in KeysOf["rules"] : k.field = "category" /\ k.to = "categories"
    BY TheTables DEF Key
  <1>3. Checked(d, n, ref) /\ ref.to = "categories" /\ ref.id = c
    BY DEF Ref
  <1>4. n + 1 \in n + 1..n + 1 /\ n + 1 \in Nat /\ n <= n + 1
    OBVIOUS
  <1> HIDE DEF row, ref
  <1>5. ASSUME NEW k \in KeysOf["rules"]
        PROVE  ref.id = NULL \/ Good(d, n + 1, "rules", k, ref.id)
    <2>1. k.to # "rules" /\ ref.to = k.to
      BY <1>2, <1>3
    <2> QED
      BY <1>2, <1>3, <1>4, <2>1, CheckedGood
  <1>6. Refers(d, n + 1, "rules", row)
    BY <1>1, <1>2, <1>3, <1>5 DEF Refers
  <1>7. Leads(d, n, e, n + 1, X) /\ Stored(e, n + 1)
    BY <1>1, <1>2, <1>4, <1>6, InsertLeads
  <1>8. n + 1 \in DOMAIN e["rules"] /\ e["rules"][n + 1] = row
    BY <1>2, InsertIs DEF Stored
  <1> HIDE DEF e
  <1>9. covers = TRUE => \E i \in DOMAIN e["rules"] : Stands(e["rules"][i])
    BY <1>1, <1>8
  <1> QED
    BY <1>7, <1>9 DEF e, row

(* A suggested subscription becomes a rule.                                 *)
LEMMA ConfirmKeeps ==
    ASSUME IInv, NEW h \in Handlers, AtWrite(h), ConfirmSubscription(h), UNCHANGED topic
    PROVE  IInv' /\ History(db, db')
  <1> DEFINE c == handler[h].seen.category
             d == Insert(db, "rules", serial + 1, ExpenseRule(Monthly, c, TRUE, TRUE))
  <1>1. /\ handler[h].request.does = "confirm" /\ Commit(h, d, 1) /\ user' = user
        /\ MarkRaced(h, <<"confirm", NULL>>, ~Detected)
    BY DEF ConfirmSubscription
  <1>2. /\ Stored(db, serial) /\ serial \in Nat
        /\ Checked(db, serial, Ref("categories", c, "any"))
    BY <1>1, WriterIs DEF SentBy
  <1>3. /\ Leads(db, serial, d, serial + 1, raced')
        /\ \E i \in DOMAIN d["rules"] : Stands(d["rules"][i])
    BY <1>2, ExpenseRuleLeads
  <1> HIDE DEF d
  <1>4. (handler'[h].status = "done" /\ <<"confirm", NULL>> \notin raced') =>
            ~\E i \in DOMAIN db["rules"] : Stands(db["rules"][i])
    BY <1>1 DEF MarkRaced, Detected, Rows, Stands
  <1>5. Races(h) /\ Suggests(h, d) /\ Onboards(h)
    BY <1>1, <1>3, <1>4 DEF Races, MarkRaced, Suggests, Onboards, IInv, StateOK, UserType
  <1> QED
    BY <1>1, <1>3, <1>5, CommitKeeps, UntouchedHistory DEF AtWrite, Leads

-----------------------------------------------------------------------------
(* Onboarding: an income, a commitment and what was already spent.          *)
LEMMA IncomeLeads ==
    ASSUME Stored(db, serial), Consistent(db), serial \in Nat, NEW body, NEW X
    PROVE  /\ Leads(db, serial, createIncome(db, body), serial + 3, X)
           /\ Stored(createIncome(db, body), serial + 3)
  <1>1. /\ serial + 1 \in Nat /\ serial + 2 \in Nat /\ serial + 3 \in Nat
        /\ serial + 2 \in (serial + 1) + 1..serial + 2 /\ serial + 2 <= serial + 3
        /\ serial + 2 \in serial + 1..serial + 2 /\ serial + 3 \in (serial + 2) + 1..serial + 3
        /\ 1..serial + 1 \subseteq 1..serial + 2 /\ 1..serial + 2 \subseteq 1..serial + 3
        /\ serial + 1 # NULL
    BY DEF NULL
  <1>2. CASE body.kind = "REGULAR"
    <2> DEFINE e == Insert(db, "rules", serial + 1, IncomeRule(Monthly))
               d == Insert(e, "sources", serial + 2, Source("REGULAR", 1, serial + 1))
    <2>1. createIncome(db, body) = d
      BY <1>2 DEF createIncome
    <2>2. /\ Leads(db, serial, e, serial + 1, X) /\ Stored(e, serial + 1)
          /\ \A k \in KeysOf["sources"] : Good(e, serial + 1, "sources", k, serial + 1)
      BY IncomeRuleLeads DEF Schedules
    <2> HIDE DEF e
    <2>3. \A k \in KeysOf["sources"] : Good(e, serial + 2, "sources", k, serial + 1)
      BY <1>1, <2>2 DEF Good
    <2>4. checkSourceShape(Source("REGULAR", 1, serial + 1), serial + 1 # NULL)
      BY DEF checkSourceShape, Source, NULL
    <2>5. Leads(e, serial + 1, d, serial + 2, X)
      BY <1>1, <2>2, <2>3, <2>4, SourceLeads
    <2> HIDE DEF d
    <2>6. Leads(db, serial, d, serial + 3, X)
      BY <1>1, <2>2, <2>5, LeadsTwice, LeadsFurther
    <2> QED
      BY <2>1, <2>6, WroteStored DEF Leads
  <1>3. CASE body.kind # "REGULAR"
    <2> DEFINE e == Insert(db, "sources", serial + 2, Source("IRREGULAR", NULL, NULL))
               row == NewEntry(serial + 2)
               d == Insert(e, "entries", serial + 3, row)
    <2>1. createIncome(db, body) = IF body.more THEN d ELSE e
      BY <1>3 DEF createIncome
    <2>2. checkSourceShape(Source("IRREGULAR", NULL, NULL), NULL # NULL)
      BY DEF checkSourceShape, Source
    <2>3. /\ Leads(db, serial, e, serial + 2, X) /\ Stored(e, serial + 2)
          /\ \A k \in KeysOf["entries"] : Good(e, serial + 2, "entries", k, serial + 2)
      BY <1>1, <2>2, SourceLeads
    <2> HIDE DEF e
    <2>4. "entries" \in Tables /\ \A k \in KeysOf["entries"] : k.field = "source"
      BY TheTables DEF Key
    <2>5. Added("entries", row) /\ row.source = serial + 2
      BY DEF NewEntry, Added, HasFields, Fields
    <2> HIDE DEF row
    <2>6. Refers(e, serial + 3, "entries", row)
      BY <1>1, <2>3, <2>4, <2>5 DEF Refers, Good
    <2>7. Leads(e, serial + 2, d, serial + 3, X)
      BY <1>1, <2>3, <2>4, <2>5, <2>6, InsertLeads
    <2> HIDE DEF d
    <2>8. Leads(db, serial, d, serial + 3, X) /\ Leads(db, serial, e, serial + 3, X)
      BY <1>1, <2>3, <2>7, LeadsTwice, LeadsFurther
    <2> QED
      BY <2>1, <2>8, WroteStored DEF Leads
  <1> QED
    BY <1>2, <1>3

(* What was already spent, in the system's category.                        *)
LEMMA SpentLeads ==
    ASSUME NEW d, NEW n \in Nat, Stored(d, n), NEW X,
           Checked(d, n, Ref("categories", OtherCategory, "any"))
    PROVE  Leads(d, n, Insert(d, "transactions", n + 1,
                              [Expense(Today, OtherCategory, NULL) EXCEPT !.amount = 3]), n + 1, X)
  <1> DEFINE row == [Expense(Today, OtherCategory, NULL) EXCEPT !.amount = 3]
             ref == Ref("categories", OtherCategory, "any")
  <1>1. Added("transactions", row) /\ row.category = OtherCategory /\ row.rule = NULL
    BY DEF Added, HasFields, Fields, Expense
  <1>2. /\ "transactions" \in Tables
        /\ \A k \in KeysOf["transactions"] :
              (k.field = "category" /\ k.to = "categories") \/ k.field = "rule"
    BY TheTables DEF Key
  <1>3. Checked(d, n, ref) /\ ref.to = "categories" /\ ref.id = OtherCategory
    BY DEF Ref
  <1>4. n + 1 \in n + 1..n + 1 /\ n + 1 \in Nat /\ n <= n + 1
    OBVIOUS
  <1> HIDE DEF row, ref
  <1>5. ASSUME NEW k \in KeysOf["transactions"], k.to = "categories"
        PROVE  ref.id = NULL \/ Good(d, n + 1, "transactions", k, ref.id)
    BY <1>2, <1>3, <1>4, <1>5, CheckedGood
  <1>6. Refers(d, n + 1, "transactions", row)
    BY <1>1, <1>2, <1>3, <1>5 DEF Refers
  <1> QED
    BY <1>1, <1>2, <1>4, <1>6, InsertLeads DEF row

(* Onboarding, in one transaction.                                          *)
LEMMA OnboardKeeps ==
    ASSUME IInv, NEW h \in Handlers, AtWrite(h), Onboard(h), UNCHANGED topic
    PROVE  IInv' /\ History(db, db')
  <1> DEFINE r == handler[h].request
             body == r.body
             income == createIncome(db, body)
             commitment == Insert(income, "rules", serial + 4,
                                  ExpenseRule(Monthly, body.category, FALSE, FALSE))
             spent == Insert(commitment, "transactions", serial + 5,
                             [Expense(Today, OtherCategory, NULL) EXCEPT !.amount = 3])
             d == IF body.more THEN spent ELSE commitment
             mine == Ref("categories", body.category, "any")
             other == Ref("categories", OtherCategory, "any")
  <1>1. r.does = "onboard" /\ CommitOnboarding(h, d) /\ raced' = raced
    BY DEF Onboard
  <1>2. CASE user.onboarded
    BY <1>1, <1>2, RefuseKeeps, SameHistory DEF CommitOnboarding, AtWrite
  <1>3. CASE ~user.onboarded
    <2>1. /\ Stored(db, serial) /\ Consistent(db) /\ serial \in Nat /\ Checked(db, serial, other)
          /\ Checked(db, serial, mine) /\ mine.to = "categories" /\ other.to = "categories"
      <3>1. r.table = "onboarding" /\ "category" \in DOMAIN body
        <4>1. /\ r.table = "onboarding"
              /\ body = [kind |-> body.kind, category |-> body.category, more |-> body.more]
          BY <1>1, WriterIs DEF Valid
        <4> HIDE DEF body
        <4> QED
          BY <4>1
      <3>2. mine \in Sent(r) /\ SentBy(handler[h]) = Sent(r)
        BY <1>1, <3>1 DEF Sent, SentBy
      <3> QED
        BY <3>2, WriterIs DEF Ref, IInv, StateOK
    <2> HIDE DEF mine, other
    <2>2. Leads(db, serial, income, serial + 3, raced) /\ Stored(income, serial + 3)
      BY <2>1, IncomeLeads
    <2>3. /\ serial + 3 \in Nat /\ serial + 4 \in Nat /\ serial + 5 \in Nat
          /\ (serial + 3) + 1 = serial + 4 /\ (serial + 4) + 1 = serial + 5
          /\ serial + 4 <= serial + 5
      BY <2>1
    <2> HIDE DEF income
    <2>4. Checked(income, serial + 3, mine) /\ Checked(income, serial + 3, other)
      BY <2>1, <2>2, CheckedAfter, TheTables DEF Leads
    <2>5. Leads(income, serial + 3, commitment, serial + 4, raced) /\ Stored(commitment, serial + 4)
      BY <2>2, <2>3, <2>4, ExpenseRuleLeads DEF mine
    <2> HIDE DEF commitment
    <2>6. Checked(commitment, serial + 4, other)
      BY <2>1, <2>2, <2>4, <2>5, CheckedAfter, TheTables DEF Leads
    <2>7. Leads(commitment, serial + 4, spent, serial + 5, raced)
      BY <2>3, <2>5, <2>6, SpentLeads DEF other
    <2> HIDE DEF spent
    <2>8. Leads(db, serial, d, serial + 5, raced)
      <3>1. Leads(db, serial, commitment, serial + 4, raced)
        BY <2>1, <2>2, <2>5, LeadsTwice
      <3>2. Leads(db, serial, spent, serial + 5, raced)
        BY <2>1, <2>7, <3>1, LeadsTwice
      <3> QED
        BY <2>3, <3>1, <3>2, LeadsFurther
    <2> HIDE DEF d
    <2>9. Commit(h, d, 5) /\ user' = [user EXCEPT !.onboarded = user.exists /\ Consistent(d)]
      BY <1>1, <1>3 DEF CommitOnboarding
    <2>10. handler'[h].status = "done" <=> user.exists /\ Consistent(d)
      <3>1. ~Replayed(h)
        BY <1>1 DEF Replayed, Keyed
      <3> QED
        BY <2>9, <3>1, CommitEither DEF Refused, Accepted, Commits
    <2>11. user \in UserType /\ user' \in UserType /\ user'.exists = user.exists
      BY <2>9 DEF IInv, StateOK, UserType
    <2>12. user'.onboarded = (user.exists /\ Consistent(d))
      BY <2>9, <2>11 DEF UserType
    <2>13. Races(h) /\ Suggests(h, d) /\ Onboards(h)
      BY <1>1, <1>3, <2>10, <2>11, <2>12 DEF Races, Suggests, Onboards
    <2> QED
      BY <1>1, <2>8, <2>9, <2>13, CommitKeeps, UntouchedHistory DEF AtWrite, Leads
  <1> QED
    BY <1>2, <1>3

-----------------------------------------------------------------------------
(* The account is deleted with all its rows.                                *)
LEMMA ForeignRows ==
    ASSUME NEW d, NEW n \in Nat, Stored(d, n), Consistent(d), Apart(d),
           NEW e, DOMAIN e = Tables,
           \A t \in Tables : /\ DOMAIN e[t] = {i \in DOMAIN d[t] : d[t][i].owner # Me}
                             /\ \A i \in DOMAIN e[t] : e[t][i] = d[t][i]
    PROVE  /\ Wrote(d, n, e, n) /\ Consistent(e) /\ Owned(e) /\ Apart(e)
           /\ \A t \in Tables : \A i \in DOMAIN e[t] :
                 i \in DOMAIN d[t] /\ e[t][i] = d[t][i] /\ e[t][i].owner # Me
  <1>2. \A t \in Tables : \A i \in DOMAIN e[t] :
            i \in DOMAIN d[t] /\ e[t][i] = d[t][i] /\ e[t][i].owner # Me
    OBVIOUS
  <1>3. Wrote(d, n, e, n)
    BY <1>2 DEF Wrote, RowsWritten, ReferencesWritten, Became, Stored
  <1>4. ASSUME NEW t \in Tables, NEW k \in KeysOf[t], NEW i \in DOMAIN e[t], e[t][i][k.field] # NULL
        PROVE  /\ e[t][i][k.field] \in DOMAIN e[k.to]
               /\ e[k.to][e[t][i][k.field]].owner # Me
    <2>1. i \in DOMAIN d[t] /\ e[t][i] = d[t][i] /\ d[t][i].owner # Me
      BY <1>2
    <2>2. d[t][i][k.field] \in DOMAIN d[k.to]
      BY <1>4, <2>1, ConsistentRefers
    <2>3. d[k.to][d[t][i][k.field]].owner # Me
      BY <1>4, <2>1 DEF Apart
    <2> DEFINE x == d[t][i][k.field]
    <2>4. k.to \in Tables
      BY TheKeys
    <2>5. e[t][i][k.field] = x
      BY <2>1
    <2> HIDE DEF x
    <2>6. x \in DOMAIN e[k.to] /\ e[k.to][x] = d[k.to][x]
      BY <2>2, <2>3, <2>4 DEF x
    <2> QED
      BY <2>3, <2>5, <2>6 DEF x
  <1>5. Distinct(e, "sources", "rule") /\ Distinct(e, "limits", "category")
    <2>1. "sources" \in Tables /\ "limits" \in Tables
      BY TheTables
    <2>2. Distinct(d, "sources", "rule") /\ Distinct(d, "limits", "category")
      BY DEF Consistent
    <2> QED
      BY <1>2, <2>1, <2>2 DEF Distinct
  <1>6. Consistent(e)
    BY <1>4, <1>5 DEF Consistent, Rows
  <1>7. Owned(e)
    BY <1>2 DEF Owned
  <1>8. Apart(e)
    BY <1>4 DEF Apart
  <1> QED
    BY <1>2, <1>3, <1>6, <1>7, <1>8

(* The account is closed.                                                   *)
LEMMA CloseKeeps ==
    ASSUME IInv, NEW h \in Handlers, AtWrite(h), CloseAccount(h), UNCHANGED topic
    PROVE  IInv' /\ (db' = db \/ ~user'.exists)
  <1>1. CASE ~user.exists
    BY <1>1, RefuseKeeps DEF CloseAccount, AtWrite
  <1>2. CASE user.exists
    <2> DEFINE x == [handler[h] EXCEPT !.status = "done"]
    <2>1. /\ handler[h].request.does = "close"
          /\ db' = [t \in Tables |-> Restrict(db[t], {i \in DOMAIN db[t] : db[t][i].owner # Me})]
          /\ user' = [exists |-> FALSE, onboarded |-> FALSE, dismissed |-> FALSE]
          /\ keys' = {} /\ handler' = [handler EXCEPT ![h] = x]
          /\ UNCHANGED <<topic, serial, made, raced, extra, covered>>
      BY <1>2 DEF CloseAccount, Answer
    <2>2. Stored(db, serial) /\ serial \in Nat /\ Consistent(db) /\ Apart(db)
      BY DEF IInv, StateOK
    <2>3. /\ Wrote(db, serial, db', serial) /\ Consistent(db') /\ Owned(db') /\ Apart(db')
          /\ \A t \in Tables : \A i \in DOMAIN db'[t] :
                i \in DOMAIN db[t] /\ db'[t][i] = db[t][i] /\ db'[t][i].owner # Me
      <3>1. DOMAIN db' = Tables
        BY <2>1
      <3>2. \A t \in Tables :
                /\ DOMAIN db'[t] = {i \in DOMAIN db[t] : db[t][i].owner # Me}
                /\ \A i \in DOMAIN db'[t] : db'[t][i] = db[t][i]
        BY <2>1 DEF Restrict
      <3> QED
        BY <2>2, <3>1, <3>2, ForeignRows
    <2>4. Handling(handler[h], db, serial) /\ DOMAIN handler = Handlers
      BY DEF IInv, HandlersOK
    <2>5. /\ IsHandler(x) /\ x.request = handler[h].request /\ x.draft = handler[h].draft
          /\ x.status = "done"
      BY <2>4 DEF Handling, IsHandler
    <2> HIDE DEF x
    <2>6. HandlersOK'
      <3>1. Handling(x, db', serial')
        BY <2>4, <2>5 DEF Handling, Statuses, AtWrite
      <3>2. Moves(h, x)
        BY <2>1, <2>5 DEF Moves, AtWrite
      <3>3. \A y : Handling(y, db, serial) => Handling(y, db', serial')
        BY <2>1, <2>2, <2>3, HandlingAfter
      <3> QED
        BY <3>1, <3>2, <3>3, HandlersMove DEF IInv
    <2>7. StateOK'
      <3>1. Checked(db', serial, Ref("categories", OtherCategory, "any"))
        BY <2>2, <2>3, CheckedAfter, TheTables DEF Ref, IInv, StateOK
      <3>2. Stored(db', serial)
        BY <2>2, <2>3, WroteStored
      <3> QED
        BY <2>1, <2>2, <2>3, <3>1, <3>2 DEF IInv, StateOK
    <2>8. /\ \A g \in Handlers : handler'[g].request = handler[g].request
          /\ \A g \in Handlers : g # h => handler'[g] = handler[g]
          /\ handler'[h].status = "done" /\ handler[h].status = "check"
      BY <2>1, <2>4, <2>5 DEF AtWrite
    <2>9. Emptied' /\ StatementsMerge' /\ ImportsKnow' /\ user'.exists = FALSE
      BY <2>1, <2>3 DEF Emptied, StatementsMerge, ImportsKnow
    <2>10. ShapesHold'
      BY <2>1, <2>3, TheTables DEF IInv, ShapesHold
    <2>11. KeyKept'
      BY <2>1, <2>8, <2>9 DEF IInv, KeyKept
    <2>12. ASSUME NEW does, does # "close"
           PROVE  Done(does)' = Done(does)
      BY <2>1, <2>8, <2>12 DEF Done
    <2>13. Stopped' <=> Stopped
      <3>1. ~Stops(handler[h].request)
        BY <2>1 DEF Stops
      <3> QED
        BY <2>8, <3>1 DEF Stopped
    <2>14. StartedOnce' /\ ConfirmedOnce'
      BY <2>1, <2>9, <2>12, <2>13 DEF IInv, StartedOnce, ConfirmedOnce
    <2> QED
      BY <2>3, <2>6, <2>7, <2>9, <2>10, <2>11, <2>14 DEF IInv
  <1> QED
    BY <1>1, <1>2

-----------------------------------------------------------------------------
(* An import.  The elements of a finite set, each once.                     *)
LEMMA SetToSeqIs ==
    ASSUME NEW S, IsFiniteSet(S)
    PROVE  /\ SetToSeq(S) \in Seq(S) /\ Len(SetToSeq(S)) \in Nat
           /\ \A i, j \in 1..Len(SetToSeq(S)) : SetToSeq(S)[i] = SetToSeq(S)[j] => i = j
           /\ \A x \in S : \E i \in 1..Len(SetToSeq(S)) : SetToSeq(S)[i] = x
  <1> DEFINE n == Cardinality(S)
             s == SetToSeq(S)
  <1>1. n \in Nat /\ ExistsBijection(1..n, S)
    BY FS_CardinalityType
  <1>2. \E f \in [1..n -> S] : IsInjective(f)
    BY <1>1 DEF ExistsBijection, Bijection, Injection
  <1>3. s \in [1..n -> S] /\ IsInjective(s)
    BY <1>2 DEF SetToSeq
  <1> HIDE DEF s
  <1>4. s \in Seq(S) /\ Len(s) = n
    <2> HIDE DEF n
    <2> QED
      BY <1>1, <1>3
  <1>5. \A i, j \in 1..n : s[i] = s[j] => i = j
    BY <1>3 DEF IsInjective
  <1>6. \A x \in S : \E i \in 1..n : s[i] = x
    <2>1. s \in Injection(1..n, S)
      BY <1>3 DEF Injection
    <2>2. Cardinality(1..n) = Cardinality(S)
      BY <1>1, FS_Interval
    <2>3. s \in Surjection(1..n, S)
      BY <2>1, <2>2, FS_Injection
    <2> QED
      BY <2>3 DEF Surjection
  <1> QED
    BY <1>1, <1>4, <1>5, <1>6 DEF s

(* The rows an import adds, some of each of its days.                       *)
FreshRows(seen) == UNION {{day} \X (1..Fresh(seen, day)) : day \in DOMAIN seen}

(* The rows an import adds have new ids, one for each row of the bank that  *)
(* was not there.                                                           *)
LEMMA FreshIs ==
    ASSUME NEW seen, NEW days \in SUBSET Days, seen \in [days -> Nat]
    PROVE  /\ IsFiniteSet(FreshRows(seen))
           /\ \A day \in days : Fresh(seen, day) \in Nat
           /\ \A x : x \in FreshRows(seen) <=>
                \E day \in days : \E k \in 1..Fresh(seen, day) : x = <<day, k>>
  <1>1. \A day \in days : Fresh(seen, day) \in Nat
    BY BankCounts DEF Fresh
  <1>2. \A x : x \in FreshRows(seen) <=>
                \E day \in days : \E k \in 1..Fresh(seen, day) : x = <<day, k>>
    BY DEF FreshRows
  <1>3. IsFiniteSet(FreshRows(seen))
    <2> DEFINE parts == {{day} \X (1..Fresh(seen, day)) : day \in days}
               f == [day \in days |-> {day} \X (1..Fresh(seen, day))]
    <2>1. IsFiniteSet(days)
      BY BankCounts, FS_Subset
    <2>2. f \in Surjection(days, parts)
      BY DEF Surjection
    <2>3. IsFiniteSet(parts)
      BY <2>1, <2>2, FS_Surjection
    <2>4. ASSUME NEW T \in parts
          PROVE  IsFiniteSet(T)
      <3>1. PICK day \in days : T = {day} \X (1..Fresh(seen, day))
        OBVIOUS
      <3>2. IsFiniteSet({day}) /\ IsFiniteSet(1..Fresh(seen, day))
        <4>1. Fresh(seen, day) \in Int /\ 1 \in Int
          BY <1>1
        <4> QED
          BY <4>1, FS_Singleton, FS_Interval
      <3> QED
        BY <3>1, <3>2, FS_Product
    <2>5. IsFiniteSet(UNION parts)
      BY <2>3, <2>4, FS_UNION
    <2>6. FreshRows(seen) = UNION parts
      BY DEF FreshRows
    <2> QED
      BY <2>5, <2>6
  <1> QED
    BY <1>1, <1>2, <1>3

(* What an import leaves in the tables: the new rows, one for each element. *)
Imported(d, n, seen, new, e) ==
    LET k == Len(new) IN
    /\ k \in Nat /\ DOMAIN e = Tables
    /\ \A u \in Tables : u # "transactions" => e[u] = d[u]
    /\ DOMAIN e["transactions"] = DOMAIN d["transactions"] \cup (n + 1..n + k)
    /\ \A i \in DOMAIN d["transactions"] :
          i \notin n + 1..n + k /\ e["transactions"][i] = d["transactions"][i]
    /\ \A j \in 1..k :
          /\ new[j] \in FreshRows(seen)
          /\ n + j \in n + 1..n + k
          /\ e["transactions"][n + j] = Expense(new[j][1], NULL, NULL)
    /\ \A i \in n + 1..n + k : i - n \in 1..k /\ n + (i - n) = i
    /\ \A i, j \in 1..k : new[i] = new[j] => i = j
    /\ \A x \in FreshRows(seen) : \E i \in 1..k : new[i] = x

(* The expenses after an import.                                            *)
LEMMA ImportedIs ==
    ASSUME NEW d, NEW n \in Nat, Stored(d, n), NEW seen, NEW days \in SUBSET Days,
           seen \in [days -> Nat]
    PROVE  LET new == SetToSeq(FreshRows(seen))
               rows == [i \in n + 1..n + Len(new) |-> Expense(new[i - n][1], NULL, NULL)]
           IN  Imported(d, n, seen, new, [d EXCEPT !.transactions = Over(rows, @)])
  <1> DEFINE new == SetToSeq(FreshRows(seen))
             ids == n + 1..n + Len(new)
             rows == [i \in ids |-> Expense(new[i - n][1], NULL, NULL)]
             old == d["transactions"]
             e == [d EXCEPT !.transactions = Over(rows, @)]
  <1>1. /\ new \in Seq(FreshRows(seen)) /\ Len(new) \in Nat
        /\ \A i, j \in 1..Len(new) : new[i] = new[j] => i = j
        /\ \A x \in FreshRows(seen) : \E i \in 1..Len(new) : new[i] = x
    BY FreshIs, SetToSeqIs
  <1> HIDE DEF new
  <1>2. "transactions" \in Tables /\ DOMAIN d = Tables /\ \A i \in DOMAIN old : i \in 1..n
    BY TheTables DEF Stored
  <1>3. /\ \A i \in ids : i - n \in 1..Len(new) /\ n + (i - n) = i
        /\ \A i \in 1..n : i \notin ids
        /\ \A j \in 1..Len(new) : n + j \in ids /\ (n + j) - n = j /\ new[j] \in FreshRows(seen)
    BY <1>1
  <1>4. /\ DOMAIN rows = ids
        /\ \A j \in 1..Len(new) : rows[n + j] = Expense(new[j][1], NULL, NULL)
    BY <1>3
  <1> HIDE DEF rows, old, ids
  <1>5. /\ DOMAIN Over(rows, old) = DOMAIN rows \cup DOMAIN old
        /\ \A x \in DOMAIN rows : Over(rows, old)[x] = rows[x]
        /\ \A x \in DOMAIN old : x \notin DOMAIN rows => Over(rows, old)[x] = old[x]
    BY Overlaid
  <1>6. /\ DOMAIN e = Tables /\ e["transactions"] = Over(rows, old)
        /\ \A u \in Tables : u # "transactions" => e[u] = d[u]
    BY <1>2 DEF old
  <1> HIDE DEF e
  <1>7. /\ DOMAIN e["transactions"] = DOMAIN old \cup ids
        /\ \A i \in DOMAIN old : i \notin ids /\ e["transactions"][i] = old[i]
        /\ \A j \in 1..Len(new) : e["transactions"][n + j] = Expense(new[j][1], NULL, NULL)
    BY <1>2, <1>3, <1>4, <1>5, <1>6
  <1> QED
    BY <1>1, <1>3, <1>6, <1>7 DEF Imported, e, rows, ids, old, new

(* An import, with all its properties.                                      *)
LEMMA ImportLeads ==
    ASSUME NEW d, NEW n \in Nat, Stored(d, n), NEW k \in Nat, NEW e, DOMAIN e = Tables,
           \A u \in Tables : u # "transactions" => e[u] = d[u],
           DOMAIN e["transactions"] = DOMAIN d["transactions"] \cup (n + 1..n + k),
           \A i \in DOMAIN d["transactions"] : e["transactions"][i] = d["transactions"][i],
           \A i \in n + 1..n + k : \E day : e["transactions"][i] = Expense(day, NULL, NULL), NEW X
    PROVE  Leads(d, n, e, n + k, X)
  <1>1. "transactions" \in Tables /\ n + k \in Nat /\ n <= n + k
        /\ \A c \in KeysOf["transactions"] : c.field \in {"category", "rule"}
    BY TheTables DEF Key
  <1>2. \A i \in n + 1..n + k : LET r == e["transactions"][i] IN
            Added("transactions", r) /\ r.category = NULL /\ r.rule = NULL
    <2>1. \A day : LET r == Expense(day, NULL, NULL) IN
              Added("transactions", r) /\ r.category = NULL /\ r.rule = NULL
      BY DEF Added, HasFields, Fields, Expense
    <2> QED
      BY <2>1
  <1>3. ASSUME NEW u \in Tables, NEW i \in DOMAIN e[u]
        PROVE  \/ i \in DOMAIN d[u] /\ e[u][i] = d[u][i] /\ HasFields(u, e[u][i])
               \/ u = "transactions" /\ i \in n + 1..n + k
    BY <1>1 DEF Stored
  <1>4. RowsWritten(d, n, e, n + k)
    BY <1>2, <1>3 DEF RowsWritten, Became
  <1>5. ReferencesWritten(d, e, n + k)
    BY <1>1, <1>2, <1>3 DEF ReferencesWritten
  <1>6. Untouched(d, e)
    BY <1>1, SameInTrash, TheTables DEF Untouched
  <1>7. ShapesStay(d, e, X) /\ StandsOn(d, e)
    BY TheTables DEF ShapesStay, StandsOn
  <1> QED
    BY <1>1, <1>4, <1>5, <1>6, <1>7 DEF Leads, Wrote, Stored

(* The rows of a day after an import: those there were, and the new ones.   *)
LiveRows(d, day) ==
    {i \in DOMAIN d["transactions"] : LET r == d["transactions"][i] IN
        r.owner = Me /\ r.day = day /\ r.amount = 1 /\ ~r.trashed}

(* A day of an import has the rows it had, and the bank's that were         *)
(* missing.                                                                 *)
LEMMA ImportedLive ==
    ASSUME NEW d, NEW n \in Nat, Stored(d, n), NEW seen, NEW days \in SUBSET Days,
           seen \in [days -> Nat], NEW new, NEW e, Imported(d, n, seen, new, e), NEW day
    PROVE  Live(e, day) = Live(d, day) + IF day \in days THEN Fresh(seen, day) ELSE 0
  <1> DEFINE k == Len(new)
  <1> USE DEF Imported
  <1> DEFINE old == LiveRows(d, day)
             more == {i \in n + 1..n + k : new[i - n][1] = day}
             all == LiveRows(e, day)
             part == {day} \X (1..Fresh(seen, day))
  <1>1. \A j \in 1..k : LET r == e["transactions"][n + j] IN
            r.owner = Me /\ r.amount = 1 /\ r.trashed = FALSE /\ r.day = new[j][1]
    <2>1. \A x : LET r == Expense(x, NULL, NULL) IN
              r.owner = Me /\ r.amount = 1 /\ r.trashed = FALSE /\ r.day = x
      BY DEF Expense
    <2> QED
      BY <2>1
  <1>2. \A i \in n + 1..n + k : i \in DOMAIN e["transactions"] /\ (i \in all <=> new[i - n][1] = day)
    BY <1>1 DEF LiveRows
  <1>3. \A i \in DOMAIN d["transactions"] : i \in all <=> i \in old
    BY DEF LiveRows
  <1>4. all = old \cup more /\ old \cap more = {} /\ old \subseteq DOMAIN d["transactions"]
    <2>1. all \subseteq DOMAIN e["transactions"] /\ old \subseteq DOMAIN d["transactions"]
      BY DEF LiveRows
    <2> HIDE DEF all, old
    <2> QED
      BY <1>2, <1>3, <2>1
  <1>5. Live(d, day) = Cardinality(old) /\ Live(e, day) = Cardinality(all)
    BY DEF Live, LiveRows
  <1> HIDE DEF old, all
  <1>6. IsFiniteSet(old) /\ Cardinality(old) \in Nat
    BY <1>4, FiniteRows, TheTables
  <1>7. IsFiniteSet(more) /\ Cardinality(more) \in Nat
    <2>1. IsFiniteSet(n + 1..n + k)
      BY FS_Interval
    <2> QED
      BY <2>1, FS_Subset, FS_CardinalityType
  <1>8. Cardinality(all) = Cardinality(old) + Cardinality(more)
    <2>1. IsFiniteSet(old \cap more) /\ Cardinality(old \cap more) = 0
      BY <1>4, FS_EmptySet
    <2> HIDE DEF more
    <2>2. Cardinality(old \cup more) =
              Cardinality(old) + Cardinality(more) - Cardinality(old \cap more)
      BY <1>6, <1>7, FS_Union
    <2> QED
      BY <1>4, <1>6, <1>7, <2>1, <2>2
  <1>9. \A x : x \in FreshRows(seen) <=>
                \E dd \in days : \E m \in 1..Fresh(seen, dd) : x = <<dd, m>>
    BY FreshIs
  <1>10. CASE day \in days
    <2> DEFINE f == [i \in more |-> new[i - n]]
    <2>1. \A i \in more : new[i - n] \in part
      BY <1>9
    <2>2. \A i, j \in more : new[i - n] = new[j - n] => i = j
      <3> SUFFICES ASSUME NEW i \in more, NEW j \in more, new[i - n] = new[j - n]
                   PROVE  i = j
        OBVIOUS
      <3>1. i - n = j - n
        OBVIOUS
      <3> QED
        BY <3>1
    <2>3. \A x \in part : \E i \in more : new[i - n] = x
      <3> SUFFICES ASSUME NEW x \in part
                   PROVE  \E i \in more : new[i - n] = x
        OBVIOUS
      <3>1. x \in FreshRows(seen) /\ x[1] = day
        BY <1>9, <1>10
      <3>2. PICK j \in 1..k : new[j] = x
        BY <3>1
      <3>3. n + j \in n + 1..n + k /\ (n + j) - n = j
        OBVIOUS
      <3> QED
        BY <3>1, <3>2, <3>3
    <2>4. f \in Bijection(more, part)
      <3> HIDE DEF more, part
      <3> QED
        BY <2>1, <2>2, <2>3 DEF Bijection, Injection, Surjection, IsInjective
    <2>5. Cardinality(part) = Cardinality(more)
      BY <1>7, <2>4, FS_Bijection DEF ExistsBijection
    <2>6. Cardinality(part) = Fresh(seen, day)
      <3>1. Fresh(seen, day) \in Nat
        BY <1>10, FreshIs
      <3>2. IsFiniteSet(1..Fresh(seen, day)) /\ Cardinality(1..Fresh(seen, day)) = Fresh(seen, day)
        <4> DEFINE m == Fresh(seen, day)
        <4> HIDE DEF m
        <4>1. m \in Int /\ 1 \in Int /\ (IF 1 > m THEN 0 ELSE m - 1 + 1) = m
          BY <3>1 DEF m
        <4> QED
          BY <4>1, FS_Interval DEF m
      <3>3. IsFiniteSet({day}) /\ Cardinality({day}) = 1
        BY FS_Singleton
      <3>4. Cardinality(part) = Cardinality({day}) * Cardinality(1..Fresh(seen, day))
        BY <3>2, <3>3, FS_Product
      <3> HIDE DEF part
      <3> QED
        BY <3>1, <3>2, <3>3, <3>4
    <2> QED
      BY <1>5, <1>8, <1>10, <2>5, <2>6
  <1>11. CASE day \notin days
    <2>1. more = {}
      BY <1>9, <1>11
    <2>2. Cardinality(more) = 0
      BY <2>1, FS_EmptySet
    <2> QED
      BY <1>5, <1>6, <1>8, <1>11, <2>2
  <1> QED
    BY <1>10, <1>11

(* A bank statement is imported.                                            *)
LEMMA ImportKeeps ==
    ASSUME IInv, NEW h \in Handlers, AtWrite(h), ImportRows(h), UNCHANGED topic
    PROVE  IInv' /\ History(db, db')
  <1> DEFINE r == handler[h].request
             days == r.body.days
             seen == handler[h].seen
             new == SetToSeq(FreshRows(seen))
             rows == [i \in serial + 1..serial + Len(new) |-> Expense(new[i - serial][1], NULL, NULL)]
             d == [db EXCEPT !.transactions = Over(rows, @)]
  <1>1. /\ r.does = "import" /\ Commit(h, d, Len(new)) /\ user' = user
        /\ raced' = IF handler'[h].status = "done" THEN raced \cup Unseen(h, seen) ELSE raced
    BY DEF ImportRows, FreshRows
  <1>2. /\ Stored(db, serial) /\ serial \in Nat /\ days \in SUBSET Days /\ seen \in [days -> Nat]
    BY <1>1, WriterIs DEF Valid, SeenFits
  <1> HIDE DEF seen, days
  <1>3. Imported(db, serial, seen, new, d)
    BY <1>2, ImportedIs
  <1> HIDE DEF d, new
  <1>4. \A day : Live(d, day) = Live(db, day) + IF day \in days THEN Fresh(seen, day) ELSE 0
    BY <1>2, <1>3, ImportedLive
  <1>5. Leads(db, serial, d, serial + Len(new), raced')
    <2>1. \A i \in serial + 1..serial + Len(new) :
              \E day : d["transactions"][i] = Expense(day, NULL, NULL)
      BY <1>3 DEF Imported
    <2> QED
      BY <1>2, <1>3, <2>1, ImportLeads DEF Imported
  <1>6. Races(h) /\ Suggests(h, d) /\ Onboards(h)
    BY <1>1 DEF Races, Suggests, Onboards, IInv, StateOK, UserType
  <1>7. ASSUME handler'[h].status = "done"
        PROVE  StatementsMerge' /\ ImportsKnow'
    <2>1. Accepted(h, d, Len(new))
      BY <1>1, <1>7, CommitEither DEF Refused
    <2>2. /\ db' = d /\ user.exists /\ raced' = raced \cup Unseen(h, seen)
          /\ \A g \in Handlers : g # h => handler'[g] = handler[g]
      BY <1>1, <1>7, <2>1 DEF Accepted, Commits, IInv, HandlersOK
    <2>3. ASSUME NEW day \in Days
          PROVE  /\ extra'[day] = extra[day]
                 /\ covered'[day] => covered[day] \/ (day \in days /\ Live(db, day) >= seen[day])
                 /\ Live(db, day) \in Nat /\ Bank[day] \in Nat /\ extra[day] \in Nat
      BY <1>1, <1>2, <2>1, LiveNat, BankCounts
      DEF Accepted, Counted, Covers, IInv, StateOK, days, seen
    <2>4. StatementsMerge'
      <3> SUFFICES ASSUME NEW day \in Days
                   PROVE  /\ covered'[day] => Live(d, day) >= Bank[day]
                          /\ (\A g \in Handlers : handler'[g].status = "done" =>
                                                  <<"import", g, day>> \notin raced')
                                => Live(d, day) <= Bank[day] + extra'[day]
        BY <2>2 DEF StatementsMerge, Live
      <3>1. covered[day] => Live(db, day) >= Bank[day]
        BY <2>2 DEF IInv, StatementsMerge
      <3>2. covered'[day] => Live(d, day) >= Bank[day]
        BY <1>2, <1>4, <2>3, <3>1 DEF Fresh
      <3>3. ASSUME \A g \in Handlers : handler'[g].status = "done" =>
                                          <<"import", g, day>> \notin raced'
            PROVE  /\ Live(db, day) <= Bank[day] + extra[day]
                   /\ day \in days => Live(db, day) <= seen[day] + extra[day]
        <4>1. \A g \in Handlers : handler[g].status = "done" => <<"import", g, day>> \notin raced
          BY <2>2, <3>3 DEF AtWrite
        <4>2. <<"import", h, day>> \notin raced
          BY <1>7, <2>2, <3>3
        <4>3. day \in days => Waits(handler[h], day)
          BY <1>1 DEF Waits, AtWrite, days
        <4> QED
          BY <2>2, <4>1, <4>2, <4>3 DEF IInv, StatementsMerge, ImportsKnow, seen
      <3>4. CASE \A g \in Handlers : handler'[g].status = "done" =>
                                        <<"import", g, day>> \notin raced'
        BY <1>2, <1>4, <2>3, <3>2, <3>3, <3>4 DEF Fresh
      <3> QED
        BY <3>2, <3>4
    <2>5. ImportsKnow'
      <3> SUFFICES ASSUME NEW g \in Handlers, NEW day \in Days,
                          Waits(handler'[g], day), <<"import", g, day>> \notin raced'
                   PROVE  Live(d, day) <= handler'[g].seen[day] + extra'[day]
        BY <2>2 DEF ImportsKnow, Live
      <3>1. g # h
        BY <1>7 DEF Waits
      <3>2. handler'[g] = handler[g] /\ Waits(handler[g], day)
        BY <2>2, <3>1
      <3>3. Live(db, day) <= handler[g].seen[day] + extra[day]
        BY <2>2, <3>2 DEF IInv, ImportsKnow
      <3>4. handler[g].seen \in [handler[g].request.body.days -> Nat]
        BY <3>2 DEF IInv, HandlersOK, Handling, SeenFits, Waits
      <3>5. day \in days => ~(Fresh(seen, day) > 0)
        <4> SUFFICES ASSUME day \in days, Fresh(seen, day) > 0
                     PROVE  FALSE
          OBVIOUS
        <4>1. <<"import", g, day>> \in Unseen(h, seen)
          BY <1>2, <3>1, <3>2, <3>4 DEF Unseen, Waits
        <4> QED
          BY <2>2, <4>1
      <3>6. Live(d, day) = Live(db, day)
        BY <1>2, <1>4, <2>3, <3>5 DEF Fresh
      <3> QED
        BY <2>3, <3>2, <3>3, <3>6
    <2> QED
      BY <2>4, <2>5
  <1> QED
    BY <1>1, <1>3, <1>5, <1>6, <1>7, CommitKeeps, UntouchedHistory DEF AtWrite, Leads, Imported

-----------------------------------------------------------------------------
(* Every step keeps the invariant, and what is in the trash.                *)
LEMMA WriteKeeps ==
    ASSUME IInv, NEW h \in Handlers, Write(h), UNCHANGED topic
    PROVE  IInv' /\ (History(db, db') \/ ~user'.exists)
  <1>1. AtWrite(h)
    BY DEF Write, AtWrite
  <1>2. ASSUME db' = db
        PROVE  History(db, db')
    BY <1>2, SameHistory
  <1> QED
    BY <1>1, <1>2, PostRowKeeps, PostSourceKeeps, PatchRowKeeps, PatchSourceKeeps, TrashRowKeeps,
       DeleteRowKeeps, SetLimitKeeps, UnsetLimitKeeps, ImportKeeps, ConfirmKeeps, DismissKeeps,
       MarkUsedKeeps, OnboardKeeps, CloseKeeps
    DEF Write

(* And every step there is.                                                 *)
LEMMA NextKeeps ==
    ASSUME IInv, [Next]_vars
    PROVE  IInv' /\ (History(db, db') \/ ~user'.exists)
  <1>1. ASSUME db' = db
        PROVE  History(db, db')
    BY <1>1, SameHistory
  <1>2. CASE Next
    <2>1. UNCHANGED topic
      BY <1>2 DEF Next
    <2>2. PICK h \in Handlers : \/ \E r \in Requests : Arrive(h, r)
                                \/ \E g \in Handlers : Retry(h, g)
                                \/ Check(h) \/ Read(h) \/ Write(h)
      BY <1>2 DEF Next
    <2>3. CASE \E r \in Requests : Arrive(h, r)
      BY <1>1, <2>1, <2>3, ArriveKeeps
    <2>4. CASE \E g \in Handlers : Retry(h, g)
      BY <1>1, <2>1, <2>4, RetryKeeps
    <2>5. CASE Check(h) \/ Read(h)
      BY <1>1, <2>1, <2>5, CheckKeeps, ReadKeeps
    <2>6. CASE Write(h)
      BY <2>1, <2>6, WriteKeeps
    <2> QED
      BY <2>2, <2>3, <2>4, <2>5, <2>6
  <1>3. CASE UNCHANGED vars
    <2>1. UNCHANGED <<topic, db, user, serial, keys, handler, made, raced, extra, covered>>
      BY <1>3 DEF vars
    <2>2. StateOK' /\ HandlersOK'
      BY <2>1 DEF IInv, StateOK, HandlersOK
    <2>3. Owned(db)' /\ Apart(db)' /\ Emptied' /\ KeyKept'
      BY <2>1 DEF IInv, Owned, Apart, Emptied, KeyKept
    <2>4. StartedOnce' /\ ConfirmedOnce'
      BY <2>1 DEF IInv, StartedOnce, ConfirmedOnce, Done, Stopped
    <2>5. ShapesHold' /\ StatementsMerge'
      BY <2>1 DEF IInv, ShapesHold, StatementsMerge
    <2>6. ImportsKnow'
      BY <2>1 DEF IInv, ImportsKnow, Live
    <2> QED
      BY <1>1, <2>1, <2>2, <2>3, <2>4, <2>5, <2>6 DEF IInv
  <1> QED
    BY <1>2, <1>3

-----------------------------------------------------------------------------
(* The rows a behaviour starts with.                                        *)
LEMMA OverOnly ==
    ASSUME NEW id, NEW row, NEW f
    PROVE  /\ DOMAIN Over(f, Only(id, row)) = DOMAIN f \cup {id}
           /\ \A i \in DOMAIN f : Over(f, Only(id, row))[i] = f[i]
           /\ id \notin DOMAIN f => Over(f, Only(id, row))[id] = row
  <1> DEFINE g == Only(id, row)
  <1>1. DOMAIN g = {id} /\ g[id] = row
    BY OneRow
  <1> HIDE DEF g
  <1>2. /\ DOMAIN Over(f, g) = DOMAIN f \cup DOMAIN g
        /\ \A x \in DOMAIN f : Over(f, g)[x] = f[x]
        /\ \A x \in DOMAIN g : x \notin DOMAIN f => Over(f, g)[x] = g[x]
    BY Overlaid
  <1> QED
    BY <1>1, <1>2 DEF g

(* Somebody else's salary.                                                  *)
LEMMA TheirRows ==
    LET rule == [IncomeRule(Monthly) EXCEPT !.owner = Them]
        source == [Source("REGULAR", 1, 3) EXCEPT !.owner = Them]
    IN
    /\ HasFields("rules", rule) /\ rule.owner = Them /\ rule.category = NULL /\ checkShape(rule)
    /\ HasFields("sources", source) /\ source.owner = Them /\ source.rule = 3 /\ SourceShape(source)
  <1> DEFINE old == IncomeRule(Monthly)
             rule == [old EXCEPT !.owner = Them]
  <1>1. Fields["rules"] \subseteq DOMAIN old /\ checkShape(old) /\ old.category = NULL
    BY IncomeRuleIs DEF Schedules, Added, HasFields
  <1> HIDE DEF old
  <1>2. /\ DOMAIN rule = DOMAIN old /\ rule.owner = Them
        /\ \A f \in DOMAIN old : f # "owner" => rule[f] = old[f]
    BY <1>1 DEF Fields
  <1> HIDE DEF rule
  <1>3. /\ rule.kind = old.kind /\ rule.amount = old.amount /\ rule.category = old.category
        /\ rule.subscription = old.subscription /\ rule.frequency = old.frequency
        /\ rule.dayOfWeek = old.dayOfWeek /\ rule.dayOfMonth = old.dayOfMonth
    BY <1>1, <1>2 DEF Fields
  <1>4. HasFields("rules", rule) /\ checkShape(rule)
    BY <1>1, <1>2, <1>3 DEF HasFields, checkShape, checkScheduleAnchors
  <1>5. LET source == [Source("REGULAR", 1, 3) EXCEPT !.owner = Them] IN
        /\ HasFields("sources", source) /\ source.owner = Them /\ source.rule = 3
        /\ SourceShape(source)
    BY DEF Source, HasFields, Fields, SourceShape, checkSourceShape, NULL
  <1> QED
    BY <1>1, <1>2, <1>3, <1>4, <1>5 DEF rule, old

(* Somebody else's data, and the system's.                                  *)
LEMMA OthersAre ==
    LET d == Others IN
    /\ DOMAIN d = Tables
    /\ DOMAIN d["categories"] = {1, 2} /\ DOMAIN d["rules"] = {3} /\ DOMAIN d["sources"] = {4}
    /\ \A t \in Tables \ {"categories", "rules", "sources"} : DOMAIN d[t] = {}
    /\ \A t \in Tables : \A i \in DOMAIN d[t] : HasFields(t, d[t][i]) /\ d[t][i].owner # Me
    /\ d["categories"][1].owner = System
    /\ d["rules"][3].category = NULL /\ checkShape(d["rules"][3])
    /\ d["sources"][4].rule = 3 /\ SourceShape(d["sources"][4])
  <1> DEFINE d == Others
             one == [owner |-> System]
             two == [owner |-> Them]
             rule == [IncomeRule(Monthly) EXCEPT !.owner = Them]
             source == [Source("REGULAR", 1, 3) EXCEPT !.owner = Them]
  <1>1. /\ DOMAIN d = Tables
        /\ d["categories"] = Over(Only(1, one), Only(2, two))
        /\ d["rules"] = Only(3, rule) /\ d["sources"] = Only(4, source)
        /\ \A t \in Tables \ {"categories", "rules", "sources"} : d[t] = NoRows
    BY TheTables DEF Others
  <1>2. HasFields("categories", one) /\ HasFields("categories", two) /\ one.owner = System
        /\ two.owner = Them
    BY DEF HasFields, Fields
  <1>3. /\ HasFields("rules", rule) /\ rule.owner = Them /\ rule.category = NULL /\ checkShape(rule)
        /\ HasFields("sources", source) /\ source.owner = Them /\ source.rule = 3
        /\ SourceShape(source)
    BY TheirRows
  <1> HIDE DEF d, one, two, rule, source
  <1>4. DOMAIN d["categories"] = {1, 2} /\ d["categories"][1] = one /\ d["categories"][2] = two
    <2>1. DOMAIN Only(1, one) = {1} /\ Only(1, one)[1] = one
      BY OneRow
    <2> DEFINE f == Only(1, one)
    <2> HIDE DEF f
    <2>2. /\ DOMAIN Over(f, Only(2, two)) = DOMAIN f \cup {2}
          /\ \A i \in DOMAIN f : Over(f, Only(2, two))[i] = f[i]
          /\ 2 \notin DOMAIN f => Over(f, Only(2, two))[2] = two
      BY OverOnly
    <2> QED
      BY <1>1, <2>1, <2>2 DEF f
  <1>5. /\ DOMAIN d["rules"] = {3} /\ d["rules"][3] = rule
        /\ DOMAIN d["sources"] = {4} /\ d["sources"][4] = source
    <2>1. DOMAIN Only(3, rule) = {3} /\ Only(3, rule)[3] = rule
      BY OneRow
    <2>2. DOMAIN Only(4, source) = {4} /\ Only(4, source)[4] = source
      BY OneRow
    <2> QED
      BY <1>1, <2>1, <2>2
  <1>6. \A t \in Tables \ {"categories", "rules", "sources"} : DOMAIN d[t] = {}
    BY <1>1 DEF NoRows
  <1>7. System # Me /\ Them # Me
    BY DEF System, Me, Them
  <1> QED
    BY <1>1, <1>2, <1>3, <1>4, <1>5, <1>6, <1>7 DEF d

(* The user's own two rules.                                                *)
LEMMA OwnRules ==
    LET expense == ExpenseRule(Monthly, 5, FALSE, FALSE)
        income == IncomeRule(Monthly)
        both == Over(Only(6, expense), Only(7, income))
    IN
    /\ Added("rules", expense) /\ checkShape(expense) /\ expense.category = 5
    /\ expense.kind = "EXPENSE"
    /\ Added("rules", income) /\ checkShape(income) /\ income.category = NULL
    /\ income.kind = "INCOME"
    /\ DOMAIN both = {6, 7} /\ both[6] = expense /\ both[7] = income
  <1> DEFINE expense == ExpenseRule(Monthly, 5, FALSE, FALSE)
             income == IncomeRule(Monthly)
             one == Only(6, expense)
  <1>1. Monthly \in Schedules
    BY DEF Schedules
  <1>2. /\ Added("rules", expense) /\ checkShape(expense) /\ expense.category = 5
        /\ expense.kind = "EXPENSE"
    <2>1. ASSUME NEW c
          PROVE  LET r == ExpenseRule(Monthly, c, FALSE, FALSE) IN
                 Added("rules", r) /\ checkShape(r) /\ r.category = c /\ r.kind = "EXPENSE"
      <3>1. ASSUME NEW x, NEW y
            PROVE  LET r == ExpenseRule(Monthly, c, x, y) IN
                   Added("rules", r) /\ checkShape(r) /\ r.category = c /\ r.kind = "EXPENSE"
        <4> DEFINE r == ExpenseRule(Monthly, c, x, y)
        <4>1. /\ Added("rules", r) /\ checkShape(r) /\ r.category = c /\ r.kind = "EXPENSE"
              /\ y = TRUE => Stands(r)
          BY <1>1, ExpenseRuleIs
        <4> QED
          BY <4>1
      <3> QED
        BY <3>1, Zenon
    <2> QED
      BY <2>1, Zenon
  <1>3. /\ Added("rules", income) /\ checkShape(income) /\ income.category = NULL
        /\ income.kind = "INCOME"
    BY <1>1, IncomeRuleIs
  <1> HIDE DEF expense, income
  <1>4. DOMAIN one = {6} /\ one[6] = expense
    BY OneRow
  <1> HIDE DEF one
  <1>5. /\ DOMAIN Over(one, Only(7, income)) = DOMAIN one \cup {7}
        /\ \A i \in DOMAIN one : Over(one, Only(7, income))[i] = one[i]
        /\ 7 \notin DOMAIN one => Over(one, Only(7, income))[7] = income
    <2>1. ASSUME NEW i
          PROVE  /\ DOMAIN Over(one, Only(i, income)) = DOMAIN one \cup {i}
                 /\ \A x \in DOMAIN one : Over(one, Only(i, income))[x] = one[x]
                 /\ i \notin DOMAIN one => Over(one, Only(i, income))[i] = income
      BY OverOnly, Zenon
    <2> QED
      BY <2>1, Zenon
  <1>6. /\ DOMAIN Over(one, Only(7, income)) = {6, 7}
        /\ Over(one, Only(7, income))[6] = expense /\ Over(one, Only(7, income))[7] = income
    BY <1>4, <1>5
  <1> QED
    BY <1>2, <1>3, <1>6 DEF expense, income, one

(* A user with one row of everything.                                       *)
LEMMA SettledAre ==
    ASSUME NEW trashed \in BOOLEAN
    PROVE
    LET d == Settled(trashed) IN
    /\ DOMAIN d = Tables
    /\ \A t \in Tables : \A i \in DOMAIN Others[t] : i \in DOMAIN d[t] /\ d[t][i] = Others[t][i]
    /\ DOMAIN d["categories"] = {1, 2, 5} /\ DOMAIN d["rules"] = {3, 6, 7}
    /\ DOMAIN d["sources"] = {4, 8} /\ DOMAIN d["entries"] = {9} /\ DOMAIN d["transactions"] = {10}
    /\ DOMAIN d["templates"] = {11} /\ DOMAIN d["limits"] = {12} /\ DOMAIN d["goals"] = {13}
    /\ \A t \in Tables : \A i \in DOMAIN d[t] \ DOMAIN Others[t] : Added(t, d[t][i])
    /\ d["rules"][6].category = 5 /\ d["rules"][6].kind = "EXPENSE" /\ checkShape(d["rules"][6])
    /\ d["rules"][7].category = NULL /\ d["rules"][7].kind = "INCOME" /\ checkShape(d["rules"][7])
    /\ d["sources"][8].rule = 7 /\ SourceShape(d["sources"][8])
    /\ d["entries"][9].source = 8
    /\ d["transactions"][10].category = 5 /\ d["transactions"][10].rule = 6
    /\ d["templates"][11].category = 5 /\ d["limits"][12].category = 5
  <1> DEFINE d == Settled(trashed)
             o == Others
             category == [owner |-> Me]
             expense == ExpenseRule(Monthly, 5, FALSE, FALSE)
             income == IncomeRule(Monthly)
             both == Over(Only(6, expense), Only(7, income))
             source == Source("REGULAR", 1, 7)
             entry == [NewEntry(8) EXCEPT !.trashed = trashed]
             payment == [Expense(Today, 5, 6) EXCEPT !.trashed = trashed]
             template == [owner |-> Me, category |-> 5]
             goal == [NewGoal EXCEPT !.trashed = trashed]
  <1>1. /\ DOMAIN d = Tables
        /\ d["categories"] = Over(o["categories"], Only(5, category))
        /\ d["rules"] = Over(o["rules"], both)
        /\ d["sources"] = Over(o["sources"], Only(8, source))
        /\ d["entries"] = Over(o["entries"], Only(9, entry))
        /\ d["transactions"] = Over(o["transactions"], Only(10, payment))
        /\ d["templates"] = Over(o["templates"], Only(11, template))
        /\ d["limits"] = Over(o["limits"], Only(12, template))
        /\ d["goals"] = Over(o["goals"], Only(13, goal))
    BY TheTables DEF Settled
  <1>2. /\ DOMAIN o["categories"] = {1, 2} /\ DOMAIN o["rules"] = {3} /\ DOMAIN o["sources"] = {4}
        /\ DOMAIN o["entries"] = {} /\ DOMAIN o["transactions"] = {} /\ DOMAIN o["templates"] = {}
        /\ DOMAIN o["limits"] = {} /\ DOMAIN o["goals"] = {}
    BY OthersAre, TheTables
  <1>3. /\ Added("categories", category) /\ Added("sources", source) /\ source.rule = 7
        /\ SourceShape(source)
        /\ Added("templates", template) /\ Added("limits", template) /\ template.category = 5
    BY DEF Added, HasFields, Fields, Source, SourceShape, checkSourceShape, NULL
  <1>4. /\ Added("entries", entry) /\ entry.source = 8
        /\ Added("transactions", payment) /\ payment.category = 5 /\ payment.rule = 6
        /\ Added("goals", goal)
    BY DEF Added, HasFields, Fields, NewEntry, Expense, NewGoal
  <1>5. /\ Added("rules", expense) /\ checkShape(expense) /\ expense.category = 5
        /\ expense.kind = "EXPENSE"
        /\ Added("rules", income) /\ checkShape(income) /\ income.category = NULL
        /\ income.kind = "INCOME"
    BY OwnRules
  <1> HIDE DEF d, o, category, expense, income, source, entry, payment, template, goal
  <1>6. ASSUME NEW t, NEW id, NEW row, d[t] = Over(o[t], Only(id, row)), id \notin DOMAIN o[t]
        PROVE  /\ DOMAIN d[t] = DOMAIN o[t] \cup {id} /\ d[t][id] = row
               /\ \A i \in DOMAIN o[t] : d[t][i] = o[t][i]
    <2> DEFINE f == o[t]
    <2> HIDE DEF f
    <2>1. /\ DOMAIN Over(f, Only(id, row)) = DOMAIN f \cup {id}
          /\ \A i \in DOMAIN f : Over(f, Only(id, row))[i] = f[i]
          /\ id \notin DOMAIN f => Over(f, Only(id, row))[id] = row
      BY OverOnly
    <2> QED
      BY <1>6, <2>1 DEF f
  <1>7. DOMAIN both = {6, 7} /\ both[6] = expense /\ both[7] = income
    BY OwnRules DEF both, expense, income
  <1> HIDE DEF both
  <1>8. /\ DOMAIN d["rules"] = {3, 6, 7} /\ d["rules"][3] = o["rules"][3]
        /\ d["rules"][6] = expense /\ d["rules"][7] = income
    <2> DEFINE f == o["rules"]
    <2>1. DOMAIN f = {3}
      BY <1>2
    <2> HIDE DEF f
    <2>2. /\ DOMAIN Over(f, both) = DOMAIN f \cup DOMAIN both
          /\ \A x \in DOMAIN f : Over(f, both)[x] = f[x]
          /\ \A x \in DOMAIN both : x \notin DOMAIN f => Over(f, both)[x] = both[x]
      BY Overlaid
    <2> QED
      BY <1>1, <1>7, <2>1, <2>2 DEF f
  <1>9. /\ DOMAIN d["categories"] = {1, 2, 5} /\ d["categories"][5] = category
        /\ d["categories"][1] = o["categories"][1] /\ d["categories"][2] = o["categories"][2]
    <2>1. /\ DOMAIN d["categories"] = DOMAIN o["categories"] \cup {5} /\ d["categories"][5] = category
          /\ \A i \in DOMAIN o["categories"] : d["categories"][i] = o["categories"][i]
      <3>1. 5 \notin DOMAIN o["categories"] /\ d["categories"] = Over(o["categories"], Only(5, category))
        BY <1>1, <1>2
      <3> QED
        BY <3>1, <1>6, Zenon
    <2> QED
      BY <1>2, <2>1
  <1>10. /\ DOMAIN d["sources"] = {4, 8}  /\ d["sources"][8] = source
         /\ d["sources"][4] = o["sources"][4]
    <2>1. /\ DOMAIN d["sources"] = DOMAIN o["sources"] \cup {8} /\ d["sources"][8] = source
          /\ \A i \in DOMAIN o["sources"] : d["sources"][i] = o["sources"][i]
      <3>1. 8 \notin DOMAIN o["sources"] /\ d["sources"] = Over(o["sources"], Only(8, source))
        BY <1>1, <1>2
      <3> QED
        BY <3>1, <1>6, Zenon
    <2> QED
      BY <1>2, <2>1
  <1>11. /\ DOMAIN d["entries"] = {9} /\ d["entries"][9] = entry
         /\ DOMAIN d["transactions"] = {10} /\ d["transactions"][10] = payment
    <2>1. /\ DOMAIN d["entries"] = DOMAIN o["entries"] \cup {9} /\ d["entries"][9] = entry
          /\ \A i \in DOMAIN o["entries"] : d["entries"][i] = o["entries"][i]
      <3>1. 9 \notin DOMAIN o["entries"] /\ d["entries"] = Over(o["entries"], Only(9, entry))
        BY <1>1, <1>2
      <3> QED
        BY <3>1, <1>6, Zenon
    <2>2. /\ DOMAIN d["transactions"] = DOMAIN o["transactions"] \cup {10} /\ d["transactions"][10] = payment
          /\ \A i \in DOMAIN o["transactions"] : d["transactions"][i] = o["transactions"][i]
      <3>1. 10 \notin DOMAIN o["transactions"] /\ d["transactions"] = Over(o["transactions"], Only(10, payment))
        BY <1>1, <1>2
      <3> QED
        BY <3>1, <1>6, Zenon
    <2> QED
      BY <1>2, <2>1, <2>2
  <1>12. /\ DOMAIN d["templates"] = {11} /\ d["templates"][11] = template
         /\ DOMAIN d["limits"] = {12} /\ d["limits"][12] = template
         /\ DOMAIN d["goals"] = {13} /\ d["goals"][13] = goal
    <2>1. /\ DOMAIN d["templates"] = DOMAIN o["templates"] \cup {11} /\ d["templates"][11] = template
          /\ \A i \in DOMAIN o["templates"] : d["templates"][i] = o["templates"][i]
      <3>1. 11 \notin DOMAIN o["templates"] /\ d["templates"] = Over(o["templates"], Only(11, template))
        BY <1>1, <1>2
      <3> QED
        BY <3>1, <1>6, Zenon
    <2>2. /\ DOMAIN d["limits"] = DOMAIN o["limits"] \cup {12} /\ d["limits"][12] = template
          /\ \A i \in DOMAIN o["limits"] : d["limits"][i] = o["limits"][i]
      <3>1. 12 \notin DOMAIN o["limits"] /\ d["limits"] = Over(o["limits"], Only(12, template))
        BY <1>1, <1>2
      <3> QED
        BY <3>1, <1>6, Zenon
    <2>3. /\ DOMAIN d["goals"] = DOMAIN o["goals"] \cup {13} /\ d["goals"][13] = goal
          /\ \A i \in DOMAIN o["goals"] : d["goals"][i] = o["goals"][i]
      <3>1. 13 \notin DOMAIN o["goals"] /\ d["goals"] = Over(o["goals"], Only(13, goal))
        BY <1>1, <1>2
      <3> QED
        BY <3>1, <1>6, Zenon
    <2> QED
      BY <1>2, <2>1, <2>2, <2>3
  <1>13. \A t \in Tables : \A i \in DOMAIN o[t] : i \in DOMAIN d[t] /\ d[t][i] = o[t][i]
    BY <1>2, <1>8, <1>9, <1>10, TheTables
  <1>14. \A t \in Tables : \A i \in DOMAIN d[t] \ DOMAIN o[t] : Added(t, d[t][i])
    BY <1>2, <1>3, <1>4, <1>5, <1>8, <1>9, <1>10, <1>11, <1>12, TheTables
  <1> QED
    BY <1>1, <1>3, <1>4, <1>5, <1>8, <1>9, <1>10, <1>11, <1>12, <1>13, <1>14 DEF d, o

(* A reference of such a row leads where it should.                         *)
Led(d, t, k, row) ==
    LET x == row[k.field] IN
    x # NULL =>
        /\ x \in DOMAIN d[k.to]
        /\ row.owner = Me => Target(t, k, d[k.to][x])
        /\ row.owner # Me => d[k.to][x].owner # Me
Begins(d) ==
    /\ Stored(d, 13)
    /\ \A t \in Tables : \A k \in KeysOf[t], i \in DOMAIN d[t] : Led(d, t, k, d[t][i])
    /\ Distinct(d, "sources", "rule") /\ Distinct(d, "limits", "category")
    /\ 1 \in DOMAIN d["categories"] /\ d["categories"][1].owner = System
    /\ \A i \in DOMAIN d["rules"] : checkShape(d["rules"][i])
    /\ \A i \in DOMAIN d["sources"] : SourceShape(d["sources"][i])

(* A new user begins so.                                                    *)
LEMMA OthersBegin == Begins(Others)
  <1> DEFINE d == Others
  <1>1. /\ DOMAIN d = Tables
        /\ DOMAIN d["categories"] = {1, 2} /\ DOMAIN d["rules"] = {3} /\ DOMAIN d["sources"] = {4}
        /\ \A t \in Tables \ {"categories", "rules", "sources"} : DOMAIN d[t] = {}
        /\ \A t \in Tables : \A i \in DOMAIN d[t] : HasFields(t, d[t][i]) /\ d[t][i].owner # Me
        /\ d["categories"][1].owner = System
        /\ d["rules"][3].category = NULL /\ checkShape(d["rules"][3])
        /\ d["sources"][4].rule = 3 /\ SourceShape(d["sources"][4])
    BY OthersAre
  <1> HIDE DEF d
  <1>2. Stored(d, 13)
    <2>1. \A t \in Tables : \A i \in DOMAIN d[t] : i \in {1, 2, 3, 4}
      BY <1>1, TheTables
    <2>2. \A i \in {1, 2, 3, 4} : i \in 1..13
      OBVIOUS
    <2> QED
      BY <1>1, <2>1, <2>2 DEF Stored
  <1>3. ASSUME NEW t \in Tables, NEW k \in KeysOf[t], NEW i \in DOMAIN d[t]
        PROVE  Led(d, t, k, d[t][i])
    <2>1. d[t][i].owner # Me
      BY <1>1
    <2>2. t = "rules" \/ t = "sources"
      BY <1>1, TheTables
    <2>3. CASE t = "rules"
      <3>1. i = 3 /\ k.field = "category"
        BY <2>3, <1>1, TheTables DEF Key
      <3> QED
        BY <3>1, <2>3, <1>1 DEF Led
    <2>4. CASE t = "sources"
      <3>1. i = 4 /\ k.field = "rule" /\ k.to = "rules"
        BY <2>4, <1>1, TheTables DEF Key
      <3>2. d["rules"][3].owner # Me
        BY <1>1, TheTables
      <3> QED
        BY <3>1, <3>2, <2>1, <2>4, <1>1 DEF Led
    <2> QED
      BY <2>2, <2>3, <2>4
  <1>4. Distinct(d, "sources", "rule") /\ Distinct(d, "limits", "category")
    BY <1>1, TheTables DEF Distinct
  <1> QED
    BY <1>1, <1>2, <1>3, <1>4 DEF Begins, d

(* So does a settled one.                                                   *)
LEMMA SettledBegin ==
    ASSUME NEW trashed \in BOOLEAN
    PROVE  Begins(Settled(trashed))
  <1> DEFINE d == Settled(trashed)
             o == Others
  <1>1. /\ DOMAIN d = Tables
        /\ \A t \in Tables : \A i \in DOMAIN o[t] : i \in DOMAIN d[t] /\ d[t][i] = o[t][i]
        /\ DOMAIN d["categories"] = {1, 2, 5} /\ DOMAIN d["rules"] = {3, 6, 7}
        /\ DOMAIN d["sources"] = {4, 8} /\ DOMAIN d["entries"] = {9} /\ DOMAIN d["transactions"] = {10}
        /\ DOMAIN d["templates"] = {11} /\ DOMAIN d["limits"] = {12} /\ DOMAIN d["goals"] = {13}
        /\ \A t \in Tables : \A i \in DOMAIN d[t] \ DOMAIN o[t] : Added(t, d[t][i])
        /\ d["rules"][6].category = 5 /\ d["rules"][6].kind = "EXPENSE" /\ checkShape(d["rules"][6])
        /\ d["rules"][7].category = NULL /\ d["rules"][7].kind = "INCOME" /\ checkShape(d["rules"][7])
        /\ d["sources"][8].rule = 7 /\ SourceShape(d["sources"][8])
        /\ d["entries"][9].source = 8
        /\ d["transactions"][10].category = 5 /\ d["transactions"][10].rule = 6
        /\ d["templates"][11].category = 5 /\ d["limits"][12].category = 5
    BY SettledAre
  <1>2. Begins(o)
    BY OthersBegin
  <1>3. /\ DOMAIN o["categories"] = {1, 2} /\ DOMAIN o["rules"] = {3} /\ DOMAIN o["sources"] = {4}
        /\ \A t \in Tables \ {"categories", "rules", "sources"} : DOMAIN o[t] = {}
        /\ o["sources"][4].rule = 3
    BY OthersAre
  <1> HIDE DEF d, o
  <1>4. Stored(d, 13)
    <2>1. \A t \in Tables : \A i \in DOMAIN d[t] : HasFields(t, d[t][i])
      BY <1>1, <1>2 DEF Begins, Stored, Added
    <2>2. \A t \in Tables : \A i \in DOMAIN d[t] : i \in {1, 2, 3, 4, 5, 6, 7, 8, 9, 10, 11, 12, 13}
      BY <1>1, TheTables
    <2>3. \A i \in {1, 2, 3, 4, 5, 6, 7, 8, 9, 10, 11, 12, 13} : i \in 1..13
      OBVIOUS
    <2> QED
      BY <1>1, <2>1, <2>2, <2>3 DEF Stored
  <1>5. /\ d["categories"][5].owner = Me /\ d["rules"][6].owner = Me /\ d["rules"][7].owner = Me
        /\ d["sources"][8].owner = Me
    <2>1. 5 \in DOMAIN d["categories"] \ DOMAIN o["categories"] /\ 6 \in DOMAIN d["rules"] \ DOMAIN o["rules"]
          /\ 7 \in DOMAIN d["rules"] \ DOMAIN o["rules"] /\ 8 \in DOMAIN d["sources"] \ DOMAIN o["sources"]
      BY <1>1, <1>3
    <2> QED
      BY <2>1, <1>1, TheTables DEF Added
  <1>6. ASSUME NEW t \in Tables, NEW k \in KeysOf[t], NEW i \in DOMAIN o[t]
        PROVE  Led(d, t, k, d[t][i])
    <2>1. Led(o, t, k, o[t][i]) /\ k.to \in Tables /\ d[t][i] = o[t][i]
      BY <1>1, <1>2, TheKeys DEF Begins
    <2> QED
      BY <2>1, <1>1 DEF Led
  <1>7. ASSUME NEW t \in Tables, NEW k \in KeysOf[t], NEW i \in DOMAIN d[t] \ DOMAIN o[t]
        PROVE  Led(d, t, k, d[t][i])
    <2>1. CASE k.field = "category"
      <3>1. d[t][i].category = 5 \/ d[t][i].category = NULL
        BY <2>1, <1>1, <1>3, TheTables DEF Key
      <3>2. k.to = "categories" /\ d[t][i].owner = Me
        BY <2>1, <1>1, TheKeys DEF Added
      <3> QED
        BY <3>1, <3>2, <2>1, <1>1, <1>5 DEF Led, Target, Fit
    <2>2. CASE k.field = "rule" /\ t = "sources"
      <3>1. i = 8 /\ k.to = "rules" /\ d[t][i].owner = Me
        BY <2>2, <1>1, <1>3, TheKeys DEF Added
      <3> QED
        BY <3>1, <2>2, <1>1, <1>5 DEF Led, Target, Fit
    <2>3. CASE k.field = "rule" /\ t # "sources"
      <3>1. t = "transactions" /\ k.to = "rules" /\ d[t][i].owner = Me
        BY <2>3, <1>1, TheKeys DEF Added
      <3>2. i = 10
        BY <3>1, <1>1
      <3> QED
        BY <3>1, <3>2, <2>3, <1>1, <1>5 DEF Led, Target, Fit
    <2>4. CASE k.field = "source"
      <3>1. t = "entries" /\ k.to = "sources" /\ d[t][i].owner = Me
        BY <2>4, <1>1, TheKeys DEF Added
      <3>2. i = 9
        BY <3>1, <1>1
      <3> QED
        BY <3>1, <3>2, <2>4, <1>1, <1>5 DEF Led, Target, Fit
    <2> QED
      BY <2>1, <2>2, <2>3, <2>4, TheKeys
  <1>8. Distinct(d, "sources", "rule") /\ Distinct(d, "limits", "category")
    <2>1. d["sources"][4].rule = 3
      BY <1>1, <1>3, TheTables
    <2> QED
      BY <2>1, <1>1 DEF Distinct
  <1>9. /\ 1 \in DOMAIN d["categories"] /\ d["categories"][1].owner = System
        /\ \A i \in DOMAIN d["rules"] : checkShape(d["rules"][i])
        /\ \A i \in DOMAIN d["sources"] : SourceShape(d["sources"][i])
    <2>1. /\ d["categories"][1] = o["categories"][1] /\ d["rules"][3] = o["rules"][3]
          /\ d["sources"][4] = o["sources"][4]
      BY <1>1, <1>3, TheTables
    <2> QED
      BY <2>1, <1>1, <1>2, <1>3 DEF Begins
  <1>10. \A t \in Tables : \A k \in KeysOf[t], i \in DOMAIN d[t] : Led(d, t, k, d[t][i])
    BY <1>6, <1>7
  <1> QED
    BY <1>4, <1>8, <1>9, <1>10 DEF Begins, d

(* The invariant holds when a behaviour starts.                             *)
LEMMA InitHolds ==
    ASSUME Init
    PROVE  IInv
  <1>1. Begins(db)
    BY OthersBegin, SettledBegin DEF Init
  <1>2. /\ topic \in Topics /\ serial = 13 /\ keys = {} /\ raced = {}
        /\ handler = [h \in Handlers |-> NewHandler] /\ made = [h \in Handlers |-> 0]
        /\ extra = [day \in Days |-> Live(db, day)] /\ covered = [day \in Days |-> FALSE]
    BY DEF Init
  <1>14. user \in [exists : BOOLEAN, onboarded : BOOLEAN, dismissed : BOOLEAN] /\ user.exists
    <2>1. \E o \in BOOLEAN : user = [exists |-> TRUE, onboarded |-> o, dismissed |-> FALSE]
      BY DEF Init
    <2> QED
      BY <2>1
  <1>3. Stored(db, serial) /\ serial \in Nat
    BY <1>1, <1>2 DEF Begins
  <1>4. \A day : Live(db, day) \in Nat
    BY <1>3, LiveNat
  <1>5. Consistent(db) /\ Owned(db) /\ Apart(db)
    BY <1>1, TheKeys DEF Begins, Led, Consistent, Rows, Owned, Apart
  <1>6. Checked(db, serial, Ref("categories", OtherCategory, "any"))
    <2>1. 1 \in 1..13
      OBVIOUS
    <2> QED
      BY <1>1, <1>2, <2>1 DEF Begins, Checked, Ref, Fit, OtherCategory
  <1>7. StateOK
    BY <1>2, <1>14, <1>3, <1>4, <1>5, <1>6 DEF StateOK
  <1>8. ASSUME NEW h \in Handlers
        PROVE  /\ handler[h].status = "new" /\ handler[h].request.does = "none"
               /\ handler[h].request.table = "none" /\ IsHandler(handler[h])
    BY <1>2, <1>8 DEF NewHandler, Request, IsHandler
  <1>9. HandlersOK
    BY <1>2, <1>8 DEF HandlersOK, Handling, Statuses
  <1>10. KeyKept
    BY <1>2, <1>8 DEF KeyKept
  <1>11. StartedOnce /\ ConfirmedOnce
    BY <1>8 DEF StartedOnce, ConfirmedOnce, Done
  <1>12. Emptied /\ ShapesHold
    BY <1>1, <1>14 DEF Emptied, ShapesHold, Begins, SourceShape
  <1>13. StatementsMerge
    <2> SUFFICES ASSUME NEW day \in Days
                 PROVE  ~covered[day] /\ Live(db, day) <= Bank[day] + extra[day]
      BY DEF StatementsMerge
    <2>1. Live(db, day) \in Nat /\ Bank[day] \in Nat /\ extra[day] = Live(db, day) /\ ~covered[day]
      BY <1>2, <1>4, BankCounts
    <2> QED
      BY <2>1
  <1>15. ImportsKnow
    BY <1>8 DEF ImportsKnow, Waits
  <1> QED
    BY <1>5, <1>7, <1>9, <1>10, <1>11, <1>12, <1>13, <1>15 DEF IInv

-----------------------------------------------------------------------------
(* The theorems.                                                            *)

(* The invariant: what a handler has checked is fit while it exists, and    *)
(* what was carried out is on record.                                       *)
THEOREM InvariantHolds == Spec => []IInv
  <1>1. Init => IInv
    BY InitHolds
  <1>2. IInv /\ [Next]_vars => IInv'
    BY NextKeeps
  <1> QED
    BY <1>1, <1>2, PTL DEF Spec

(* A set whose elements are equal.                                          *)
LEMMA AtMostOne ==
    ASSUME NEW S, \A x, y \in S : x = y
    PROVE  Cardinality(S) <= 1
  <1>1. CASE S = {}
    BY <1>1, FS_EmptySet
  <1>2. CASE S # {}
    <2>1. PICK x \in S : S = {x}
      BY <1>2
    <2> QED
      BY <2>1, FS_Singleton
  <1> QED
    BY <1>1, <1>2

(* A draft is carried out once: the request that carries its number has the *)
(* key, and whoever sends it again has the same request.                    *)
LEMMA DraftedOnce ==
    ASSUME IInv, NEW h \in Handlers, Drafted(handler[h].request)
    PROVE  made[handler[h].draft] <= 1
  <1>1. handler[h].status # "new"
    BY DEF IInv, HandlersOK, Handling, Drafted
  <1>2. Known(handler[h], handler)
    BY <1>1 DEF IInv, HandlersOK
  <1>3. Keyed(handler[handler[h].draft].request)
    BY <1>2 DEF Known, Drafted, Keyed
  <1> QED
    BY <1>2, <1>3 DEF IInv, KeyKept, Known

(* What the invariant says of the properties.                               *)
LEMMA Follows ==
    ASSUME IInv
    PROVE  TypeOK /\ ReferencesStayOwn /\ ShapesHold /\ StatementsMerge /\ StoredOnce
  <1>1. TypeOK
    BY DEF IInv, StateOK, Stored, HandlersOK, Handling, Statuses, TypeOK
  <1>2. ReferencesStayOwn
    BY DEF IInv, Owned, Target, Fit, Emptied, ReferencesStayOwn, Rows
  <1>3. Cardinality(Done("onboard")) <= 1
    BY AtMostOne DEF IInv, StartedOnce
  <1>4. (<<"confirm", NULL>> \notin raced /\ ~Stopped) => Cardinality(Done("confirm")) <= 1
    BY AtMostOne DEF IInv, ConfirmedOnce
  <1>5. \A h \in Handlers : Drafted(handler[h].request) => made[handler[h].draft] <= 1
    BY DraftedOnce
  <1>6. StoredOnce
    BY <1>3, <1>4, <1>5 DEF StoredOnce, Done, Stopped
  <1> QED
    BY <1>1, <1>2, <1>6 DEF IInv

(* Every foreign key holds at every commit, and ids, keys, users and counts *)
(* are of their types.                                                      *)
THEOREM TypeCorrect == Spec => []TypeOK
  <1>1. IInv => TypeOK
    BY Follows
  <1> QED
    BY <1>1, InvariantHolds, PTL

(* Every reference of a user's row is to a row of theirs or to the system's *)
(* categories, and of the right kind, though it was checked some awaits     *)
(* before it was written; a closed account leaves nothing.                  *)
THEOREM ReferencesAreOwn == Spec => []ReferencesStayOwn
  <1>1. IInv => ReferencesStayOwn
    BY Follows
  <1> QED
    BY <1>1, InvariantHolds, PTL

(* Rules and sources keep the shapes the API accepts through any number of  *)
(* PATCHes, deletions and set-ups, unless the row changed between the read  *)
(* and the write of its PATCH.                                              *)
THEOREM ShapesAlwaysHold == Spec => []ShapesHold
  <1>1. IInv => ShapesHold
    BY Follows
  <1> QED
    BY <1>1, InvariantHolds, PTL

(* Imports of any days, any number of them and of rows of the bank, with    *)
(* expenses entered, changed, deleted and restored before, between and      *)
(* while they run, leave every day they cover with each row of the bank, and *)
(* with none twice, unless another import stored rows of that day between   *)
(* the read and the write of one.                                           *)
THEOREM StatementsAreMerged == Spec => []StatementsMerge
  <1>1. IInv => StatementsMerge
    BY Follows
  <1> QED
    BY <1>1, InvariantHolds, PTL

(* A draft is stored once however often and whenever it is sent; an account *)
(* is set up once; a suggestion becomes one rule.                           *)
THEOREM DraftsAreStoredOnce == Spec => []StoredOnce
  <1>1. IInv => StoredOnce
    BY Follows
  <1> QED
    BY <1>1, InvariantHolds, PTL

(* No request but the deletion of the account takes an expense, an income   *)
(* or a goal out of the database, changes a column of one in the trash (but *)
(* for the reference to a category or a rule that is deleted), or parts an  *)
(* income from its source.                                                  *)
THEOREM HistoryStays == Spec => HistoryIsKept
  <1>1. ASSUME IInv, [Next]_vars
        PROVE  [user'.exists =>
                  \A t \in Trashable : \A i \in DOMAIN db[t] :
                    /\ i \in DOMAIN db'[t]
                    /\ db[t][i].trashed /\ db'[t][i].trashed =>
                          StaysInTrash(db', t, db[t][i], db'[t][i])
                    /\ t = "entries" => db'[t][i].source = db[t][i].source]_vars
    BY <1>1, NextKeeps DEF History
  <1> QED
    BY <1>1, InvariantHolds, PTL DEF Spec, HistoryIsKept

=============================================================================
