---------------------------- MODULE AccessProofs ----------------------------
(***************************************************************************)
(* Proofs about who gets in: on the phone, the lock of the app and what it *)
(* leaves behind (AppLock and Phone), for any accounts, any number of      *)
(* calls, jobs, absences and sign-ins; on the server, the sessions of an   *)
(* account (Sessions), for any number of concurrent requests and tokens.   *)
(*                                                                         *)
(* The argument about sessions: an open rotation holds a token that is     *)
(* still usable and that nobody else holds (ClaimHolds), so its commit     *)
(* replaces the one usable token of the family by another.                 *)
(***************************************************************************)
EXTENDS Phone, Sessions, TLAPS


(* The lock.  Who was away with the lock on and open has the moment kept,  *)
(* on the phone's clock; the switching on of the lock and its prompt never *)
(* meet a lock that is on.                                                 *)
Enabling(s) == {i \in 1..Len(s) : s[i].then = "enabled"}

Answerable ==
    /\ \A i, j \in Enabling(calls) : i = j
    /\ Enabling(calls) # {} => ~lock.enabled /\ prompt = "none"
    /\ prompt = "enable" => ~lock.enabled
    /\ prompt = "unlock" => lock.locked \/ ~lock.enabled

OffIsOff ==
    ~lock.enabled => ~lock.locked /\ lock.leftAt = Never /\ owes = NothingOwed

MomentKept ==
    /\ prompt # "none" \/ app = "active" => lock.leftAt = Never
    /\ lock.enabled /\ ~lock.locked => lock.leftAt = {t - owes.skew : t \in owes.since}
    /\ \A t \in owes.since : t =< clock
    /\ owes.skew \in {0, skew}

DueIsLocked == lock.enabled /\ owes.due => lock.locked

LockInv == Answerable /\ OffIsOff /\ MomentKept /\ DueIsLocked

-----------------------------------------------------------------------------
(* The widget.  When the calls s have been answered and the store held     *)
(* snap before, it holds v.                                                *)
LeavesStored(s, snap, v) ==
    /\ \A i \in 1..Len(s) :
          (s[i].does = "saveSnapshot" /\ \A j \in i+1..Len(s) : s[j].does # "saveSnapshot")
             => s[i].value = v
    /\ (\A i \in 1..Len(s) : s[i].does # "saveSnapshot") => snap = v

Redraws(s) == \E i \in 1..Len(s) : s[i].does # "saveLock"

Expected ==
    IF account = Nobody THEN NoSnapshot ELSE Snapshot(account, budget, Hidden(lock.enabled))

Tracked == IF account = Nobody THEN ~cut ELSE budget > 0

WidgetInv ==
    Tracked => /\ LeavesStored(calls, store.snapshot, Expected)
               /\ Redraws(calls) \/ widget = store.snapshot

-----------------------------------------------------------------------------
(* The reminders.  Plans the phone may hold, once the queue is empty: that *)
(* of the account signed in, and after its session none.                   *)
Plans == lastPlan \cup (IF account = Nobody /\ ~left THEN {{}} ELSE {})

Ends(plan) ==
    IF jobs = <<>> THEN scheduled \subseteq plan
    ELSE LET job == jobs[Len(jobs)] IN
         /\ job.then \subseteq plan
         /\ job.does = "schedule" => scheduled \subseteq plan

RemindersInv ==
    /\ \A i \in 2..Len(jobs) : jobs[i].does = "cancel"
    /\ account = Nobody => lastPlan = {}
    /\ \A plan \in Plans : Ends(plan)

IInv == PhoneTypeOK /\ LockInv /\ WidgetInv /\ RemindersInv

-----------------------------------------------------------------------------
(* Sequences of calls.                                                     *)
LEMMA Joined ==
  ASSUME NEW S, NEW s \in Seq(S), NEW e \in Seq(S)
  PROVE  /\ s \o e \in Seq(S) /\ Len(s \o e) = Len(s) + Len(e)
         /\ Len(s) \in Nat /\ Len(e) \in Nat
         /\ \A i \in 1..Len(s) : i \in 1..Len(s \o e) /\ (s \o e)[i] = s[i]
         /\ \A i \in 1..Len(e) : Len(s) + i \in 1..Len(s \o e) /\ (s \o e)[Len(s) + i] = e[i]
         /\ \A i \in 1..Len(s \o e) : i \in 1..Len(s) \/ (i > Len(s) /\ i - Len(s) \in 1..Len(e))
OBVIOUS

LEMMA Answered ==
  ASSUME NEW S, NEW s \in Seq(S), s # <<>>
  PROVE  /\ Head(s) \in S /\ Head(s) = s[1] /\ 1 \in 1..Len(s)
         /\ Tail(s) \in Seq(S) /\ Len(Tail(s)) = Len(s) - 1 /\ Len(s) \in Nat
         /\ \A i \in 1..Len(Tail(s)) : i + 1 \in 1..Len(s) /\ Tail(s)[i] = s[i + 1]
OBVIOUS

LEMMA StillLeaves ==
  ASSUME NEW S, NEW s \in Seq(S), NEW e \in Seq(S), NEW snap, NEW v, LeavesStored(s, snap, v),
         \A i \in 1..Len(e) : e[i].does # "saveSnapshot"
  PROVE  LeavesStored(s \o e, snap, v)
<1>1. ASSUME NEW i \in 1..Len(s \o e), (s \o e)[i].does = "saveSnapshot",
             \A j \in i+1..Len(s \o e) : (s \o e)[j].does # "saveSnapshot"
      PROVE  (s \o e)[i].value = v
  <2>1. i \in 1..Len(s)
    <3>1. CASE i > Len(s) /\ i - Len(s) \in 1..Len(e)
      <4>1. (s \o e)[Len(s) + (i - Len(s))] = e[i - Len(s)]
        BY <3>1, Joined
      <4>2. Len(s) + (i - Len(s)) = i
        BY <3>1, Joined
      <4> QED
        BY <1>1, <3>1, <4>1, <4>2
    <3> QED
      BY <3>1, Joined
  <2>2. \A j \in i+1..Len(s) : s[j].does # "saveSnapshot"
    <3>1. \A j \in i+1..Len(s) : j \in 1..Len(s) /\ j \in i+1..Len(s \o e)
      BY <2>1, Joined
    <3> QED
      BY <1>1, <3>1, Joined
  <2> QED
    BY <1>1, <2>1, <2>2, Joined DEF LeavesStored
<1>2. ASSUME \A i \in 1..Len(s \o e) : (s \o e)[i].does # "saveSnapshot"
      PROVE  snap = v
  BY <1>2, Joined DEF LeavesStored
<1> QED
  BY <1>1, <1>2 DEF LeavesStored

LEMMA NowLeaves ==
  ASSUME NEW S, NEW s \in Seq(S), NEW c \in S, c.does = "saveSnapshot", NEW snap
  PROVE  LeavesStored(s \o <<c>>, snap, c.value) /\ Redraws(s \o <<c>>)
<1>1. <<c>> \in Seq(S) /\ Len(<<c>>) = 1 /\ <<c>>[1] = c
  OBVIOUS
<1>2. /\ Len(s) \in Nat /\ Len(s \o <<c>>) = Len(s) + 1
      /\ Len(s) + 1 \in 1..Len(s \o <<c>>) /\ (s \o <<c>>)[Len(s) + 1] = c
  BY <1>1, Joined
<1>3. \A i \in 1..Len(s \o <<c>>) : i = Len(s) + 1 \/ Len(s) + 1 \in i+1..Len(s \o <<c>>)
  BY <1>2
<1> QED
  BY <1>2, <1>3 DEF LeavesStored, Redraws

LEMMA LeavesAfterAnswer ==
  ASSUME NEW S, NEW s \in Seq(S), s # <<>>, NEW snap, NEW v, LeavesStored(s, snap, v)
  PROVE  LeavesStored(Tail(s), IF Head(s).does = "saveSnapshot" THEN Head(s).value ELSE snap, v)
<1>1. ASSUME NEW i \in 1..Len(Tail(s)), Tail(s)[i].does = "saveSnapshot",
             \A j \in i+1..Len(Tail(s)) : Tail(s)[j].does # "saveSnapshot"
      PROVE  Tail(s)[i].value = v
  <2>1. i + 1 \in 1..Len(s) /\ Tail(s)[i] = s[i + 1]
    BY Answered
  <2>2. ASSUME NEW j \in (i+1)+1..Len(s) PROVE s[j].does # "saveSnapshot"
    <3>1. j - 1 \in i+1..Len(Tail(s)) /\ j - 1 \in 1..Len(Tail(s)) /\ (j - 1) + 1 = j
      BY Answered
    <3> QED
      BY <1>1, <3>1, Answered
  <2> QED
    BY <1>1, <2>1, <2>2 DEF LeavesStored
<1>2. ASSUME \A i \in 1..Len(Tail(s)) : Tail(s)[i].does # "saveSnapshot"
      PROVE  (IF Head(s).does = "saveSnapshot" THEN Head(s).value ELSE snap) = v
  <2>1. ASSUME NEW j \in 2..Len(s) PROVE s[j].does # "saveSnapshot"
    <3>1. j - 1 \in 1..Len(Tail(s)) /\ (j - 1) + 1 = j
      BY Answered
    <3> QED
      BY <1>2, <3>1, Answered
  <2>2. Head(s) = s[1] /\ 1 \in 1..Len(s) /\ \A j \in 1..Len(s) : j = 1 \/ j \in 2..Len(s)
    BY Answered
  <2>3. CASE Head(s).does = "saveSnapshot"
    <3>1. s[1].value = v
      <4>1. s[1].does = "saveSnapshot" /\ 1 \in 1..Len(s)
        BY <2>2, <2>3
      <4>2. \A j \in 1+1..Len(s) : s[j].does # "saveSnapshot"
        BY <2>1
      <4> QED
        BY <4>1, <4>2 DEF LeavesStored
    <3> QED
      BY <2>2, <2>3, <3>1
  <2>4. CASE Head(s).does # "saveSnapshot"
    <3>1. \A j \in 1..Len(s) : s[j].does # "saveSnapshot"
      BY <2>1, <2>2, <2>4
    <3> QED
      BY <2>4, <3>1 DEF LeavesStored
  <2> QED
    BY <2>3, <2>4
<1> QED
  BY <1>1, <1>2 DEF LeavesStored

LEMMA NoneEnabling ==
  ASSUME NEW S, NEW s \in Seq(S), NEW e \in Seq(S), Enabling(e) = {}
  PROVE  Enabling(s \o e) = Enabling(s)
<1>1. ASSUME NEW i \in 1..Len(s) PROVE i \in Enabling(s \o e) <=> i \in Enabling(s)
  BY Joined DEF Enabling
<1>2. ASSUME NEW i \in Enabling(s \o e) PROVE i \in 1..Len(s)
  <2>1. i \in 1..Len(s \o e) /\ (s \o e)[i].then = "enabled"
    BY DEF Enabling
  <2>2. CASE i > Len(s) /\ i - Len(s) \in 1..Len(e)
    <3>1. (s \o e)[i] = e[i - Len(s)]
      <4>1. (s \o e)[Len(s) + (i - Len(s))] = e[i - Len(s)]
        BY <2>2, Joined
      <4>2. Len(s) + (i - Len(s)) = i
        BY <2>1, Joined
      <4> QED
        BY <4>1, <4>2
    <3>2. i - Len(s) \in Enabling(e)
      BY <2>1, <2>2, <3>1 DEF Enabling
    <3> QED
      BY <3>2
  <2> QED
    BY <2>1, <2>2, Joined
<1>3. Enabling(s) \subseteq 1..Len(s)
  BY DEF Enabling
<1> QED
  BY <1>1, <1>2, <1>3

LEMMA EnablingLeft ==
  ASSUME NEW S, NEW s \in Seq(S), s # <<>>
  PROVE  /\ \A i \in Enabling(Tail(s)) : i + 1 \in Enabling(s) /\ i \in Nat /\ i # 0
         /\ Head(s).then = "enabled" => 1 \in Enabling(s)
<1>1. ASSUME NEW i \in Enabling(Tail(s)) PROVE i + 1 \in Enabling(s) /\ i \in Nat /\ i # 0
  <2>1. i \in 1..Len(Tail(s)) /\ Tail(s)[i].then = "enabled"
    BY DEF Enabling
  <2> QED
    BY <2>1, Answered DEF Enabling
<1> QED
  BY <1>1, Answered DEF Enabling

-----------------------------------------------------------------------------
(* Types.                                                                  *)
LEMMA StartingValues ==
  /\ NewLock \in [enabled: BOOLEAN, locked: BOOLEAN, covered: BOOLEAN, leftAt: SUBSET Int]
  /\ NothingOwed \in [since: SUBSET Nat, skew: Nat, due: BOOLEAN]
  /\ NewLock.enabled = FALSE /\ NewLock.locked = FALSE /\ NewLock.leftAt = {}
  /\ NothingOwed.since = {} /\ NothingOwed.skew = 0 /\ NothingOwed.due = FALSE
  /\ NoSnapshot \in Snapshots
<1>1. 0 \in 0..MaxVersion
  BY MaxVersionIsCount
<1> QED
  BY <1>1 DEF NewLock, NothingOwed, Never, NoSnapshot, Snapshots

LEMMA CallsTyped ==
  /\ deleteChoice \in Seq(Calls) /\ redraw \in Seq(Calls) /\ forgetWidget \in Seq(Calls)
  /\ <<>> \in Seq(Calls)
  /\ Enabling(deleteChoice) = {} /\ Enabling(redraw) = {} /\ Enabling(forgetWidget) = {}
  /\ Enabling(<<>>) = {}
  /\ \A i \in 1..Len(deleteChoice) : deleteChoice[i].does # "saveSnapshot"
  /\ \A i \in 1..Len(redraw) : redraw[i].does # "saveSnapshot"
  /\ Len(redraw) = 1 /\ redraw[1].does = "loadSnapshot"
<1>1. Call("saveLock", FALSE, "done") \in Calls
  BY DEF Call, Calls
<1>2. Call("loadSnapshot", NoSnapshot, "draw") \in Calls
  BY StartingValues DEF Call, Calls
<1>3. Call("saveSnapshot", NoSnapshot, "redraw") \in Calls
  BY StartingValues DEF Call, Calls
<1>4. ASSUME NEW c \in Calls PROVE <<c>> \in Seq(Calls) /\ Len(<<c>>) = 1 /\ <<c>>[1] = c
  OBVIOUS
<1>5. deleteChoice \in Seq(Calls) /\ redraw \in Seq(Calls) /\ forgetWidget \in Seq(Calls)
  BY <1>1, <1>2, <1>3, <1>4 DEF deleteChoice, redraw, forgetWidget
<1>6. Enabling(deleteChoice) = {} /\ Enabling(redraw) = {} /\ Enabling(forgetWidget) = {}
  BY DEF deleteChoice, redraw, forgetWidget, Call, Enabling
<1> QED
  BY <1>5, <1>6 DEF deleteChoice, redraw, Call, Enabling

LEMMA SyncTyped ==
  ASSUME NEW a \in Accounts \cup {Nobody}, NEW n \in 0..MaxVersion, NEW h \in BOOLEAN
  PROVE  /\ syncWidget(a, n, h) \in Seq(Calls) /\ Enabling(syncWidget(a, n, h)) = {}
         /\ (a = Nobody \/ n = 0) => syncWidget(a, n, h) = <<>>
         /\ (a # Nobody /\ n # 0) => \E c \in Calls :
               /\ syncWidget(a, n, h) = <<c>>
               /\ c.does = "saveSnapshot" /\ c.value = Snapshot(a, n, h)
<1>1. CASE a = Nobody \/ n = 0
  BY <1>1, CallsTyped DEF syncWidget
<1>2. CASE ~(a = Nobody \/ n = 0)
  <2>1. PICK c : c = Call("saveSnapshot", Snapshot(a, n, h), "redraw")
    OBVIOUS
  <2>2. c \in Calls
    BY <2>1 DEF Call, Calls, Snapshot, Snapshots
  <2>3. c.does = "saveSnapshot" /\ c.value = Snapshot(a, n, h) /\ c.then = "redraw"
    BY <2>1 DEF Call
  <2>4. syncWidget(a, n, h) = <<c>>
    BY <1>2, <2>1 DEF syncWidget
  <2>5. <<c>> \in Seq(Calls) /\ Enabling(<<c>>) = {}
    BY <2>2, <2>3 DEF Enabling
  <2> QED
    BY <1>2, <2>2, <2>3, <2>4, <2>5
<1> QED
  BY <1>1, <1>2

LEMMA SwitchedTyped ==
  ASSUME TypeOK, NEW on \in BOOLEAN
  PROVE  /\ Switched(on) \in Seq(Calls) /\ Enabling(Switched(on)) = {}
         /\ on = lock.enabled => Switched(on) = <<>>
         /\ on # lock.enabled => Switched(on) = syncWidget(account, budget, hideAmounts \/ on)
<1>1. hideAmounts \/ on \in BOOLEAN
  BY DEF TypeOK
<1>2. CASE on = lock.enabled
  BY <1>2, CallsTyped DEF Switched
<1>3. CASE on # lock.enabled
  <2>1. Switched(on) = syncWidget(account, budget, hideAmounts \/ on)
    BY <1>3 DEF Switched, Hidden
  <2>2. account \in Accounts \cup {Nobody} /\ budget \in 0..MaxVersion
    BY DEF TypeOK
  <2>3. PICK h : h = (hideAmounts \/ on)
    OBVIOUS
  <2>4. h \in BOOLEAN
    BY <1>1, <2>3
  <2>5. Switched(on) = syncWidget(account, budget, h)
    BY <2>1, <2>3
  <2>6. Switched(on) \in Seq(Calls) /\ Enabling(Switched(on)) = {}
    BY <2>2, <2>4, <2>5, SyncTyped
  <2> QED
    BY <1>3, <2>1, <2>6
<1> QED
  BY <1>2, <1>3

LEMMA TimesTyped ==
  ASSUME TypeOK
  PROVE  /\ skew \in Nat /\ clock \in Nat /\ Seen \in Int /\ clock + 1 \in Nat
         /\ \A t \in owes.since : t \in Nat
         /\ \A t \in lock.leftAt : t \in Int
BY SkewsAreTime DEF TypeOK, Seen

LEMMA LockTypes ==
  ASSUME TypeOK, LockStep
  PROVE  TypeOK'
<1>1. CASE EnableAsks
  BY <1>1 DEF TypeOK, EnableAsks
<1>2. CASE EnableAnswered
  <2>1. Call("saveLock", TRUE, "enabled") \in Calls
    BY DEF Call, Calls
  <2>2. PICK c : c = Call("saveLock", TRUE, "enabled")
    OBVIOUS
  <2>3. calls \in Seq(Calls) /\ Append(calls, c) \in Seq(Calls)
    <3>1. calls \in Seq(Calls)
      BY DEF TypeOK
    <3>2. c \in Calls
      BY <2>1, <2>2
    <3> QED
      BY <3>1, <3>2
  <2>4. calls' \in Seq(Calls)
    BY <1>2, <2>2, <2>3 DEF EnableAnswered
  <2> QED
    BY <1>2, <2>4 DEF TypeOK, EnableAnswered
<1>3. ASSUME turnOff PROVE calls' \in Seq(Calls)
  <2>1. Switched(FALSE) \in Seq(Calls) /\ deleteChoice \in Seq(Calls) /\ calls \in Seq(Calls)
    BY SwitchedTyped, CallsTyped DEF TypeOK
  <2>2. calls \o deleteChoice \in Seq(Calls)
    BY <2>1, Joined
  <2>3. (calls \o deleteChoice) \o Switched(FALSE) \in Seq(Calls)
    BY <2>1, <2>2, Joined
  <2> QED
    BY <1>3, <2>3 DEF turnOff
<1>4. CASE Disable
  <2>1. /\ lock' \in [enabled: BOOLEAN, locked: BOOLEAN, covered: BOOLEAN, leftAt: SUBSET Int]
        /\ owes' \in [since: SUBSET Nat, skew: Nat, due: BOOLEAN]
    BY <1>4, StartingValues DEF Disable, turnOff
  <2> QED
    BY <1>3, <1>4, <2>1 DEF TypeOK, Disable
<1>5. CASE Unlock
  BY <1>5 DEF TypeOK, Unlock
<1>6. CASE Unlocked
  BY <1>6, StartingValues DEF TypeOK, Unlocked
<1>7. CASE UnlockFails
  <2>1. CASE turnOff
    <3>1. /\ lock' \in [enabled: BOOLEAN, locked: BOOLEAN, covered: BOOLEAN, leftAt: SUBSET Int]
          /\ owes' \in [since: SUBSET Nat, skew: Nat, due: BOOLEAN]
      BY <2>1, StartingValues DEF turnOff
    <3> QED
      BY <1>3, <1>7, <2>1, <3>1 DEF TypeOK, UnlockFails
  <2>2. CASE UNCHANGED <<lock, calls, owes>>
    BY <1>7, <2>2 DEF TypeOK, UnlockFails
  <2> QED
    BY <1>7, <2>1, <2>2 DEF UnlockFails
<1>8. CASE SetPhoneLock
  BY <1>8 DEF TypeOK, SetPhoneLock
<1>9. CASE Comes
  <2>1. lock' \in [enabled: BOOLEAN, locked: BOOLEAN, covered: BOOLEAN, leftAt: SUBSET Int]
    BY <1>9 DEF TypeOK, Comes, Never
  <2>2. prompt' \in {"none", "enable", "unlock"}
    BY <1>9 DEF TypeOK, Comes
  <2>3. PICK due : due = (owes.due \/ Returned)
    OBVIOUS
  <2>4. due \in BOOLEAN
    <3>1. owes.due \in BOOLEAN
      BY DEF TypeOK
    <3> QED
      BY <2>3, <3>1
  <2>5. owes' = [NothingOwed EXCEPT !.due = due]
    BY <1>9, <2>3 DEF Comes
  <2>6. owes' \in [since: SUBSET Nat, skew: Nat, due: BOOLEAN]
    BY <2>4, <2>5, StartingValues
  <2> QED
    BY <1>9, <2>1, <2>2, <2>6 DEF TypeOK, Comes
<1>10. ASSUME NEW to \in {"inactive", "background"}, Leaves(to) PROVE TypeOK'
  <2>1. lock' \in [enabled: BOOLEAN, locked: BOOLEAN, covered: BOOLEAN, leftAt: SUBSET Int]
    <3>1. {Seen} \in SUBSET Int
      BY TimesTyped
    <3>2. CASE UNCHANGED lock
      BY <3>2 DEF TypeOK
    <3>3. CASE \E m \in {lock.leftAt, {Seen}} : lock' = [lock EXCEPT !.covered = TRUE, !.leftAt = m]
      BY <3>1, <3>3 DEF TypeOK
    <3> QED
      BY <1>10, <3>2, <3>3 DEF Leaves
  <2>2. owes' \in [since: SUBSET Nat, skew: Nat, due: BOOLEAN]
    BY <1>10, TimesTyped DEF Leaves, TypeOK
  <2> QED
    BY <1>10, <2>1, <2>2 DEF TypeOK, Leaves
<1>11. CASE LoadBudget
  <2>1. budget' \in 0..MaxVersion
    BY <1>11, MaxVersionIsCount DEF LoadBudget, TypeOK
  <2>2. PICK h : h = Hidden(lock.enabled)
    OBVIOUS
  <2>3. h \in BOOLEAN
    BY <2>2 DEF Hidden, TypeOK
  <2>4. calls' \in Seq(Calls)
    <3>1. syncWidget(account, budget', h) \in Seq(Calls)
      BY <2>1, <2>3, SyncTyped DEF TypeOK
    <3> QED
      BY <1>11, <2>2, <3>1 DEF LoadBudget, TypeOK
  <2> QED
    BY <1>11, <2>1, <2>4 DEF TypeOK, LoadBudget
<1>12. CASE ToggleHidden
  <2>1. PICK h : h = (hideAmounts' \/ lock.enabled)
    OBVIOUS
  <2>2. h \in BOOLEAN
    BY <2>1
  <2>3. calls' \in Seq(Calls)
    <3>1. syncWidget(account, budget, h) \in Seq(Calls)
      BY <2>2, SyncTyped DEF TypeOK
    <3> QED
      BY <1>12, <2>1, <3>1 DEF ToggleHidden, TypeOK
  <2>4. hideAmounts' \in BOOLEAN
    BY <1>12 DEF ToggleHidden
  <2> QED
    BY <1>12, <2>3, <2>4 DEF TypeOK, ToggleHidden
<1>13. CASE StoreAnswers
  <2>1. /\ calls \in Seq(Calls) /\ calls # <<>> /\ Head(calls) \in Calls /\ Tail(calls) \in Seq(Calls)
    BY <1>13 DEF StoreAnswers, TypeOK
  <2>2. store' \in [lock: BOOLEAN, snapshot: Snapshots]
    BY <1>13, <2>1 DEF StoreAnswers, TypeOK, Calls
  <2>3. lock' \in [enabled: BOOLEAN, locked: BOOLEAN, covered: BOOLEAN, leftAt: SUBSET Int]
    BY <1>13 DEF StoreAnswers, TypeOK
  <2>4. calls' \in Seq(Calls)
    <3>1. /\ redraw \in Seq(Calls) /\ Switched(TRUE) \in Seq(Calls) /\ <<>> \in Seq(Calls)
      BY SwitchedTyped, CallsTyped
    <3>2. PICK e : /\ e \in {redraw, Switched(TRUE), <<>>} /\ calls' = Tail(calls) \o e
      BY <1>13 DEF StoreAnswers
    <3>3. e \in Seq(Calls)
      BY <3>1, <3>2
    <3> QED
      BY <2>1, <3>2, <3>3, Joined
  <2>5. widget' \in Snapshots
    BY <1>13 DEF StoreAnswers, TypeOK
  <2> QED
    BY <1>13, <2>2, <2>3, <2>4, <2>5 DEF TypeOK, StoreAnswers
<1>14. CASE Tick
  BY <1>14 DEF TypeOK, Tick
<1>15. ASSUME NEW n \in Skews, SetClockBack(n) PROVE TypeOK'
  BY <1>15 DEF TypeOK, SetClockBack
<1> QED
  BY <1>1, <1>2, <1>4, <1>5, <1>6, <1>7, <1>8, <1>9, <1>10, <1>11, <1>12, <1>13, <1>14, <1>15
  DEF LockStep

LEMMA SessionTypes ==
  ASSUME TypeOK, SessionStep
  PROVE  TypeOK'
<1>1. 0 \in 0..MaxVersion
  BY MaxVersionIsCount
<1>2. CASE SignOut
  <2>1. /\ deleteChoice \in Seq(Calls) /\ forgetWidget \in Seq(Calls) /\ calls \in Seq(Calls)
    BY CallsTyped DEF TypeOK
  <2>2. calls' \in Seq(Calls)
    BY <1>2, <2>1 DEF SignOut
  <2>3. /\ lock' \in [enabled: BOOLEAN, locked: BOOLEAN, covered: BOOLEAN, leftAt: SUBSET Int]
        /\ owes' \in [since: SUBSET Nat, skew: Nat, due: BOOLEAN]
    BY <1>2, StartingValues DEF SignOut
  <2> QED
    BY <1>1, <1>2, <2>2, <2>3 DEF TypeOK, SignOut
<1>3. CASE Restart
  <2>1. PICK on : on = (store.lock /\ phoneLock)
    OBVIOUS
  <2>2. on \in BOOLEAN
    BY <2>1
  <2>3. /\ lock' = [NewLock EXCEPT !.enabled = on, !.locked = on]
        /\ prompt' = IF on THEN "unlock" ELSE "none"
        /\ store' = [store EXCEPT !.lock = on]
        /\ owes' = [NothingOwed EXCEPT !.due = on]
    BY <1>3, <2>1 DEF Restart
  <2>4. /\ lock' \in [enabled: BOOLEAN, locked: BOOLEAN, covered: BOOLEAN, leftAt: SUBSET Int]
        /\ owes' \in [since: SUBSET Nat, skew: Nat, due: BOOLEAN]
    BY <2>2, <2>3, StartingValues
  <2>5. store' \in [lock: BOOLEAN, snapshot: Snapshots]
    BY <2>2, <2>3 DEF TypeOK
  <2>6. cut' \in BOOLEAN
    BY <1>3 DEF Restart
  <2> QED
    BY <1>1, <1>3, <2>3, <2>4, <2>5, <2>6, CallsTyped DEF TypeOK, Restart
<1>4. ASSUME NEW a \in Accounts, SignIn(a) PROVE TypeOK'
  BY <1>1, <1>4 DEF TypeOK, SignIn
<1> QED
  BY <1>2, <1>3, <1>4 DEF SessionStep

-----------------------------------------------------------------------------
(* The lock.                                                               *)

(* Switching off keeps what is under way, with the choice deleted.         *)
LEMMA TurnedOff ==
  ASSUME TypeOK, turnOff
  PROVE  /\ Enabling(calls') = Enabling(calls)
         /\ ~lock'.enabled /\ ~lock'.locked /\ lock'.leftAt = Never /\ owes' = NothingOwed
<1>1. /\ Switched(FALSE) \in Seq(Calls) /\ deleteChoice \in Seq(Calls) /\ calls \in Seq(Calls)
      /\ Enabling(Switched(FALSE)) = {} /\ Enabling(deleteChoice) = {}
  BY SwitchedTyped, CallsTyped DEF TypeOK
<1>2. calls \o deleteChoice \in Seq(Calls)
  BY <1>1, Joined
<1>3. Enabling((calls \o deleteChoice) \o Switched(FALSE)) = Enabling(calls \o deleteChoice)
  BY <1>1, <1>2, NoneEnabling
<1>4. Enabling(calls \o deleteChoice) = Enabling(calls)
  BY <1>1, NoneEnabling
<1>5. calls' = (calls \o deleteChoice) \o Switched(FALSE)
  BY DEF turnOff
<1> QED
  BY <1>3, <1>4, <1>5, StartingValues DEF turnOff, Never

(* An owner who comes back late finds the lock locked. *)
LEMMA LateIsNoticed ==
  ASSUME TypeOK, MomentKept, lock.enabled, ~lock.locked, Returned
  PROVE  shouldLockOnReturn(lock.leftAt, Seen)
<1>1. PICK t \in owes.since :
        (clock - t >= LockAfter) /\ ((skew = owes.skew) \/ (skew > clock - t))
  BY DEF Returned
<1>2. /\ t \in Nat /\ clock \in Nat /\ skew \in Nat /\ owes.skew \in {0, skew}
      /\ LockAfter \in Nat
  BY TimesTyped, LockAfterIsTime DEF MomentKept
<1>3. t - owes.skew \in lock.leftAt
  BY DEF MomentKept
<1>4. Seen - (t - owes.skew) < 0 \/ Seen - (t - owes.skew) >= LockAfter
  <2>1. CASE skew = owes.skew
    <3>1. PICK d : d = Seen - (t - owes.skew)
      OBVIOUS
    <3>2. d = clock - t
      BY <1>2, <2>1, <3>1 DEF Seen
    <3>3. d >= LockAfter
      BY <1>1, <1>2, <3>2
    <3> QED
      BY <3>1, <3>3
  <2>2. CASE owes.skew = 0 /\ skew > clock - t
    BY <1>2, <2>2 DEF Seen
  <2> QED
    BY <1>1, <1>2, <2>1, <2>2
<1> QED
  BY <1>3, <1>4 DEF shouldLockOnReturn

LEMMA LockKept ==
  ASSUME TypeOK, LockInv, LockStep
  PROVE  LockInv'
<1>0. Answerable /\ OffIsOff /\ MomentKept /\ DueIsLocked /\ calls \in Seq(Calls)
  BY DEF LockInv, TypeOK
<1>1. CASE EnableAsks
  <2>1. Enabling(calls) = {}
    BY <1>0, <1>1 DEF EnableAsks, Enabling
  <2> QED
    BY <1>0, <1>1, <2>1
    DEF EnableAsks, LockInv, Answerable, OffIsOff, MomentKept, DueIsLocked
<1>2. CASE EnableAnswered
  <2>1. Enabling(calls) = {}
    BY <1>0, <1>2 DEF EnableAnswered, Answerable
  <2>2. \A i, j \in Enabling(calls') : i = j
    <3>1. PICK c : c = Call("saveLock", TRUE, "enabled")
      OBVIOUS
    <3>2. CASE calls' = Append(calls, c)
      <4>1. ASSUME NEW i \in Enabling(calls') PROVE i = Len(calls) + 1
        <5>1. i \in 1..Len(calls) + 1 /\ Append(calls, c)[i].then = "enabled" /\ Len(calls) \in Nat
          BY <1>0, <3>2 DEF Enabling
        <5>2. ~ i \in 1..Len(calls)
          <6>1. SUFFICES ASSUME i \in 1..Len(calls) PROVE FALSE
            OBVIOUS
          <6>2. Append(calls, c)[i] = calls[i]
            BY <1>0, <6>1
          <6> QED
            BY <2>1, <5>1, <6>1, <6>2 DEF Enabling
        <5> QED
          BY <5>1, <5>2
      <4> QED
        BY <4>1
    <3>3. CASE calls' = calls
      BY <2>1, <3>3
    <3> QED
      BY <1>2, <3>1, <3>2, <3>3 DEF EnableAnswered
  <2>3. ~lock.enabled /\ prompt' = "none" /\ UNCHANGED <<lock, owes, app, clock, skew>>
    BY <1>0, <1>2 DEF EnableAnswered, Answerable
  <2> QED
    BY <1>0, <2>2, <2>3 DEF LockInv, Answerable, OffIsOff, MomentKept, DueIsLocked
<1>3. ASSUME turnOff, prompt' \in {"none", prompt}, UNCHANGED <<clock, skew, app>>,
             prompt # "enable"
      PROVE  LockInv'
  <2>1. /\ Enabling(calls') = Enabling(calls)
        /\ ~lock'.enabled /\ ~lock'.locked /\ lock'.leftAt = Never /\ owes' = NothingOwed
    BY <1>3, TurnedOff
  <2>2. Answerable'
    BY <1>0, <1>3, <2>1 DEF Answerable
  <2>3. OffIsOff' /\ DueIsLocked'
    BY <2>1 DEF OffIsOff, DueIsLocked
  <2>4. MomentKept'
    BY <2>1, StartingValues DEF MomentKept
  <2> QED
    BY <2>2, <2>3, <2>4 DEF LockInv
<1>4. CASE Disable
  BY <1>3, <1>4 DEF Disable, authenticating
<1>5. CASE Unlock
  <2>1. lock.enabled /\ lock.locked /\ Enabling(calls) = {}
    BY <1>0, <1>5 DEF Unlock, OffIsOff, Answerable
  <2> QED
    BY <1>0, <1>5, <2>1
    DEF Unlock, LockInv, Answerable, OffIsOff, MomentKept, DueIsLocked
<1>6. CASE Unlocked
  <2>1. /\ lock' \in [enabled: BOOLEAN, locked: BOOLEAN, covered: BOOLEAN, leftAt: SUBSET Int]
        /\ lock'.enabled = lock.enabled /\ lock'.locked = FALSE /\ lock'.leftAt = lock.leftAt
    BY <1>6 DEF Unlocked, TypeOK
  <2>2. /\ prompt = "unlock" /\ prompt' = "none" /\ owes' = NothingOwed
        /\ UNCHANGED <<calls, clock, skew, app>> /\ lock.leftAt = {}
    BY <1>0, <1>6 DEF Unlocked, MomentKept, Never
  <2>3. Answerable'
    BY <1>0, <2>1, <2>2 DEF Answerable
  <2>4. OffIsOff' /\ DueIsLocked'
    BY <2>1, <2>2, StartingValues DEF OffIsOff, DueIsLocked, Never
  <2>5. MomentKept'
    BY <2>1, <2>2, StartingValues DEF MomentKept, Never
  <2> QED
    BY <2>3, <2>4, <2>5 DEF LockInv
<1>7. CASE UnlockFails
  <2>1. CASE turnOff
    BY <1>3, <1>7, <2>1 DEF UnlockFails
  <2>2. CASE UNCHANGED <<lock, calls, owes>>
    <3>1. prompt = "unlock" /\ prompt' = "none" /\ UNCHANGED <<lock, calls, owes, clock, skew, app>>
      BY <1>7, <2>2 DEF UnlockFails
    <3> QED
      BY <1>0, <3>1 DEF LockInv, Answerable, OffIsOff, MomentKept, DueIsLocked
  <2> QED
    BY <1>7, <2>1, <2>2 DEF UnlockFails
<1>8. ASSUME UNCHANGED <<lock, prompt, owes, app, clock, skew>>, Enabling(calls') = Enabling(calls)
      PROVE  LockInv'
  BY <1>0, <1>8 DEF LockInv, Answerable, OffIsOff, MomentKept, DueIsLocked
<1>9. CASE SetPhoneLock
  BY <1>8, <1>9 DEF SetPhoneLock
<1>10. CASE LoadBudget
  <2>1. PICK h : h = Hidden(lock.enabled)
    OBVIOUS
  <2>2. h \in BOOLEAN /\ account \in Accounts \cup {Nobody} /\ budget' \in 0..MaxVersion
    BY <1>10, <2>1, MaxVersionIsCount DEF Hidden, LoadBudget, TypeOK
  <2>3. calls' = calls \o syncWidget(account, budget', h)
    BY <1>10, <2>1 DEF LoadBudget
  <2>4. Enabling(calls') = Enabling(calls)
    BY <1>0, <2>2, <2>3, SyncTyped, NoneEnabling
  <2> QED
    BY <1>8, <1>10, <2>4 DEF LoadBudget
<1>11. CASE ToggleHidden
  <2>1. PICK h : h = (hideAmounts' \/ lock.enabled)
    OBVIOUS
  <2>2. h \in BOOLEAN /\ account \in Accounts \cup {Nobody} /\ budget \in 0..MaxVersion
    BY <2>1 DEF TypeOK
  <2>3. calls' = calls \o syncWidget(account, budget, h)
    BY <1>11, <2>1 DEF ToggleHidden
  <2>4. Enabling(calls') = Enabling(calls)
    BY <1>0, <2>2, <2>3, SyncTyped, NoneEnabling
  <2> QED
    BY <1>8, <1>11, <2>4 DEF ToggleHidden
<1>12. CASE StoreAnswers
  <2>1. /\ calls # <<>> /\ Tail(calls) \in Seq(Calls) /\ UNCHANGED <<prompt, owes, app, clock, skew>>
    BY <1>0, <1>12, Answered DEF StoreAnswers
  <2>2. Enabling(calls') = Enabling(Tail(calls))
    <3>1. PICK e : /\ e \in {redraw, Switched(TRUE), <<>>} /\ calls' = Tail(calls) \o e
      BY <1>12 DEF StoreAnswers
    <3>2. e \in Seq(Calls) /\ Enabling(e) = {}
      BY <3>1, SwitchedTyped, CallsTyped
    <3> QED
      BY <2>1, <3>1, <3>2, NoneEnabling
  <2>3. \A i \in Enabling(calls') : i + 1 \in Enabling(calls) /\ i \in Nat /\ i # 0
    BY <1>0, <2>1, <2>2, EnablingLeft
  <2>4. \A i, j \in Enabling(calls') : i = j
    <3> SUFFICES ASSUME NEW i \in Enabling(calls'), NEW j \in Enabling(calls') PROVE i = j
      OBVIOUS
    <3>1. i + 1 = j + 1 /\ i \in Nat /\ j \in Nat
      BY <1>0, <2>3 DEF Answerable
    <3> QED
      BY <3>1
  <2>5. CASE Head(calls).then = "enabled"
    <3>1. 1 \in Enabling(calls)
      BY <1>0, <2>1, <2>5, EnablingLeft
    <3>2. Enabling(calls') = {}
      <4> SUFFICES ASSUME NEW i \in Enabling(calls') PROVE FALSE
        OBVIOUS
      <4>1. i + 1 = 1 /\ i \in Nat /\ i # 0
        BY <1>0, <2>3, <3>1 DEF Answerable
      <4> QED
        BY <4>1
    <3>3. ~lock.enabled /\ prompt = "none" /\ ~lock.locked /\ lock.leftAt = {} /\ owes = NothingOwed
      BY <1>0, <3>1 DEF Answerable, OffIsOff, Never
    <3>4. lock'.enabled = TRUE /\ lock'.locked = lock.locked /\ lock'.leftAt = lock.leftAt
      BY <1>12, <2>5 DEF StoreAnswers, TypeOK
    <3>5. Answerable'
      BY <2>1, <3>2, <3>3 DEF Answerable
    <3>6. OffIsOff' /\ DueIsLocked'
      BY <2>1, <3>3, <3>4, StartingValues DEF OffIsOff, DueIsLocked
    <3>7. MomentKept'
      BY <2>1, <3>3, <3>4, StartingValues DEF MomentKept, Never
    <3> QED
      BY <3>5, <3>6, <3>7 DEF LockInv
  <2>6. CASE Head(calls).then # "enabled"
    <3>1. lock' = lock
      BY <1>12, <2>6 DEF StoreAnswers
    <3>2. Enabling(calls') # {} => Enabling(calls) # {}
      BY <2>3
    <3>3. Answerable'
      BY <1>0, <2>1, <2>4, <3>1, <3>2 DEF Answerable
    <3> QED
      BY <1>0, <2>1, <3>1, <3>3 DEF LockInv, OffIsOff, MomentKept, DueIsLocked
  <2> QED
    BY <2>5, <2>6
<1>13. CASE Tick
  <2>1. UNCHANGED <<lock, prompt, owes, app, skew, calls>> /\ clock' = clock + 1
    BY <1>13 DEF Tick
  <2>2. \A t \in owes.since : t =< clock'
    BY <1>0, <2>1, TimesTyped DEF MomentKept
  <2> QED
    BY <1>0, <2>1, <2>2 DEF LockInv, Answerable, OffIsOff, MomentKept, DueIsLocked
<1>14. ASSUME NEW n \in Skews, SetClockBack(n) PROVE LockInv'
  <2>1. UNCHANGED <<lock, prompt, owes, app, clock, calls>> /\ skew = 0
    BY <1>14 DEF SetClockBack
  <2> QED
    BY <1>0, <2>1 DEF LockInv, Answerable, OffIsOff, MomentKept, DueIsLocked
<1>15. CASE Comes
  <2>1. PICK due : due = (owes.due \/ Returned)
    OBVIOUS
  <2>2. owes' = [NothingOwed EXCEPT !.due = due]
    BY <1>15, <2>1 DEF Comes
  <2>3. /\ UNCHANGED <<calls, clock, skew>> /\ app' = "active"
        /\ owes'.since = {} /\ owes'.skew = 0 /\ owes'.due = due
    BY <1>15, <2>2, StartingValues DEF Comes
  <2>4. owes = NothingOwed => owes' = NothingOwed
    <3> SUFFICES ASSUME owes = NothingOwed PROVE owes' = NothingOwed
      OBVIOUS
    <3>1. ~Returned
      BY StartingValues DEF Returned
    <3>2. owes.due = FALSE
      BY StartingValues
    <3>3. due = FALSE
      BY <2>1, <3>1, <3>2
    <3> QED
      BY <2>2, <3>3 DEF NothingOwed
  <2>5. CASE ~lock.enabled \/ authenticating
    <3>1. UNCHANGED <<lock, prompt>>
      BY <1>15, <2>5 DEF Comes
    <3>2. lock.leftAt = {} /\ (lock.enabled => lock.locked)
      BY <1>0, <2>5 DEF OffIsOff, MomentKept, Answerable, authenticating, Never, TypeOK
    <3>3. Answerable'
      BY <1>0, <2>3, <3>1 DEF Answerable
    <3>4. OffIsOff'
      BY <1>0, <2>4, <3>1 DEF OffIsOff
    <3>5. MomentKept' /\ DueIsLocked'
      BY <2>3, <3>1, <3>2 DEF MomentKept, DueIsLocked, Never
    <3> QED
      BY <3>3, <3>4, <3>5 DEF LockInv
  <2>6. CASE lock.enabled /\ ~authenticating
    <3>1. CASE shouldLockOnReturn(lock.leftAt, Seen)
      <4>1. /\ lock' = [lock EXCEPT !.locked = TRUE, !.covered = FALSE, !.leftAt = Never]
            /\ prompt' = "unlock"
        BY <1>15, <2>6, <3>1 DEF Comes
      <4>2. lock'.enabled /\ lock'.locked /\ lock'.leftAt = {}
        BY <2>6, <4>1 DEF TypeOK, Never
      <4>3. Enabling(calls') = {}
        BY <1>0, <2>3, <2>6 DEF Answerable
      <4>4. Answerable'
        BY <4>1, <4>2, <4>3 DEF Answerable
      <4>5. OffIsOff' /\ MomentKept' /\ DueIsLocked'
        BY <2>3, <4>2 DEF OffIsOff, MomentKept, DueIsLocked, Never
      <4> QED
        BY <4>4, <4>5 DEF LockInv
    <3>2. CASE ~shouldLockOnReturn(lock.leftAt, Seen)
      <4>1. lock' = [lock EXCEPT !.covered = FALSE, !.leftAt = Never] /\ prompt' = prompt
        BY <1>15, <2>6, <3>2 DEF Comes
      <4>2. lock'.enabled = lock.enabled /\ lock'.locked = lock.locked /\ lock'.leftAt = {}
        BY <4>1 DEF TypeOK, Never
      <4>3. Answerable'
        BY <1>0, <2>3, <4>1, <4>2 DEF Answerable
      <4>4. OffIsOff' /\ MomentKept'
        BY <2>3, <2>6, <4>2 DEF OffIsOff, MomentKept, Never
      <4>5. DueIsLocked'
        <5> SUFFICES ASSUME due = TRUE, ~lock.locked PROVE FALSE
          BY <2>1, <2>3, <4>2 DEF DueIsLocked
        <5>1. ~Returned
          BY <1>0, <2>6, <3>2, LateIsNoticed
        <5> QED
          BY <1>0, <2>1, <2>6, <5>1 DEF DueIsLocked
      <4> QED
        BY <4>3, <4>4, <4>5 DEF LockInv
    <3> QED
      BY <3>1, <3>2
  <2> QED
    BY <2>5, <2>6
<1>16. ASSUME NEW to \in {"inactive", "background"}, Leaves(to) PROVE LockInv'
  <2>1. UNCHANGED <<calls, clock, skew, prompt>> /\ app' # "active"
    BY <1>16 DEF Leaves
  <2>2. /\ lock'.enabled = lock.enabled /\ lock'.locked = lock.locked
        /\ owes'.due = owes.due
    BY <1>16 DEF Leaves, TypeOK
  <2>3. CASE ~lock.enabled
    <3>1. UNCHANGED <<lock, owes>>
      BY <1>16, <2>3 DEF Leaves
    <3> QED
      BY <1>0, <2>1, <2>3, <3>1 DEF LockInv, Answerable, OffIsOff, MomentKept, DueIsLocked
  <2>4. CASE lock.enabled
    <3>1. Answerable' /\ DueIsLocked'
      BY <1>0, <2>1, <2>2 DEF Answerable, DueIsLocked
    <3>2. OffIsOff'
      BY <2>2, <2>4 DEF OffIsOff
    <3>3. \/ /\ owes'.since = {clock} /\ owes'.skew = skew /\ to = "background" /\ owes.since = {}
          \/ owes' = owes /\ (to # "background" \/ owes.since # {})
      BY <1>16, <2>4 DEF Leaves, TypeOK, Never
    <3>4. MomentKept'
      <4>1. (\A t \in owes.since : t =< clock)' /\ (owes.skew \in {0, skew})'
        BY <1>0, <2>1, <3>3, TimesTyped DEF MomentKept
      <4>2. (prompt # "none" \/ app = "active" => lock.leftAt = Never)'
        BY <1>0, <1>16, <2>1 DEF MomentKept, Leaves, authenticating
      <4>3. ASSUME ~lock.locked PROVE lock'.leftAt = {t - owes'.skew : t \in owes'.since}
        <5>1. ~authenticating /\ lock.leftAt = {t - owes.skew : t \in owes.since}
          BY <1>0, <2>4, <4>3 DEF Answerable, MomentKept, authenticating, TypeOK
        <5>2. lock.leftAt = {} <=> owes.since = {}
          BY <5>1
        <5>3. lock'.leftAt = IF to = "background" /\ lock.leftAt = {} THEN {Seen} ELSE lock.leftAt
          BY <1>16, <2>4, <5>1 DEF Leaves, TypeOK, Never
        <5>4. CASE /\ owes'.since = {clock} /\ owes'.skew = skew /\ to = "background"
                   /\ owes.since = {}
          BY <5>2, <5>3, <5>4 DEF Seen
        <5>5. CASE owes' = owes /\ (to # "background" \/ owes.since # {})
          BY <5>1, <5>2, <5>3, <5>5
        <5> QED
          BY <3>3, <5>4, <5>5
      <4> QED
        BY <2>2, <4>1, <4>2, <4>3 DEF MomentKept
    <3> QED
      BY <3>1, <3>2, <3>4 DEF LockInv
  <2> QED
    BY <2>3, <2>4
<1> QED
  BY <1>1, <1>2, <1>4, <1>5, <1>6, <1>7, <1>9, <1>10, <1>11, <1>12, <1>13, <1>14, <1>15, <1>16
  DEF LockStep

LEMMA LockKeptBySession ==
  ASSUME TypeOK, LockInv, SessionStep
  PROVE  LockInv'
<1>0. Answerable /\ OffIsOff /\ MomentKept /\ DueIsLocked /\ calls \in Seq(Calls)
  BY DEF LockInv, TypeOK
<1>1. CASE SignOut
  <2>1. /\ lock' = NewLock /\ owes' = NothingOwed /\ UNCHANGED <<clock, skew, app, prompt>>
        /\ calls' = (calls \o deleteChoice) \o forgetWidget
    BY <1>1 DEF SignOut
  <2>2. Enabling(calls') = Enabling(calls)
    <3>1. /\ deleteChoice \in Seq(Calls) /\ forgetWidget \in Seq(Calls)
          /\ Enabling(deleteChoice) = {} /\ Enabling(forgetWidget) = {}
      BY CallsTyped
    <3>2. calls \o deleteChoice \in Seq(Calls)
      BY <1>0, <3>1, Joined
    <3>3. Enabling((calls \o deleteChoice) \o forgetWidget) = Enabling(calls \o deleteChoice)
      BY <3>1, <3>2, NoneEnabling
    <3>4. Enabling(calls \o deleteChoice) = Enabling(calls)
      BY <1>0, <3>1, NoneEnabling
    <3> QED
      BY <2>1, <3>3, <3>4
  <2>3. Answerable'
    BY <1>0, <2>1, <2>2, StartingValues DEF Answerable
  <2>4. OffIsOff' /\ MomentKept' /\ DueIsLocked'
    BY <2>1, StartingValues DEF OffIsOff, MomentKept, DueIsLocked, Never
  <2> QED
    BY <2>3, <2>4 DEF LockInv
<1>2. CASE Restart
  <2>1. PICK on : on = (store.lock /\ phoneLock)
    OBVIOUS
  <2>2. on \in BOOLEAN
    BY <2>1
  <2>3. /\ lock' = [NewLock EXCEPT !.enabled = on, !.locked = on]
        /\ prompt' = (IF on THEN "unlock" ELSE "none")
        /\ owes' = [NothingOwed EXCEPT !.due = on]
        /\ calls' = <<>> /\ UNCHANGED <<clock, skew>>
    BY <1>2, <2>1 DEF Restart
  <2>4. /\ lock'.enabled = on /\ lock'.locked = on /\ lock'.leftAt = {}
        /\ owes'.since = {} /\ owes'.skew = 0 /\ owes'.due = on
    BY <2>3, StartingValues
  <2>5. on = FALSE => owes' = NothingOwed
    BY <2>3 DEF NothingOwed
  <2>6. Answerable'
    BY <2>2, <2>3, <2>4, CallsTyped DEF Answerable
  <2>7. OffIsOff'
    BY <2>2, <2>4, <2>5 DEF OffIsOff, Never
  <2>8. MomentKept' /\ DueIsLocked'
    BY <2>2, <2>4 DEF MomentKept, DueIsLocked, Never
  <2> QED
    BY <2>6, <2>7, <2>8 DEF LockInv
<1>3. ASSUME NEW a \in Accounts, SignIn(a) PROVE LockInv'
  <2>1. UNCHANGED <<lock, prompt, owes, app, clock, skew, calls>>
    BY <1>3 DEF SignIn
  <2> QED
    BY <1>0, <2>1 DEF LockInv, Answerable, OffIsOff, MomentKept, DueIsLocked
<1> QED
  BY <1>1, <1>2, <1>3 DEF SessionStep

-----------------------------------------------------------------------------
(* The widget.                                                             *)

(* Calls that save no snapshot leave what is expected.                     *)
LEMMA WidgetWaits ==
  ASSUME TypeOK, WidgetInv, NEW e \in Seq(Calls), calls' = calls \o e,
         \A i \in 1..Len(e) : e[i].does # "saveSnapshot",
         UNCHANGED <<store, widget>>, Tracked' => Tracked /\ Expected' = Expected
  PROVE  WidgetInv'
<1> SUFFICES ASSUME Tracked'
             PROVE  /\ LeavesStored(calls', store'.snapshot, Expected')
                    /\ Redraws(calls') \/ widget' = store'.snapshot
  BY DEF WidgetInv
<1>1. /\ calls \in Seq(Calls) /\ Expected' = Expected
      /\ LeavesStored(calls, store.snapshot, Expected)
      /\ Redraws(calls) \/ widget = store.snapshot
  BY DEF WidgetInv, TypeOK
<1>2. LeavesStored(calls \o e, store.snapshot, Expected)
  BY <1>1, StillLeaves
<1>3. Redraws(calls) => Redraws(calls \o e)
  BY <1>1, Joined DEF Redraws
<1> QED
  BY <1>1, <1>2, <1>3

(* A call at the end that saves what is expected. *)
LEMMA WidgetSaves ==
  ASSUME TypeOK, NEW s \in Seq(Calls), NEW c \in Calls, c.does = "saveSnapshot", calls' = s \o <<c>>,
         Tracked' => c.value = Expected'
  PROVE  WidgetInv'
BY NowLeaves DEF WidgetInv

(* What the effect of WidgetSync leaves after whatever else was called: it *)
(* saves what is now expected, or nothing is shown.                        *)
LEMMA WidgetSynced ==
  ASSUME TypeOK, TypeOK', NEW s \in Seq(Calls),
         NEW h \in BOOLEAN, h = Hidden(lock.enabled)',
         calls' = s \o syncWidget(account', budget', h), account' # Nobody
  PROVE  WidgetInv'
<1>1. account' \in Accounts \cup {Nobody} /\ budget' \in 0..MaxVersion
  BY DEF TypeOK
<1>2. CASE budget' = 0
  BY <1>2 DEF WidgetInv, Tracked
<1>3. CASE budget' # 0
  <2>1. PICK c \in Calls : /\ syncWidget(account', budget', h) = <<c>>
                          /\ c.does = "saveSnapshot" /\ c.value = Snapshot(account', budget', h)
    BY <1>1, <1>3, SyncTyped
  <2>2. c.value = Expected'
    BY <2>1 DEF Expected, Snapshot
  <2> QED
    BY <2>1, <2>2, WidgetSaves
<1> QED
  BY <1>2, <1>3

LEMMA WidgetKept ==
  ASSUME TypeOK, TypeOK', LockInv, WidgetInv, LockStep
  PROVE  WidgetInv'
<1>0. /\ calls \in Seq(Calls) /\ budget \in 0..MaxVersion /\ lock.enabled \in BOOLEAN
      /\ hideAmounts \in BOOLEAN
  BY DEF TypeOK
<1>1. ASSUME UNCHANGED <<account, store, calls, widget, budget, hideAmounts, cut>>,
             lock'.enabled = lock.enabled
      PROVE  WidgetInv'
  BY <1>1 DEF WidgetInv, Tracked, Expected, Hidden, Snapshot
<1>2. CASE EnableAsks \/ Unlock \/ SetPhoneLock \/ Tick \/ \E n \in Skews : SetClockBack(n)
  BY <1>1, <1>2 DEF EnableAsks, Unlock, SetPhoneLock, Tick, SetClockBack
<1>3. CASE Unlocked
  BY <1>1, <1>3 DEF Unlocked, TypeOK
<1>4. CASE Comes
  <2>1. lock'.enabled = lock.enabled
    BY <1>4 DEF Comes, TypeOK
  <2> QED
    BY <1>1, <1>4, <2>1 DEF Comes
<1>5. ASSUME NEW to \in {"inactive", "background"}, Leaves(to) PROVE WidgetInv'
  <2>1. lock'.enabled = lock.enabled
    BY <1>5 DEF Leaves, TypeOK
  <2> QED
    BY <1>1, <1>5, <2>1 DEF Leaves
<1>6. CASE EnableAnswered
  <2>1. CASE calls' = calls
    BY <1>1, <1>6, <2>1 DEF EnableAnswered
  <2>2. CASE calls' = Append(calls, Call("saveLock", TRUE, "enabled"))
    <3>1. PICK c : c = Call("saveLock", TRUE, "enabled")
      OBVIOUS
    <3>2. c \in Calls /\ c.does # "saveSnapshot"
      BY <3>1 DEF Call, Calls
    <3>3. <<c>> \in Seq(Calls) /\ Len(<<c>>) = 1 /\ <<c>>[1] = c
      BY <3>2
    <3>4. calls' = calls \o <<c>>
      <4>1. calls' = Append(calls, c)
        BY <2>2, <3>1
      <4>2. Append(calls, c) = calls \o <<c>>
        BY <1>0, <3>2
      <4> QED
        BY <4>1, <4>2
    <3>5. /\ UNCHANGED <<store, widget>> /\ Tracked' = Tracked /\ Expected' = Expected
      BY <1>6 DEF EnableAnswered, Tracked, Expected, Hidden, Snapshot
    <3>6. \A i \in 1..Len(<<c>>) : <<c>>[i].does # "saveSnapshot"
      BY <3>2, <3>3
    <3> QED
      BY <3>3, <3>4, <3>5, <3>6, WidgetWaits
  <2> QED
    BY <1>6, <2>1, <2>2 DEF EnableAnswered
<1>7. ASSUME turnOff, UNCHANGED <<account, store, widget, budget, hideAmounts, cut>>
      PROVE  WidgetInv'
  <2>1. lock'.enabled = FALSE /\ calls' = (calls \o deleteChoice) \o Switched(FALSE)
    BY <1>7, StartingValues DEF turnOff
  <2>2. deleteChoice \in Seq(Calls) /\ calls \o deleteChoice \in Seq(Calls)
    BY <1>0, CallsTyped, Joined
  <2>3. CASE lock.enabled = FALSE \/ account = Nobody
    <3>1. Switched(FALSE) = <<>>
      BY <1>0, <2>3, SwitchedTyped DEF syncWidget
    <3>2. calls' = calls \o deleteChoice
      <4>1. (calls \o deleteChoice) \o <<>> = calls \o deleteChoice
        BY <2>2
      <4> QED
        BY <2>1, <3>1, <4>1
    <3>3. /\ UNCHANGED <<store, widget>> /\ Tracked' = Tracked /\ Expected' = Expected
      BY <1>7, <2>1, <2>3 DEF Tracked, Expected, Hidden, Snapshot
    <3> QED
      BY <2>2, <3>2, <3>3, CallsTyped, WidgetWaits
  <2>4. CASE lock.enabled = TRUE /\ account # Nobody
    <3>1. PICK h : h = (hideAmounts \/ FALSE)
      OBVIOUS
    <3>2. h \in BOOLEAN /\ h = Hidden(lock.enabled)'
      BY <1>7, <2>1, <3>1 DEF Hidden
    <3>3. Switched(FALSE) = syncWidget(account', budget', h)
      BY <1>7, <2>4, <3>1, SwitchedTyped
    <3> QED
      BY <1>7, <2>1, <2>2, <2>4, <3>2, <3>3, WidgetSynced
  <2> QED
    BY <1>0, <2>3, <2>4
<1>8. CASE Disable \/ UnlockFails
  <2>1. CASE turnOff
    BY <1>7, <1>8, <2>1 DEF Disable, UnlockFails
  <2>2. CASE ~turnOff
    <3>1. UNCHANGED <<account, lock, store, calls, widget, budget, hideAmounts, cut>>
      BY <1>8, <2>2 DEF Disable, UnlockFails
    <3> QED
      BY <1>1, <3>1
  <2> QED
    BY <2>1, <2>2
<1>9. CASE LoadBudget
  <2>1. PICK h : h = Hidden(lock.enabled)
    OBVIOUS
  <2>2. h \in BOOLEAN /\ h = Hidden(lock.enabled)'
    BY <1>0, <1>9, <2>1 DEF Hidden, LoadBudget
  <2>3. calls' = calls \o syncWidget(account', budget', h) /\ account' # Nobody
    BY <1>9, <2>1 DEF LoadBudget
  <2> QED
    BY <1>0, <2>2, <2>3, WidgetSynced
<1>10. CASE ToggleHidden
  <2>1. PICK h : h = (hideAmounts' \/ lock.enabled)
    OBVIOUS
  <2>2. h \in BOOLEAN /\ h = Hidden(lock.enabled)'
    BY <1>10, <2>1 DEF Hidden, ToggleHidden
  <2>3. calls' = calls \o syncWidget(account', budget', h) /\ account' # Nobody
    BY <1>10, <2>1 DEF ToggleHidden
  <2> QED
    BY <1>0, <2>2, <2>3, WidgetSynced
<1>11. CASE StoreAnswers
  <2>1. /\ calls # <<>> /\ Tail(calls) \in Seq(Calls) /\ Head(calls) \in Calls
        /\ UNCHANGED <<account, budget, hideAmounts, cut>>
    BY <1>0, <1>11, Answered DEF StoreAnswers
  <2>2. Tail(calls) \o <<>> = Tail(calls)
    BY <2>1
  <2>3. ASSUME Expected' = Expected, Tracked'
        PROVE  /\ LeavesStored(Tail(calls), IF Head(calls).does = "saveSnapshot"
                                           THEN Head(calls).value ELSE store.snapshot, Expected')
               /\ Head(calls).does = "saveLock" => Redraws(Tail(calls)) \/ widget = store.snapshot
    <3>1. LeavesStored(calls, store.snapshot, Expected) /\ (Redraws(calls) \/ widget = store.snapshot)
      BY <2>1, <2>3 DEF WidgetInv, Tracked
    <3>2. ASSUME Head(calls).does = "saveLock", Redraws(calls) PROVE Redraws(Tail(calls))
      <4>1. PICK i \in 1..Len(calls) : calls[i].does # "saveLock"
        BY <3>2 DEF Redraws
      <4>2. i # 1
        BY <1>0, <2>1, <3>2, <4>1, Answered
      <4>3. i - 1 \in 1..Len(Tail(calls)) /\ (i - 1) + 1 = i
        BY <1>0, <2>1, <4>2, Answered
      <4>4. Tail(calls)[i - 1] = calls[i]
        BY <1>0, <2>1, <4>3, Answered
      <4> QED
        BY <4>1, <4>3, <4>4 DEF Redraws
    <3> QED
      BY <1>0, <2>1, <2>3, <3>1, <3>2, LeavesAfterAnswer
  <2>4. CASE Head(calls).does = "saveLock" /\ Head(calls).then = "enabled"
    <3>1. calls' = Tail(calls) \o Switched(TRUE) /\ lock'.enabled = TRUE
      BY <1>11, <2>4 DEF StoreAnswers, TypeOK
    <3>2. store'.snapshot = store.snapshot /\ widget' = widget
      BY <1>11, <2>4 DEF StoreAnswers, TypeOK
    <3>3. lock.enabled = FALSE
      BY <1>0, <2>1, <2>4, EnablingLeft DEF LockInv, Answerable
    <3>4. CASE account = Nobody
      <4>1. Switched(TRUE) = <<>>
        BY <1>0, <3>3, <3>4, SwitchedTyped DEF syncWidget
      <4>2. Expected' = Expected
        BY <2>1, <3>4 DEF Expected
      <4> QED
        BY <2>2, <2>3, <2>4, <3>1, <3>2, <4>1, <4>2 DEF WidgetInv
    <3>5. CASE account # Nobody
      <4>1. PICK h : h = (hideAmounts \/ TRUE)
        OBVIOUS
      <4>2. h \in BOOLEAN /\ h = Hidden(lock.enabled)'
        BY <3>1, <4>1 DEF Hidden
      <4>3. Switched(TRUE) = syncWidget(account', budget', h)
        BY <2>1, <3>3, <4>1, SwitchedTyped
      <4> QED
        BY <2>1, <3>1, <3>5, <4>2, <4>3, WidgetSynced
    <3> QED
      BY <3>4, <3>5
  <2>5. CASE ~(Head(calls).does = "saveLock" /\ Head(calls).then = "enabled")
    <3>1. Head(calls).then # "enabled"
      BY <2>1, <2>5 DEF Calls
    <3>2. lock' = lock
      BY <1>11, <3>1 DEF StoreAnswers
    <3>3. Expected' = Expected
      BY <2>1, <3>2 DEF Expected, Hidden, Snapshot
    <3>4. CASE Head(calls).does = "saveLock"
      <4>1. Head(calls).then = "done"
        BY <2>1, <2>5, <3>4 DEF Calls
      <4>2. calls' = Tail(calls) /\ store'.snapshot = store.snapshot /\ widget' = widget
        BY <1>11, <2>2, <3>4, <4>1 DEF StoreAnswers, TypeOK
      <4> QED
        BY <2>3, <3>3, <3>4, <4>2 DEF WidgetInv
    <3>5. CASE Head(calls).does = "saveSnapshot"
      <4>1. Head(calls).then = "redraw"
        BY <2>1, <3>5 DEF Calls
      <4>2. calls' = Tail(calls) \o redraw /\ store'.snapshot = Head(calls).value
        BY <1>11, <3>5, <4>1 DEF StoreAnswers, TypeOK
      <4>3. Tracked' => LeavesStored(calls', store'.snapshot, Expected')
        BY <2>1, <2>3, <3>3, <3>5, <4>2, CallsTyped, StillLeaves
      <4>4. Redraws(calls')
        <5>1. /\ 1 \in 1..Len(redraw) /\ redraw[1].does # "saveLock" /\ redraw \in Seq(Calls)
          BY CallsTyped
        <5>2. /\ Len(Tail(calls)) + 1 \in 1..Len(calls')
              /\ calls'[Len(Tail(calls)) + 1] = redraw[1]
          BY <2>1, <4>2, <5>1, Joined
        <5> QED
          BY <5>1, <5>2 DEF Redraws
      <4> QED
        BY <4>3, <4>4 DEF WidgetInv
    <3>6. CASE Head(calls).does = "loadSnapshot"
      <4>1. Head(calls).then = "draw"
        BY <2>1, <3>6 DEF Calls
      <4>2. calls' = Tail(calls) /\ store' = store /\ widget' = store.snapshot
        BY <1>11, <2>2, <3>6, <4>1 DEF StoreAnswers
      <4> QED
        BY <2>3, <3>3, <3>6, <4>2 DEF WidgetInv
    <3> QED
      BY <2>1, <3>4, <3>5, <3>6 DEF Calls
  <2> QED
    BY <2>4, <2>5
<1> QED
  BY <1>2, <1>3, <1>4, <1>5, <1>6, <1>8, <1>9, <1>10, <1>11 DEF LockStep

LEMMA WidgetKeptBySession ==
  ASSUME TypeOK, TypeOK', WidgetInv, SessionStep
  PROVE  WidgetInv'
<1>1. CASE SignOut
  <2>1. PICK c : c = Call("saveSnapshot", NoSnapshot, "redraw")
    OBVIOUS
  <2>2. c \in Calls /\ c.does = "saveSnapshot" /\ c.value = NoSnapshot
    BY <2>1, StartingValues DEF Call, Calls
  <2>3. calls' = (calls \o deleteChoice) \o <<c>>
    BY <1>1, <2>1 DEF SignOut, forgetWidget
  <2>4. calls \o deleteChoice \in Seq(Calls)
    BY CallsTyped, Joined DEF TypeOK
  <2>5. c.value = Expected'
    BY <1>1, <2>2 DEF SignOut, Expected
  <2> QED
    BY <2>2, <2>3, <2>4, <2>5, WidgetSaves
<1>2. CASE Restart
  <2>1. CASE account = Nobody /\ ~cut'
    <3>1. ~cut /\ calls = <<>> /\ calls' = <<>> /\ account' = Nobody /\ widget' = widget
      BY <1>2, <2>1 DEF Restart, TypeOK
    <3>2. store'.snapshot = store.snapshot
      BY <1>2 DEF Restart, TypeOK
    <3>3. Expected' = Expected /\ Tracked
      BY <2>1, <3>1 DEF Expected, Tracked
    <3> QED
      BY <3>1, <3>2, <3>3 DEF WidgetInv, Redraws
  <2>2. CASE ~(account = Nobody /\ ~cut')
    BY <1>2, <2>2 DEF Restart, WidgetInv, Tracked
  <2> QED
    BY <2>1, <2>2
<1>3. ASSUME NEW a \in Accounts, SignIn(a) PROVE WidgetInv'
  BY <1>3, NobodyIsNoAccount DEF SignIn, WidgetInv, Tracked
<1> QED
  BY <1>1, <1>2, <1>3 DEF SessionStep

-----------------------------------------------------------------------------
(* The reminders.                                                          *)
Job == [does: {"cancel", "schedule"}, then: SUBSET Reminders]

LEMMA PlanTyped ==
  ASSUME NEW a \in Accounts, NEW n \in 0..MaxVersion, NEW w \in BOOLEAN
  PROVE  planReminders(a, n, w) \in SUBSET Reminders
BY DEF planReminders, Reminders

LEMMA LockKeepsAccount ==
  ASSUME LockStep
  PROVE  account' = account
BY DEF LockStep, EnableAsks, EnableAnswered, Disable, Unlock, Unlocked, UnlockFails, SetPhoneLock,
       Comes, Leaves, LoadBudget, ToggleHidden, StoreAnswers, Tick, SetClockBack

(* A job at the end of the queue, which cancels before it schedules, and   *)
(* whose reminders are those of every plan there may be.                   *)
LEMMA JobAdded ==
  ASSUME jobs \in Seq(Job), RemindersInv, NEW job \in Job, job.does = "cancel",
         jobs' = Append(jobs, job), \A plan \in Plans' : job.then \subseteq plan,
         account' = Nobody => lastPlan' = {}
  PROVE  RemindersInv'
<1>1. /\ Len(jobs) \in Nat /\ Len(jobs') = Len(jobs) + 1 /\ jobs' # <<>> /\ jobs'[Len(jobs')] = job
      /\ \A i \in 1..Len(jobs) : jobs'[i] = jobs[i]
  OBVIOUS
<1>2. ASSUME NEW i \in 2..Len(jobs') PROVE jobs'[i].does = "cancel"
  <2>1. CASE i \in 2..Len(jobs)
    BY <1>1, <2>1 DEF RemindersInv
  <2>2. CASE i = Len(jobs')
    BY <1>1, <2>2
  <2> QED
    BY <1>1, <2>1, <2>2
<1>3. \A plan \in Plans' : Ends(plan)'
  BY <1>1 DEF Ends
<1> QED
  BY <1>2, <1>3 DEF RemindersInv

LEMMA Synced ==
  ASSUME PhoneTypeOK, TypeOK', wanted' \in BOOLEAN, RemindersInv, Sync,
         UNCHANGED <<account, scheduled, left>>
  PROVE  /\ RemindersInv' /\ jobs' \in Seq(Job) /\ lastPlan' \subseteq SUBSET Reminders
<1>0. jobs \in Seq(Job) /\ lastPlan \subseteq SUBSET Reminders
  BY DEF PhoneTypeOK, Job
<1>1. PICK plan : plan = planReminders(account', budget', wanted')
  OBVIOUS
<1>2. CASE UNCHANGED <<lastPlan, jobs>>
  BY <1>0, <1>2 DEF RemindersInv, Plans, Ends
<1>3. CASE /\ account' # Nobody
           /\ lastPlan' = {plan} /\ jobs' = Append(jobs, ReplaceReminders(plan))
  <2>1. plan \in SUBSET Reminders
    BY <1>1, <1>3, PlanTyped DEF TypeOK
  <2>2. PICK job : job = ReplaceReminders(plan)
    OBVIOUS
  <2>3. job \in Job /\ job.does = "cancel" /\ job.then = plan
    BY <2>1, <2>2 DEF ReplaceReminders, Job
  <2>4. jobs' \in Seq(Job) /\ lastPlan' \subseteq SUBSET Reminders
    BY <1>0, <1>3, <2>1, <2>2, <2>3
  <2>5. Plans' = {plan}
    BY <1>3 DEF Plans
  <2>6. jobs' = Append(jobs, job)
    BY <1>3, <2>2
  <2>7. RemindersInv'
    BY <1>0, <1>3, <2>3, <2>5, <2>6, JobAdded
  <2> QED
    BY <2>4, <2>7
<1> QED
  BY <1>1, <1>2, <1>3 DEF Sync

LEMMA JobRuns ==
  ASSUME PhoneTypeOK, RemindersInv, JobStep
  PROVE  /\ RemindersInv' /\ jobs' \in Seq(Job) /\ scheduled' \subseteq Reminders
<1>0. /\ jobs \in Seq(Job) /\ jobs # <<>> /\ Head(jobs) \in Job /\ Head(jobs) = jobs[1]
      /\ Tail(jobs) \in Seq(Job) /\ Len(jobs) \in Nat /\ Len(jobs) # 0
      /\ Len(Tail(jobs)) = Len(jobs) - 1
      /\ \A i \in 1..Len(Tail(jobs)) : i + 1 \in 1..Len(jobs) /\ Tail(jobs)[i] = jobs[i + 1]
  <2>1. jobs \in Seq(Job) /\ jobs # <<>>
    BY DEF JobStep, PhoneTypeOK, Job
  <2>2. Len(jobs) # 0
    BY <2>1
  <2> QED
    BY <2>1, <2>2, Answered
<1>1. /\ UNCHANGED <<account, lastPlan, left>> /\ Plans' = Plans /\ scheduled \subseteq Reminders
  BY DEF JobStep, lockVars, Plans, PhoneTypeOK
<1>2. ASSUME NEW job \in Job, jobs' = <<job>> \o Tail(jobs), scheduled' \subseteq Reminders,
             job.then \subseteq Head(jobs).then,
             job.does = "schedule",
             Head(jobs).does = "schedule" => scheduled' \subseteq scheduled \cup Head(jobs).then,
             Head(jobs).does = "cancel" => scheduled' = {}
      PROVE  /\ RemindersInv' /\ jobs' \in Seq(Job) /\ scheduled' \subseteq Reminders
  <2>1. <<job>> \in Seq(Job) /\ Len(<<job>>) = 1 /\ <<job>>[1] = job
    OBVIOUS
  <2>2. /\ jobs' \in Seq(Job) /\ Len(jobs') = Len(jobs) /\ jobs'[1] = job
        /\ \A i \in 2..Len(jobs) : jobs'[i] = jobs[i]
    <3>1. /\ jobs' \in Seq(Job) /\ Len(jobs') = 1 + Len(Tail(jobs)) /\ jobs'[1] = job
          /\ \A i \in 1..Len(Tail(jobs)) : jobs'[1 + i] = Tail(jobs)[i]
      BY <1>0, <1>2, <2>1, Joined
    <3>2. ASSUME NEW i \in 2..Len(jobs) PROVE jobs'[i] = jobs[i]
      <4>1. i - 1 \in 1..Len(Tail(jobs)) /\ (i - 1) + 1 = i /\ 1 + (i - 1) = i
        BY <1>0
      <4>2. jobs'[1 + (i - 1)] = Tail(jobs)[i - 1] /\ Tail(jobs)[i - 1] = jobs[(i - 1) + 1]
        BY <1>0, <3>1, <4>1
      <4> QED
        BY <4>1, <4>2
    <3> QED
      BY <1>0, <3>1, <3>2
  <2>3. ASSUME NEW plan \in Plans PROVE Ends(plan)'
    <3>1. Ends(plan)
      BY DEF RemindersInv
    <3>2. jobs' # <<>>
      BY <1>0, <2>2
    <3>3. CASE Len(jobs) = 1
      <4>1. /\ Head(jobs).then \subseteq plan
            /\ Head(jobs).does = "schedule" => scheduled \subseteq plan
        BY <1>0, <3>1, <3>3 DEF Ends
      <4>2. scheduled' \subseteq plan /\ job.then \subseteq plan
        BY <1>0, <1>2, <4>1 DEF Job
      <4> QED
        BY <2>2, <3>2, <3>3, <4>2 DEF Ends
    <3>4. CASE Len(jobs) # 1
      <4>1. Len(jobs) \in 2..Len(jobs)
        BY <1>0, <3>4
      <4>2. jobs'[Len(jobs')] = jobs[Len(jobs)] /\ jobs[Len(jobs)].does = "cancel"
        BY <2>2, <4>1 DEF RemindersInv
      <4>3. jobs[Len(jobs)].then \subseteq plan
        BY <1>0, <3>1 DEF Ends
      <4> QED
        BY <3>2, <4>2, <4>3 DEF Ends
    <3> QED
      BY <3>3, <3>4
  <2> QED
    BY <1>1, <1>2, <2>2, <2>3 DEF RemindersInv
<1>3. CASE /\ Head(jobs).does = "cancel" /\ scheduled' = {}
           /\ jobs' = <<[Head(jobs) EXCEPT !.does = "schedule"]>> \o Tail(jobs)
  <2>1. PICK job : job = [Head(jobs) EXCEPT !.does = "schedule"]
    OBVIOUS
  <2>2. job \in Job /\ job.does = "schedule" /\ job.then = Head(jobs).then
    BY <1>0, <2>1 DEF Job
  <2> QED
    BY <1>2, <1>3, <2>1, <2>2
<1>4. ASSUME NEW r \in Head(jobs).then, Head(jobs).does = "schedule", scheduled' = scheduled \cup {r},
             jobs' = <<[Head(jobs) EXCEPT !.then = @ \ {r}]>> \o Tail(jobs)
      PROVE  /\ RemindersInv' /\ jobs' \in Seq(Job) /\ scheduled' \subseteq Reminders
  <2>1. PICK job : job = [Head(jobs) EXCEPT !.then = @ \ {r}]
    OBVIOUS
  <2>2. job \in Job /\ job.does = "schedule" /\ job.then \subseteq Head(jobs).then
    BY <1>0, <1>4, <2>1 DEF Job
  <2>3. scheduled' \subseteq Reminders
    BY <1>0, <1>1, <1>4 DEF Job
  <2> QED
    BY <1>2, <1>4, <2>1, <2>2, <2>3
<1>5. CASE /\ Head(jobs).does = "schedule" /\ Head(jobs).then = {}
           /\ jobs' = Tail(jobs) /\ UNCHANGED scheduled
  <2>1. ASSUME NEW i \in 2..Len(jobs') PROVE jobs'[i].does = "cancel"
    <3>1. i \in 1..Len(Tail(jobs)) /\ i + 1 \in 2..Len(jobs)
      BY <1>0, <1>5
    <3> QED
      BY <1>0, <1>5, <3>1 DEF RemindersInv
  <2>2. ASSUME NEW plan \in Plans PROVE Ends(plan)'
    <3>1. Ends(plan)
      BY DEF RemindersInv
    <3>2. CASE Len(jobs) = 1
      <4>1. scheduled \subseteq plan
        BY <1>0, <1>5, <3>1, <3>2 DEF Ends
      <4>2. jobs' = <<>>
        BY <1>0, <1>5, <3>2
      <4> QED
        BY <1>5, <4>1, <4>2 DEF Ends
    <3>3. CASE Len(jobs) # 1
      <4>1. Len(jobs) \in 2..Len(jobs) /\ Len(jobs') \in 1..Len(Tail(jobs)) /\ Len(jobs') + 1 = Len(jobs)
        BY <1>0, <1>5, <3>3
      <4>2. jobs' # <<>> /\ jobs'[Len(jobs')] = jobs[Len(jobs)] /\ jobs[Len(jobs)].does = "cancel"
        <5>1. jobs'[Len(jobs')] = jobs[Len(jobs') + 1]
          BY <1>0, <1>5, <4>1
        <5>2. jobs' # <<>>
          <6>1. Len(jobs') # 0
            BY <1>0, <1>5, <4>1
          <6>2. Len(<<>>) = 0
            OBVIOUS
          <6> QED
            BY <6>1, <6>2
        <5>3. jobs[Len(jobs)].does = "cancel"
          BY <4>1 DEF RemindersInv
        <5> QED
          BY <4>1, <5>1, <5>2, <5>3
      <4>3. jobs[Len(jobs)].then \subseteq plan
        BY <1>0, <3>1 DEF Ends
      <4> QED
        BY <4>2, <4>3 DEF Ends
    <3> QED
      BY <3>2, <3>3
  <2> QED
    BY <1>0, <1>1, <1>5, <2>1, <2>2 DEF RemindersInv
<1> QED
  BY <1>3, <1>4, <1>5 DEF JobStep

LEMMA RemindersTyped ==
  ASSUME IInv
  PROVE  /\ TypeOK /\ LockInv /\ WidgetInv /\ RemindersInv /\ PhoneTypeOK
         /\ granted \in BOOLEAN /\ wanted \in BOOLEAN /\ left \in BOOLEAN
         /\ lastPlan \subseteq SUBSET Reminders /\ scheduled \subseteq Reminders
         /\ jobs \in Seq(Job)
BY DEF IInv, PhoneTypeOK, Job

LEMMA LockVarsKept ==
  ASSUME TypeOK, LockInv, WidgetInv, UNCHANGED lockVars
  PROVE  TypeOK' /\ LockInv' /\ WidgetInv'
<1>1. UNCHANGED <<account, clock, skew, app, phoneLock, lock, prompt, store, calls,
                  widget, budget, hideAmounts, starts, owes, cut>>
  BY DEF lockVars
<1>2. TypeOK'
  BY <1>1 DEF TypeOK
<1>3. LockInv'
  BY <1>1 DEF LockInv, Answerable, OffIsOff, MomentKept, DueIsLocked
<1>4. WidgetInv'
  BY <1>1 DEF WidgetInv, Tracked, Expected, Hidden
<1> QED
  BY <1>2, <1>3, <1>4

LEMMA RemindersKept ==
  ASSUME RemindersInv, UNCHANGED <<account, lastPlan, jobs, left>>, scheduled' \subseteq scheduled
  PROVE  RemindersInv'
<1>1. \A plan \in Plans : Ends(plan) => Ends(plan)'
  BY DEF Ends
<1> QED
  BY <1>1 DEF RemindersInv, Plans

LEMMA InitHolds == PhoneInit => IInv
<1> SUFFICES ASSUME PhoneInit PROVE IInv
  OBVIOUS
<1>1. TypeOK
  <2>1. /\ lock = NewLock /\ owes = NothingOwed /\ calls = <<>> /\ budget = 0
        /\ widget = NoSnapshot /\ store = [lock |-> FALSE, snapshot |-> NoSnapshot]
        /\ account \in Accounts /\ app = "active" /\ phoneLock = TRUE /\ clock = 0 /\ skew = 0
        /\ prompt = "none" /\ hideAmounts = FALSE /\ cut = FALSE
    BY DEF PhoneInit, Init, NothingOwed
  <2>2. store \in [lock: BOOLEAN, snapshot: Snapshots]
    BY <2>1, StartingValues
  <2>3. budget \in 0..MaxVersion
    BY <2>1, MaxVersionIsCount
  <2>4. /\ lock \in [enabled: BOOLEAN, locked: BOOLEAN, covered: BOOLEAN, leftAt: SUBSET Int]
        /\ owes \in [since: SUBSET Nat, skew: Nat, due: BOOLEAN]
        /\ calls \in Seq(Calls) /\ widget \in Snapshots
    BY <2>1, StartingValues, CallsTyped
  <2> QED
    BY <2>1, <2>2, <2>3, <2>4 DEF TypeOK
<1>2. LockInv
  <2>1. Enabling(calls) = {} /\ owes = NothingOwed /\ lock = NewLock /\ prompt = "none" /\ skew = 0
    BY CallsTyped DEF PhoneInit, Init, NothingOwed
  <2> QED
    BY <2>1, StartingValues
    DEF LockInv, Answerable, OffIsOff, MomentKept, DueIsLocked, Never
<1>3. WidgetInv
  BY NobodyIsNoAccount DEF PhoneInit, Init, WidgetInv, Tracked
<1>4. RemindersInv
  BY NobodyIsNoAccount DEF PhoneInit, Init, RemindersInv, Plans, Ends
<1>5. PhoneTypeOK
  <2>1. <<>> \in Seq(Job)
    OBVIOUS
  <2> QED
    BY <1>1, <2>1 DEF PhoneInit, PhoneTypeOK, Job
<1> QED
  BY <1>1, <1>2, <1>3, <1>4, <1>5 DEF IInv

LEMMA StepHolds == IInv /\ [Next]_vars => IInv'
<1> SUFFICES ASSUME IInv, [Next]_vars PROVE IInv'
  OBVIOUS
<1>0. /\ TypeOK /\ LockInv /\ WidgetInv /\ RemindersInv /\ PhoneTypeOK
      /\ granted \in BOOLEAN /\ wanted \in BOOLEAN /\ left \in BOOLEAN
      /\ lastPlan \subseteq SUBSET Reminders /\ scheduled \subseteq Reminders
      /\ jobs \in Seq(Job)
  BY RemindersTyped
<1>1. ASSUME TypeOK' /\ LockInv' /\ WidgetInv' /\ RemindersInv',
             (granted \in BOOLEAN /\ wanted \in BOOLEAN /\ left \in BOOLEAN)',
             (lastPlan \subseteq SUBSET Reminders /\ scheduled \subseteq Reminders)',
             jobs' \in Seq(Job)
      PROVE  IInv'
  BY <1>1 DEF IInv, PhoneTypeOK, Job
<1>2. CASE LockMoves
  <2>1. LockStep /\ Sync /\ UNCHANGED <<granted, wanted, scheduled, switches, left>>
    BY <1>2 DEF LockMoves
  <2>2. TypeOK' /\ LockInv' /\ WidgetInv'
    BY <1>0, <2>1, LockTypes, LockKept, WidgetKept
  <2>3. account' = account
    BY <2>1, LockKeepsAccount
  <2>4. /\ RemindersInv' /\ jobs' \in Seq(Job) /\ lastPlan' \subseteq SUBSET Reminders
    BY <1>0, <2>1, <2>2, <2>3, Synced
  <2> QED
    BY <1>0, <1>1, <2>1, <2>2, <2>4
<1>3. CASE SessionEnds
  <2>1. /\ SignOut /\ lastPlan' = {} /\ jobs' = Append(jobs, cancelReminders)
        /\ UNCHANGED <<granted, wanted, scheduled, switches, left>>
    BY <1>3 DEF SessionEnds
  <2>2. TypeOK' /\ LockInv' /\ WidgetInv'
    BY <1>0, <2>1, SessionTypes, LockKeptBySession, WidgetKeptBySession DEF SessionStep
  <2>3. PICK job : job = cancelReminders
    OBVIOUS
  <2>4. job \in Job /\ job.does = "cancel" /\ job.then = {}
    BY <2>3 DEF cancelReminders, Job
  <2>5. jobs' = Append(jobs, job)
    BY <2>1, <2>3
  <2>6. RemindersInv'
    BY <1>0, <2>1, <2>4, <2>5, JobAdded
  <2>7. jobs' \in Seq(Job)
    BY <1>0, <2>4, <2>5
  <2> QED
    BY <1>0, <1>1, <2>1, <2>2, <2>6, <2>7
<1>4. CASE SessionStarts
  <2>1. PICK a \in Accounts : SignIn(a)
    BY <1>4 DEF SessionStarts
  <2>2. TypeOK' /\ LockInv' /\ WidgetInv'
    BY <1>0, <2>1, SessionTypes, LockKeptBySession, WidgetKeptBySession DEF SessionStep
  <2>3. lastPlan' = {} /\ UNCHANGED <<granted, wanted, jobs, scheduled, switches, left>>
    BY <1>4 DEF SessionStarts
  <2>4. account' # Nobody
    BY <2>1, NobodyIsNoAccount DEF SignIn
  <2>5. Plans' = {}
    BY <2>3, <2>4 DEF Plans
  <2>6. RemindersInv'
    BY <1>0, <2>3, <2>5 DEF RemindersInv
  <2> QED
    BY <1>0, <1>1, <2>2, <2>3, <2>6
<1>5. CASE AppRestarts
  <2>1. /\ Restart /\ lastPlan' = {} /\ jobs' = <<>>
        /\ left' = (left \/ (account = Nobody /\ jobs # <<>>))
        /\ UNCHANGED <<granted, wanted, scheduled, switches>>
    BY <1>5 DEF AppRestarts
  <2>2. TypeOK' /\ LockInv' /\ WidgetInv'
    BY <1>0, <2>1, SessionTypes, LockKeptBySession, WidgetKeptBySession DEF SessionStep
  <2>3. RemindersInv'
    <3>1. account' = account
      BY <2>1 DEF Restart
    <3>2. ASSUME account = Nobody, ~left' PROVE scheduled = {}
      <4>1. ~left /\ jobs = <<>>
        BY <2>1, <3>2
      <4>2. {} \in Plans
        BY <3>2, <4>1 DEF Plans
      <4>3. Ends({})
        BY <1>0, <4>2 DEF RemindersInv
      <4> QED
        BY <4>1, <4>3 DEF Ends
    <3>3. ASSUME NEW plan \in Plans' PROVE plan = {} /\ account = Nobody /\ ~left'
      BY <2>1, <3>1 DEF Plans
    <3>4. \A plan \in Plans' : Ends(plan)'
      BY <2>1, <3>2, <3>3 DEF Ends
    <3>5. \A i \in 2..Len(jobs') : jobs'[i].does = "cancel"
      BY <2>1
    <3> QED
      BY <2>1, <3>4, <3>5 DEF RemindersInv
  <2>4. left' \in BOOLEAN /\ jobs' \in Seq(Job)
    BY <2>1
  <2> QED
    BY <1>0, <1>1, <2>1, <2>2, <2>3, <2>4
<1>6. CASE JobStep
  <2>1. UNCHANGED <<lockVars, granted, wanted, lastPlan, switches, left>>
    BY <1>6 DEF JobStep
  <2>2. TypeOK' /\ LockInv' /\ WidgetInv'
    BY <1>0, <2>1, LockVarsKept
  <2> QED
    BY <1>0, <1>1, <1>6, <2>1, <2>2, JobRuns
<1>7. CASE Fires
  <2>1. UNCHANGED <<lockVars, granted, wanted, lastPlan, jobs, switches, left>>
        /\ scheduled' \subseteq scheduled
    BY <1>7 DEF Fires
  <2>2. TypeOK' /\ LockInv' /\ WidgetInv'
    BY <1>0, <2>1, LockVarsKept
  <2>3. account' = account
    BY <2>1 DEF lockVars
  <2>4. RemindersInv'
    BY <1>0, <2>1, <2>3, RemindersKept
  <2> QED
    BY <1>0, <1>1, <2>1, <2>2, <2>4
<1>8. CASE SetPermission \/ SetPreferences
  <2>1. /\ UNCHANGED <<lockVars, scheduled, left>> /\ Sync
        /\ granted' \in BOOLEAN /\ wanted' \in BOOLEAN
    BY <1>0, <1>8 DEF SetPermission, SetPreferences
  <2>2. TypeOK' /\ LockInv' /\ WidgetInv'
    BY <1>0, <2>1, LockVarsKept
  <2>3. account' = account
    BY <2>1 DEF lockVars
  <2>4. /\ RemindersInv' /\ jobs' \in Seq(Job) /\ lastPlan' \subseteq SUBSET Reminders
    BY <1>0, <2>1, <2>2, <2>3, Synced
  <2> QED
    BY <1>0, <1>1, <2>1, <2>2, <2>4
<1>9. CASE UNCHANGED vars
  <2>1. UNCHANGED <<lockVars, granted, wanted, lastPlan, jobs, scheduled, switches, left>>
    BY <1>9 DEF vars, reminderVars
  <2>2. TypeOK' /\ LockInv' /\ WidgetInv'
    BY <1>0, <2>1, LockVarsKept
  <2>3. account' = account
    BY <2>1 DEF lockVars
  <2>4. RemindersInv'
    BY <1>0, <2>1, <2>3, RemindersKept
  <2> QED
    BY <1>0, <1>1, <2>1, <2>2, <2>4
<1> QED
  BY <1>2, <1>3, <1>4, <1>5, <1>6, <1>7, <1>8, <1>9 DEF Next

-----------------------------------------------------------------------------
(* Every variable of the phone keeps its type, whatever the queues hold.   *)
THEOREM TypeCorrect == Spec => []PhoneTypeOK
<1>1. IInv => PhoneTypeOK
  BY DEF IInv
<1> QED
  BY <1>1, InitHolds, StepHolds, PTL DEF Spec

(* However often the app left and came back, was closed, locked and        *)
(* unlocked, and whoever signed in meanwhile: an owner whose absence asks  *)
(* for it is not shown anything before the phone confirmed who holds it    *)
(* (shouldLockOnReturn, lock/store.ts).                                    *)
THEOREM NobodyPeeks == Spec => []NoPeekAfterAbsence
<1>1. IInv => NoPeekAfterAbsence
  BY DEF IInv, LockInv, DueIsLocked, NoPeekAfterAbsence, Shows, Hides
<1> QED
  BY <1>1, InitHolds, StepHolds, PTL DEF Spec

(* Whatever calls of the secure store were under way when the session, the *)
(* budget, privacy mode or the lock changed, the widget ends with what the *)
(* last of them asks for (WidgetSync, forgetWidget).                       *)
THEOREM WidgetIsRight == Spec => []WidgetFollows
<1>1. IInv => WidgetFollows
  <2> SUFFICES ASSUME IInv, calls = <<>>
               PROVE  /\ (account = Nobody /\ ~cut) => store.snapshot = NoSnapshot /\ widget = NoSnapshot
                      /\ (account # Nobody /\ budget > 0) =>
                           /\ widget = Snapshot(account, budget, Hidden(lock.enabled))
                           /\ store.snapshot = widget
    BY DEF WidgetFollows
  <2>1. Len(calls) = 0 /\ 1..Len(calls) = {}
    OBVIOUS
  <2>2. Tracked => store.snapshot = Expected /\ widget = Expected
    BY <2>1 DEF IInv, WidgetInv, LeavesStored, Redraws
  <2> QED
    BY <2>2 DEF Tracked, Expected
<1> QED
  BY <1>1, InitHolds, StepHolds, PTL DEF Spec

(* In whatever order plans, logins, logouts, restarts and single calls to  *)
(* the system come, an empty queue leaves no reminder of an older plan or  *)
(* of a session that ended (ReminderSync, replaceReminders).               *)
THEOREM NoneStray == Spec => []NoStrayReminders
<1>1. IInv => NoStrayReminders
  <2> SUFFICES ASSUME IInv, jobs = <<>>
               PROVE  /\ (account = Nobody /\ ~left) => scheduled = {}
                      /\ \A plan \in lastPlan : scheduled \subseteq plan
    BY DEF NoStrayReminders
  <2>1. \A plan \in Plans : scheduled \subseteq plan
    BY DEF IInv, RemindersInv, Ends
  <2> QED
    BY <2>1 DEF Plans
<1> QED
  BY <1>1, InitHolds, StepHolds, PTL DEF Spec

-----------------------------------------------------------------------------
(* The sessions of an account.                                              *)

(* A family is named by its first token. *)
FamiliesIssued ==
    \A t \in DOMAIN rows : rows[t].family \in DOMAIN rows

(* A request that works on a token brought one that was issued. *)
TokensPresented ==
    \A r \in Requests :
        (req[r].stage \in {"claim", "insert"}
            \/ (req[r].stage = "read" /\ req[r].kind = "refresh"))
        => req[r].token \in DOMAIN rows

ClaimHolds ==
    /\ \A r \in Claimants : Live(req[r].token)
    /\ \A r, s \in Claimants : req[r].token = req[s].token => r = s

SessionsInv ==
    /\ SessionsTypeOK
    /\ FamiliesIssued
    /\ TokensPresented
    /\ ClaimHolds
    /\ OneHeadPerFamily
    /\ OneHeir

-----------------------------------------------------------------------------
(* Handlers that move without touching the token table. *)
OnlyMoves(r) ==
    /\ req' \in [Requests -> Request]
    /\ \A s \in Requests : s # r => req'[s] = req[s]

LEMMA GotoIs ==
    ASSUME SessionsTypeOK, NEW r \in Requests, NEW stage \in Stages, Goto(r, stage)
    PROVE  /\ OnlyMoves(r) /\ req'[r].stage = stage
           /\ req'[r].token = req[r].token /\ req'[r].kind = req[r].kind
BY DEF SessionsTypeOK, Goto, OnlyMoves, Request

LEMMA QuietStep ==
    ASSUME SessionsInv, NEW r \in Requests, UNCHANGED rows, OnlyMoves(r),
           expired' \subseteq Tokens, userRow' \in Hash,
           req'[r].stage \in {"claim", "read"} =>
               (req'[r].kind = "refresh" => req'[r].token \in DOMAIN rows),
           req'[r].stage = "claim" => req'[r].token \in DOMAIN rows,
           req'[r].stage = "insert" =>
               /\ Live(req'[r].token)
               /\ \A s \in Claimants : s = r \/ req[s].token # req'[r].token
    PROVE  SessionsInv'
<1>1. SessionsTypeOK'
  BY DEF SessionsInv, SessionsTypeOK, OnlyMoves
<1>2. FamiliesIssued' /\ OneHeadPerFamily' /\ OneHeir'
  BY DEF SessionsInv, FamiliesIssued, OneHeadPerFamily, OneHeir, Live
<1>3. TokensPresented'
  BY DEF SessionsInv, TokensPresented, OnlyMoves, Live
<1>4. ClaimHolds'
  BY DEF SessionsInv, ClaimHolds, Claimants, At, Live, OnlyMoves
<1> QED
  BY <1>1, <1>2, <1>3, <1>4 DEF SessionsInv

(* A quiet step that only changes the stage, to one that holds no token.   *)
LEMMA QuietGoto ==
    ASSUME SessionsInv, NEW r \in Requests, NEW stage \in Stages \ {"claim", "read", "insert"},
           Goto(r, stage), UNCHANGED <<rows, expired>>, userRow' \in Hash
    PROVE  SessionsInv'
<1>1. OnlyMoves(r) /\ req'[r].stage = stage
  BY GotoIs DEF SessionsInv
<1> QED
  BY <1>1, QuietStep DEF SessionsInv, SessionsTypeOK

-----------------------------------------------------------------------------
(* A new session starts with a token no one has, in a family no one has.   *)
LEMMA IssueInv ==
    ASSUME SessionsInv, NEW r \in Requests, Issue(r)
    PROVE  SessionsInv'
<1>1. PICK t \in Tokens :
        CreateToken(t, t, None) /\ req' = [req EXCEPT ![r].stage = "done", ![r].token = t]
  BY DEF Issue
<1>2. UNCHANGED <<expired, userRow>> /\ At(r, "issue")
  BY DEF Issue
<1>3. /\ t \notin DOMAIN rows
      /\ DOMAIN rows' = DOMAIN rows \cup {t}
      /\ rows'[t] = [family |-> t, from |-> None, revoked |-> FALSE]
      /\ \A u \in DOMAIN rows : rows'[u] = rows[u]
  BY <1>1 DEF CreateToken
<1>4. OnlyMoves(r) /\ req'[r].stage = "done"
  BY <1>1 DEF SessionsInv, SessionsTypeOK, OnlyMoves, Request, Stages
<1>5. SessionsTypeOK'
  <2>1. rows'[t] \in Row
    BY <1>3 DEF Row
  <2>2. DOMAIN rows' \subseteq Tokens /\ \A u \in DOMAIN rows' : rows'[u] \in Row
    BY <1>3, <2>1 DEF SessionsInv, SessionsTypeOK
  <2> QED
    BY <1>2, <1>4, <2>2 DEF SessionsInv, SessionsTypeOK, OnlyMoves
<1>6. FamiliesIssued' /\ OneHeadPerFamily'
  BY <1>3 DEF SessionsInv, FamiliesIssued, OneHeadPerFamily, Live
<1>7. OneHeir'
  BY <1>3, NoneAssumption DEF SessionsInv, OneHeir
<1>8. TokensPresented'
  BY <1>3, <1>4 DEF SessionsInv, TokensPresented, OnlyMoves
<1>9. ClaimHolds'
  BY <1>3, <1>4 DEF SessionsInv, ClaimHolds, Claimants, At, Live, OnlyMoves
<1> QED
  BY <1>5, <1>6, <1>7, <1>8, <1>9 DEF SessionsInv

(* A rotation commits: the claimed token was the head of its family.       *)
LEMMA CommitInv ==
    ASSUME SessionsInv, NEW r \in Requests, RotateCommit(r)
    PROVE  SessionsInv'
<1> DEFINE old == req[r].token
<1>1. r \in Claimants /\ old \in DOMAIN rows /\ ~rows[old].revoked /\ old \in Tokens
  BY DEF SessionsInv, SessionsTypeOK, ClaimHolds, Claimants, RotateCommit, Live
<1>2. PICK t \in Tokens \ DOMAIN rows :
        rows' = [u \in DOMAIN rows \cup {t} |->
                  IF u = t THEN [family |-> rows[old].family, from |-> old, revoked |-> FALSE]
                  ELSE IF u = old THEN [rows[old] EXCEPT !.revoked = TRUE]
                  ELSE rows[u]]
  BY DEF RotateCommit
<1>3. UNCHANGED <<expired, userRow>> /\ Goto(r, "done")
  BY DEF RotateCommit
<1>4. OnlyMoves(r) /\ req'[r].stage = "done"
  BY <1>3, GotoIs DEF SessionsInv, Stages
<1>5. \A u \in DOMAIN rows : rows[u] \in Row
  BY DEF SessionsInv, SessionsTypeOK
<1>6. /\ DOMAIN rows' = DOMAIN rows \cup {t} /\ t \notin DOMAIN rows
      /\ rows'[t] = [family |-> rows[old].family, from |-> old, revoked |-> FALSE]
      /\ rows'[old].revoked = TRUE
      /\ \A u \in DOMAIN rows : /\ rows'[u] \in Row
                                /\ rows'[u].family = rows[u].family
                                /\ rows'[u].from = rows[u].from
                                /\ u # old => rows'[u] = rows[u]
  BY <1>1, <1>2, <1>5 DEF Row
<1> HIDE DEF old
<1>7. SessionsTypeOK'
  <2>1. rows'[t] \in Row
    BY <1>1, <1>5, <1>6 DEF Row
  <2>2. DOMAIN rows' \subseteq Tokens /\ \A u \in DOMAIN rows' : rows'[u] \in Row
    BY <1>6, <2>1 DEF SessionsInv, SessionsTypeOK
  <2> QED
    BY <1>3, <1>4, <2>2 DEF SessionsInv, SessionsTypeOK, OnlyMoves
<1>8. FamiliesIssued'
  BY <1>1, <1>6 DEF SessionsInv, FamiliesIssued
<1>9. OneHeadPerFamily'
  BY <1>1, <1>6 DEF SessionsInv, OneHeadPerFamily, Live
<1>10. OneHeir'
  BY <1>1, <1>6 DEF SessionsInv, OneHeir
<1>11. TokensPresented'
  BY <1>4, <1>6 DEF SessionsInv, TokensPresented, OnlyMoves
<1>12. ClaimHolds'
  BY <1>1, <1>4, <1>6 DEF SessionsInv, ClaimHolds, Claimants, At, Live, OnlyMoves, old
<1> QED
  BY <1>7, <1>8, <1>9, <1>10, <1>11, <1>12 DEF SessionsInv

(* An UPDATE of a family spares the rows an open rotation holds.           *)
LEMMA RevokeInv ==
    ASSUME SessionsInv, NEW r \in Requests, ApplyRevoke(r)
    PROVE  SessionsInv'
<1>1. /\ Revoke(req[r].targets) /\ req[r].targets \cap Claimed = {}
      /\ UNCHANGED expired /\ userRow' \in Hash
  BY DEF SessionsInv, SessionsTypeOK, Request, ApplyRevoke, Hash
<1>2. OnlyMoves(r) /\ req'[r].stage \in {"issue", "done"}
  BY GotoIs DEF SessionsInv, ApplyRevoke, Stages
<1>3. \A u \in DOMAIN rows : rows[u] \in Row
  BY DEF SessionsInv, SessionsTypeOK
<1>4. /\ DOMAIN rows' = DOMAIN rows
      /\ \A u \in DOMAIN rows : /\ rows'[u] \in Row
                                /\ rows'[u].family = rows[u].family
                                /\ rows'[u].from = rows[u].from
                                /\ rows[u].revoked => rows'[u].revoked
                                /\ u \in Claimed => rows'[u] = rows[u]
  BY <1>1, <1>3 DEF Revoke, Row
<1>5. SessionsTypeOK'
  BY <1>1, <1>2, <1>4 DEF SessionsInv, SessionsTypeOK, OnlyMoves
<1>6. FamiliesIssued' /\ OneHeadPerFamily'
  BY <1>4 DEF SessionsInv, FamiliesIssued, OneHeadPerFamily, Live
<1>7. OneHeir'
  BY <1>4 DEF SessionsInv, OneHeir
<1>8. TokensPresented'
  BY <1>2, <1>4 DEF SessionsInv, TokensPresented, OnlyMoves
<1>9. ClaimHolds'
  BY <1>2, <1>4 DEF SessionsInv, ClaimHolds, Claimants, Claimed, At, Live, OnlyMoves
<1> QED
  BY <1>5, <1>6, <1>7, <1>8, <1>9 DEF SessionsInv

-----------------------------------------------------------------------------
LEMMA InitInv == SessionsInit => SessionsInv
BY DEF SessionsInit, SessionsInv, SessionsTypeOK, Request, Stages, Hash, FamiliesIssued, TokensPresented, ClaimHolds,
   Claimants, At, OneHeadPerFamily, OneHeir

LEMMA StepInv == SessionsInv /\ [SessionsNext]_sessionsVars => SessionsInv'
<1> SUFFICES ASSUME SessionsInv, [SessionsNext]_sessionsVars PROVE SessionsInv'
  OBVIOUS
<1>1. ASSUME NEW r \in Requests, Start(r) PROVE SessionsInv'
  <2>1. UNCHANGED <<rows, expired, userRow>> /\ req[r].stage = "idle"
    BY <1>1 DEF Start, At
  <2>2. CASE req[r].kind \notin {"refresh", "logout"} /\ Goto(r, "read")
    BY <2>1, <2>2, GotoIs, QuietStep DEF SessionsInv, SessionsTypeOK, Stages
  <2>3. ASSUME NEW t \in DOMAIN rows,
               req' = [req EXCEPT ![r].stage = "read", ![r].token = t]
        PROVE  SessionsInv'
    <3>1. OnlyMoves(r) /\ req'[r].stage = "read" /\ req'[r].token = t
      BY <2>3 DEF SessionsInv, SessionsTypeOK, OnlyMoves, Request, Stages
    <3> QED
      BY <2>1, <3>1, QuietStep DEF SessionsInv, SessionsTypeOK
  <2> QED
    BY <1>1, <2>2, <2>3 DEF Start
<1>2. ASSUME NEW r \in Requests, LoginRead(r) PROVE SessionsInv'
  BY <1>2, QuietGoto DEF LoginRead, Stages, SessionsInv, SessionsTypeOK
<1>3. ASSUME NEW r \in Requests, Rehash(r) PROVE SessionsInv'
  <2>1. userRow' \in Hash
    BY <1>3 DEF SessionsInv, SessionsTypeOK, Request, Rehash, Hash
  <2> QED
    BY <1>3, <2>1, QuietGoto DEF Rehash, Stages
<1>4. ASSUME NEW r \in Requests, Issue(r) PROVE SessionsInv'
  BY <1>4, IssueInv
<1>5. ASSUME NEW r \in Requests, RotateRead(r) PROVE SessionsInv'
  <2>1. UNCHANGED <<rows, expired, userRow>> /\ req[r].token \in DOMAIN rows
    BY <1>5 DEF SessionsInv, TokensPresented, RotateRead, At
  <2>2. CASE Goto(r, "claim")
    BY <2>1, <2>2, GotoIs, QuietStep DEF SessionsInv, SessionsTypeOK, Stages
  <2>3. CASE Goto(r, "snapshot") \/ Goto(r, "done")
    BY <2>1, <2>3, QuietGoto DEF SessionsInv, SessionsTypeOK, Stages
  <2> QED
    BY <1>5, <2>2, <2>3 DEF RotateRead
<1>6. ASSUME NEW r \in Requests, RotateClaim(r) PROVE SessionsInv'
  <2>1. UNCHANGED <<rows, expired, userRow>> /\ req[r].token \notin Claimed
    BY <1>6 DEF RotateClaim
  <2>2. CASE Live(req[r].token) /\ Goto(r, "insert")
    BY <2>1, <2>2, GotoIs, QuietStep DEF SessionsInv, SessionsTypeOK, Stages, Claimed
  <2>3. CASE Goto(r, "snapshot")
    BY <2>1, <2>3, QuietGoto DEF SessionsInv, SessionsTypeOK, Stages
  <2> QED
    BY <1>6, <2>2, <2>3 DEF RotateClaim
<1>7. ASSUME NEW r \in Requests, RotateCommit(r) PROVE SessionsInv'
  BY <1>7, CommitInv
<1>8. ASSUME NEW r \in Requests, RotateRollback(r) \/ LogoutRead(r) \/ ChangeRead(r)
      PROVE SessionsInv'
  <2>1. UNCHANGED <<rows, expired, userRow>> /\ (Goto(r, "done") \/ Goto(r, "snapshot"))
    BY <1>8 DEF RotateRollback, LogoutRead, ChangeRead
  <2> QED
    BY <2>1, QuietGoto DEF SessionsInv, SessionsTypeOK, Stages
<1>9. ASSUME NEW r \in Requests, TakeSnapshot(r) PROVE SessionsInv'
  <2>1. OnlyMoves(r) /\ req'[r].stage = "revoke"
    BY <1>9 DEF SessionsInv, SessionsTypeOK, TakeSnapshot, OnlyMoves, Request, Stages, Members
  <2> QED
    BY <1>9, <2>1, QuietStep DEF TakeSnapshot, SessionsInv, SessionsTypeOK
<1>10. ASSUME NEW r \in Requests, ApplyRevoke(r) PROVE SessionsInv'
  BY <1>10, RevokeInv
<1>11. ASSUME NEW t \in Tokens, Expire(t) PROVE SessionsInv'
  BY <1>11 DEF Expire, SessionsInv, SessionsTypeOK, FamiliesIssued, TokensPresented, ClaimHolds, Claimants,
     At, Live, OneHeadPerFamily, OneHeir
<1>12. CASE UNCHANGED sessionsVars
  BY <1>12 DEF sessionsVars, SessionsInv, SessionsTypeOK, FamiliesIssued, TokensPresented, ClaimHolds, Claimants,
     At, Live, OneHeadPerFamily, OneHeir
<1> QED
  BY <1>1, <1>2, <1>3, <1>4, <1>5, <1>6, <1>7, <1>8, <1>9, <1>10, <1>11, <1>12
  DEF SessionsNext, Handle

(* Only a session still open can gain a token: a rotation's family has the *)
(* claimed token for its head, and a new session's family is a new one.    *)
LEMMA StepOver == SessionsInv /\ [SessionsNext]_sessionsVars => \A f \in Tokens : Over(f) => Over(f)'
<1> SUFFICES ASSUME SessionsInv, [SessionsNext]_sessionsVars, NEW f \in Tokens, Over(f) PROVE Over(f)'
  OBVIOUS
<1>1. ASSUME NEW r \in Requests, Issue(r) PROVE Over(f)'
  <2>1. PICK t \in Tokens : CreateToken(t, t, None)
    BY <1>1 DEF Issue
  <2>2. /\ t \notin DOMAIN rows /\ DOMAIN rows' = DOMAIN rows \cup {t}
        /\ rows'[t].family = t /\ \A u \in DOMAIN rows : rows'[u] = rows[u]
    BY <2>1 DEF CreateToken
  <2>3. f # t
    BY <2>2 DEF Over, Members, SessionsInv, FamiliesIssued
  <2> QED
    BY <2>2, <2>3 DEF Over, Members, Live
<1>2. ASSUME NEW r \in Requests, RotateCommit(r) PROVE Over(f)'
  <2>1. /\ req[r].token \in DOMAIN rows
        /\ Live(req[r].token)
    BY <1>2 DEF SessionsInv, ClaimHolds, Claimants, RotateCommit, Live
  <2>2. PICK t \in Tokens \ DOMAIN rows :
          rows' = [u \in DOMAIN rows \cup {t} |->
                    IF u = t THEN [family |-> rows[req[r].token].family,
                                   from |-> req[r].token, revoked |-> FALSE]
                    ELSE IF u = req[r].token THEN [rows[req[r].token] EXCEPT !.revoked = TRUE]
                    ELSE rows[u]]
    BY <1>2 DEF RotateCommit
  <2>3. f # rows[req[r].token].family
    BY <2>1 DEF Over, Members
  <2>4. req[r].token \notin Members(f) /\ rows[req[r].token] \in Row
    BY <2>1, <2>3 DEF Members, SessionsInv, SessionsTypeOK
  <2>5. /\ DOMAIN rows' = DOMAIN rows \cup {t} /\ t \notin DOMAIN rows
        /\ rows'[t].family # f
        /\ rows'[req[r].token].family # f
        /\ \A u \in DOMAIN rows : u # req[r].token => rows'[u] = rows[u]
    BY <2>1, <2>2, <2>3, <2>4 DEF Row
  <2>6. Members(f)' = Members(f)
    BY <2>1, <2>3, <2>5 DEF Members
  <2> QED
    BY <2>4, <2>5, <2>6 DEF Over, Members, Live
<1>3. ASSUME NEW r \in Requests, ApplyRevoke(r) PROVE Over(f)'
  <2>1. \A u \in DOMAIN rows : rows[u] \in Row
    BY DEF SessionsInv, SessionsTypeOK
  <2>2. /\ DOMAIN rows' = DOMAIN rows
        /\ \A u \in DOMAIN rows : /\ rows'[u].family = rows[u].family
                                  /\ rows[u].revoked => rows'[u].revoked
    BY <1>3, <2>1 DEF ApplyRevoke, Revoke, Row
  <2> QED
    BY <2>2 DEF Over, Members, Live
<1>4. ASSUME UNCHANGED rows PROVE Over(f)'
  BY <1>4 DEF Over, Members, Live
<1> QED
  BY <1>1, <1>2, <1>3, <1>4 DEF SessionsNext, Handle, Start, LoginRead, Rehash, RotateRead, RotateClaim,
     RotateRollback, LogoutRead, ChangeRead, TakeSnapshot, Expire, sessionsVars

(* The token table, the account and the handlers hold values of their types. *)
THEOREM SessionsTypes == SessionsSpec => []SessionsTypeOK
<1>1. SessionsInv => SessionsTypeOK
  BY DEF SessionsInv
<1> QED
  BY <1>1, InitInv, StepInv, PTL DEF SessionsSpec

(* A session has at most one usable refresh token, however many rotations, *)
(* logouts and password changes race.                                      *)
THEOREM SingleHead == SessionsSpec => []OneHeadPerFamily
<1>1. SessionsInv => OneHeadPerFamily
  BY DEF SessionsInv
<1> QED
  BY <1>1, InitInv, StepInv, PTL DEF SessionsSpec

(* A refresh token has at most one successor.                              *)
THEOREM SingleHeir == SessionsSpec => []OneHeir
<1>1. SessionsInv => OneHeir
  BY DEF SessionsInv
<1> QED
  BY <1>1, InitInv, StepInv, PTL DEF SessionsSpec

(* A session that is over stays over.                                      *)
THEOREM NoRevival == SessionsSpec => OverStaysOver
<1>1. SessionsInv /\ [SessionsNext]_sessionsVars => [\A f \in Tokens : Over(f) => Over(f)']_sessionsVars
  BY StepOver
<1> QED
  BY <1>1, InitInv, StepInv, PTL DEF SessionsSpec, OverStaysOver

=============================================================================
