------------------------------- MODULE AppLock -------------------------------
(***************************************************************************)
(* The app lock, the home screen widget and the session of the phone.       *)
(*                                                                         *)
(* The lock (lock/store.ts) is a module-level object: it is switched on in *)
(* the settings after one system prompt, follows the app between the front *)
(* and the background, and is switched off by whatever ends the session.   *)
(* The widget shows a snapshot that the app saves whenever the budget, the *)
(* privacy mode or the lock changes.  Both are kept in the secure store,   *)
(* whose calls are answered one by one in the order they were made; the    *)
(* rest of an async function runs when its call is answered.               *)
(***************************************************************************)
EXTENDS Integers, Sequences

CONSTANTS
    Accounts,       \* the people who use this phone
    LockAfter,      \* LOCK_AFTER_MS, in ticks of the clock
    MaxTime,        \* bound: ticks of the clock
    MaxVersion,     \* bound: answers with a new budget
    MaxSignIns,     \* bound: sign-ins, and restarts of the app
    Skews           \* bound: how far the phone's clock may be set back, once

Nobody == "nobody"
NoSnapshot == [account |-> Nobody, version |-> 0, hidden |-> FALSE]
Never == {}             \* a moment is a set of at most one time

ASSUME LockAfterIsTime == LockAfter \in Nat \ {0}
ASSUME SkewsAreTime == Skews \subseteq Nat
ASSUME MaxVersionIsCount == MaxVersion \in Nat
ASSUME NobodyIsNoAccount == Nobody \notin Accounts

VARIABLES
    account,    \* who is signed in (session.ts: status)
    clock, skew,    \* real time, and how far the phone's clock is behind it
    app,        \* AppState: in front, covered by something, or in the background
    phoneLock,  \* whether the phone has biometrics or a code at all
    lock,       \* the lock's state in memory
    prompt,     \* the system prompt: what waits for it
    store,      \* secure store: the saved choice and the widget's snapshot
    calls,      \* calls of the secure store not answered yet, oldest first
    widget,     \* what the home screen shows
    budget,     \* version of the budget in the query cache (0: none)
    hideAmounts,    \* privacy mode
    starts,     \* bounded counter of sign-ins and restarts
    owes,       \* the owner was away long enough and has not unlocked since
    cut         \* the app was killed before it had cleaned up after a session

lockVars == <<account, clock, skew, app, phoneLock, lock, prompt, store, calls,
              widget, budget, hideAmounts, starts, owes, cut>>

NewLock == [enabled |-> FALSE, locked |-> FALSE, covered |-> FALSE, leftAt |-> Never]

Init ==
    /\ account \in Accounts /\ app = "active" /\ phoneLock = TRUE
    /\ clock = 0 /\ skew = 0
    /\ lock = NewLock /\ prompt = "none"
    /\ store = [lock |-> FALSE, snapshot |-> NoSnapshot] /\ calls = <<>>
    /\ widget = NoSnapshot /\ budget = 0 /\ hideAmounts = FALSE
    /\ starts = 0 /\ owes = [since |-> Never, skew |-> 0, due |-> FALSE] /\ cut = FALSE

Seen == clock - skew        \* Date.now()

-----------------------------------------------------------------------------
(* Calls of the secure store and the functions that wait for them.          *)
Call(does, value, then) == [does |-> does, value |-> value, then |-> then]

(* useEffect of WidgetSync: a loaded budget, or a switch of privacy mode or *)
(* of the lock, saves what the widget shows next.                           *)
Snapshot(a, version, hidden) == [account |-> a, version |-> version, hidden |-> hidden]
syncWidget(a, version, hidden) ==
    IF a = Nobody \/ version = 0 THEN <<>>
    ELSE <<Call("saveSnapshot", Snapshot(a, version, hidden), "redraw")>>
redraw == <<Call("loadSnapshot", NoSnapshot, "draw")>>
forgetWidgetMutant == redraw
forgetWidget == <<Call("saveSnapshot", NoSnapshot, "redraw")>>
deleteChoice == <<Call("saveLock", FALSE, "done")>>

Hidden(on) == hideAmounts \/ on
Switched(on) ==         \* the effect runs when the lock really changes
    IF on = lock.enabled THEN <<>> ELSE syncWidget(account, budget, Hidden(on))

NothingOwed == [since |-> Never, skew |-> 0, due |-> FALSE]

-----------------------------------------------------------------------------
(* The lock.                                                                *)

(* turnOff: at once in memory, then in the store.                           *)
turnOff ==
    /\ lock' = NewLock
    /\ calls' = calls \o deleteChoice \o Switched(FALSE)
    /\ owes' = NothingOwed

authenticating == prompt # "none"

(* The switch in the settings; on asks the system first.                    *)
EnableAsks ==
    /\ account # Nobody /\ app = "active" /\ phoneLock
    /\ ~lock.enabled /\ ~authenticating
    /\ \A i \in DOMAIN calls : calls[i].then # "enabled"        \* busy
    /\ prompt' = "enable"
    /\ UNCHANGED <<account, clock, skew, app, phoneLock, lock, store, calls, widget,
                   budget, hideAmounts, starts, owes, cut>>

(* The owner confirmed, or cancelled, or somebody else held the phone.      *)
EnableAnswered ==
    /\ prompt = "enable" /\ prompt' = "none"
    /\ \/ calls' = Append(calls, Call("saveLock", TRUE, "enabled"))
       \/ UNCHANGED calls
    /\ UNCHANGED <<account, clock, skew, app, phoneLock, lock, store, widget, budget,
                   hideAmounts, starts, owes, cut>>

Disable ==
    /\ account # Nobody /\ app = "active" /\ ~lock.locked /\ lock.enabled
    /\ ~authenticating
    /\ turnOff
    /\ UNCHANGED <<account, clock, skew, app, phoneLock, prompt, store, widget, budget,
                   hideAmounts, starts, cut>>

(* "Odblokuj" on the lock screen.                                           *)
Unlock ==
    /\ account # Nobody /\ app = "active"
    /\ lock.locked /\ ~authenticating
    /\ prompt' = "unlock"
    /\ UNCHANGED <<account, clock, skew, app, phoneLock, lock, store, calls, widget,
                   budget, hideAmounts, starts, owes, cut>>

Unlocked ==
    /\ prompt = "unlock" /\ phoneLock /\ prompt' = "none"
    /\ lock' = [lock EXCEPT !.locked = FALSE]
    /\ owes' = NothingOwed
    /\ UNCHANGED <<account, clock, skew, app, phoneLock, store, calls, widget, budget,
                   hideAmounts, starts, cut>>

(* Cancelled or failed; a phone without a lock of its own could never pass. *)
UnlockFails ==
    /\ prompt = "unlock" /\ prompt' = "none"
    /\ IF phoneLock THEN UNCHANGED <<lock, calls, owes>> ELSE turnOff
    /\ UNCHANGED <<account, clock, skew, app, phoneLock, store, widget, budget,
                   hideAmounts, starts, cut>>

(* The owner removes, or sets, the phone's own lock.                        *)
SetPhoneLock ==
    /\ app = "background" /\ ~authenticating
    /\ phoneLock' = ~phoneLock
    /\ UNCHANGED <<account, clock, skew, app, lock, prompt, store, calls, widget,
                   budget, hideAmounts, starts, owes, cut>>

shouldLockOnReturnMutant(left, at) == \E t \in left : at - t >= LockAfter
shouldLockOnReturn(left, at) == \E t \in left : at - t < 0 \/ at - t >= LockAfter

(* What the absence asks for: after LockAfter and more the owner must show  *)
(* up, unless the clock was set back meanwhile, by less than the absence.   *)
Returned ==
    \E t \in owes.since :
        clock - t >= LockAfter /\ (skew = owes.skew \/ skew > clock - t)

(* AppState tells of a change: to the front ...                             *)
Comes ==
    /\ app # "active" /\ app' = "active"
    /\ IF ~lock.enabled \/ authenticating THEN UNCHANGED <<lock, prompt>>
       ELSE IF shouldLockOnReturn(lock.leftAt, Seen)
            THEN /\ lock' = [lock EXCEPT !.locked = TRUE, !.covered = FALSE, !.leftAt = Never]
                 /\ prompt' = "unlock"
            ELSE /\ lock' = [lock EXCEPT !.covered = FALSE, !.leftAt = Never]
                 /\ UNCHANGED prompt
    /\ owes' = [NothingOwed EXCEPT !.due = owes.due \/ Returned]
    /\ UNCHANGED <<account, clock, skew, phoneLock, store, calls, widget, budget,
                   hideAmounts, starts, cut>>

(* ... or away from it; told more than once, only the first moment counts.  *)
Leaves(to) ==
    /\ to \in {"inactive", "background"} /\ app' = to
    /\ IF ~lock.enabled \/ authenticating THEN UNCHANGED lock
       ELSE lock' = [lock EXCEPT !.covered = TRUE,
                        !.leftAt = IF to = "background" /\ @ = Never THEN {Seen} ELSE @]
    /\ owes' = IF to = "background" /\ owes.since = Never /\ lock.enabled
               THEN [owes EXCEPT !.since = {clock}, !.skew = skew] ELSE owes
    /\ UNCHANGED <<account, clock, skew, phoneLock, prompt, store, calls, widget,
                   budget, hideAmounts, starts, cut>>

-----------------------------------------------------------------------------
(* The session and what the screens load.                                   *)

SignIn(a) ==
    /\ account = Nobody /\ app = "active" /\ ~authenticating /\ starts < MaxSignIns
    /\ account' = a /\ budget' = 0
    /\ starts' = starts + 1
    /\ UNCHANGED <<clock, skew, app, phoneLock, lock, prompt, store, calls, widget,
                   hideAmounts, owes, cut>>

(* signedOut: logout, an expired session or a deleted account; at any time. *)
(* The cache is empty before the lock changes, so no effect saves anything. *)
SignOut ==
    /\ account # Nobody
    /\ account' = Nobody /\ budget' = 0
    /\ lock' = NewLock
    /\ calls' = calls \o deleteChoice \o forgetWidget
    /\ owes' = NothingOwed
    /\ UNCHANGED <<clock, skew, app, phoneLock, prompt, store, widget, hideAmounts,
                   starts, cut>>

LoadBudget ==
    /\ account # Nobody /\ budget < MaxVersion
    /\ budget' = budget + 1
    /\ calls' = calls \o syncWidget(account, budget', Hidden(lock.enabled))
    /\ UNCHANGED <<account, clock, skew, app, phoneLock, lock, prompt, store, widget,
                   hideAmounts, starts, owes, cut>>

ToggleHidden ==
    /\ account # Nobody /\ app = "active"
    /\ hideAmounts' = ~hideAmounts
    /\ calls' = calls \o syncWidget(account, budget, hideAmounts' \/ lock.enabled)
    /\ UNCHANGED <<account, clock, skew, app, phoneLock, lock, prompt, store, widget,
                   budget, starts, owes, cut>>

(* The oldest call is answered, and what waited for it goes on.             *)
StoreAnswers ==
    LET c == Head(calls) IN
    /\ calls # <<>>
    /\ store' = CASE c.does = "saveLock" -> [store EXCEPT !.lock = c.value]
                  [] c.does = "saveSnapshot" -> [store EXCEPT !.snapshot = c.value]
                  [] OTHER -> store
    /\ lock' = IF c.then = "enabled" THEN [lock EXCEPT !.enabled = TRUE] ELSE lock
    /\ calls' = Tail(calls) \o
                CASE c.then = "redraw" -> redraw
                  [] c.then = "enabled" -> Switched(TRUE)
                  [] OTHER -> <<>>
    /\ widget' = IF c.then = "draw" THEN store.snapshot ELSE widget
    /\ UNCHANGED <<account, clock, skew, app, phoneLock, prompt, budget, hideAmounts,
                   starts, owes, cut>>

(* The app is killed and started again: the memory is gone, a saved lock    *)
(* starts locked, and the tokens in the store decide who is signed in.      *)
Restart ==
    /\ starts < MaxSignIns /\ starts' = starts + 1
    /\ app' = "active" /\ budget' = 0 /\ calls' = <<>>
    /\ cut' = (cut \/ (account = Nobody /\ calls # <<>>))
    /\ UNCHANGED <<account, clock, skew, phoneLock, widget, hideAmounts>>
    /\ LET on == store.lock /\ phoneLock IN
         /\ lock' = [NewLock EXCEPT !.enabled = on, !.locked = on]
         /\ prompt' = IF on THEN "unlock" ELSE "none"
         /\ store' = [store EXCEPT !.lock = on]
         /\ owes' = [NothingOwed EXCEPT !.due = on]

Tick ==
    /\ clock < MaxTime /\ clock' = clock + 1
    /\ UNCHANGED <<account, skew, app, phoneLock, lock, prompt, store, calls, widget,
                   budget, hideAmounts, starts, owes, cut>>

SetClockBack(n) ==
    /\ skew = 0 /\ n > 0 /\ app = "background" /\ skew' = n
    /\ UNCHANGED <<account, clock, app, phoneLock, lock, prompt, store, calls, widget,
                   budget, hideAmounts, starts, owes, cut>>

LockStep ==
    \/ EnableAsks \/ EnableAnswered \/ Disable \/ Unlock \/ Unlocked \/ UnlockFails
    \/ SetPhoneLock \/ Comes \/ \E to \in {"inactive", "background"} : Leaves(to)
    \/ LoadBudget \/ ToggleHidden \/ StoreAnswers
    \/ Tick \/ \E n \in Skews : SetClockBack(n)

SessionStep == SignOut \/ Restart \/ \E a \in Accounts : SignIn(a)

-----------------------------------------------------------------------------
Snapshots == [account: Accounts \cup {Nobody}, version: 0..MaxVersion, hidden: BOOLEAN]

Calls ==
    [does: {"saveLock"}, value: BOOLEAN, then: {"done", "enabled"}]
      \cup [does: {"saveSnapshot"}, value: Snapshots, then: {"redraw"}]
      \cup [does: {"loadSnapshot"}, value: Snapshots, then: {"draw"}]

TypeOK ==
    /\ account \in Accounts \cup {Nobody} /\ app \in {"active", "inactive", "background"}
    /\ clock \in Nat /\ skew \in Skews \cup {0} /\ phoneLock \in BOOLEAN
    /\ lock \in [enabled: BOOLEAN, locked: BOOLEAN, covered: BOOLEAN, leftAt: SUBSET Int]
    /\ prompt \in {"none", "enable", "unlock"}
    /\ store \in [lock: BOOLEAN, snapshot: Snapshots] /\ calls \in Seq(Calls)
    /\ widget \in Snapshots /\ budget \in 0..MaxVersion /\ hideAmounts \in BOOLEAN
    /\ owes \in [since: SUBSET Nat, skew: Nat, due: BOOLEAN] /\ cut \in BOOLEAN

Hides == lock.enabled /\ (lock.locked \/ lock.covered)
Shows == account # Nobody /\ app = "active" /\ ~Hides

(* With the lock on, an app that comes back after LockAfter or more, or is  *)
(* started, shows nothing until the phone has confirmed its owner, however  *)
(* the app went inactive, to the background and back meanwhile, prompts and *)
(* sign-ins included.                                                       *)
NoPeekAfterAbsence == (Shows /\ lock.enabled) => ~owes.due

(* Once the store has answered, the home screen shows the last budget of    *)
(* the account that is signed in, with the amounts hidden if privacy mode   *)
(* or the lock is on, and nothing of an account that was left.              *)
WidgetFollows ==
    calls = <<>> =>
        /\ (account = Nobody /\ ~cut) => store.snapshot = NoSnapshot /\ widget = NoSnapshot
        /\ (account # Nobody /\ budget > 0) =>
             /\ widget = Snapshot(account, budget, Hidden(lock.enabled))
             /\ store.snapshot = widget

=============================================================================
