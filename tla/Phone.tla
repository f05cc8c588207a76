-------------------------------- MODULE Phone --------------------------------
(***************************************************************************)
(* The phone's reminders, beside the lock, the widget and the session of    *)
(* AppLock.                                                                 *)
(*                                                                         *)
(* ReminderSync plans reminders from what the app has loaded and replaces  *)
(* all that are scheduled when the plan came out different; the end of a   *)
(* session cancels them.  Both are jobs of several calls to the system,    *)
(* which one queue runs one after another.                                 *)
(***************************************************************************)
EXTENDS AppLock

CONSTANTS
    PlanSize,       \* reminders of a plan
    MaxSwitches     \* bound: changes of the settings and of the permission

VARIABLES
    granted,    \* whether the system allows notifications
    wanted,     \* reminder preferences: whether any reminder is wanted
    lastPlan,   \* the plan ReminderSync sent last since it was mounted, in a set
    jobs,       \* the queue; the first job is running
    scheduled,  \* the reminders the system holds
    switches,   \* bounded counter
    left        \* the app was killed before the queue was empty

reminderVars == <<granted, wanted, lastPlan, jobs, scheduled, switches, left>>
vars == <<lockVars, reminderVars>>

(* What is planned: the nearest reminders of what the account has loaded.   *)
planReminders(a, version, wants) ==
    IF wants THEN {[account |-> a, version |-> version, n |-> n] : n \in 1..PlanSize}
    ELSE {}

ReplaceReminders(plan) == [does |-> "cancel", then |-> plan]
cancelReminders == [does |-> "cancel", then |-> {}]

PhoneInit ==
    /\ Init
    /\ granted \in BOOLEAN /\ wanted = TRUE
    /\ lastPlan = {} /\ jobs = <<>> /\ scheduled = {}
    /\ switches = 0 /\ left = FALSE

(* The effect of ReminderSync, on every change of what it reads.            *)
Sync ==
    LET plan == planReminders(account', budget', wanted') IN
    IF granted' /\ account' # Nobody /\ budget' > 0 /\ plan \notin lastPlan
    THEN lastPlan' = {plan} /\ jobs' = Append(jobs, ReplaceReminders(plan))
    ELSE UNCHANGED <<lastPlan, jobs>>

JobStepMutant ==
    /\ \E i \in DOMAIN jobs :
         LET job == jobs[i] IN
         \/ /\ job.does = "cancel" /\ scheduled' = {}
            /\ jobs' = [jobs EXCEPT ![i].does = "schedule"]
         \/ /\ job.does = "schedule" /\ job.then # {}
            /\ \E r \in job.then :
                 /\ scheduled' = scheduled \cup {r}
                 /\ jobs' = [jobs EXCEPT ![i].then = @ \ {r}]
         \/ /\ i = 1 /\ job.does = "schedule" /\ job.then = {}
            /\ jobs' = Tail(jobs) /\ UNCHANGED scheduled
    /\ UNCHANGED <<lockVars, granted, wanted, lastPlan, switches, left>>

(* A job cancels everything, then schedules one reminder after another.     *)
JobStep ==
    LET job == Head(jobs) IN
    /\ jobs # <<>>
    /\ \/ /\ job.does = "cancel" /\ scheduled' = {}
          /\ jobs' = <<[job EXCEPT !.does = "schedule"]>> \o Tail(jobs)
       \/ /\ job.does = "schedule" /\ job.then # {}
          /\ \E r \in job.then :
               /\ scheduled' = scheduled \cup {r}
               /\ jobs' = <<[job EXCEPT !.then = @ \ {r}]>> \o Tail(jobs)
       \/ /\ job.does = "schedule" /\ job.then = {}
          /\ jobs' = Tail(jobs) /\ UNCHANGED scheduled
    /\ UNCHANGED <<lockVars, granted, wanted, lastPlan, switches, left>>

(* A reminder comes up on the screen and is no longer held.                 *)
Fires ==
    /\ \E r \in scheduled : scheduled' = scheduled \ {r}
    /\ UNCHANGED <<lockVars, granted, wanted, lastPlan, jobs, switches, left>>

(* The phone's settings, seen when the app is in front again.               *)
SetPermission ==
    /\ account # Nobody /\ switches < MaxSwitches /\ switches' = switches + 1
    /\ granted' = ~granted
    /\ UNCHANGED <<lockVars, wanted, scheduled, left>>
    /\ Sync

(* The switches of the settings: the cache at once, then the store.         *)
SetPreferences ==
    /\ account # Nobody /\ granted /\ switches < MaxSwitches
    /\ switches' = switches + 1 /\ wanted' = ~wanted
    /\ UNCHANGED <<lockVars, granted, scheduled, left>>
    /\ Sync

(* Steps of the lock and the widget, the loading of a budget among them.    *)
LockMoves ==
    /\ LockStep
    /\ UNCHANGED <<granted, wanted, scheduled, switches, left>>
    /\ Sync

SessionEnds ==
    /\ SignOut
    /\ lastPlan' = {}       \* ReminderSync is unmounted
    /\ jobs' = Append(jobs, cancelReminders)
    /\ UNCHANGED <<granted, wanted, scheduled, switches, left>>

SessionStarts ==
    /\ \E a \in Accounts : SignIn(a)
    /\ lastPlan' = {}
    /\ UNCHANGED <<granted, wanted, jobs, scheduled, switches, left>>

AppRestarts ==
    /\ Restart
    /\ lastPlan' = {} /\ jobs' = <<>>
    /\ left' = (left \/ (account = Nobody /\ jobs # <<>>))
    /\ UNCHANGED <<granted, wanted, scheduled, switches>>

Next ==
    \/ LockMoves \/ SessionEnds \/ SessionStarts \/ AppRestarts
    \/ JobStep \/ Fires \/ SetPermission \/ SetPreferences

Spec == PhoneInit /\ [][Next]_vars

Reminders == [account: Accounts, version: 0..MaxVersion, n: 1..PlanSize]

PhoneTypeOK ==
    /\ TypeOK
    /\ granted \in BOOLEAN /\ wanted \in BOOLEAN /\ left \in BOOLEAN
    /\ lastPlan \subseteq SUBSET Reminders /\ scheduled \subseteq Reminders
    /\ jobs \in Seq([does: {"cancel", "schedule"}, then: SUBSET Reminders])

(* Once the queue is empty the phone holds no reminder of a session that    *)
(* ended, and otherwise none but those of the plan ReminderSync made last:  *)
(* no job leaves a part of an older plan or of another account's, in        *)
(* whatever order plans, logins, logouts and steps of jobs came.            *)
NoStrayReminders ==
    jobs = <<>> =>
        /\ (account = Nobody /\ ~left) => scheduled = {}
        /\ \A plan \in lastPlan : scheduled \subseteq plan
=============================================================================
