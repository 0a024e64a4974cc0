-------------------------- MODULE OverdueReminders --------------------------
(***************************************************************************)
(* The overdue cron (pkg/models/task_overdue_reminder.go): once a day, at  *)
(* the time of day each user has chosen, a mail with the tasks that are    *)
(* overdue.                                                                *)
(*                                                                         *)
(* Times are minutes of UTC, in days of Day minutes.  The job runs every   *)
(* minute and drops the seconds of the time it reads, so a run that is     *)
(* seconds late is no different.  Users have overdue reminders enabled,    *)
(* lists are not archived, and zones have no daylight saving time.         *)
(***************************************************************************)
EXTENDS Integers

CONSTANTS
    Users, Tasks,
    Recipients,      \* task -> its creator and its assignees
    Day,             \* minutes of a day
    At,              \* user -> OverdueTasksRemindersTime, minutes since midnight
    Zone,            \* user -> minutes the user's time zone is ahead of UTC
    ServerZone,      \* the same for Vikunja's time zone
    Start, Horizon   \* first minute of the model, and bound of the minutes

ASSUME ConstantsAssumption ==
    /\ Recipients \in [Tasks -> SUBSET Users]
    /\ Day \in Nat \ {0}
    /\ At \in [Users -> 0..(Day - 1)]
    /\ Zone \in [Users -> Int] /\ ServerZone \in Int
    /\ Start \in Nat /\ Horizon \in Nat

VARIABLES
    now,      \* the minute of the next run of the job
    due,      \* task -> its due date
    done,     \* tasks that are done
    last,     \* user -> the minute of the last overdue mail
    failed    \* history: the minute of the last run that ended early

vars == <<now, due, done, last, failed>>

NoDue == -1      \* tasks without a due date
Never == -1      \* users who have not got a mail, and no run that failed

Init ==
    /\ now = Start
    /\ due = [t \in Tasks |-> NoDue]
    /\ done = {}
    /\ last = [u \in Users |-> Never]
    /\ failed = Never

-----------------------------------------------------------------------------
(* A client gives the task a due date that has not passed yet. *)
SetDue(t, d) ==
    /\ d >= now
    /\ due' = [due EXCEPT ![t] = d]
    /\ UNCHANGED <<now, done, last, failed>>

MarkDone(t) ==
    /\ t \notin done
    /\ done' = done \union {t}
    /\ UNCHANGED <<now, due, last, failed>>

(* The date of the server on which minute m falls, as a number of days. *)
ServerDate(m) == (m + ServerZone) \div Day

(* The user's time of day, on the server's date, in the user's time zone. *)
OverdueMailTime(u, m) == ServerDate(m) * Day + At[u] - Zone[u]

(* Mutant of IsTimeForReminder: the full minute itself is not looked at. *)
IsTimeStrictlyAfter(u, m) == m < OverdueMailTime(u, m) /\ OverdueMailTime(u, m) < m + 1

(* Mutant of IsTimeForReminder: the minutes after it are as good. *)
IsTimeOrLater(u, m) == OverdueMailTime(u, m) < m + 1

IsTimeForReminder(u, m) == m <= OverdueMailTime(u, m) /\ OverdueMailTime(u, m) < m + 1

(* The query looks 14 hours ahead of now, so it leaves out no task that is due *)
(* before a mail time that is now.                                             *)
OverdueTasks(u, m) ==
    {t \in Tasks : /\ u \in Recipients[t] /\ t \notin done
                   /\ due[t] # NoDue /\ due[t] < OverdueMailTime(u, m)}

ToMail == {u \in Users : IsTimeForReminder(u, now) /\ OverdueTasks(u, now) # {}}

(* The users are mailed in any order, and the first mail that fails ends the run. *)
RunOverdueCron(mailed) ==
    /\ now < Horizon
    /\ now' = now + 1
    /\ last' = [u \in Users |-> IF u \in mailed THEN now ELSE last[u]]
    /\ mailed # ToMail => failed = Never    \* bound: one run fails
    /\ failed' = IF mailed = ToMail THEN failed ELSE now
    /\ UNCHANGED <<due, done>>

Next ==
    \/ \E t \in Tasks, d \in now..Horizon : SetDue(t, d)
    \/ \E t \in Tasks : MarkDone(t)
    \/ \E mailed \in SUBSET ToMail : RunOverdueCron(mailed)

Spec == Init /\ [][Next]_vars

-----------------------------------------------------------------------------
(* A task that t's users should have heard of: overdue for more than a day. *)
LongOverdue(t) ==
    /\ t \notin done /\ due[t] # NoDue
    /\ due[t] < now - Day /\ now - Day >= Start

(* The user's time of day comes on the same date where the server stands. *)
OnServerDate(u) == At[u] - Zone[u] + ServerZone \in 0..(Day - 1)

(* A task that has been overdue, and not done, for more than a day has been in a *)
(* mail within the last day, if no run of that day failed: but only for users    *)
(* whose time of day comes on the same date where the server stands.  To the     *)
(* others no mail ever goes.                                                     *)
MailEveryDayOnServerDate ==
    \A t \in Tasks : LongOverdue(t) /\ failed < now - Day =>
        \A u \in Recipients[t] : OnServerDate(u) => last[u] >= now - Day

(* No user gets a second mail within a day, whatever the date is where the *)
(* server stands.                                                          *)
MailOnceADay ==
    [][\A u \in Users : last'[u] # last[u] /\ last[u] # Never => last'[u] >= last[u] + Day]_vars
=============================================================================
