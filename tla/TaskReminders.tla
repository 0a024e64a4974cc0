--------------------------- MODULE TaskReminders ---------------------------
(***************************************************************************)
(* The reminder cron (pkg/models/task_reminder.go) against the clients     *)
(* that change the reminders of their tasks (Task.updateReminders) and     *)
(* mark them as done.                                                      *)
(*                                                                         *)
(* Times are seconds of UTC in minutes of MinuteLen seconds.  The cron     *)
(* library starts the job at each full minute; the job reads the clock     *)
(* once, up to MaxDelay seconds later.  Only the seconds are kept of what  *)
(* it reads.  The users have email reminders enabled, the tasks exist.     *)
(***************************************************************************)
EXTENDS Naturals, Integers, FiniteSets

CONSTANTS
    RemindedUsers, RemindedTasks,
    Creator,         \* task -> the user who created it
    Assignees,       \* task -> the users it is assigned to
    MinuteLen,       \* seconds of a minute
    MaxDelay,        \* how many seconds a run of the job may be late
    ServerOffset,    \* Vikunja's time zone, in seconds ahead of UTC
    Behind, Ahead,   \* the 12 and the 14 hours of the query, on this scale
    Minutes,         \* bound of the minutes
    MaxFailures      \* bound of the runs that end early

ASSUME RemindersAssumption ==
    /\ Creator \in [RemindedTasks -> RemindedUsers]
    /\ Assignees \in [RemindedTasks -> SUBSET RemindedUsers]
    /\ MinuteLen \in Nat \ {0} /\ MaxDelay \in 0..(MinuteLen - 1)
    /\ ServerOffset \in Int /\ {Behind, Ahead, MaxFailures} \subseteq Nat
    /\ Minutes \in Nat \ {0}

VARIABLES
    minute,       \* the full minute of the next run of the job
    reminders,    \* table task_reminders
    finished,     \* tasks that are done
    sent,         \* how many notifications each user got for each reminder
    ended         \* history: the minutes of the runs that ended early

reminderVars == <<minute, reminders, finished, sent, ended>>

Seconds == 0..(Minutes * MinuteLen - 1)
Reminder == [task : RemindedTasks, at : Seconds]

RemindersInit ==
    /\ minute = 1
    /\ reminders = {} /\ finished = {} /\ ended = {}
    /\ sent = [u \in RemindedUsers |-> [r \in Reminder |-> 0]]

-----------------------------------------------------------------------------
(* Task.updateReminders replaces the task's rows; two reminders of the same    *)
(* second are one.  The client asks for times after the minute that is running. *)
UpdateReminders(t, times) ==
    /\ \A s \in times : s >= minute * MinuteLen
    /\ reminders' = {r \in reminders : r.task # t} \union {[task |-> t, at |-> s] : s \in times}
    /\ UNCHANGED <<minute, finished, sent, ended>>

MarkFinished(t) ==
    /\ t \notin finished
    /\ finished' = finished \union {t}
    /\ UNCHANGED <<minute, reminders, sent, ended>>

(* Mutant of Selected: tasks that are done are reminded of. *)
SelectedDoneToo(now) ==
    {r \in reminders :
        /\ r.at >= now + ServerOffset - Behind
        /\ r.at < now + MinuteLen + ServerOffset + Ahead}

(* The rows the query selects.  It compares the column, which is in UTC, with *)
(* the text of a time in Vikunja's time zone.                                 *)
Selected(now) ==
    {r \in reminders :
        /\ r.task \notin finished
        /\ r.at >= now + ServerOffset - Behind
        /\ r.at < now + MinuteLen + ServerOffset + Ahead}

(* Mutant of DueWithin: a reminder of exactly now is not due. *)
DueStrictlyWithin(r, now) == now < r.at /\ r.at < now + MinuteLen

DueWithin(r, now) == now <= r.at /\ r.at < now + MinuteLen

(* One notification for the creator of the task and one for each assignee. *)
Deliveries(now) ==
    UNION {{[user |-> Creator[r.task], reminder |-> r, as |-> "creator"]}
             \union {[user |-> u, reminder |-> r, as |-> "assignee"] : u \in Assignees[r.task]} :
           r \in {r \in Selected(now) : DueWithin(r, now)}}

(* They are sent in any order, and the first that fails ends the run. *)
Delivered(given) ==
    [u \in RemindedUsers |-> [r \in Reminder |->
       sent[u][r] + Cardinality({d \in given : d.user = u /\ d.reminder = r})]]

EndsEarly(now, given) == given # Deliveries(now)

RunReminderCron(delay, given) ==
    /\ minute < Minutes
    /\ minute' = minute + 1
    /\ sent' = Delivered(given)
    /\ ended' = ended \union {m \in {minute} : EndsEarly(minute * MinuteLen + delay, given)}
    /\ Cardinality(ended') <= MaxFailures
    /\ UNCHANGED <<reminders, finished>>

RemindersNext ==
    \/ \E t \in RemindedTasks, times \in SUBSET Seconds :
          Cardinality(times) <= 2 /\ UpdateReminders(t, times)
    \/ \E t \in RemindedTasks : MarkFinished(t)
    \/ \E delay \in 0..MaxDelay :
          \E given \in SUBSET Deliveries(minute * MinuteLen + delay) : RunReminderCron(delay, given)

RemindersSpec == RemindersInit /\ [][RemindersNext]_reminderVars

-----------------------------------------------------------------------------
RemindersTypeOK ==
    /\ minute \in 1..Minutes
    /\ reminders \subseteq Reminder /\ finished \subseteq RemindedTasks
    /\ sent \in [RemindedUsers -> [Reminder -> Nat]]
    /\ ended \subseteq 1..Minutes

(* A user gets at most one notification for a reminder: the minutes of two runs *)
(* do not overlap, and a client that writes the same reminder again does not    *)
(* bring it back.                                                               *)
SentOnce == \A u \in RemindedUsers, r \in Reminder : sent[u][r] <= 1

(* A reminder whose minute is over has been sent to the creator and to every   *)
(* assignee, unless the task was done or the run of that very minute failed:   *)
(* the minutes leave no gap, and none lies outside the query (the comment on   *)
(* RegisterReminderCron).                                                      *)
SentInTime ==
    \A r \in reminders :
        r.at < minute * MinuteLen /\ r.task \notin finished /\ r.at \div MinuteLen \notin ended =>
            \A u \in {Creator[r.task]} \union Assignees[r.task] : sent[u][r] > 0

(* Each reminder is sent exactly once, in its minute (RegisterReminderCron). *)
SentExactlyOnce == RemindersTypeOK /\ SentOnce /\ SentInTime

(* Nothing is sent for a reminder the client removed, or for a task that was  *)
(* done, before its minute began.                                             *)
NothingStale ==
    [][\A u \in RemindedUsers, r \in Reminder :
          sent'[u][r] > sent[u][r] => r \in reminders /\ r.task \notin finished]_reminderVars
=============================================================================
