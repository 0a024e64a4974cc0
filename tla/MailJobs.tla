------------------------------ MODULE MailJobs ------------------------------
(* The two jobs that mail about tasks.  They share no row they write and no  *)
(* state, so a behaviour follows one of them: running both side by side      *)
(* would add interleavings and no outcome.                                   *)
EXTENDS OverdueReminders, TaskReminders

VARIABLE job    \* the job that is looked at

JobsInit == job \in {"overdue", "reminders"} /\ Init /\ RemindersInit

JobsNext ==
    \/ job = "overdue" /\ Next /\ UNCHANGED <<job, reminderVars>>
    \/ job = "reminders" /\ RemindersNext /\ UNCHANGED <<job, vars>>

JobsSpec == JobsInit /\ [][JobsNext]_<<job, vars, reminderVars>>
=============================================================================
