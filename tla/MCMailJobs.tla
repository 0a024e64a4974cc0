----------------------------- MODULE MCMailJobs -----------------------------
(* Overdue tasks: days of four minutes.  One user lives two minutes ahead of *)
(* the server, and is mailed on the server's date all the same; the other    *)
(* lives two minutes behind, where the mail time is the next day's for the   *)
(* server.                                                                   *)
(*                                                                           *)
(* Reminders: five minutes of two seconds, and a server three seconds ahead   *)
(* of UTC.  One user created the task, the other is assigned to it.          *)
EXTENDS MailJobs, TLC

CONSTANTS u1, u2, t1, t2

Mails == u1 :> 2 @@ u2 :> 3
Zones == u1 :> ServerZone + 2 @@ u2 :> ServerZone - 2
Shared == t1 :> {u1, u2} @@ t2 :> {u2}
ByFirst == t1 :> u1
ToSecond == t1 :> {u2}
=============================================================================
