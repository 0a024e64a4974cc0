-------------------------- MODULE MCNotifications --------------------------
(* An author and a subscriber, texts that mention the subscriber or nobody,  *)
(* room for one mail, and one retry: a listener can fail twice and be given  *)
(* up.  Two requests suffice for an event that overtakes another, since the  *)
(* process starts with any subscriptions and with or without the task.      *)
EXTENDS Notifications

CONSTANTS u1, u2

SomeTexts == {{}, {u2}}
=============================================================================
