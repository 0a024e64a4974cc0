------------------------- MODULE MCAccountDeletion -------------------------
(* One account.  A day has four hours, the fewest of which three can hold three *)
(* reminders, and an hour has two moments, so that the jobs of one hour start   *)
(* earlier or later than those of another.                                      *)
EXTENDS AccountDeletion

CONSTANT u1
=============================================================================
