------------------------------ MODULE MCLogins ------------------------------
(* Two requests at a time, limits that two or three attempts reach, and a    *)
(* second secret for those who disable the first and enroll again.           *)
EXTENDS Logins

CONSTANTS a1, a2
=============================================================================
