---------------------------- MODULE MCTaskRepeat ----------------------------
(* Two ticks make a second, durations have five bits: to repeat after one or   *)
(* two seconds is in range, eight seconds turn into a negative duration and    *)
(* sixteen into none.  A year has a month of three ticks and one of two.       *)
EXTENDS TaskRepeat

TwoMonths == [m \in 0 .. 1 |-> 3 - m]
=============================================================================
