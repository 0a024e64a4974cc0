------------------------------ MODULE MCRaces ------------------------------
(* An instance of Races with two lists and three buckets.  The workers next  *)
(* to each other are one that creates and moves tasks, and one that deletes  *)
(* tasks and lists.                                                          *)
EXTENDS RacesAlone, TLC

CONSTANTS w0, w1, w2

Jobs == w0 :> Kinds @@ w1 :> {"create", "move"} @@ w2 :> {"delete task", "delete list"}
TwoLists == {1, 2}
ThreeBuckets == <<1, 1, 2>>
Limit3 == <<2, 1, 0>>

(* What the theorems about one writer assume is so here. *)
ASSUME OneWriterAssumption == OneWriter
=============================================================================
