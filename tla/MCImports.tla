------------------------------ MODULE MCImports ------------------------------
(***************************************************************************)
(* Three tasks of two projects, the first with two sections and the second *)
(* with one, imported into an empty installation or one with four tasks    *)
(* and buckets.  Three tasks are enough for a subtask of a subtask; the    *)
(* positions are such that an old bucket comes first in one list, in both  *)
(* or in none of its own.                                                  *)
(***************************************************************************)
EXTENDS Imports

MCProjects == {1, 2}
MCSectionProject == <<1, 1, 2>>
MCOldPosition == <<11, 5, 3>>
MCUsed == {0, 4}

=============================================================================
