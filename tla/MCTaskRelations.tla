-------------------------- MODULE MCTaskRelations --------------------------
(* Instances of TaskRelations: kinds are closed under their inverse. *)
EXTENDS TaskRelations, TLC

CONSTANT c1

Directed == {"subtask", "parenttask"}
Undirected == {"related"}
Both == Directed \union Undirected

(* Bound of the rows, two for a relation: relations among two tasks of a list, *)
(* their copies, and others next to them.                                      *)
FewRelations == Cardinality({r \in Relation : Present(r)}) <= 8
=============================================================================
