----------------------------- MODULE RacesAlone -----------------------------
(* A behaviour of Races follows one worker that serves every kind of request, *)
(* or the others next to each other.                                          *)
EXTENDS Races

CONSTANT Solo      \* the worker that serves alone

VARIABLE alone     \* Solo is the one that serves

(* Only one worker of those next to each other creates and moves tasks and *)
(* deletes buckets; the others delete tasks and lists.                     *)
Deletes(v) == Does[v] \subseteq {"delete task", "delete list"}
OneWriter == \E w \in Workers : \A v \in Workers \ {w, Solo} : Deletes(v)

RacesInit == Init /\ alone \in BOOLEAN

RacesNext ==
    /\ \E w \in Workers : Step(w) /\ (alone <=> w = Solo)
    /\ UNCHANGED alone

RacesSpec == RacesInit /\ [][RacesNext]_<<alone, vars>>

(* Every statement of a request that runs alone is a request of Kanban.tla or *)
(* changes nothing there (tasks.go, kanban.go, list.go).                      *)
RunsAsKanban == [][alone => K!Next]_(K!vars)
=============================================================================
