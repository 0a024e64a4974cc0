--------------------------- MODULE TaskRelations ---------------------------
(***************************************************************************)
(* The table task_relations (pkg/models/task_relation.go), and the two     *)
(* handlers elsewhere that write it: Task.Delete and the duplication of a  *)
(* list.  A relation is two rows, one for each direction.  No index keeps  *)
(* a row from being there twice, so the table is a count of each row.      *)
(*                                                                         *)
(* Create reads, then writes: between the two, other clients' requests run *)
(* to their end.                                                           *)
(***************************************************************************)
EXTENDS Naturals, FiniteSets, Functions

CONSTANTS
    Clients,      \* who may have a request under way at the same time
    Kinds,        \* the kinds of relation in use
    Deletes,      \* the kinds clients delete relations of
    MaxTask,      \* bound of the task ids
    MaxCopies     \* bound of how often Create puts one row into the table

AllKinds == {"subtask", "parenttask", "related", "duplicateof", "duplicates", "blocking",
             "blocked", "precedes", "follows", "copiedfrom", "copiedto"}

(* The switch of TaskRelation.Create. *)
InverseKind ==
    [k \in AllKinds |->
       CASE k = "subtask" -> "parenttask"   [] k = "parenttask" -> "subtask"
         [] k = "duplicateof" -> "duplicates" [] k = "duplicates" -> "duplicateof"
         [] k = "blocking" -> "blocked"     [] k = "blocked" -> "blocking"
         [] k = "precedes" -> "follows"     [] k = "follows" -> "precedes"
         [] k = "copiedfrom" -> "copiedto"  [] k = "copiedto" -> "copiedfrom"
         [] k = "related" -> "related"]

ASSUME RelationsAssumption ==
    /\ Kinds \subseteq AllKinds /\ \A k \in Kinds : InverseKind[k] \in Kinds
    /\ Deletes \subseteq Kinds
    /\ MaxTask \in Nat /\ MaxCopies \in Nat

VARIABLES
    tasks,       \* ids of the rows of table tasks
    nextTask,    \* its auto-increment counter
    rows,        \* table task_relations: how often each row is in it
    pending      \* <<client, relation>> of the Creates that have passed their checks

relationVars == <<tasks, nextTask, rows, pending>>

Relation == [task : 1..MaxTask, other : 1..MaxTask, kind : Kinds]

(* The row for the other direction. *)
Flip(r) == [task |-> r.other, other |-> r.task, kind |-> InverseKind[r.kind]]

Present(r) == rows[r] > 0

AtRest(c) == \A p \in pending : p[1] # c

RelationsInit ==
    /\ tasks = {} /\ nextTask = 1
    /\ rows = [r \in Relation |-> 0]
    /\ pending = {}

CreateTask(c) ==
    /\ AtRest(c)
    /\ nextTask <= MaxTask
    /\ tasks' = tasks \union {nextTask}
    /\ nextTask' = nextTask + 1
    /\ UNCHANGED <<rows, pending>>

(* Mutant of DeleteTask: only the task's own rows are deleted. *)
DeleteTaskOwnRows(c, t) ==
    /\ AtRest(c)
    /\ t \in tasks
    /\ tasks' = tasks \ {t}
    /\ rows' = [r \in Relation |-> IF r.task = t THEN 0 ELSE rows[r]]
    /\ UNCHANGED <<nextTask, pending>>

(* Task.Delete removes the rows of both directions. *)
DeleteTask(c, t) ==
    /\ AtRest(c)
    /\ t \in tasks
    /\ tasks' = tasks \ {t}
    /\ rows' = [r \in Relation |-> IF t \in {r.task, r.other} THEN 0 ELSE rows[r]]
    /\ UNCHANGED <<nextTask, pending>>

(* TaskRelation.CanCreate, and Create up to its Insert: the kind is valid, both *)
(* tasks exist, they differ, and the row is not there yet.  The query names the *)
(* same direction twice, so the row of the other direction is not looked for.   *)
CheckRelation(c, r) ==
    /\ AtRest(c)
    /\ r.task \in tasks /\ r.other \in tasks /\ r.task # r.other
    /\ ~Present(r)
    /\ pending' = pending \union {<<c, r>>}
    /\ UNCHANGED <<tasks, nextTask, rows>>

(* Mutant of InsertRelation: the row of the other direction is not there. *)
InsertOneRow(c, r) ==
    /\ <<c, r>> \in pending
    /\ rows[r] < MaxCopies
    /\ rows' = [rows EXCEPT ![r] = @ + 1]
    /\ pending' = pending \ {<<c, r>>}
    /\ UNCHANGED <<tasks, nextTask>>

(* One Insert statement for both rows. *)
InsertRelation(c, r) ==
    /\ <<c, r>> \in pending
    /\ rows[r] < MaxCopies /\ rows[Flip(r)] < MaxCopies
    /\ rows' = [q \in Relation |-> IF q \in {r, Flip(r)} THEN rows[q] + 1 ELSE rows[q]]
    /\ pending' = pending \ {<<c, r>>}
    /\ UNCHANGED <<tasks, nextTask>>

(* The two rows TaskRelation.Delete names: both have the kind of the request. *)
Named(r) == {r, [task |-> r.other, other |-> r.task, kind |-> r.kind]}

DeleteRelation(c, r) ==
    /\ AtRest(c)
    /\ r.task \in tasks /\ r.kind \in Deletes
    /\ \E q \in Named(r) : Present(q)
    /\ rows' = [q \in Relation |-> IF q \in Named(r) THEN 0 ELSE rows[q]]
    /\ UNCHANGED <<tasks, nextTask, pending>>

(* The row that a row between two copies is a copy of. *)
Source(old, r) == [task |-> old[r.task], other |-> old[r.other], kind |-> r.kind]

(* duplicateTasks for a list whose tasks are ts: old is the task map the other *)
(* way around, and the rows between two tasks of the list are copied.          *)
DuplicateList(c, ts) ==
    /\ AtRest(c)
    /\ ts # {} /\ ts \subseteq tasks
    /\ nextTask + Cardinality(ts) - 1 <= MaxTask
    /\ nextTask' = nextTask + Cardinality(ts)
    /\ LET copies == nextTask..(nextTask + Cardinality(ts) - 1) IN
       \E old \in Bijection(copies, ts) :
          /\ tasks' = tasks \union copies
          /\ rows' = [r \in Relation |->
                IF r.task \in copies /\ r.other \in copies
                THEN rows[Source(old, r)]
                ELSE rows[r]]
    /\ UNCHANGED pending

RelationsNext == \E c \in Clients :
    \/ CreateTask(c)
    \/ \E t \in tasks : DeleteTask(c, t)
    \/ \E r \in Relation : CheckRelation(c, r) \/ InsertRelation(c, r) \/ DeleteRelation(c, r)
    \/ \E ts \in SUBSET tasks : DuplicateList(c, ts)

RelationsSpec == RelationsInit /\ [][RelationsNext]_relationVars

-----------------------------------------------------------------------------
RelationsTypeOK ==
    /\ nextTask \in Nat \ {0} /\ tasks \subseteq 1..(nextTask - 1)
    /\ rows \in [Relation -> Nat]
    /\ pending \subseteq Clients \X Relation

(* Each relation exists two times, once for each direction: every row has as   *)
(* many partners as it has copies (the comment above RelationKind.isValid).    *)
Balanced == \A r \in Relation : rows[r] = rows[Flip(r)]

(* No relation leads to a task that is gone (Task.Delete deletes its relations). *)
NoDangling == \A r \in Relation : Present(r) => r.task \in tasks /\ r.other \in tasks

(* A relation that exists is not created again (error 4008). *)
NoneTwice == \A r \in Relation : rows[r] <= 1

(* What one client at a time keeps of the table: its rows are of tasks that are *)
(* there, and none is there twice (TaskRelation.Create, Task.Delete).           *)
RowsSound == RelationsTypeOK /\ NoDangling /\ NoneTwice
=============================================================================
