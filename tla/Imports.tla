------------------------------ MODULE Imports ------------------------------
(***************************************************************************)
(* How data of another service is imported                                 *)
(* (pkg/modules/migration): a converter turns it into lists with buckets   *)
(* and tasks, and insertFromStructure writes these one after the other.    *)
(*                                                                         *)
(* The session of the import begins no transaction, so that its rollback   *)
(* undoes nothing: an import that fails leaves what it wrote.  Every       *)
(* statement that a property can tell from the next is a step, and any of  *)
(* them can fail.  What a loop has left follows from what it has written;  *)
(* it takes the least of that, where the code goes through a list.         *)
(*                                                                         *)
(* Titles, labels, dates, files and comments are left out, and with them   *)
(* the notes and reminders of Todoist.                                     *)
(***************************************************************************)
EXTENDS Integers, FiniteSets

CONSTANTS
    NumItems,           \* tasks of the other service, numbered from 1
    Projects,           \* numbers of its projects (boards, lists)
    NumSections,        \* its sections (columns, buckets), numbered from 1 ...
    SectionProject,     \* ... with their projects
    OldPosition,        \* ... and with their positions, where it is a Vikunja too
    Used,               \* how many tasks and buckets there may be before the import
    MaxAgain            \* bound of the tasks that Todoist answers twice

Items == 1 .. NumItems
Sections == 1 .. NumSections
Services == {"todoist", "trello", "ticktick", "vikunja"}

ASSUME ConstantsAssumption ==
    /\ {NumItems, NumSections, MaxAgain} \subseteq Nat
    /\ Projects \subseteq Nat \ {0} /\ Used \subseteq Nat
    /\ SectionProject \in [Sections -> Projects]
    /\ OldPosition \in [Sections -> Nat]

VARIABLES
    data,           \* what the other service has
    step,           \* what the import does next, "done" or "failed"
    toNest,         \* rows the converter has yet to look at
    nested,         \* items it has put below their parents
    at,             \* the list at hand, named like its project; 0 before the first
    row,            \* the row of its task at hand
    links,          \* relations of that task that are left
    dropped,        \* the bucket that was deleted and whose tasks move next
    made,           \* the map of buckets of the list at hand: old id -> new id or 0
    needsDefault,   \* needsDefaultBucket of the list at hand
    idOf,           \* row -> the id of the task made of it, or 0
    lists,          \* table lists: the projects whose lists are made
    bucket,         \* table buckets: id -> list, the section it is made of (0: none), position
    task,           \* table tasks: id -> item, list, bucket
    relation,       \* table task_relations: rows <<task id, kind, other task id>>
    nextBucket, nextTask

vars == <<data, step, toNest, nested, at, row, links, dropped, made, needsDefault, idOf,
          lists, bucket, task, relation, nextBucket, nextTask>>
structure == <<data, toNest, nested>>

-----------------------------------------------------------------------------
(* What the other service has: tasks in a project or, for Todoist, in one that *)
(* is not part of the answer (0), in a section or none (0), below another task *)
(* of the project or none (0).  Todoist answers a completed recurring task     *)
(* twice: again.                                                               *)

Placed(i) == i.section # 0 => SectionProject[i.section] = i.project

Item == {i \in [project : Projects \union {0}, section : Sections \union {0},
                parent : Items \union {0}] : Placed(i)}

NoCycle(item) ==
    \A S \in SUBSET Items \ {{}} : \E i \in S : item[i].parent \notin S

Family(item) ==
    \A i \in Items : item[i].parent # 0 => item[item[i].parent].project = item[i].project

Offers(service, i) ==
    CASE service = "todoist" -> TRUE
      [] service = "trello" -> i.section # 0 /\ i.parent = 0
      [] service = "ticktick" -> i.project # 0 /\ i.section = 0
      [] service = "vikunja" -> i.section # 0

Data ==
    UNION {{[service |-> service, item |-> item, again |-> again] :
                item \in {f \in [Items -> {i \in Item : Offers(service, i)}] :
                            NoCycle(f) /\ Family(f)},
                again \in {S \in SUBSET Items :
                            Cardinality(S) <= IF service = "todoist" THEN MaxAgain ELSE 0}} :
           service \in Services}

-----------------------------------------------------------------------------
(* The converters.  A task of the structure is named by its row of the answer: *)
(* that of an item, or, after all of these, the second one of an item.         *)

Rows == Items \union {NumItems + i : i \in data.again}
ItemNo(r) == IF r <= NumItems THEN r ELSE r - NumItems
ItemOf(r) == data.item[ItemNo(r)]
RowsOf(p) == {r \in Rows : ItemOf(r).project = p}

(* The one that is in convertTodoistToVikunja's map of tasks. *)
LastRow(i) == IF i \in data.again THEN NumItems + i ELSE i

IsLeast(r, S) == r \in S /\ \A q \in S : r <= q

(* Mutant of OldId: the columns of a board are not counted. *)
OldIdUncounted(s) == IF s = 0 THEN 0 ELSE 1

(* The id a section has in the structure.  That of Todoist is counted up while *)
(* the items are gone through, when the sections have theirs already.          *)
OldId(s) == IF data.service = "todoist" /\ s # 0 THEN 1 ELSE s

(* convertTodoistToVikunja, for one row: the task is put below its parent and *)
(* taken off its list and out of the map of tasks, where its own subtasks and *)
(* a second row of it will not find it.                                       *)
Nest(r) ==
    /\ step = "convert" /\ IsLeast(r, toNest)
    /\ toNest' = toNest \ {r}
    /\ LET parent == ItemOf(r).parent
       IN  IF parent \in nested THEN UNCHANGED <<nested, step>>
           ELSE IF ItemNo(r) \in nested THEN step' = "failed" /\ UNCHANGED nested   \* it panics
           ELSE nested' = nested \union {ItemNo(r)} /\ UNCHANGED step
    /\ UNCHANGED <<data, at, row, links, dropped, made, needsDefault, idOf,
                   lists, bucket, task, relation, nextBucket, nextTask>>

(* Mutant of TopRows: the tasks that are put below others stay on their lists. *)
TopRowsAll(p) == RowsOf(p)

TopRows(p) == {r \in RowsOf(p) : ItemNo(r) \in nested => r # LastRow(ItemNo(r))}

Below(r) == {i \in nested : r = LastRow(data.item[i].parent)}

(* The relations of a task of the structure, to another task of it that is made *)
(* first (its id is 0), or to one by the id it had: TickTick's and Vikunja's    *)
(* are not translated.                                                          *)
Links(r) ==
    LET up == {[kind |-> "parenttask", row |-> r, id |-> ItemOf(r).parent]}
        below == {[kind |-> "subtask", row |-> r, id |-> i] :
                    i \in {j \in Items : data.item[j].parent = r}}
        new == {[kind |-> "subtask", row |-> LastRow(i), id |-> 0] : i \in Below(r)}
    IN  CASE data.service = "todoist" -> new
          [] data.service = "trello" -> {}
          [] data.service = "ticktick" -> {k \in up : k.id # 0}
          [] data.service = "vikunja" -> {k \in up : k.id # 0} \union below

(* TickTick has lists only for the tasks it names, and no buckets. *)
ListsToMake == {p \in Projects : data.service = "ticktick" => RowsOf(p) # {}}
OldBuckets(p) == {s \in Sections : data.service # "ticktick" /\ SectionProject[s] = p}

Converted ==
    /\ step = "convert" /\ toNest = {}
    /\ step' = "list"
    /\ UNCHANGED <<structure, at, row, links, dropped, made, needsDefault, idOf,
                   lists, bucket, task, relation, nextBucket, nextTask>>

-----------------------------------------------------------------------------
(* insertFromStructure, statement by statement *)

BucketsOf(l) == {b \in DOMAIN bucket : bucket[b].list = l}

(* ORDER BY position: any of those with the same one may come first. *)
FirstBuckets(l) ==
    {b \in BucketsOf(l) : \A c \in BucketsOf(l) : bucket[b].pos <= bucket[c].pos}

InsertBucket(l, section, position) ==
    /\ bucket' = [b \in DOMAIN bucket \union {nextBucket} |->
                    IF b = nextBucket THEN [list |-> l, of |-> section, pos |-> position]
                    ELSE bucket[b]]
    /\ nextBucket' = nextBucket + 1

(* CreateList inserts the list ... *)
InsertList(p) ==
    /\ step = "list" /\ IsLeast(p, ListsToMake \ lists)
    /\ lists' = lists \union {p} /\ at' = p
    /\ made' = [o \in 0 .. NumSections |-> 0] /\ needsDefault' = FALSE
    /\ step' = "backlog"
    /\ UNCHANGED <<structure, row, links, dropped, idOf, bucket, task, relation, nextBucket, nextTask>>

(* ... and then its first bucket. *)
InsertBacklog ==
    /\ step = "backlog"
    /\ InsertBucket(at, 0, nextBucket)
    /\ step' = "fill"
    /\ UNCHANGED <<structure, at, row, links, dropped, made, needsDefault, idOf, lists, task, relation, nextTask>>

BucketsLeft == {s \in OldBuckets(at) : \A b \in BucketsOf(at) : bucket[b].of # s}

(* Only the export of a Vikunja brings positions with its buckets. *)
InsertOldBucket(s) ==
    /\ step = "fill" /\ IsLeast(s, BucketsLeft)
    /\ InsertBucket(at, s, IF data.service = "vikunja" THEN OldPosition[s] ELSE nextBucket)
    /\ made' = [made EXCEPT ![OldId(s)] = nextBucket]
    /\ UNCHANGED <<structure, step, at, row, links, dropped, needsDefault, idOf, lists, task, relation, nextTask>>

(* setBucketOrDefault, and setTaskBucket in Task.Create *)
InsertTask(r) ==
    /\ LET b == made[OldId(ItemOf(r).section)]
       IN  /\ \E c \in IF b # 0 THEN {b} ELSE FirstBuckets(at) :
                task' = [t \in DOMAIN task \union {nextTask} |->
                           IF t = nextTask THEN [item |-> ItemNo(r), list |-> at, bucket |-> c]
                           ELSE task[t]]
           /\ needsDefault' = (needsDefault \/ b = 0)
    /\ idOf' = [idOf EXCEPT ![r] = nextTask]
    /\ nextTask' = nextTask + 1
    /\ UNCHANGED <<structure, step, at, dropped, made, lists, bucket, relation, nextBucket>>

RowsLeft == {r \in TopRows(at) : idOf[r] = 0}

InsertTop(r) ==
    /\ step = "fill" /\ BucketsLeft = {} /\ links = {} /\ IsLeast(r, RowsLeft)
    /\ InsertTask(r)
    /\ row' = r /\ links' = Links(r)

(* A task that is made to be related is related before the next one is made. *)
InsertRelated(k) ==
    /\ step = "fill" /\ k \in links
    /\ \A l \in links : l.id = 0 /\ ItemNo(k.row) <= ItemNo(l.row)
    /\ InsertTask(k.row)
    /\ links' = (links \ {k}) \union {[k EXCEPT !.id = nextTask]}
    /\ UNCHANGED row

Inverted(kind) == IF kind = "subtask" THEN "parenttask" ELSE "subtask"

(* TaskRelation.Create: both rows in one statement.  That a task of that id *)
(* exists is checked for requests only, and not here.  The kinds of a task  *)
(* come in any order.                                                       *)
Relate(k) ==
    /\ step = "fill" /\ k \in links /\ k.id # 0
    /\ LET t == idOf[row]
       IN  /\ t # k.id /\ <<t, k.kind, k.id>> \notin relation
           /\ relation' = relation \union {<<t, k.kind, k.id>>, <<k.id, Inverted(k.kind), t>>}
    /\ links' = links \ {k}
    /\ UNCHANGED <<structure, step, at, row, dropped, made, needsDefault, idOf, lists, bucket, task,
                   nextBucket, nextTask>>

Filled == step = "fill" /\ BucketsLeft = {} /\ links = {} /\ RowsLeft = {}

(* The bucket the list came with is needed, or is its only one. *)
KeepBacklog ==
    /\ Filled
    /\ needsDefault \/ Cardinality(BucketsOf(at)) <= 1
    /\ step' = "list"
    /\ UNCHANGED <<structure, at, row, links, dropped, made, needsDefault, idOf, lists, bucket, task,
                   relation, nextBucket, nextTask>>

(* Otherwise Bucket.Delete removes the row of the bucket that comes first ... *)
DropFirstBucket(b) ==
    /\ Filled
    /\ ~needsDefault /\ Cardinality(BucketsOf(at)) > 1
    /\ b \in FirstBuckets(at)
    /\ bucket' = [c \in DOMAIN bucket \ {b} |-> bucket[c]]
    /\ dropped' = b /\ step' = "rehome"
    /\ UNCHANGED <<structure, at, row, links, made, needsDefault, idOf, lists, task,
                   relation, nextBucket, nextTask>>

(* Mutant of Rehome: the tasks of the bucket are left where they are. *)
RehomeNobody(d) ==
    /\ step = "rehome" /\ d \in FirstBuckets(at)
    /\ step' = "list"
    /\ UNCHANGED <<structure, at, row, links, dropped, made, needsDefault, idOf, lists, bucket, task,
                   relation, nextBucket, nextTask>>

(* ... and moves its tasks to the one that comes first now. *)
Rehome(d) ==
    /\ step = "rehome" /\ d \in FirstBuckets(at)
    /\ task' = [t \in DOMAIN task |->
                  IF task[t].bucket = dropped THEN [task[t] EXCEPT !.bucket = d] ELSE task[t]]
    /\ step' = "list"
    /\ UNCHANGED <<structure, at, row, links, dropped, made, needsDefault, idOf, lists, bucket,
                   relation, nextBucket, nextTask>>

(* A statement fails: for a reason of its own, a relation of a task to itself *)
(* or one that exists, a full bucket, a title that is missing.                *)
Fail ==
    /\ step \in {"list", "backlog", "fill", "rehome"}
    /\ step' = "failed"
    /\ UNCHANGED <<structure, at, row, links, dropped, made, needsDefault, idOf, lists, bucket, task,
                   relation, nextBucket, nextTask>>

Finish ==
    /\ step = "list" /\ ListsToMake \subseteq lists
    /\ step' = "done"
    /\ UNCHANGED <<structure, at, row, links, dropped, made, needsDefault, idOf, lists, bucket, task,
                   relation, nextBucket, nextTask>>

Init ==
    /\ data \in Data
    /\ step = "convert" /\ nested = {}
    /\ toNest = IF data.service = "todoist" THEN {r \in Rows : ItemOf(r).parent # 0} ELSE {}
    /\ at = 0 /\ row = 0 /\ links = {} /\ dropped = 0
    /\ made = [o \in 0 .. NumSections |-> 0] /\ needsDefault = FALSE
    /\ idOf = [r \in Rows |-> 0]
    /\ lists = {} /\ bucket = [b \in {} |-> 0] /\ task = [t \in {} |-> 0] /\ relation = {}
    /\ \E n \in Used : nextBucket = n + 1 /\ nextTask = n + 1

Next ==
    \/ \E r \in Rows : Nest(r) \/ InsertTop(r)
    \/ Converted
    \/ \E p \in Projects : InsertList(p)
    \/ InsertBacklog
    \/ \E s \in Sections : InsertOldBucket(s)
    \/ \E k \in links : InsertRelated(k) \/ Relate(k)
    \/ KeepBacklog
    \/ \E b \in DOMAIN bucket : DropFirstBucket(b) \/ Rehome(b)
    \/ Fail \/ Finish

Spec == Init /\ [][Next]_vars

-----------------------------------------------------------------------------
(* Properties *)

Tasks == DOMAIN task
CopiesOf(i) == {t \in Tasks : task[t].item = i}
Times(i) == IF i \in data.again THEN 2 ELSE 1

Under(i, p) == \E t \in CopiesOf(i), o \in CopiesOf(p) :
                 <<o, "subtask", t>> \in relation /\ <<t, "parenttask", o>> \in relation

(* An import that is done has made every task of the other service once, in   *)
(* the list of its project.  For Todoist this holds of the tasks whose project *)
(* is part of the answer and that are no deeper than the first level of        *)
(* subtasks, which are below their parents; a completed recurring task is      *)
(* there twice.  Of those deeper some are lost or stay on top, and none is     *)
(* there more often.  To whom TickTick's and Vikunja's relations lead is not   *)
(* promised (the loops over the items in todoist.go, insertFromStructure).     *)
ImportedOnce ==
    step = "done" =>
      \A i \in Items :
        LET it == data.item[i]
            parent == it.parent
            shallow == parent # 0 => data.item[parent].parent = 0
        IN  /\ \A t \in CopiesOf(i) : task[t].list = it.project
            /\ Cardinality(CopiesOf(i)) <= Times(i)
            /\ (it.project # 0 /\ (data.service = "todoist" => shallow)) =>
                 Cardinality(CopiesOf(i)) = Times(i)
            /\ (data.service = "todoist" /\ it.project # 0 /\ parent # 0 /\ shallow) =>
                 Under(i, parent)

(* And every task is in the bucket made of its section, or, without one, in    *)
(* the one that came with the list.  For Todoist this holds of the last        *)
(* section of a project, into which go the tasks of the others.  From a file   *)
(* of Vikunja the bucket that comes first is lost where its old position is    *)
(* before that of the new list's own: its tasks are in the next one, and the   *)
(* list's own is left over (setBucketOrDefault and the deletion of the default *)
(* bucket in insertFromStructure, OldId's loop in todoist.go).                 *)
BucketKept ==
    step = "done" =>
      \A t \in Tasks :
        LET s == data.item[task[t].item].section
            siblings == {q \in Sections : SectionProject[q] = task[t].list}
            took == bucket[task[t].bucket].of
        IN  \/ took = s
            \/ /\ data.service = "todoist" /\ s # 0
               /\ took # s /\ \A q \in siblings : q <= took
            \/ /\ data.service = "vikunja"
               /\ \A q \in siblings : OldPosition[s] <= OldPosition[q]
               /\ task[t].bucket \in FirstBuckets(task[t].list)
               /\ \E b \in BucketsOf(task[t].list) : bucket[b].of = 0

TypeOK ==
    /\ step \in {"convert", "list", "backlog", "fill", "rehome", "done", "failed"}
    /\ \A b \in DOMAIN bucket :
         bucket[b] \in [list : Projects, of : Sections \union {0}, pos : Nat]
    /\ \A t \in Tasks : task[t].item \in Items /\ task[t].list \in Projects
    /\ needsDefault \in BOOLEAN
    /\ nextBucket \notin DOMAIN bucket /\ nextTask \notin Tasks

Whole(l) ==
    /\ BucketsOf(l) # {}
    /\ \A t \in Tasks : task[t].list = l => task[t].bucket \in BucketsOf(l)

(* Whenever an import fails, what it leaves can be used: only the list it was *)
(* at may lack its bucket, or have tasks in a bucket that is gone; no task is *)
(* in a bucket of another list; relations have both their rows, and those of  *)
(* Todoist are between tasks that were imported (InsertFromStructure's        *)
(* rollback at create_from_structure.go:41, which has nothing to roll back).  *)
HalfImportSound ==
    /\ TypeOK
    /\ \A l \in lists : l # at \/ step = "done" => Whole(l)
    /\ \A t \in Tasks :
         /\ task[t].list \in lists
         /\ task[t].bucket \in DOMAIN bucket =>
              bucket[task[t].bucket].list = task[t].list
    /\ \A r \in relation :
         /\ <<r[3], Inverted(r[2]), r[1]>> \in relation
         /\ r[1] \in Tasks \/ r[3] \in Tasks
         /\ data.service = "todoist" => r[1] \in Tasks /\ r[3] \in Tasks

=============================================================================
