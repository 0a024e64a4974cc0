------------------------------- MODULE Races -------------------------------
(***************************************************************************)
(* The task, bucket and list handlers of Kanban.tla, split into the        *)
(* statements they send to the database.  No session of the web handler    *)
(* begins a transaction (pkg/db/db.go NewSession) and no index of the      *)
(* tables makes a pair of columns unique, so the statements of two         *)
(* requests interleave in any order and every write is final.              *)
(*                                                                         *)
(* One step is the statements of a handler up to its next read that        *)
(* another request could make stale, or up to its next write.  The rows    *)
(* are Kanban's without the done flags and repeats; a bucket's list, limit *)
(* and position never change here, and its position is its id's.           *)
(***************************************************************************)
EXTENDS Naturals, FiniteSets, Functions

CONSTANTS
    Workers,      \* goroutines that serve requests
    Does,         \* worker -> the kinds of request it gets
    AllLists,     \* the lists before the first request
    HomeOf,       \* bucket -> its list
    LimitOf,      \* bucket -> its limit; 0 is none
    MaxList, MaxTask, MaxIndex   \* bounds of the ids of lists and tasks, and of the indexes

Kinds == {"create", "move", "delete task", "delete bucket", "delete list"}

ASSUME ConstantsAssumption ==
    /\ Does \in [Workers -> SUBSET Kinds]
    /\ AllLists \subseteq 1..MaxList
    /\ DOMAIN HomeOf \subseteq Nat \ {0} /\ HomeOf \in [DOMAIN HomeOf -> AllLists]
    /\ LimitOf \in [DOMAIN HomeOf -> Nat]
    /\ {MaxList, MaxTask, MaxIndex} \subseteq Nat

VARIABLES
    lists,       \* ids of the rows of table lists
    buckets,     \* ids of the rows of table buckets
    task,        \* table tasks: id -> [list, bucket, index]
    nextTask,    \* auto-increment counter of table tasks
    req          \* worker -> where its handler is and what it holds in memory

vars == <<lists, buckets, task, nextTask, req>>

TaskRow == [list : Nat, bucket : Nat, index : Nat]

PC == {"idle", "limit", "index", "write", "drop", "default", "rehome", "collect", "tasks"}

(* task: the task written, 0 for a new one.  was: the list the task was read in, *)
(* 0 for a new one.  list, to, index: what the task will be written with.        *)
(* from: the bucket that is deleted.  left: the tasks still to be deleted.       *)
Request == [pc : PC, task : Nat, was : Nat, list : Nat, to : Nat, index : Nat,
            from : Nat, left : SUBSET Nat]

Idle == [pc |-> "idle", task |-> 0, was |-> 0, list |-> 0, to |-> 0, index |-> 0,
         from |-> 0, left |-> {}]

Init ==
    /\ lists = AllLists
    /\ buckets = DOMAIN HomeOf
    /\ task = << >> /\ nextTask = 1
    /\ req = [w \in Workers |-> Idle]

-----------------------------------------------------------------------------
(* Queries *)

Tasks == DOMAIN task
TasksOf(l) == {t \in Tasks : task[t].list = l}
TasksIn(b) == {t \in Tasks : task[t].bucket = b}
BucketsOf(l) == {b \in buckets : HomeOf[b] = l}

(* ORDER BY position LIMIT 1; positions grow with the ids. *)
DefaultBuckets(l) == {b \in BucketsOf(l) : \A c \in BucketsOf(l) : b <= c}

HasRoom(b) == LimitOf[b] > 0 => Cardinality(TasksIn(b)) < LimitOf[b]

NextIndexes(l) ==
    IF TasksOf(l) = {} THEN {1}
    ELSE {task[t].index + 1 :
             t \in {t \in TasksOf(l) : \A u \in TasksOf(l) : task[u].index <= task[t].index}}

AtRest(w) == req[w].pc = "idle"

-----------------------------------------------------------------------------
(* createTask and Task.Update *)

(* The first reads of createTask: the list, and the bucket the task goes to. *)
BeginCreate(w, l, asked) ==
    /\ AtRest(w) /\ "create" \in Does[w]
    /\ l \in lists
    /\ \E b \in (IF asked = 0 THEN DefaultBuckets(l) ELSE {asked} \intersect BucketsOf(l)) :
          req' = [req EXCEPT ![w] = [Idle EXCEPT !.pc = "limit", !.list = l, !.to = b]]
    /\ UNCHANGED <<lists, buckets, task, nextTask>>

(* A new index is only looked up for a new task and for a task from another list. *)
AfterLimit(old, l) == IF old = l THEN "write" ELSE "index"

(* The first reads of Task.Update: the task's row, its list and the target bucket. *)
BeginMove(w, t, l, asked) ==
    /\ AtRest(w) /\ "move" \in Does[w]
    /\ t \in Tasks /\ task[t].list \in lists /\ l \in lists
    /\ LET old == task[t] IN
       \E b \in (IF l # old.list THEN DefaultBuckets(l)
                 ELSE (IF asked = 0 THEN {old.bucket} ELSE {asked}) \intersect BucketsOf(l)) :
          req' = [req EXCEPT ![w] =
             [Idle EXCEPT !.pc = IF asked # 0 /\ asked # old.bucket THEN "limit"
                                 ELSE AfterLimit(old.list, l),
                          !.task = t, !.was = old.list, !.list = l, !.to = b]]
    /\ UNCHANGED <<lists, buckets, task, nextTask>>

(* Mutant of CheckLimit: off by one. *)
CheckLimitForOneMore(w) ==
    /\ req[w].pc = "limit"
    /\ req' = [req EXCEPT ![w] =
         IF LimitOf[@.to] > 0 => Cardinality(TasksIn(@.to)) <= LimitOf[@.to]
         THEN [@ EXCEPT !.pc = AfterLimit(req[w].was, req[w].list)]
         ELSE Idle]
    /\ UNCHANGED <<lists, buckets, task, nextTask>>

(* checkBucketLimit counts the tasks of the bucket, or ends the request. *)
CheckLimit(w) ==
    /\ req[w].pc = "limit"
    /\ req' = [req EXCEPT ![w] =
         IF HasRoom(@.to) THEN [@ EXCEPT !.pc = AfterLimit(req[w].was, req[w].list)] ELSE Idle]
    /\ UNCHANGED <<lists, buckets, task, nextTask>>

(* getNextTaskIndex *)
ReadIndex(w) ==
    /\ req[w].pc = "index"
    /\ \E i \in NextIndexes(req[w].list) :
          /\ i <= MaxIndex
          /\ req' = [req EXCEPT ![w].pc = "write", ![w].index = i]
    /\ UNCHANGED <<lists, buckets, task, nextTask>>

InsertTask(w) ==
    /\ req[w].pc = "write" /\ req[w].task = 0
    /\ nextTask <= MaxTask
    /\ task' = [t \in Tasks \union {nextTask} |->
                  IF t = nextTask
                  THEN [list |-> req[w].list, bucket |-> req[w].to, index |-> req[w].index]
                  ELSE task[t]]
    /\ nextTask' = nextTask + 1
    /\ req' = [req EXCEPT ![w] = Idle]
    /\ UNCHANGED <<lists, buckets>>

(* Mutant of WriteTask: list_id is written without bucket_id. *)
WriteListOnly(w) ==
    /\ req[w].pc = "write" /\ req[w].task # 0
    /\ task' = [t \in Tasks |->
                  IF t = req[w].task
                  THEN [task[t] EXCEPT !.list = req[w].list,
                                       !.index = IF req[w].index = 0 THEN @ ELSE req[w].index]
                  ELSE task[t]]
    /\ req' = [req EXCEPT ![w] = Idle]
    /\ UNCHANGED <<lists, buckets, nextTask>>

(* Mutant of WriteTask: a task that comes from another list keeps its index. *)
WriteKeepingIndex(w) ==
    /\ req[w].pc = "write" /\ req[w].task # 0
    /\ task' = [t \in Tasks |->
                  IF t = req[w].task
                  THEN [task[t] EXCEPT !.list = req[w].list, !.bucket = req[w].to]
                  ELSE task[t]]
    /\ req' = [req EXCEPT ![w] = Idle]
    /\ UNCHANGED <<lists, buckets, nextTask>>

(* list_id and bucket_id are always written, index only with a new list; a row *)
(* that is gone by now is not an error.                                        *)
WriteTask(w) ==
    /\ req[w].pc = "write" /\ req[w].task # 0
    /\ task' = [t \in Tasks |->
                  IF t = req[w].task
                  THEN [list |-> req[w].list, bucket |-> req[w].to,
                        index |-> IF req[w].index = 0 THEN task[t].index ELSE req[w].index]
                  ELSE task[t]]
    /\ req' = [req EXCEPT ![w] = Idle]
    /\ UNCHANGED <<lists, buckets, nextTask>>

DeleteTask(w, t) ==
    /\ AtRest(w) /\ "delete task" \in Does[w]
    /\ t \in Tasks /\ task[t].list \in lists
    /\ task' = Restrict(task, Tasks \ {t})
    /\ UNCHANGED <<lists, buckets, nextTask, req>>

-----------------------------------------------------------------------------
(* Bucket.Delete *)

CountBuckets(w, b) ==
    /\ AtRest(w) /\ "delete bucket" \in Does[w]
    /\ b \in buckets /\ HomeOf[b] \in lists
    /\ Cardinality(BucketsOf(HomeOf[b])) > 1
    /\ req' = [req EXCEPT ![w] = [Idle EXCEPT !.pc = "drop", !.list = HomeOf[b], !.from = b]]
    /\ UNCHANGED <<lists, buckets, task, nextTask>>

DropBucket(w) ==
    /\ req[w].pc = "drop"
    /\ buckets' = buckets \ {req[w].from}
    /\ req' = [req EXCEPT ![w].pc = "default"]
    /\ UNCHANGED <<lists, task, nextTask>>

(* getDefaultBucket returns an empty row, of id 0, if it finds none. *)
ReadDefault(w) ==
    /\ req[w].pc = "default"
    /\ \E b \in (IF BucketsOf(req[w].list) = {} THEN {0} ELSE DefaultBuckets(req[w].list)) :
          req' = [req EXCEPT ![w].pc = "rehome", ![w].to = b]
    /\ UNCHANGED <<lists, buckets, task, nextTask>>

Rehome(w) ==
    /\ req[w].pc = "rehome"
    /\ task' = [t \in Tasks |-> IF task[t].bucket = req[w].from
                                THEN [task[t] EXCEPT !.bucket = req[w].to] ELSE task[t]]
    /\ req' = [req EXCEPT ![w] = Idle]
    /\ UNCHANGED <<lists, buckets, nextTask>>

-----------------------------------------------------------------------------
(* List.Delete *)

DropList(w, l) ==
    /\ AtRest(w) /\ "delete list" \in Does[w]
    /\ l \in lists
    /\ lists' = lists \ {l}
    /\ req' = [req EXCEPT ![w] = [Idle EXCEPT !.pc = "collect", !.list = l]]
    /\ UNCHANGED <<buckets, task, nextTask>>

CollectTasks(w) ==
    /\ req[w].pc = "collect"
    /\ req' = [req EXCEPT ![w].pc = "tasks", ![w].left = TasksOf(req[w].list)]
    /\ UNCHANGED <<lists, buckets, task, nextTask>>

(* Task.Delete of one task after the other; a row that is gone is not an error. *)
DropNextTask(w) ==
    /\ req[w].pc = "tasks"
    /\ IF req[w].left = {}
       THEN /\ req' = [req EXCEPT ![w] = Idle]
            /\ UNCHANGED task
       ELSE \E t \in req[w].left :
            /\ task' = Restrict(task, Tasks \ {t})
            /\ req' = [req EXCEPT ![w].left = @ \ {t}]
    /\ UNCHANGED <<lists, buckets, nextTask>>

-----------------------------------------------------------------------------
TaskSteps(w) ==
    \/ \E l \in lists, asked \in buckets \union {0} : BeginCreate(w, l, asked)
    \/ \E t \in Tasks, l \in lists, asked \in buckets \union {0} : BeginMove(w, t, l, asked)
    \/ CheckLimit(w) \/ ReadIndex(w) \/ InsertTask(w) \/ WriteTask(w)
    \/ \E t \in Tasks : DeleteTask(w, t)

BucketSteps(w) ==
    \/ \E b \in buckets : CountBuckets(w, b)
    \/ DropBucket(w) \/ ReadDefault(w) \/ Rehome(w)

ListSteps(w) ==
    \/ \E l \in lists : DropList(w, l)
    \/ CollectTasks(w) \/ DropNextTask(w)

Step(w) == TaskSteps(w) \/ BucketSteps(w) \/ ListSteps(w)

Next == \E w \in Workers : Step(w)

Spec == Init /\ [][Next]_vars

-----------------------------------------------------------------------------
(* Invariants *)

TypeOK ==
    /\ lists \subseteq AllLists /\ buckets \subseteq DOMAIN HomeOf
    /\ nextTask \in Nat \ {0}
    /\ task \in [Tasks -> TaskRow] /\ Tasks \subseteq 1..(nextTask - 1)
    /\ req \in [Workers -> Request]

Fits(b, l) == b \in DOMAIN HomeOf /\ HomeOf[b] = l

(* However requests interleave, the two columns list_id and bucket_id of a row  *)
(* fit together: a task's bucket is one of its list's, or a bucket deleted from *)
(* it, or 0.  Task.Update and createTask write both columns in one statement,   *)
(* and Bucket.Delete looks for the new bucket in the old one's list.            *)
PairFits ==
    \A t \in Tasks : task[t].bucket # 0 => Fits(task[t].bucket, task[t].list)

(* The index of a task is the only one of its kind in the task's list. *)
IndexUnique ==
    \A t, u \in Tasks : task[t].list = task[u].list /\ task[t].index = task[u].index => t = u

(* While one request at a time looks up limits, a bucket grows beyond its limit *)
(* in two ways only: a task comes from another list, for which Task.Update looks *)
(* at no limit, or from a bucket that was deleted.  Deletions of tasks and lists *)
(* between the count and the write make room, or change nothing.                 *)
LimitOnlyBypassed ==
    [][\A b \in buckets :
          LET held == Cardinality(TasksIn(b)) IN
          LimitOf[b] > 0 /\ Cardinality(TasksIn(b)') > held /\ Cardinality(TasksIn(b)') > LimitOf[b]
          => \E w \in Workers :
                /\ req[w].to = b
                /\ \/ req[w].pc = "write" /\ req[w].task # 0 /\ req[w].was # req[w].list
                   \/ req[w].pc = "rehome"]_vars

-----------------------------------------------------------------------------
(* The strengthening that makes TypeOK and PairFits inductive: what a handler *)
(* holds in memory fits together as well.                                     *)

HeldPairFits ==
    \A w \in Workers :
       /\ req[w].pc \in {"limit", "index", "write"} => Fits(req[w].to, req[w].list)
       /\ req[w].pc \in {"drop", "default", "rehome"} => Fits(req[w].from, req[w].list)
       /\ req[w].pc = "rehome" /\ req[w].to # 0 => Fits(req[w].to, req[w].list)

(* What any interleaving leaves in the tables and in the handlers' memory. *)
IInv == TypeOK /\ PairFits /\ HeldPairFits

-----------------------------------------------------------------------------
(* With one worker the handlers are the actions of Kanban.tla: nothing can be *)
(* seen of a deletion until its last statement.                               *)

Deleting == {w \in Workers : req[w].pc \in {"default", "rehome"}}

KanbanBuckets == buckets \union {req[w].from : w \in Deleting}

K == INSTANCE Kanban WITH
    MaxBucket <- Cardinality(DOMAIN HomeOf),
    Limits <- {}, Positions <- {}, Afters <- {FALSE}, Months <- {FALSE},
    UrlListMatches <- TRUE,
    bucket <- [b \in KanbanBuckets |->
                 [list |-> HomeOf[b], limit |-> LimitOf[b], done |-> FALSE, pos |-> b]],
    task <- [t \in {u \in Tasks : task[u].list \in lists} |->
               [list |-> task[t].list, bucket |-> task[t].bucket, done |-> FALSE,
                index |-> task[t].index, after |-> FALSE, month |-> FALSE]],
    nextList <- MaxList + 1, nextBucket <- Cardinality(DOMAIN HomeOf) + 1

=============================================================================
