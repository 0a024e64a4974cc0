------------------------------- MODULE Kanban -------------------------------
(***************************************************************************)
(* Lists, kanban buckets and tasks: the core tables of Vikunja and every   *)
(* handler that writes them (pkg/models/list.go, kanban.go, tasks.go and   *)
(* bulk_task.go).  One action is one API request, run from its rights      *)
(* check to its last statement with no other request in between; Races.tla *)
(* splits the same handlers into their statements.                         *)
(*                                                                         *)
(* Every request is one whose author may write the lists it names, and the *)
(* lists are not archived: what CanWrite decides is Sharing.tla's subject.  *)
(* A request a handler refuses leaves the tables as they were, so refusals *)
(* are not actions.                                                        *)
(***************************************************************************)
EXTENDS Naturals, FiniteSets, Functions

CONSTANTS
    MaxList, MaxBucket, MaxTask,   \* bounds of the auto-increment ids
    MaxIndex,                      \* bound of the per-list task index
    Limits,                        \* the bucket limits a client may set; 0 is none
    Positions,                     \* the bucket positions a client may send, in
                                   \* units of the 2^16 default spacing
    Afters, Months,                \* what a client may send for RepeatAfter > 0
                                   \* and for the monthly RepeatMode
    UrlListMatches                 \* the list in a bucket URL is the bucket's own

ASSUME BoundsAssumption ==
    /\ {MaxList, MaxBucket, MaxTask, MaxIndex} \subseteq Nat
    /\ Limits \subseteq Nat /\ Positions \subseteq Nat
    /\ Afters \subseteq BOOLEAN /\ Months \subseteq BOOLEAN
    /\ UrlListMatches \in BOOLEAN

VARIABLES
    lists,       \* ids of the rows of table lists
    bucket,      \* table buckets: id -> [list, limit, done, pos]
    task,        \* table tasks: id -> [list, bucket, done, index, after, month]
    nextList, nextBucket, nextTask    \* the tables' auto-increment counters

vars == <<lists, bucket, task, nextList, nextBucket, nextTask>>

BucketRow == [list : Nat, limit : Nat, done : BOOLEAN, pos : Nat]

(* after: RepeatAfter > 0.  month: RepeatMode is TaskRepeatModeMonth. *)
TaskRow == [list : Nat, bucket : Nat, done : BOOLEAN, index : Nat,
            after : BOOLEAN, month : BOOLEAN]

Init ==
    /\ lists = {} /\ bucket = << >> /\ task = << >>
    /\ nextList = 1 /\ nextBucket = 1 /\ nextTask = 1

-----------------------------------------------------------------------------
(* Queries *)

Buckets == DOMAIN bucket
Tasks == DOMAIN task

BucketsOf(l) == {b \in Buckets : bucket[b].list = l}
TasksOf(l) == {t \in Tasks : task[t].list = l}
TasksIn(b) == {t \in Tasks : task[t].bucket = b}

(* Rows an ORDER BY position LIMIT 1 over the buckets in bs may return: on *)
(* equal positions the database decides.                                   *)
FirstByPosition(bs) ==
    {b \in bs : \A c \in bs : bucket[b].pos <= bucket[c].pos}

DefaultBuckets(l) == FirstByPosition(BucketsOf(l))

(* Rows the LIMIT 1 without ORDER BY may return. *)
DoneBuckets(l) == {b \in BucketsOf(l) : bucket[b].done}

(* One more than the index of the task an ORDER BY index DESC LIMIT 1 returns. *)
NextIndexes(l) ==
    IF TasksOf(l) = {} THEN {1}
    ELSE {task[t].index + 1 :
             t \in {t \in TasksOf(l) : \A u \in TasksOf(l) : task[u].index <= task[t].index}}

DefaultPosition(id, pos) == IF pos = 0 THEN id ELSE pos

(* Mutant of HasRoom: off by one. *)
HasRoomForOneMore(b) == bucket[b].limit > 0 => Cardinality(TasksIn(b)) <= bucket[b].limit

HasRoom(b) == bucket[b].limit > 0 => Cardinality(TasksIn(b)) < bucket[b].limit

(* updateDone re-arms a repeating task instead of leaving it done. *)
Repeats(row) == row.month \/ row.after

-----------------------------------------------------------------------------
(* Lists *)

CreateList ==
    /\ nextList <= MaxList /\ nextBucket <= MaxBucket
    /\ lists' = lists \union {nextList}
    /\ bucket' = [b \in Buckets \union {nextBucket} |->
                    IF b = nextBucket
                    THEN [list |-> nextList, limit |-> 0, done |-> FALSE, pos |-> nextBucket]
                    ELSE bucket[b]]
    /\ nextList' = nextList + 1 /\ nextBucket' = nextBucket + 1
    /\ UNCHANGED <<task, nextTask>>

(* The tasks go with the list, its buckets stay behind. *)
DeleteList(l) ==
    /\ l \in lists
    /\ lists' = lists \ {l}
    /\ task' = Restrict(task, Tasks \ TasksOf(l))
    /\ UNCHANGED <<bucket, nextList, nextBucket, nextTask>>

-----------------------------------------------------------------------------
(* Buckets *)

CreateBucket(l, limit, done, pos) ==
    /\ l \in lists
    /\ nextBucket <= MaxBucket
    /\ bucket' = [b \in Buckets \union {nextBucket} |->
                    IF b = nextBucket
                    THEN [list |-> l, limit |-> limit, done |-> done,
                          pos |-> DefaultPosition(nextBucket, pos)]
                    ELSE bucket[b]]
    /\ nextBucket' = nextBucket + 1
    /\ UNCHANGED <<lists, task, nextList, nextTask>>

(* The rights check reads the bucket's own list, the handler the list of the URL. *)
Addressed(b, urlList) ==
    /\ b \in Buckets /\ bucket[b].list \in lists
    /\ UrlListMatches => urlList = bucket[b].list

UpdateBucket(urlList, b, limit, done, pos) ==
    /\ Addressed(b, urlList)
    /\ \/ DoneBuckets(urlList) = {}
       \/ \E d \in DoneBuckets(urlList) : done => d = b
    /\ bucket' = [bucket EXCEPT ![b].limit = limit, ![b].done = done, ![b].pos = pos]
    /\ UNCHANGED <<lists, task, nextList, nextBucket, nextTask>>

(* Mutant of DeleteBucket: the tasks are left in the deleted bucket. *)
DeleteBucketOnly(urlList, b) ==
    /\ Addressed(b, urlList)
    /\ Cardinality(BucketsOf(urlList)) > 1
    /\ bucket' = Restrict(bucket, Buckets \ {b})
    /\ UNCHANGED <<lists, task, nextList, nextBucket, nextTask>>

(* Mutant of DeleteBucket: the buckets are not counted first, and tasks without *)
(* a default bucket get bucket 0.                                               *)
DeleteAnyBucket(urlList, b) ==
    /\ Addressed(b, urlList)
    /\ bucket' = Restrict(bucket, Buckets \ {b})
    /\ LET left == BucketsOf(urlList) \ {b} IN
       \E d \in (IF left = {} THEN {0} ELSE FirstByPosition(left)) :
          task' = [t \in Tasks |-> IF task[t].bucket = b THEN [task[t] EXCEPT !.bucket = d]
                                   ELSE task[t]]
    /\ UNCHANGED <<lists, nextList, nextBucket, nextTask>>

(* The tasks move to the default bucket of the URL's list, without a look at its limit. *)
DeleteBucket(urlList, b) ==
    /\ Addressed(b, urlList)
    /\ Cardinality(BucketsOf(urlList)) > 1
    /\ bucket' = Restrict(bucket, Buckets \ {b})
    /\ \E d \in FirstByPosition(BucketsOf(urlList) \ {b}) :
          task' = [t \in Tasks |-> IF task[t].bucket = b THEN [task[t] EXCEPT !.bucket = d]
                                   ELSE task[t]]
    /\ UNCHANGED <<lists, nextList, nextBucket, nextTask>>

-----------------------------------------------------------------------------
(* Tasks *)

CreateTask(l, asked, done, after, month) ==
    /\ nextTask <= MaxTask
    /\ l \in lists
    /\ \E b \in (IF asked = 0 THEN DefaultBuckets(l) ELSE {asked} \intersect BucketsOf(l)),
          i \in NextIndexes(l) :
          /\ HasRoom(b)
          /\ i <= MaxIndex
          /\ task' = [t \in Tasks \union {nextTask} |->
                        IF t = nextTask
                        THEN [list |-> l, bucket |-> b, done |-> done, index |-> i,
                              after |-> after, month |-> month]
                        ELSE task[t]]
    /\ nextTask' = nextTask + 1
    /\ UNCHANGED <<lists, bucket, nextList, nextBucket>>

(* Mutant of TargetBuckets: the done bucket beats the move to another list. *)
TargetBucketsDoneFirst(old, l, asked, done) ==
    IF done /\ ~old.done /\ DoneBuckets(old.list) # {} THEN DoneBuckets(old.list)
    ELSE IF l # old.list THEN DefaultBuckets(l)
    ELSE (IF asked = 0 THEN {old.bucket} ELSE {asked}) \intersect BucketsOf(l)

(* The bucket setTaskBucket settles on for a task of list l: a move to another *)
(* list beats the done bucket, which beats the bucket the client asked for.    *)
TargetBuckets(old, l, asked, done) ==
    IF l # old.list THEN DefaultBuckets(l)
    ELSE IF done /\ ~old.done /\ DoneBuckets(l) # {} THEN DoneBuckets(l)
    ELSE (IF asked = 0 THEN {old.bucket} ELSE {asked}) \intersect BucketsOf(l)

(* The client asks for a bucket other than the present one: only then is the *)
(* limit of the target bucket looked at.                                     *)
AsksToMove(old, asked) == asked # 0 /\ asked # old.bucket

(* Mutant of MarkedDone: the target bucket is not looked at. *)
MarkedByClient(old, target, done, after) == done

(* The task's done flag before updateDone: the client's, or forced by the target. *)
MarkedDone(old, target, done, after) ==
    \/ done
    \/ bucket[target].done /\ (~old.done \/ after)

(* A repeating task is not put in a done bucket: it keeps the bucket it had. *)
KeptBucket(old, target, after) ==
    IF bucket[target].done /\ after THEN old.bucket ELSE target

(* Mutant of DoneAfterRepeat: only the monthly mode is looked at. *)
DoneAfterMonthly(old, marked) == marked /\ (old.done \/ ~old.month)

(* updateDone *)
DoneAfterRepeat(old, marked) == marked /\ (old.done \/ ~Repeats(old))

UpdateTask(t, l, asked, done, after, month) ==
    /\ t \in Tasks /\ task[t].list \in lists /\ l \in lists
    /\ LET old == task[t] IN
       \E target \in TargetBuckets(old, l, asked, done),
          i \in (IF l = old.list THEN {old.index} ELSE NextIndexes(l)) :
          /\ AsksToMove(old, asked) => HasRoom(target)
          /\ i <= MaxIndex
          /\ task' = [task EXCEPT ![t] =
                [list |-> l, bucket |-> KeptBucket(old, target, after),
                 done |-> DoneAfterRepeat(old, MarkedDone(old, target, done, after)),
                 index |-> i, after |-> after, month |-> month]]
    /\ UNCHANGED <<lists, bucket, nextList, nextBucket, nextTask>>

(* A zero value in the request changes nothing but the done flag. *)
Merged(row, done, after) == [row EXCEPT !.done = done, !.after = row.after \/ after]

(* The tasks ts of one list, updated in the order the database returned them. *)
(* All of them share one request struct, which updateDone sets back to undone *)
(* at the first repeating task: done reaches only the tasks before it.        *)
BulkUpdate(ts, reached, done, after) ==
    /\ ts # {}
    /\ \A t, u \in ts : task[t].list = task[u].list /\ task[t].list \in lists
    /\ LET rearmed == {t \in ts : ~task[t].done /\ Repeats(task[t])} IN
       /\ reached \subseteq ts \ rearmed
       /\ rearmed = {} => reached = ts
    /\ task' = [t \in Tasks |->
                  IF t \in ts THEN Merged(task[t], done /\ t \in reached, after)
                  ELSE task[t]]
    /\ UNCHANGED <<lists, bucket, nextList, nextBucket, nextTask>>

DeleteTask(t) ==
    /\ t \in Tasks /\ task[t].list \in lists
    /\ task' = Restrict(task, Tasks \ {t})
    /\ UNCHANGED <<lists, bucket, nextList, nextBucket, nextTask>>

-----------------------------------------------------------------------------
(* Every list a URL can name, the deleted ones included. *)
UrlLists == 1..(nextList - 1)

ListNext ==
    \/ CreateList
    \/ \E l \in lists : DeleteList(l)

BucketNext ==
    \/ \E l \in lists, limit \in Limits, done \in BOOLEAN, pos \in Positions :
          CreateBucket(l, limit, done, pos)
    \/ \E urlList \in UrlLists, b \in Buckets, limit \in Limits, done \in BOOLEAN,
          pos \in Positions : UpdateBucket(urlList, b, limit, done, pos)
    \/ \E urlList \in UrlLists, b \in Buckets : DeleteBucket(urlList, b)

TaskNext ==
    \/ \E l \in lists, asked \in Buckets \union {0}, done \in BOOLEAN, after \in Afters,
          month \in Months : CreateTask(l, asked, done, after, month)
    \/ \E t \in Tasks, l \in lists, asked \in Buckets \union {0}, done \in BOOLEAN,
          after \in Afters, month \in Months : UpdateTask(t, l, asked, done, after, month)
    \/ \E ts \in SUBSET Tasks : \E reached \in SUBSET ts, done \in BOOLEAN,
          after \in Afters : BulkUpdate(ts, reached, done, after)
    \/ \E t \in Tasks : DeleteTask(t)

Next == ListNext \/ BucketNext \/ TaskNext

Spec == Init /\ [][Next]_vars
-----------------------------------------------------------------------------
(* Invariants *)

(* Rows are well formed and ids come from the auto-increment counters. *)
TypeOK ==
    /\ nextList \in Nat \ {0} /\ nextBucket \in Nat \ {0} /\ nextTask \in Nat \ {0}
    /\ lists \subseteq 1..(nextList - 1)
    /\ bucket \in [Buckets -> BucketRow] /\ Buckets \subseteq 1..(nextBucket - 1)
    /\ task \in [Tasks -> TaskRow] /\ Tasks \subseteq 1..(nextTask - 1)

(* No two tasks of a list carry the same index, so LIST-7 names one task,   *)
(* however tasks are created, deleted and moved between lists               *)
(* (getNextTaskIndex takes the largest index alive, not a counter).         *)
IndexUnique ==
    \A t, u \in Tasks : task[t].list = task[u].list /\ task[t].index = task[u].index => t = u

(* No request leaves a task of a list that is gone, or in a bucket that is  *)
(* gone: the cascades of List.Delete and Bucket.Delete miss nothing.        *)
TaskPlaced ==
    \A t \in Tasks : task[t].list \in lists /\ task[t].bucket \in Buckets

(* What holds of the rows after every request, whatever its input. *)
RowsFit == TypeOK /\ IndexUnique /\ TaskPlaced

(* A list never loses its last bucket, so setTaskBucket always finds a      *)
(* default bucket for a new task (Bucket.Delete counts before it deletes).  *)
ListHasBucket ==
    \A l \in lists : BucketsOf(l) # {}

-----------------------------------------------------------------------------
(* Action properties *)

Surviving == Tasks \intersect Tasks'

(* t is put in another bucket by a request about t, not because its bucket went. *)
Moves(t) == task'[t].bucket # task[t].bucket /\ task[t].bucket \in Buckets'

(* A bucket that grows beyond its limit does so only by one of the three ways *)
(* that skip checkBucketLimit: a task that comes from another list, from a    *)
(* deleted bucket, or into the done bucket by being marked done.              *)
LimitOnlyBypassed ==
    [][\A b \in Buckets \intersect Buckets' :
          LET arrived == TasksIn(b)' \ TasksIn(b) IN
          bucket[b].limit > 0 /\ Cardinality(TasksIn(b)') > bucket[b].limit =>
            \A t \in arrived :
               /\ t \in Tasks
               /\ \/ task[t].list # task'[t].list
                  \/ task[t].bucket \notin Buckets'
                  \/ bucket[b].done /\ ~task[t].done]_vars

(* An undone task without a repeat that is moved into a done bucket ends up done. *)
DoneOnEntry ==
    [][\A t \in Surviving :
          /\ Moves(t) /\ task'[t].bucket \in Buckets /\ bucket[task'[t].bucket].done
          /\ ~task[t].done /\ ~Repeats(task[t])
          => task'[t].done]_vars

(* A repeating task that is not done never becomes done, neither by its own     *)
(* update, nor by the done bucket it is moved to, nor in a bulk update with      *)
(* others: updateDone sets it back to undone.  One that repeats after an interval *)
(* is not even moved to the done bucket within its list, whoever marks it as done *)
(* or asks for that bucket (tasks_test.go).                                      *)
RepeatingStaysOpen ==
    [][\A t \in {u \in Surviving : ~task[u].done} :
          /\ Repeats(task[t]) => ~task'[t].done
          /\ Moves(t) /\ task'[t].list = task[t].list /\ task'[t].after =>
                task'[t].bucket \notin DoneBuckets(task[t].list)]_vars

(* Only one request separates a task from the buckets of its list: a move to  *)
(* another list that asks for a repeat after an interval.  Deleted buckets and *)
(* every other update keep the two together.                                  *)
BucketStaysInList ==
    [][\A t \in Surviving :
          /\ task[t].bucket \in BucketsOf(task[t].list)
          /\ ~(task'[t].list # task[t].list /\ task'[t].after)
          => \E b \in Buckets' : b = task'[t].bucket /\ bucket'[b].list = task'[t].list]_vars
=============================================================================
