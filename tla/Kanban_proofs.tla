--------------------------- MODULE Kanban_proofs ---------------------------
(***************************************************************************)
(* Proofs about Kanban.tla, for every number of lists, buckets and tasks   *)
(* and every set of limits, positions and repeats a client may send.       *)
(***************************************************************************)
EXTENDS Kanban, FiniteSetTheorems, TLAPS

-----------------------------------------------------------------------------
(* Lemmas *)

(* A set with more than one element has an element other than b. *)
LEMMA AnotherElement ==
    ASSUME NEW S, NEW b, Cardinality(S) > 1
    PROVE  S \ {b} # {}
<1>1. SUFFICES ASSUME S \ {b} = {} PROVE FALSE
    OBVIOUS
<1>2. S = {} \/ S = {b}
    BY <1>1
<1>3. Cardinality({}) = 0 /\ Cardinality({b}) = 1
    BY FS_EmptySet, FS_Singleton
<1> QED BY <1>2, <1>3

(* Queries only return rows of the table they read. *)
LEMMA QueriesReturnRows ==
    ASSUME NEW l
    PROVE  /\ DefaultBuckets(l) \subseteq BucketsOf(l)
           /\ DoneBuckets(l) \subseteq BucketsOf(l)
           /\ BucketsOf(l) \subseteq Buckets
           /\ TasksOf(l) \subseteq Tasks
BY DEF DefaultBuckets, FirstByPosition, DoneBuckets, BucketsOf, TasksOf

(* The index getNextTaskIndex hands out is above every index of the list. *)
LEMMA NextIndexAbove ==
    ASSUME TypeOK, NEW l, NEW i \in NextIndexes(l)
    PROVE  /\ i \in Nat
           /\ \A t \in TasksOf(l) : task[t].index < i
BY DEF TypeOK, TaskRow, NextIndexes, TasksOf, Tasks

LEMMA MergedType ==
    ASSUME NEW row \in TaskRow, NEW done \in BOOLEAN, NEW after \in BOOLEAN
    PROVE  Merged(row, done, after) \in TaskRow
BY DEF Merged, TaskRow

(* setTaskBucket returns a bucket of the list the task is to be in. *)
LEMMA TargetIsOfTheList ==
    ASSUME NEW old, NEW l, NEW asked, NEW done
    PROVE  TargetBuckets(old, l, asked, done) \subseteq BucketsOf(l)
BY QueriesReturnRows DEF TargetBuckets

-----------------------------------------------------------------------------
(* Types *)

LEMMA ListTypes == ASSUME TypeOK, ListNext PROVE TypeOK'
<1> USE DEF TypeOK, BucketRow, Buckets, Tasks
<1>1. CASE CreateList
    BY <1>1 DEF CreateList
<1>2. ASSUME NEW l \in lists, DeleteList(l) PROVE TypeOK'
    BY <1>2 DEF DeleteList, Restrict, TaskRow
<1> QED BY <1>1, <1>2 DEF ListNext

LEMMA BucketTypes == ASSUME TypeOK, BucketNext PROVE TypeOK'
<1> USE BoundsAssumption DEF TypeOK, BucketRow, Buckets, Tasks
<1>1. ASSUME NEW l \in lists, NEW limit \in Limits, NEW done \in BOOLEAN,
             NEW pos \in Positions, CreateBucket(l, limit, done, pos)
      PROVE  TypeOK'
    BY <1>1 DEF CreateBucket, DefaultPosition
<1>2. ASSUME NEW urlList \in UrlLists, NEW b \in Buckets, NEW limit \in Limits,
             NEW done \in BOOLEAN, NEW pos \in Positions,
             UpdateBucket(urlList, b, limit, done, pos)
      PROVE  TypeOK'
    BY <1>2 DEF UpdateBucket
<1>3. ASSUME NEW urlList \in UrlLists, NEW b \in Buckets, DeleteBucket(urlList, b)
      PROVE  TypeOK'
    <2>1. PICK d \in Buckets : task' = [t \in Tasks |->
                  IF task[t].bucket = b THEN [task[t] EXCEPT !.bucket = d] ELSE task[t]]
        BY <1>3 DEF DeleteBucket, FirstByPosition, BucketsOf
    <2>2. d \in Nat
        BY <2>1
    <2>3. task' \in [Tasks' -> TaskRow] /\ Tasks' = Tasks
        BY <2>1, <2>2 DEF TaskRow
    <2>4. bucket' \in [Buckets' -> BucketRow] /\ Buckets' \subseteq Buckets
        BY <1>3 DEF DeleteBucket, Restrict
    <2> QED BY <1>3, <2>3, <2>4 DEF DeleteBucket
<1> QED BY <1>1, <1>2, <1>3 DEF BucketNext

LEMMA TaskTypes == ASSUME TypeOK, TaskNext PROVE TypeOK'
<1> USE BoundsAssumption DEF TypeOK, Buckets, Tasks
<1>1. ASSUME NEW l \in lists, NEW asked \in Buckets \union {0}, NEW done \in BOOLEAN,
             NEW after \in Afters, NEW month \in Months,
             CreateTask(l, asked, done, after, month)
      PROVE  TypeOK'
    <2>1. PICK b \in BucketsOf(l), i \in NextIndexes(l) :
             task' = [t \in Tasks \union {nextTask} |->
                        IF t = nextTask
                        THEN [list |-> l, bucket |-> b, done |-> done, index |-> i,
                              after |-> after, month |-> month]
                        ELSE task[t]]
        BY <1>1, QueriesReturnRows DEF CreateTask
    <2>2. b \in Nat /\ i \in Nat /\ l \in Nat
        BY <2>1, NextIndexAbove DEF BucketsOf
    <2> QED BY <1>1, <2>1, <2>2 DEF CreateTask, TaskRow
<1>2. ASSUME NEW t \in Tasks, NEW l \in lists, NEW asked \in Buckets \union {0},
             NEW done \in BOOLEAN, NEW after \in Afters, NEW month \in Months,
             UpdateTask(t, l, asked, done, after, month)
      PROVE  TypeOK'
    <2> DEFINE old == task[t]
    <2>1. PICK target \in BucketsOf(l),
               i \in (IF l = old.list THEN {old.index} ELSE NextIndexes(l)) :
             task' = [task EXCEPT ![t] =
                [list |-> l, bucket |-> KeptBucket(old, target, after),
                 done |-> DoneAfterRepeat(old, MarkedDone(old, target, done, after)),
                 index |-> i, after |-> after, month |-> month]]
        BY <1>2, TargetIsOfTheList DEF UpdateTask
    <2>2. old \in TaskRow /\ l \in Nat /\ target \in Buckets /\ target \in Nat
        BY <2>1 DEF BucketsOf
    <2>3. i \in Nat
        BY <2>1, <2>2, NextIndexAbove DEF TaskRow
    <2>4. KeptBucket(old, target, after) \in Nat
        BY <2>2 DEF KeptBucket, TaskRow
    <2>5. DoneAfterRepeat(old, MarkedDone(old, target, done, after)) \in BOOLEAN
        BY DEF DoneAfterRepeat
    <2> QED BY <1>2, <2>1, <2>2, <2>3, <2>4, <2>5 DEF UpdateTask, TaskRow
<1>3. ASSUME NEW ts \in SUBSET Tasks, NEW reached \in SUBSET ts, NEW done \in BOOLEAN,
             NEW after \in Afters, BulkUpdate(ts, reached, done, after)
      PROVE  TypeOK'
    <2>1. ASSUME NEW t \in Tasks PROVE Merged(task[t], done /\ t \in reached, after) \in TaskRow
        <3>1. task[t] \in TaskRow /\ after \in BOOLEAN
            OBVIOUS
        <3>2. (done /\ t \in reached) \in BOOLEAN
            OBVIOUS
        <3> QED BY <3>1, <3>2, MergedType, Zenon
    <2>2. task' = [t \in Tasks |-> IF t \in ts THEN Merged(task[t], done /\ t \in reached, after)
                                  ELSE task[t]]
        BY <1>3, Zenon DEF BulkUpdate
    <2>3. task' \in [Tasks -> TaskRow]
        BY <2>1, <2>2
    <2> QED BY <1>3, <2>3 DEF BulkUpdate
<1>4. ASSUME NEW t \in Tasks, DeleteTask(t) PROVE TypeOK'
    BY <1>4 DEF DeleteTask, Restrict
<1> HIDE BoundsAssumption DEF TypeOK, Buckets, Tasks
<1> QED BY <1>1, <1>2, <1>3, <1>4, Zenon DEF TaskNext

LEMMA TypeStep == ASSUME TypeOK, [Next]_vars PROVE TypeOK'
<1>1. CASE UNCHANGED vars
    BY <1>1 DEF vars, TypeOK, Buckets, Tasks
<1> QED BY <1>1, ListTypes, BucketTypes, TaskTypes DEF Next

(* The tables stay well formed, and no row has an id its table has not handed *)
(* out: ids are never reused (the auto-increment columns).                    *)
THEOREM TypeCorrect == Spec => []TypeOK
<1>1. Init => TypeOK
    BY DEF Init, TypeOK, Buckets, Tasks, BucketRow, TaskRow
<1>2. TypeOK /\ [Next]_vars => TypeOK'
    BY TypeStep
<1> QED BY <1>1, <1>2, PTL DEF Spec

-----------------------------------------------------------------------------
(* What the writes do to the columns the invariants are about. *)

LEMMA UpdateTaskEffect ==
    ASSUME TypeOK, NEW t \in Tasks, NEW l \in lists, NEW asked, NEW done, NEW after, NEW month,
           UpdateTask(t, l, asked, done, after, month)
    PROVE  /\ Tasks' = Tasks
           /\ \A u \in Tasks \ {t} : task'[u] = task[u]
           /\ task'[t].list = l
           /\ task'[t].bucket \in BucketsOf(l) \union {task[t].bucket}
           /\ IF l = task[t].list THEN task'[t].index = task[t].index
              ELSE task'[t].index \in NextIndexes(l)
<1> DEFINE old == task[t]
<1>1. PICK target \in BucketsOf(l),
           i \in (IF l = old.list THEN {old.index} ELSE NextIndexes(l)) :
         task' = [task EXCEPT ![t] =
            [list |-> l, bucket |-> KeptBucket(old, target, after),
             done |-> DoneAfterRepeat(old, MarkedDone(old, target, done, after)),
             index |-> i, after |-> after, month |-> month]]
    BY TargetIsOfTheList DEF UpdateTask
<1>2. KeptBucket(old, target, after) \in {target, old.bucket}
    BY DEF KeptBucket
<1>3. DOMAIN task = Tasks
    BY DEF Tasks
<1> HIDE DEF old
<1>4. Tasks' = Tasks /\ \A u \in Tasks \ {t} : task'[u] = task[u]
    BY <1>1, <1>3 DEF Tasks
<1>5. /\ task'[t].list = l /\ task'[t].index = i
      /\ task'[t].bucket = KeptBucket(old, target, after)
    BY <1>1, <1>3
<1> QED BY <1>1, <1>2, <1>4, <1>5 DEF old

LEMMA BulkUpdateEffect ==
    ASSUME NEW ts, NEW reached, NEW done, NEW after, TypeOK,
           BulkUpdate(ts, reached, done, after)
    PROVE  /\ Tasks' = Tasks
           /\ \A t \in Tasks : /\ task'[t].list = task[t].list
                              /\ task'[t].bucket = task[t].bucket
                              /\ task'[t].index = task[t].index
<1>1. task' = [t \in Tasks |-> IF t \in ts THEN Merged(task[t], done /\ t \in reached, after)
                              ELSE task[t]]
    BY Zenon DEF BulkUpdate
<1>2. ASSUME NEW row \in TaskRow, NEW d, NEW a
      PROVE  /\ Merged(row, d, a).list = row.list
             /\ Merged(row, d, a).bucket = row.bucket
             /\ Merged(row, d, a).index = row.index
    BY DEF Merged, TaskRow
<1>3. \A t \in Tasks : task[t] \in TaskRow
    BY DEF TypeOK
<1>4. Tasks' = Tasks
    BY <1>1 DEF Tasks
<1>5. ASSUME NEW t \in Tasks
      PROVE  task'[t] = task[t] \/ \E d : task'[t] = Merged(task[t], d, after)
    BY <1>1, Zenon
<1>6. ASSUME NEW t \in Tasks
      PROVE  /\ task'[t].list = task[t].list
             /\ task'[t].bucket = task[t].bucket
             /\ task'[t].index = task[t].index
    <2>1. CASE task'[t] = task[t]
        BY <2>1
    <2>2. CASE \E d : task'[t] = Merged(task[t], d, after)
        BY <2>2, <1>2, <1>3
    <2> QED BY <1>5, <2>1, <2>2
<1> QED BY <1>4, <1>6

LEMMA CreateTaskEffect ==
    ASSUME TypeOK, NEW l \in lists, NEW asked, NEW done, NEW after, NEW month,
           CreateTask(l, asked, done, after, month)
    PROVE  /\ Tasks' = Tasks \union {nextTask} /\ nextTask \notin Tasks
           /\ \A u \in Tasks : task'[u] = task[u]
           /\ task'[nextTask].list = l
           /\ task'[nextTask].bucket \in BucketsOf(l)
           /\ task'[nextTask].index \in NextIndexes(l)
BY QueriesReturnRows DEF CreateTask, TypeOK, Tasks

LEMMA DeleteBucketEffect ==
    ASSUME TypeOK, NEW urlList, NEW b \in Buckets, DeleteBucket(urlList, b)
    PROVE  /\ Buckets' = Buckets \ {b}
           /\ \A c \in Buckets' : bucket'[c] = bucket[c]
           /\ Tasks' = Tasks
           /\ \E d \in Buckets' : \A t \in Tasks :
                 /\ task'[t].list = task[t].list /\ task'[t].index = task[t].index
                 /\ task'[t].bucket = IF task[t].bucket = b THEN d ELSE task[t].bucket
<1>1. PICK d \in Buckets \ {b} : task' = [t \in Tasks |->
              IF task[t].bucket = b THEN [task[t] EXCEPT !.bucket = d] ELSE task[t]]
    BY DEF DeleteBucket, FirstByPosition, BucketsOf
<1>2. bucket' = [c \in Buckets \ {b} |-> bucket[c]]
    BY DEF DeleteBucket, Restrict, Buckets
<1>3. \A t \in Tasks : task[t] \in TaskRow
    BY DEF TypeOK
<1> QED BY <1>1, <1>2, <1>3 DEF Buckets, Tasks, TaskRow

-----------------------------------------------------------------------------
(* No orphans *)

LEMMA PlacedStep == ASSUME TypeOK, TaskPlaced, [Next]_vars PROVE TaskPlaced'
<1>1. CASE UNCHANGED vars
    BY <1>1 DEF vars, TaskPlaced, Tasks, Buckets
<1>2. CASE CreateList
    BY <1>2 DEF CreateList, TaskPlaced, Tasks, Buckets
<1>3. ASSUME NEW l \in lists, DeleteList(l) PROVE TaskPlaced'
    BY <1>3 DEF DeleteList, TaskPlaced, Tasks, Buckets, TasksOf, Restrict
<1>4. ASSUME NEW l, NEW limit, NEW done, NEW pos, CreateBucket(l, limit, done, pos)
      PROVE  TaskPlaced'
    BY <1>4 DEF CreateBucket, TaskPlaced, Tasks, Buckets
<1>5. ASSUME NEW urlList, NEW b, NEW limit, NEW done, NEW pos,
             UpdateBucket(urlList, b, limit, done, pos)
      PROVE  TaskPlaced'
    BY <1>5 DEF UpdateBucket, TaskPlaced, Tasks, Buckets
<1>6. ASSUME NEW urlList, NEW b \in Buckets, DeleteBucket(urlList, b) PROVE TaskPlaced'
    <2>1. lists' = lists
        BY <1>6 DEF DeleteBucket
    <2> QED BY <1>6, <2>1, DeleteBucketEffect DEF TaskPlaced
<1>7. ASSUME NEW l \in lists, NEW asked, NEW done, NEW after, NEW month,
             CreateTask(l, asked, done, after, month)
      PROVE  TaskPlaced'
    <2>1. lists' = lists /\ Buckets' = Buckets
        BY <1>7 DEF CreateTask, Buckets
    <2> QED BY <1>7, <2>1, CreateTaskEffect, QueriesReturnRows DEF TaskPlaced
<1>8. ASSUME NEW t \in Tasks, NEW l \in lists, NEW asked, NEW done, NEW after, NEW month,
             UpdateTask(t, l, asked, done, after, month)
      PROVE  TaskPlaced'
    <2>1. lists' = lists /\ Buckets' = Buckets
        BY <1>8 DEF UpdateTask, Buckets
    <2> QED BY <1>8, <2>1, UpdateTaskEffect, QueriesReturnRows DEF TaskPlaced
<1>9. ASSUME NEW ts, NEW reached, NEW done, NEW after, BulkUpdate(ts, reached, done, after)
      PROVE  TaskPlaced'
    <2>1. lists' = lists /\ Buckets' = Buckets
        BY <1>9 DEF BulkUpdate, Buckets
    <2> QED BY <1>9, <2>1, BulkUpdateEffect DEF TaskPlaced
<1>10. ASSUME NEW t, DeleteTask(t) PROVE TaskPlaced'
    BY <1>10 DEF DeleteTask, TaskPlaced, Tasks, Buckets, Restrict
<1> QED BY <1>1, <1>2, <1>3, <1>4, <1>5, <1>6, <1>7, <1>8, <1>9, <1>10, Zenon
        DEF Next, ListNext, BucketNext, TaskNext

(* No sequence of requests leaves a task of a deleted list or in a deleted  *)
(* bucket, even when a bucket's URL names another list than the bucket's.   *)
THEOREM NoOrphans == Spec => []TaskPlaced
<1>1. Init => TypeOK /\ TaskPlaced
    BY DEF Init, TypeOK, TaskPlaced, Buckets, Tasks, BucketRow, TaskRow
<1>2. TypeOK /\ TaskPlaced /\ [Next]_vars => (TypeOK /\ TaskPlaced)'
    BY TypeStep, PlacedStep
<1> QED BY <1>1, <1>2, PTL DEF Spec

-----------------------------------------------------------------------------
(* Task indexes *)

LEMMA IndexStep == ASSUME TypeOK, IndexUnique, [Next]_vars PROVE IndexUnique'
<1>1. CASE UNCHANGED vars
    BY <1>1 DEF vars, IndexUnique, Tasks
<1>2. ASSUME NEW l \in lists, DeleteList(l) PROVE IndexUnique'
    BY <1>2 DEF DeleteList, IndexUnique, Tasks, Restrict
<1>3. ASSUME UNCHANGED task PROVE IndexUnique'
    BY <1>3 DEF IndexUnique, Tasks
<1>4. ASSUME NEW urlList, NEW b \in Buckets, DeleteBucket(urlList, b) PROVE IndexUnique'
    BY <1>4, DeleteBucketEffect DEF IndexUnique
<1>5. ASSUME NEW l \in lists, NEW asked, NEW done, NEW after, NEW month,
             CreateTask(l, asked, done, after, month)
      PROVE  IndexUnique'
    <2>1. \A u \in TasksOf(l) : task[u].index < task'[nextTask].index
        BY <1>5, CreateTaskEffect, NextIndexAbove
    <2>2. \A u \in TasksOf(l) : task[u].index # task'[nextTask].index
        BY <2>1 DEF TypeOK, TaskRow, TasksOf
    <2> QED BY <1>5, <2>2, CreateTaskEffect DEF IndexUnique, TasksOf
<1>6. ASSUME NEW t \in Tasks, NEW l \in lists, NEW asked, NEW done, NEW after, NEW month,
             UpdateTask(t, l, asked, done, after, month)
      PROVE  IndexUnique'
    <2>1. CASE l = task[t].list
        BY <1>6, <2>1, UpdateTaskEffect DEF IndexUnique
    <2>2. CASE l # task[t].list
        <3>1. \A u \in TasksOf(l) : task[u].index < task'[t].index
            BY <1>6, <2>2, UpdateTaskEffect, NextIndexAbove
        <3>2. \A u \in TasksOf(l) : task[u].index # task'[t].index
            BY <3>1 DEF TypeOK, TaskRow, TasksOf
        <3> QED BY <1>6, <3>2, UpdateTaskEffect DEF IndexUnique, TasksOf
    <2> QED BY <2>1, <2>2
<1>7. ASSUME NEW ts, NEW reached, NEW done, NEW after, BulkUpdate(ts, reached, done, after)
      PROVE  IndexUnique'
    BY <1>7, BulkUpdateEffect DEF IndexUnique
<1>8. ASSUME NEW t, DeleteTask(t) PROVE IndexUnique'
    BY <1>8 DEF DeleteTask, IndexUnique, Tasks, Restrict
<1>9. ASSUME CreateList \/ \E l, limit, done, pos : CreateBucket(l, limit, done, pos)
                        \/ \E u, b, lim, d, p : UpdateBucket(u, b, lim, d, p)
      PROVE  UNCHANGED task
    BY <1>9 DEF CreateList, CreateBucket, UpdateBucket
<1> QED BY <1>1, <1>2, <1>3, <1>4, <1>5, <1>6, <1>7, <1>8, <1>9, Zenon
        DEF Next, ListNext, BucketNext, TaskNext

(* While requests run one at a time, LIST-7 never names two tasks: the next  *)
(* index is above every index alive in the list a task is created in or      *)
(* moved to, although it is not a counter and indexes are handed out again.  *)
THEOREM IndexesStayUnique == Spec => []IndexUnique
<1>1. Init => TypeOK /\ IndexUnique
    BY DEF Init, TypeOK, IndexUnique, Buckets, Tasks, BucketRow, TaskRow
<1>2. TypeOK /\ IndexUnique /\ [Next]_vars => (TypeOK /\ IndexUnique)'
    BY TypeStep, IndexStep
<1> QED BY <1>1, <1>2, PTL DEF Spec

-----------------------------------------------------------------------------
(* The last bucket *)

LEMMA HasBucketStep ==
    ASSUME UrlListMatches, TypeOK, ListHasBucket, [Next]_vars
    PROVE  ListHasBucket'
<1>1. CASE UNCHANGED vars
    BY <1>1 DEF vars, ListHasBucket, BucketsOf, Buckets
<1>2. CASE CreateList
    BY <1>2 DEF CreateList, ListHasBucket, BucketsOf, Buckets, TypeOK
<1>3. ASSUME NEW l \in lists, DeleteList(l) PROVE ListHasBucket'
    BY <1>3 DEF DeleteList, ListHasBucket, BucketsOf, Buckets
<1>4. ASSUME NEW l, NEW limit, NEW done, NEW pos, CreateBucket(l, limit, done, pos)
      PROVE  ListHasBucket'
    BY <1>4 DEF CreateBucket, ListHasBucket, BucketsOf, Buckets, TypeOK
<1>5. ASSUME NEW urlList, NEW b, NEW limit, NEW done, NEW pos,
             UpdateBucket(urlList, b, limit, done, pos)
      PROVE  ListHasBucket'
    BY <1>5 DEF UpdateBucket, ListHasBucket, BucketsOf, Buckets, TypeOK, BucketRow
<1>6. ASSUME NEW urlList, NEW b \in Buckets, DeleteBucket(urlList, b) PROVE ListHasBucket'
    <2>1. urlList = bucket[b].list /\ lists' = lists
        BY <1>6 DEF DeleteBucket, Addressed
    <2>2. BucketsOf(urlList) \ {b} # {}
        BY <1>6, AnotherElement DEF DeleteBucket
    <2>3. \A l : BucketsOf(l)' = BucketsOf(l) \ {b}
        BY <1>6, DeleteBucketEffect DEF BucketsOf
    <2>4. \A l : l # urlList => BucketsOf(l) \ {b} = BucketsOf(l)
        BY <2>1 DEF BucketsOf
    <2> QED BY <2>1, <2>2, <2>3, <2>4 DEF ListHasBucket
<1>7. ASSUME UNCHANGED <<lists, bucket>> PROVE ListHasBucket'
    BY <1>7 DEF ListHasBucket, BucketsOf, Buckets
<1>8. ASSUME TaskNext PROVE UNCHANGED <<lists, bucket>>
    BY <1>8 DEF TaskNext, CreateTask, UpdateTask, BulkUpdate, DeleteTask
<1> QED BY <1>1, <1>2, <1>3, <1>4, <1>5, <1>6, <1>7, <1>8, Zenon
        DEF Next, ListNext, BucketNext

(* After every request the rows are typed, an index names one task of a list, *)
(* and every task is in a list and in a bucket that exist.                    *)
THEOREM RowsAlwaysFit == Spec => []RowsFit
BY TypeCorrect, NoOrphans, IndexesStayUnique, PTL DEF RowsFit

(* A list always keeps a bucket for its new tasks, if every bucket is        *)
(* addressed through its own list: Bucket.Delete counts the buckets of the   *)
(* list in the URL, so the assumption is needed.                             *)
THEOREM ListsKeepABucket ==
    ASSUME UrlListMatches
    PROVE  Spec => []ListHasBucket
<1>1. Init => TypeOK /\ ListHasBucket
    BY DEF Init, TypeOK, ListHasBucket, Buckets, Tasks, BucketRow, TaskRow
<1>2. TypeOK /\ ListHasBucket /\ [Next]_vars => (TypeOK /\ ListHasBucket)'
    BY TypeStep, HasBucketStep
<1> QED BY <1>1, <1>2, PTL DEF Spec

-----------------------------------------------------------------------------
(* What a step may do to tasks and buckets *)

(* Tasks may go, but those that stay are as they were; buckets stay, in their lists. *)
TasksKept == Tasks' \subseteq Tasks /\ \A t \in Tasks' : task'[t] = task[t]
BucketsKept ==
    Buckets \subseteq Buckets' /\ \A b \in Buckets : bucket'[b].list = bucket[b].list

LEMMA UpdateTaskRow ==
    ASSUME TypeOK, NEW t \in Tasks, NEW l \in lists, NEW asked, NEW done, NEW after, NEW month,
           UpdateTask(t, l, asked, done, after, month)
    PROVE  \E target \in TargetBuckets(task[t], l, asked, done) :
              /\ AsksToMove(task[t], asked) => HasRoom(target)
              /\ task'[t].list = l
              /\ task'[t].bucket = KeptBucket(task[t], target, after)
              /\ task'[t].done =
                    DoneAfterRepeat(task[t], MarkedDone(task[t], target, done, after))
              /\ task'[t].after = after
<1> DEFINE old == task[t]
<1>1. PICK target \in TargetBuckets(old, l, asked, done),
           i \in (IF l = old.list THEN {old.index} ELSE NextIndexes(l)) :
         /\ AsksToMove(old, asked) => HasRoom(target)
         /\ task' = [task EXCEPT ![t] =
               [list |-> l, bucket |-> KeptBucket(old, target, after),
                done |-> DoneAfterRepeat(old, MarkedDone(old, target, done, after)),
                index |-> i, after |-> after, month |-> month]]
    BY DEF UpdateTask
<1>2. DOMAIN task = Tasks
    BY DEF Tasks
<1> HIDE DEF old
<1>3. /\ task'[t].list = l
      /\ task'[t].bucket = KeptBucket(old, target, after)
      /\ task'[t].done = DoneAfterRepeat(old, MarkedDone(old, target, done, after))
      /\ task'[t].after = after
    BY <1>1, <1>2, Zenon
<1> QED BY <1>1, <1>3, Zenon DEF old

(* Every other step keeps the tasks that stay and the buckets, or is one of three. *)
LEMMA StepCases ==
    ASSUME TypeOK, [Next]_vars
    PROVE  \/ TasksKept /\ BucketsKept
           \/ \E b \in Buckets : \E urlList : DeleteBucket(urlList, b)
           \/ \E l \in lists : \E asked, done, after, month :
                 CreateTask(l, asked, done, after, month)
           \/ \E t \in Tasks, l \in lists : \E asked, done, after, month :
                 UpdateTask(t, l, asked, done, after, month)
           \/ \E ts, reached, done, after : BulkUpdate(ts, reached, done, after)
<1> USE DEF TasksKept, BucketsKept, Tasks, Buckets
<1>1. CASE UNCHANGED vars
    BY <1>1 DEF vars
<1>2. CASE CreateList
    BY <1>2 DEF CreateList, TypeOK
<1>3. ASSUME NEW l \in lists, DeleteList(l) PROVE TasksKept /\ BucketsKept
    BY <1>3 DEF DeleteList, Restrict
<1>4. ASSUME NEW l, NEW limit, NEW done, NEW pos, CreateBucket(l, limit, done, pos)
      PROVE  TasksKept /\ BucketsKept
    BY <1>4 DEF CreateBucket, TypeOK
<1>5. ASSUME NEW urlList, NEW b, NEW limit, NEW done, NEW pos,
             UpdateBucket(urlList, b, limit, done, pos)
      PROVE  TasksKept /\ BucketsKept
    BY <1>5 DEF UpdateBucket, TypeOK, BucketRow
<1>6. ASSUME NEW t, DeleteTask(t) PROVE TasksKept /\ BucketsKept
    BY <1>6 DEF DeleteTask, Restrict
<1> HIDE DEF TasksKept, BucketsKept, Tasks, Buckets
<1> QED BY <1>1, <1>2, <1>3, <1>4, <1>5, <1>6, Zenon DEF Next, ListNext, BucketNext, TaskNext

-----------------------------------------------------------------------------
(* Limits *)

LimitStep ==
    \A b \in Buckets \intersect Buckets' :
       LET arrived == TasksIn(b)' \ TasksIn(b) IN
       bucket[b].limit > 0 /\ Cardinality(TasksIn(b)') > bucket[b].limit =>
         \A t \in arrived :
            /\ t \in Tasks
            /\ \/ task[t].list # task'[t].list
               \/ task[t].bucket \notin Buckets'
               \/ bucket[b].done /\ ~task[t].done

(* One more task in a bucket that has room does not exceed the limit. *)
LEMMA RoomForOne ==
    ASSUME TypeOK, NEW b \in Buckets, HasRoom(b), bucket[b].limit > 0,
           NEW t, TasksIn(b)' \subseteq TasksIn(b) \union {t}
    PROVE  ~(Cardinality(TasksIn(b)') > bucket[b].limit)
<1>1. IsFiniteSet(TasksIn(b))
  <2>1. nextTask - 1 \in Int
    BY DEF TypeOK
  <2>2. IsFiniteSet(1..(nextTask - 1))
    BY <2>1, FS_Interval
  <2> QED BY <2>2, FS_Subset DEF TypeOK, TasksIn
<1>2. /\ IsFiniteSet(TasksIn(b) \union {t})
      /\ Cardinality(TasksIn(b) \union {t}) <= Cardinality(TasksIn(b)) + 1
      /\ Cardinality(TasksIn(b)) \in Nat /\ Cardinality(TasksIn(b) \union {t}) \in Nat
  <2>1. Cardinality(TasksIn(b)) \in Nat
    BY <1>1, FS_CardinalityType
  <2>2. /\ IsFiniteSet(TasksIn(b) \union {t})
        /\ Cardinality(TasksIn(b) \union {t})
             = IF t \in TasksIn(b) THEN Cardinality(TasksIn(b)) ELSE Cardinality(TasksIn(b)) + 1
    BY <1>1, FS_AddElement
  <2> QED BY <2>1, <2>2
<1>3. /\ Cardinality(TasksIn(b)') <= Cardinality(TasksIn(b) \union {t})
      /\ Cardinality(TasksIn(b)') \in Nat
  BY <1>2, FS_Subset, FS_CardinalityType
<1>4. Cardinality(TasksIn(b)) < bucket[b].limit /\ bucket[b].limit \in Nat
  BY DEF HasRoom, TypeOK, BucketRow
<1> QED BY <1>2, <1>3, <1>4

LEMMA LimitOnStep == ASSUME TypeOK, [Next]_vars PROVE LimitStep
<1>1. CASE TasksKept
    BY <1>1 DEF TasksKept, LimitStep, TasksIn
<1>2. ASSUME NEW urlList, NEW b \in Buckets, DeleteBucket(urlList, b) PROVE LimitStep
  <2>1. PICK d \in Buckets' : \A t \in Tasks :
           task'[t].bucket = IF task[t].bucket = b THEN d ELSE task[t].bucket
    BY <1>2, DeleteBucketEffect
  <2>2. Tasks' = Tasks /\ b \notin Buckets'
    BY <1>2, DeleteBucketEffect
  <2> QED BY <2>1, <2>2 DEF LimitStep, TasksIn
<1>3. ASSUME NEW l \in lists, NEW asked, NEW done, NEW after, NEW month,
             CreateTask(l, asked, done, after, month)
      PROVE  LimitStep
  <2>1. \A b : TasksIn(b)' \subseteq TasksIn(b) \union {nextTask}
    BY <1>3, CreateTaskEffect DEF TasksIn
  <2>2. \A b : nextTask \in TasksIn(b)' => HasRoom(b)
    BY <1>3, QueriesReturnRows DEF CreateTask, TasksIn, Tasks
  <2>3. ASSUME NEW b \in Buckets, bucket[b].limit > 0, Cardinality(TasksIn(b)') > bucket[b].limit,
               NEW t \in TasksIn(b)' \ TasksIn(b)
        PROVE  FALSE
    BY <2>1, <2>2, <2>3, RoomForOne
  <2> QED BY <2>3 DEF LimitStep
<1>4. ASSUME NEW t \in Tasks, NEW l \in lists, NEW asked, NEW done, NEW after, NEW month,
             UpdateTask(t, l, asked, done, after, month)
      PROVE  LimitStep
  <2>1. PICK target \in TargetBuckets(task[t], l, asked, done) :
           /\ AsksToMove(task[t], asked) => HasRoom(target)
           /\ task'[t].list = l /\ task'[t].bucket = KeptBucket(task[t], target, after)
    BY <1>4, UpdateTaskRow
  <2>2. \A b : TasksIn(b)' \subseteq TasksIn(b) \union {t}
    BY <1>4, UpdateTaskEffect DEF TasksIn
  <2>3. ASSUME NEW b \in Buckets, bucket[b].limit > 0, Cardinality(TasksIn(b)') > bucket[b].limit,
               t \in TasksIn(b)' \ TasksIn(b), task[t].list = l
        PROVE  bucket[b].done /\ ~task[t].done
    <3>1. b = target /\ b # task[t].bucket
      BY <2>1, <2>3 DEF TasksIn, KeptBucket
    <3>2. ~HasRoom(b)
      BY <2>2, <2>3, RoomForOne
    <3>3. ~AsksToMove(task[t], asked)
      BY <2>1, <3>1, <3>2
    <3>4. target \in DoneBuckets(l) /\ ~task[t].done
      BY <2>1, <2>3, <3>1, <3>3 DEF TargetBuckets, AsksToMove
    <3> QED BY <3>1, <3>4 DEF DoneBuckets
  <2> QED BY <2>1, <2>2, <2>3 DEF LimitStep
<1>5. ASSUME NEW ts, NEW reached, NEW done, NEW after, BulkUpdate(ts, reached, done, after)
      PROVE  LimitStep
    BY <1>5, BulkUpdateEffect DEF LimitStep, TasksIn
<1> QED BY <1>1, <1>2, <1>3, <1>4, <1>5, StepCases, Zenon

(* For any limits and any number of tasks, a bucket only ever exceeds its limit *)
(* through one of the three ways that do not call checkBucketLimit.             *)
THEOREM LimitsHoldButForBypasses == Spec => LimitOnlyBypassed
<1>1. [][LimitStep]_vars <=> LimitOnlyBypassed
  BY DEF LimitStep, LimitOnlyBypassed
<1>2. TypeOK /\ [Next]_vars => [LimitStep]_vars
  BY LimitOnStep
<1> QED BY <1>1, <1>2, TypeCorrect, PTL DEF Spec

-----------------------------------------------------------------------------
(* Done, repeats and the buckets of a list *)

DoneStep ==
    \A t \in Surviving :
       /\ Moves(t) /\ task'[t].bucket \in Buckets /\ bucket[task'[t].bucket].done
       /\ ~task[t].done /\ ~Repeats(task[t])
       => task'[t].done

OpenStep ==
    \A t \in {u \in Surviving : ~task[u].done} :
       /\ Repeats(task[t]) => ~task'[t].done
       /\ Moves(t) /\ task'[t].list = task[t].list /\ task'[t].after =>
             task'[t].bucket \notin DoneBuckets(task[t].list)

InListStep ==
    \A t \in Surviving :
       /\ task[t].bucket \in BucketsOf(task[t].list)
       /\ ~(task'[t].list # task[t].list /\ task'[t].after)
       => \E b \in Buckets' : b = task'[t].bucket /\ bucket'[b].list = task'[t].list

(* What a bulk update does to the done flags: a repeating task stays open. *)
LEMMA BulkUpdateDone ==
    ASSUME NEW ts, NEW reached, NEW done, NEW after, TypeOK,
           BulkUpdate(ts, reached, done, after),
           NEW t \in Tasks, ~task[t].done, Repeats(task[t])
    PROVE  ~task'[t].done
<1>1. task'[t] = IF t \in ts THEN Merged(task[t], done /\ t \in reached, after) ELSE task[t]
    BY Zenon DEF BulkUpdate
<1>2. task[t] \in TaskRow
    BY DEF TypeOK
<1>3. t \in ts => t \notin reached
    BY DEF BulkUpdate
<1>4. t \in ts => task'[t] = Merged(task[t], FALSE, after)
    BY <1>1, <1>3
<1>5. Merged(task[t], FALSE, after).done = FALSE
    BY <1>2 DEF Merged, TaskRow
<1> QED BY <1>1, <1>4, <1>5, Zenon

(* Requests that do not move a task from one bucket to another that both stay. *)
LEMMA NoMoveSteps ==
    ASSUME TypeOK, \A t \in Surviving : ~Moves(t),
           \A t \in Surviving : ~task[t].done /\ Repeats(task[t]) => ~task'[t].done
    PROVE  DoneStep /\ OpenStep
BY DEF DoneStep, OpenStep

LEMMA UpdateTaskDoneAndOpen ==
    ASSUME TypeOK, NEW t \in Tasks, NEW l \in lists, NEW asked, NEW done, NEW after, NEW month,
           UpdateTask(t, l, asked, done, after, month)
    PROVE  DoneStep /\ OpenStep
<1>1. PICK target \in TargetBuckets(task[t], l, asked, done) :
         /\ task'[t].list = l /\ task'[t].bucket = KeptBucket(task[t], target, after)
         /\ task'[t].done = DoneAfterRepeat(task[t], MarkedDone(task[t], target, done, after))
         /\ task'[t].after = after
    BY UpdateTaskRow
<1>2. \A u \in Tasks \ {t} : task'[u] = task[u]
    BY UpdateTaskEffect
<1>3. ASSUME Moves(t), bucket[task'[t].bucket].done PROVE ~after /\ task'[t].bucket = target
    BY <1>1, <1>3 DEF Moves, KeptBucket
<1>4. ASSUME Moves(t), bucket[task'[t].bucket].done, ~task[t].done, ~Repeats(task[t])
      PROVE  task'[t].done
    BY <1>1, <1>3, <1>4 DEF MarkedDone, DoneAfterRepeat
<1>5. ASSUME ~task[t].done, Repeats(task[t]) PROVE ~task'[t].done
    BY <1>1, <1>5 DEF DoneAfterRepeat
<1>6. ASSUME Moves(t), task'[t].after PROVE task'[t].bucket \notin DoneBuckets(task[t].list)
    BY <1>1, <1>3, <1>6 DEF DoneBuckets
<1>7. \A u \in Surviving \ {t} : ~Moves(u) /\ task'[u].done = task[u].done
    BY <1>2 DEF Moves, Surviving
<1>8. DoneStep
    BY <1>4, <1>7 DEF DoneStep
<1>9. OpenStep
    BY <1>5, <1>6, <1>7 DEF OpenStep
<1> QED BY <1>8, <1>9

LEMMA DoneAndOpenOnStep == ASSUME TypeOK, [Next]_vars PROVE DoneStep /\ OpenStep
<1>1. CASE TasksKept
    BY <1>1, NoMoveSteps DEF TasksKept, Moves, Surviving
<1>2. ASSUME NEW b \in Buckets, NEW urlList, DeleteBucket(urlList, b)
      PROVE  DoneStep /\ OpenStep
  <2>1. \A t \in Surviving : ~Moves(t)
    BY <1>2, DeleteBucketEffect DEF Moves, Surviving
  <2>2. \A t \in Surviving : task'[t].done = task[t].done
    <3>1. PICK d : task' = [t \in Tasks |->
                 IF task[t].bucket = b THEN [task[t] EXCEPT !.bucket = d] ELSE task[t]]
      BY <1>2 DEF DeleteBucket
    <3>2. \A t \in Tasks : task[t] \in TaskRow
      BY DEF TypeOK
    <3> QED BY <3>1, <3>2 DEF TaskRow, Surviving
  <2> QED BY <2>1, <2>2, NoMoveSteps
<1>3. ASSUME NEW l \in lists, NEW asked, NEW done, NEW after, NEW month,
             CreateTask(l, asked, done, after, month)
      PROVE  DoneStep /\ OpenStep
  <2>1. \A t \in Surviving : task'[t] = task[t]
    BY <1>3, CreateTaskEffect DEF Surviving
  <2> QED BY <2>1, NoMoveSteps DEF Moves
<1>4. ASSUME NEW t \in Tasks, NEW l \in lists, NEW asked, NEW done, NEW after, NEW month,
             UpdateTask(t, l, asked, done, after, month)
      PROVE  DoneStep /\ OpenStep
    BY <1>4, UpdateTaskDoneAndOpen
<1>5. ASSUME NEW ts, NEW reached, NEW done, NEW after, BulkUpdate(ts, reached, done, after)
      PROVE  DoneStep /\ OpenStep
  <2>1. \A t \in Surviving : ~Moves(t)
    BY <1>5, BulkUpdateEffect DEF Moves, Surviving
  <2>2. \A t \in Surviving : ~task[t].done /\ Repeats(task[t]) => ~task'[t].done
    BY <1>5, BulkUpdateDone DEF Surviving
  <2> QED BY <2>1, <2>2, NoMoveSteps
<1> QED BY <1>1, <1>2, <1>3, <1>4, <1>5, StepCases, Zenon

(* Whatever a request says, entering a done bucket marks a task that does not repeat. *)
THEOREM DoneBucketsMark == Spec => DoneOnEntry
<1>1. [][DoneStep]_vars <=> DoneOnEntry
  BY DEF DoneStep, DoneOnEntry
<1>2. TypeOK /\ [Next]_vars => [DoneStep]_vars
  BY DoneAndOpenOnStep
<1> QED BY <1>1, <1>2, TypeCorrect, PTL DEF Spec

(* A task that repeats is never left done, in any request, alone or with others. *)
THEOREM RepeatsStayOpen == Spec => RepeatingStaysOpen
<1>1. [][OpenStep]_vars <=> RepeatingStaysOpen
  BY DEF OpenStep, RepeatingStaysOpen
<1>2. TypeOK /\ [Next]_vars => [OpenStep]_vars
  BY DoneAndOpenOnStep
<1> QED BY <1>1, <1>2, TypeCorrect, PTL DEF Spec

LEMMA InListOnStep == ASSUME UrlListMatches, TypeOK, [Next]_vars PROVE InListStep
<1>1. CASE TasksKept /\ BucketsKept
    BY <1>1 DEF TasksKept, BucketsKept, InListStep, BucketsOf, Surviving
<1>2. ASSUME NEW b \in Buckets, NEW urlList, DeleteBucket(urlList, b) PROVE InListStep
  <2>1. PICK d \in FirstByPosition(BucketsOf(urlList) \ {b}) : task' = [t \in Tasks |->
               IF task[t].bucket = b THEN [task[t] EXCEPT !.bucket = d] ELSE task[t]]
    BY <1>2 DEF DeleteBucket
  <2>2. d \in BucketsOf(urlList) \ {b} /\ urlList = bucket[b].list
    BY <1>2, <2>1 DEF DeleteBucket, Addressed, FirstByPosition
  <2>3. Buckets' = Buckets \ {b} /\ \A c \in Buckets' : bucket'[c] = bucket[c]
    BY <1>2, DeleteBucketEffect
  <2>4. ASSUME NEW t \in Surviving, task[t].bucket \in BucketsOf(task[t].list)
        PROVE  task'[t].bucket \in Buckets' /\ bucket'[task'[t].bucket].list = task'[t].list
    <3>1. task[t] \in TaskRow /\ t \in Tasks
      BY DEF TypeOK, Surviving
    <3>2. /\ task'[t].list = task[t].list
          /\ task'[t].bucket = IF task[t].bucket = b THEN d ELSE task[t].bucket
      BY <2>1, <3>1 DEF TaskRow
    <3> QED BY <2>2, <2>3, <2>4, <3>2 DEF BucketsOf
  <2> QED BY <2>4 DEF InListStep
<1>3. ASSUME NEW l \in lists, NEW asked, NEW done, NEW after, NEW month,
             CreateTask(l, asked, done, after, month)
      PROVE  InListStep
  <2>1. bucket' = bucket
    BY <1>3 DEF CreateTask
  <2>2. \A t \in Surviving : task'[t] = task[t]
    BY <1>3, CreateTaskEffect DEF Surviving
  <2> QED BY <2>1, <2>2 DEF InListStep, BucketsOf, Buckets
<1>4. ASSUME NEW t \in Tasks, NEW l \in lists, NEW asked, NEW done, NEW after, NEW month,
             UpdateTask(t, l, asked, done, after, month)
      PROVE  InListStep
  <2>1. PICK target \in TargetBuckets(task[t], l, asked, done) :
           /\ task'[t].list = l /\ task'[t].bucket = KeptBucket(task[t], target, after)
           /\ task'[t].after = after
    BY <1>4, UpdateTaskRow
  <2>2. bucket' = bucket /\ \A u \in Tasks \ {t} : task'[u] = task[u]
    BY <1>4, UpdateTaskEffect DEF UpdateTask
  <2>3. target \in BucketsOf(l)
    BY <2>1, TargetIsOfTheList
  <2>4. ASSUME task[t].bucket \in BucketsOf(task[t].list), ~(l # task[t].list /\ after)
        PROVE  task'[t].bucket \in BucketsOf(l)
    BY <2>1, <2>3, <2>4 DEF KeptBucket
  <2> QED BY <2>1, <2>2, <2>4 DEF InListStep, BucketsOf, Buckets, Surviving
<1>5. ASSUME NEW ts, NEW reached, NEW done, NEW after, BulkUpdate(ts, reached, done, after)
      PROVE  InListStep
  <2>1. bucket' = bucket
    BY <1>5 DEF BulkUpdate
  <2> QED BY <1>5, <2>1, BulkUpdateEffect DEF InListStep, BucketsOf, Buckets, Surviving
<1> QED BY <1>1, <1>2, <1>3, <1>4, <1>5, StepCases, Zenon

(* A task leaves the buckets of its list by one request only, if every bucket is *)
(* addressed through its own list: with another one in the URL, Bucket.Delete     *)
(* moves the tasks to the default bucket of that list.                            *)
THEOREM BucketsStayInTheirList ==
    ASSUME UrlListMatches
    PROVE  Spec => BucketStaysInList
<1>1. [][InListStep]_vars <=> BucketStaysInList
  BY DEF InListStep, BucketStaysInList
<1>2. TypeOK /\ [Next]_vars => [InListStep]_vars
  BY InListOnStep
<1> QED BY <1>1, <1>2, TypeCorrect, PTL DEF Spec
=============================================================================
