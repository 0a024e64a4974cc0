---------------------------- MODULE Races_proofs ----------------------------
(***************************************************************************)
(* What holds of the interleaved handlers for every number of workers and  *)
(* every database.  Whoever serves, the rows stay well formed, and a       *)
(* task's list_id and bucket_id fit together.  While one worker writes,    *)
(* indexes are unique and limits hold, whatever is deleted in between.     *)
(* A worker that serves alone does what Kanban.tla says, one request after *)
(* the other.                                                              *)
(***************************************************************************)
EXTENDS RacesAlone, FiniteSetTheorems, TLAPS

(* A function restricted to part of its domain. *)
LEMMA RestrictType ==
    ASSUME NEW f, NEW S, NEW T, f \in [DOMAIN f -> T], S \subseteq DOMAIN f
    PROVE  /\ Restrict(f, S) \in [S -> T]
           /\ DOMAIN Restrict(f, S) = S
           /\ \A x \in S : Restrict(f, S)[x] = f[x]
BY DEF Restrict

(* A step that replaces one request and leaves the tables alone keeps IInv if *)
(* the new request is well formed and holds fitting pairs.                    *)
LEMMA OneRequest ==
    ASSUME IInv, NEW w \in Workers, NEW r \in Request,
           req' = [req EXCEPT ![w] = r],
           lists' \subseteq lists, buckets' \subseteq buckets, UNCHANGED <<task, nextTask>>,
           r.pc \in {"limit", "index", "write"} => Fits(r.to, r.list),
           r.pc \in {"drop", "default", "rehome"} => Fits(r.from, r.list),
           r.pc = "rehome" /\ r.to # 0 => Fits(r.to, r.list)
    PROVE  IInv'
<1>1. TypeOK'
  BY DEF IInv, TypeOK, Tasks
<1>2. PairFits'
  BY DEF IInv, PairFits, Fits, Tasks
<1>3. HeldPairFits'
  BY DEF IInv, TypeOK, HeldPairFits, Fits
<1> QED BY <1>1, <1>2, <1>3 DEF IInv

(* The same for a step that writes task rows whose pairs fit and goes idle. *)
LEMMA RowsWritten ==
    ASSUME IInv, NEW w \in Workers, req' = [req EXCEPT ![w] = Idle],
           UNCHANGED <<lists, buckets>>,
           nextTask' \in Nat \ {0}, task' \in [Tasks' -> TaskRow], Tasks' \subseteq 1..(nextTask' - 1),
           \A t \in Tasks' : task'[t].bucket # 0 => Fits(task'[t].bucket, task'[t].list)
    PROVE  IInv'
<1>1. Idle \in Request
  BY DEF Idle, Request, PC
<1>2. TypeOK'
  BY <1>1 DEF IInv, TypeOK
<1>3. PairFits'
  BY DEF PairFits, Fits
<1>4. HeldPairFits'
  BY DEF IInv, TypeOK, HeldPairFits, Fits, Idle
<1> QED BY <1>2, <1>3, <1>4 DEF IInv

LEMMA HomeIsNat == ASSUME NEW b \in DOMAIN HomeOf PROVE b \in Nat \ {0} /\ HomeOf[b] \in Nat
BY ConstantsAssumption

LEMMA IdleIsRequest == Idle \in Request /\ Idle.pc = "idle"
BY DEF Idle, Request, PC

LEMMA InitIInv == Init => IInv
<1> SUFFICES ASSUME Init PROVE IInv
  OBVIOUS
<1>1. TypeOK
  BY IdleIsRequest DEF Init, TypeOK, Tasks
<1>2. PairFits
  BY DEF Init, PairFits, Tasks
<1>3. HeldPairFits
  BY IdleIsRequest DEF Init, HeldPairFits
<1> QED BY <1>1, <1>2, <1>3 DEF IInv

LEMMA BeginCreateKeeps ==
    ASSUME IInv, NEW w \in Workers, NEW l \in lists, NEW asked \in buckets \union {0},
           BeginCreate(w, l, asked)
    PROVE  IInv'
<1>1. PICK b \in BucketsOf(l) :
          req' = [req EXCEPT ![w] = [Idle EXCEPT !.pc = "limit", !.list = l, !.to = b]]
  BY DEF BeginCreate, DefaultBuckets
<1>2. b \in DOMAIN HomeOf /\ HomeOf[b] = l
  BY <1>1 DEF BucketsOf, IInv, TypeOK
<1> DEFINE r == [Idle EXCEPT !.pc = "limit", !.list = l, !.to = b]
<1>3. r \in Request /\ r.pc = "limit" /\ r.to = b /\ r.list = l
  BY <1>2, HomeIsNat DEF Idle, Request, PC
<1> HIDE DEF r
<1>4. req' = [req EXCEPT ![w] = r]
  BY <1>1 DEF r
<1> QED BY <1>2, <1>3, <1>4, OneRequest DEF BeginCreate, Fits

LEMMA BeginMoveKeeps ==
    ASSUME IInv, NEW w \in Workers, NEW t \in Tasks, NEW l \in lists,
           NEW asked \in buckets \union {0}, BeginMove(w, t, l, asked)
    PROVE  IInv'
<1> DEFINE pc == IF asked # 0 /\ asked # task[t].bucket THEN "limit"
                 ELSE AfterLimit(task[t].list, l)
<1>1. PICK b \in BucketsOf(l) :
          req' = [req EXCEPT ![w] = [Idle EXCEPT !.pc = pc, !.task = t, !.was = task[t].list,
                                                 !.list = l, !.to = b]]
  BY DEF BeginMove, DefaultBuckets
<1>2. b \in DOMAIN HomeOf /\ HomeOf[b] = l
  BY <1>1 DEF BucketsOf, IInv, TypeOK
<1>3. pc \in {"limit", "index", "write"}
  BY DEF AfterLimit
<1>4. t \in Nat /\ task[t].list \in Nat
  BY DEF IInv, TypeOK, TaskRow
<1> HIDE DEF pc
<1> DEFINE r == [Idle EXCEPT !.pc = pc, !.task = t, !.was = task[t].list, !.list = l, !.to = b]
<1>5. r \in Request /\ r.pc = pc /\ r.to = b /\ r.list = l
  BY <1>2, <1>3, <1>4, HomeIsNat DEF Idle, Request, PC
<1> HIDE DEF r
<1>6. req' = [req EXCEPT ![w] = r]
  BY <1>1 DEF r
<1> QED BY <1>2, <1>3, <1>5, <1>6, OneRequest DEF BeginMove, Fits

LEMMA CheckLimitKeeps ==
    ASSUME IInv, NEW w \in Workers, CheckLimit(w)
    PROVE  IInv'
<1> DEFINE old == req[w]
           r == [old EXCEPT !.pc = AfterLimit(old.was, old.list)]
<1>1. old \in Request /\ old.pc = "limit" /\ Fits(old.to, old.list)
  BY DEF IInv, TypeOK, HeldPairFits, CheckLimit
<1>2. r \in Request /\ r.pc \in {"index", "write"} /\ r.to = old.to /\ r.list = old.list
  BY <1>1 DEF AfterLimit, Request, PC
<1>3. CASE HasRoom(old.to)
  <2>1. req' = [req EXCEPT ![w] = r]
    BY <1>3 DEF CheckLimit, IInv, TypeOK
  <2> HIDE DEF r, old
  <2> QED BY <2>1, <1>1, <1>2, OneRequest DEF CheckLimit, IInv, TypeOK
<1>4. CASE ~HasRoom(old.to)
  <2>1. req' = [req EXCEPT ![w] = Idle]
    BY <1>4 DEF CheckLimit, IInv, TypeOK
  <2> QED BY <2>1, IdleIsRequest, OneRequest DEF CheckLimit, IInv, TypeOK
<1> QED BY <1>3, <1>4

LEMMA ReadIndexKeeps ==
    ASSUME IInv, NEW w \in Workers, ReadIndex(w)
    PROVE  IInv'
<1> DEFINE old == req[w]
<1>1. old \in Request /\ old.pc = "index" /\ Fits(old.to, old.list)
  BY DEF IInv, TypeOK, HeldPairFits, ReadIndex
<1>2. PICK i \in NextIndexes(old.list) : req' = [req EXCEPT ![w].pc = "write", ![w].index = i]
  BY DEF ReadIndex
<1>3. i \in Nat
  BY <1>2 DEF NextIndexes, IInv, TypeOK, TaskRow, TasksOf
<1> DEFINE r == [old EXCEPT !.pc = "write", !.index = i]
<1>4. r \in Request /\ r.pc = "write" /\ r.to = old.to /\ r.list = old.list
  BY <1>1, <1>3 DEF Request, PC
<1>5. req' = [req EXCEPT ![w] = r]
  BY <1>2 DEF IInv, TypeOK
<1> HIDE DEF r, old
<1> QED BY <1>1, <1>4, <1>5, OneRequest DEF ReadIndex, IInv, TypeOK

LEMMA InsertTaskKeeps ==
    ASSUME IInv, NEW w \in Workers, InsertTask(w)
    PROVE  IInv'
<1>1. req[w] \in Request /\ Fits(req[w].to, req[w].list)
  BY DEF IInv, TypeOK, HeldPairFits, InsertTask
<1> DEFINE row == [list |-> req[w].list, bucket |-> req[w].to, index |-> req[w].index]
<1>2. row \in TaskRow
  BY <1>1 DEF Request, TaskRow
<1>3. task' = [t \in Tasks \union {nextTask} |-> IF t = nextTask THEN row ELSE task[t]]
  BY DEF InsertTask
<1>4. Tasks' = Tasks \union {nextTask} /\ nextTask' = nextTask + 1
  BY <1>3 DEF Tasks, InsertTask
<1>5. row.bucket = req[w].to /\ row.list = req[w].list
  OBVIOUS
<1> HIDE DEF row
<1>6. nextTask' \in Nat \ {0} /\ Tasks' \subseteq 1..(nextTask' - 1)
  BY <1>4 DEF IInv, TypeOK
<1>7. task' \in [Tasks' -> TaskRow]
  BY <1>2, <1>3, <1>4 DEF IInv, TypeOK
<1>8. \A t \in Tasks' : task'[t].bucket # 0 => Fits(task'[t].bucket, task'[t].list)
  BY <1>1, <1>3, <1>4, <1>5 DEF IInv, PairFits
<1> QED BY <1>6, <1>7, <1>8, RowsWritten DEF InsertTask

LEMMA WriteTaskKeeps ==
    ASSUME IInv, NEW w \in Workers, WriteTask(w)
    PROVE  IInv'
<1>1. req[w] \in Request /\ Fits(req[w].to, req[w].list)
  BY DEF IInv, TypeOK, HeldPairFits, WriteTask
<1> DEFINE row(t) == [list |-> req[w].list, bucket |-> req[w].to,
                      index |-> IF req[w].index = 0 THEN task[t].index ELSE req[w].index]
<1>2. \A t \in Tasks : row(t) \in TaskRow
  BY <1>1 DEF Request, TaskRow, IInv, TypeOK
<1>3. task' = [t \in Tasks |-> IF t = req[w].task THEN row(t) ELSE task[t]]
  BY DEF WriteTask
<1>4. Tasks' = Tasks
  BY <1>3 DEF Tasks
<1>5. \A t \in Tasks : row(t).bucket = req[w].to /\ row(t).list = req[w].list
  OBVIOUS
<1> HIDE DEF row
<1>6. nextTask' \in Nat \ {0} /\ Tasks' \subseteq 1..(nextTask' - 1)
  BY <1>4 DEF IInv, TypeOK, WriteTask
<1>7. task' \in [Tasks' -> TaskRow]
  BY <1>2, <1>3, <1>4 DEF IInv, TypeOK
<1>8. \A t \in Tasks' : task'[t].bucket # 0 => Fits(task'[t].bucket, task'[t].list)
  BY <1>1, <1>3, <1>4, <1>5 DEF IInv, PairFits
<1> QED BY <1>6, <1>7, <1>8, RowsWritten DEF WriteTask

(* Rows that only disappear leave the others fitting. *)
LEMMA RowDropped ==
    ASSUME IInv, NEW t, task' = Restrict(task, Tasks \ {t})
    PROVE  /\ task' \in [Tasks' -> TaskRow]
           /\ Tasks' \subseteq Tasks
           /\ \A u \in Tasks' : task'[u] = task[u]
<1>1. task \in [DOMAIN task -> TaskRow]
  BY DEF IInv, TypeOK, Tasks
<1>2. Tasks' = Tasks \ {t}
  BY <1>1, RestrictType DEF Tasks
<1> QED BY <1>1, <1>2, RestrictType DEF Tasks

LEMMA DeleteTaskKeeps ==
    ASSUME IInv, NEW w \in Workers, NEW t \in Tasks, DeleteTask(w, t)
    PROVE  IInv'
<1>1. /\ task' \in [Tasks' -> TaskRow] /\ Tasks' \subseteq Tasks
      /\ \A u \in Tasks' : task'[u] = task[u]
  BY RowDropped DEF DeleteTask
<1>2. UNCHANGED <<lists, buckets, nextTask, req>>
  BY DEF DeleteTask
<1>3. TypeOK'
  BY <1>1, <1>2 DEF IInv, TypeOK
<1>4. PairFits'
  BY <1>1, <1>2 DEF IInv, PairFits, Fits
<1>5. HeldPairFits'
  BY <1>2 DEF IInv, HeldPairFits, Fits
<1> QED BY <1>3, <1>4, <1>5 DEF IInv

LEMMA CountBucketsKeeps ==
    ASSUME IInv, NEW w \in Workers, NEW b \in buckets, CountBuckets(w, b)
    PROVE  IInv'
<1> DEFINE r == [Idle EXCEPT !.pc = "drop", !.list = HomeOf[b], !.from = b]
<1>1. b \in DOMAIN HomeOf
  BY DEF IInv, TypeOK
<1>2. r \in Request /\ r.pc = "drop" /\ r.from = b /\ r.list = HomeOf[b]
  BY <1>1, HomeIsNat DEF Idle, Request, PC
<1> HIDE DEF r
<1>3. req' = [req EXCEPT ![w] = r]
  BY DEF CountBuckets, r
<1> QED BY <1>1, <1>2, <1>3, OneRequest DEF CountBuckets, Fits

LEMMA DropBucketKeeps ==
    ASSUME IInv, NEW w \in Workers, DropBucket(w)
    PROVE  IInv'
<1> DEFINE old == req[w]
           r == [old EXCEPT !.pc = "default"]
<1>1. old \in Request /\ Fits(old.from, old.list)
  BY DEF IInv, TypeOK, HeldPairFits, DropBucket
<1>2. r \in Request /\ r.pc = "default" /\ r.from = old.from /\ r.list = old.list
  BY <1>1 DEF Request, PC
<1>3. req' = [req EXCEPT ![w] = r]
  BY DEF DropBucket, IInv, TypeOK
<1> HIDE DEF r, old
<1> QED BY <1>1, <1>2, <1>3, OneRequest DEF DropBucket

LEMMA ReadDefaultKeeps ==
    ASSUME IInv, NEW w \in Workers, ReadDefault(w)
    PROVE  IInv'
<1> DEFINE old == req[w]
<1>1. old \in Request /\ Fits(old.from, old.list)
  BY DEF IInv, TypeOK, HeldPairFits, ReadDefault
<1>2. PICK b \in BucketsOf(old.list) \union {0} :
          req' = [req EXCEPT ![w].pc = "rehome", ![w].to = b]
  BY DEF ReadDefault, DefaultBuckets
<1>3. b \in Nat /\ (b # 0 => Fits(b, old.list))
  BY <1>2, HomeIsNat DEF BucketsOf, Fits, IInv, TypeOK
<1> DEFINE r == [old EXCEPT !.pc = "rehome", !.to = b]
<1>4. r \in Request /\ r.pc = "rehome" /\ r.from = old.from /\ r.list = old.list /\ r.to = b
  BY <1>1, <1>3 DEF Request, PC
<1>5. req' = [req EXCEPT ![w] = r]
  BY <1>2 DEF IInv, TypeOK
<1> HIDE DEF r, old
<1> QED BY <1>1, <1>3, <1>4, <1>5, OneRequest DEF ReadDefault

(* A task in the bucket that goes is a task of that bucket's list, so the other *)
(* bucket of the same list fits it too.                                         *)
LEMMA RehomeKeeps ==
    ASSUME IInv, NEW w \in Workers, Rehome(w)
    PROVE  IInv'
<1>1. /\ req[w] \in Request /\ Fits(req[w].from, req[w].list)
      /\ req[w].to # 0 => Fits(req[w].to, req[w].list)
  BY DEF IInv, TypeOK, HeldPairFits, Rehome
<1> DEFINE row(t) == [task[t] EXCEPT !.bucket = req[w].to]
<1>2. \A t \in Tasks : /\ row(t) \in TaskRow
                        /\ row(t).bucket = req[w].to /\ row(t).list = task[t].list
  BY <1>1 DEF Request, TaskRow, IInv, TypeOK
<1>3. task' = [t \in Tasks |-> IF task[t].bucket = req[w].from THEN row(t) ELSE task[t]]
  BY DEF Rehome
<1>4. Tasks' = Tasks
  BY <1>3 DEF Tasks
<1> HIDE DEF row
<1>5. nextTask' \in Nat \ {0} /\ Tasks' \subseteq 1..(nextTask' - 1)
  BY <1>4 DEF IInv, TypeOK, Rehome
<1>6. task' \in [Tasks' -> TaskRow]
  BY <1>2, <1>3, <1>4 DEF IInv, TypeOK
<1>7. ASSUME NEW t \in Tasks, task'[t].bucket # 0
      PROVE  Fits(task'[t].bucket, task'[t].list)
  <2>1. CASE task[t].bucket = req[w].from
    <3>1. req[w].from # 0
      BY <1>1, HomeIsNat DEF Fits
    <3>2. task[t].list = req[w].list
      BY <2>1, <3>1, <1>1 DEF IInv, PairFits, Fits
    <3> QED BY <2>1, <3>2, <1>1, <1>2, <1>3, <1>7
  <2>2. CASE task[t].bucket # req[w].from
    BY <2>2, <1>3, <1>7 DEF IInv, PairFits
  <2> QED BY <2>1, <2>2
<1> QED BY <1>4, <1>5, <1>6, <1>7, RowsWritten DEF Rehome

LEMMA ListStepsKeep ==
    ASSUME IInv, NEW w \in Workers, ListSteps(w)
    PROVE  IInv'
<1>1. ASSUME NEW l \in lists, DropList(w, l)
      PROVE  IInv'
  <2> DEFINE r == [Idle EXCEPT !.pc = "collect", !.list = l]
  <2>1. l \in Nat
    BY ConstantsAssumption DEF IInv, TypeOK
  <2>2. r \in Request /\ r.pc = "collect"
    BY <2>1 DEF Idle, Request, PC
  <2> HIDE DEF r
  <2>3. req' = [req EXCEPT ![w] = r]
    BY <1>1 DEF DropList, r
  <2> QED BY <1>1, <2>2, <2>3, OneRequest DEF DropList
<1>2. CASE CollectTasks(w)
  <2> DEFINE r == [req[w] EXCEPT !.pc = "tasks", !.left = TasksOf(req[w].list)]
  <2>1. TasksOf(req[w].list) \in SUBSET Nat /\ req[w] \in Request
    <3>1. Tasks \subseteq Nat /\ req[w] \in Request
      BY DEF IInv, TypeOK
    <3> QED BY <3>1 DEF TasksOf
  <2>2. r \in Request /\ r.pc = "tasks"
    BY <2>1 DEF Request, PC
  <2>3. req' = [req EXCEPT ![w] = r]
    BY <1>2 DEF CollectTasks, IInv, TypeOK
  <2> HIDE DEF r
  <2> QED BY <1>2, <2>2, <2>3, OneRequest DEF CollectTasks, IInv, TypeOK
<1>3. CASE DropNextTask(w)
  <2>1. CASE req[w].left = {}
    <3>1. req' = [req EXCEPT ![w] = Idle] /\ UNCHANGED <<lists, buckets, task, nextTask>>
      BY <1>3, <2>1 DEF DropNextTask
    <3> QED BY <3>1, IdleIsRequest, OneRequest
  <2>2. CASE req[w].left # {}
    <3>1. PICK t \in req[w].left : /\ task' = Restrict(task, Tasks \ {t})
                                   /\ req' = [req EXCEPT ![w].left = @ \ {t}]
      BY <1>3, <2>2 DEF DropNextTask
    <3>2. /\ task' \in [Tasks' -> TaskRow] /\ Tasks' \subseteq Tasks
          /\ \A u \in Tasks' : task'[u] = task[u]
      BY <3>1, RowDropped
    <3>3. UNCHANGED <<lists, buckets, nextTask>> /\ req[w].pc = "tasks"
      BY <1>3 DEF DropNextTask
    <3> DEFINE r == [req[w] EXCEPT !.left = @ \ {t}]
    <3>4. r \in Request /\ r.pc = "tasks"
      BY <3>3 DEF IInv, TypeOK, Request
    <3>5. req' = [req EXCEPT ![w] = r]
      BY <3>1 DEF IInv, TypeOK
    <3> HIDE DEF r
    <3>6. TypeOK'
      BY <3>2, <3>3, <3>4, <3>5 DEF IInv, TypeOK
    <3>7. PairFits'
      BY <3>2, <3>3 DEF IInv, PairFits, Fits
    <3>8. HeldPairFits'
      BY <3>4, <3>5 DEF IInv, TypeOK, HeldPairFits, Fits
    <3> QED BY <3>6, <3>7, <3>8 DEF IInv
  <2> QED BY <2>1, <2>2
<1> QED BY <1>1, <1>2, <1>3 DEF ListSteps

LEMMA NextKeepsIInv == IInv /\ [Next]_vars => IInv'
<1> SUFFICES ASSUME IInv, [Next]_vars PROVE IInv'
  OBVIOUS
<1>1. ASSUME NEW w \in Workers, TaskSteps(w)
      PROVE  IInv'
  BY <1>1, BeginCreateKeeps, BeginMoveKeeps, CheckLimitKeeps, ReadIndexKeeps,
     InsertTaskKeeps, WriteTaskKeeps, DeleteTaskKeeps DEF TaskSteps
<1>2. ASSUME NEW w \in Workers, BucketSteps(w)
      PROVE  IInv'
  BY <1>2, CountBucketsKeeps, DropBucketKeeps, ReadDefaultKeeps, RehomeKeeps DEF BucketSteps
<1>3. CASE UNCHANGED vars
  BY <1>3 DEF vars, IInv, TypeOK, PairFits, HeldPairFits, Fits, Tasks
<1> QED BY <1>1, <1>2, <1>3, ListStepsKeep DEF Next, Step

(* No interleaving of statements breaks the rows or what a handler holds of them. *)
THEOREM Inductive == Spec => []IInv
BY InitIInv, NextKeepsIInv, PTL DEF Spec

(* The tables stay well formed whatever statements interleave. *)
THEOREM TypeCorrect == Spec => []TypeOK
<1>1. IInv => TypeOK
  BY DEF IInv
<1> QED BY <1>1, Inductive, PTL

(* A task's list_id and bucket_id fit together whatever statements interleave: *)
(* for every number of workers, every bucket of every list.                    *)
THEOREM PairsFit == Spec => []PairFits
<1>1. IInv => PairFits
  BY DEF IInv
<1> QED BY <1>1, Inductive, PTL

(* Also when one of the workers serves alone. *)
LEMMA RacesAreRaces == RacesSpec => Spec
<1>1. [RacesNext]_<<alone, vars>> => [Next]_vars
  BY DEF RacesNext, Next
<1> QED BY <1>1, PTL DEF RacesSpec, RacesInit, Spec

-----------------------------------------------------------------------------
(* Indexes and limits while one worker creates and moves tasks and deletes   *)
(* buckets, and any number of others delete tasks and lists under it.        *)

Deleter(r) == r.pc \in {"idle", "collect", "tasks"}

(* What the writer holds is still right when it writes.  A task that stays in its *)
(* list is still in it; an index for a new list is above all others there; and    *)
(* there is room in the bucket, or the task is in it already, or it comes from    *)
(* another list, for which Task.Update looks at no limit.                         *)
Held(r) ==
    /\ r.pc \in {"limit", "index", "write"} => r.list # 0 /\ (r.task = 0 => r.was = 0)
    /\ r.pc \in {"limit", "index"} => r.index = 0
    /\ r.pc = "index" => r.was # r.list
    /\ r.pc \in {"limit", "write"} /\ r.was = r.list /\ r.task \in Tasks => task[r.task].list = r.list
    /\ r.pc = "write" =>
          IF r.was = r.list THEN r.index = 0
          ELSE r.index > 0 /\ \A t \in TasksOf(r.list) : task[t].index < r.index
    /\ r.pc \in {"index", "write"} /\ (r.task = 0 \/ r.was = r.list) =>
          HasRoom(r.to) \/ (r.task # 0 /\ (r.task \in Tasks => task[r.task].bucket = r.to))

WriterInv(w) ==
    /\ IInv /\ IndexUnique /\ Held(req[w])
    /\ \A v \in Workers \ {w} : Deleter(req[v])

(* A step of the writer, or of one that deletes. *)
WriterStep(w) == \E v \in Workers : Step(v) /\ (v # w => Deletes(v))

LEMMA TasksFinite ==
    ASSUME TypeOK
    PROVE  \A b : /\ IsFiniteSet(TasksIn(b)) /\ Cardinality(TasksIn(b)) \in Nat
                  /\ TasksIn(b) \subseteq Tasks /\ Tasks \subseteq Nat \ {0}
<1>1. nextTask - 1 \in Int /\ Tasks \subseteq 1..(nextTask - 1)
  BY DEF TypeOK
<1>2. IsFiniteSet(1..(nextTask - 1))
  BY <1>1, FS_Interval
<1>3. ASSUME NEW b PROVE IsFiniteSet(TasksIn(b)) /\ TasksIn(b) \subseteq Tasks
  <2>1. TasksIn(b) \subseteq Tasks
    BY DEF TasksIn
  <2>2. TasksIn(b) \subseteq 1..(nextTask - 1)
    BY <1>1, <2>1
  <2> QED BY <1>2, <2>1, <2>2, FS_Subset
<1> QED BY <1>1, <1>3, FS_CardinalityType

(* Deletions make room and disturb nothing that the writer holds. *)
LEMMA Deleted ==
    ASSUME TypeOK, Tasks' \subseteq Tasks, \A t \in Tasks' : task'[t] = task[t]
    PROVE  /\ \A b : TasksIn(b)' \subseteq TasksIn(b) /\ Cardinality(TasksIn(b)') <= Cardinality(TasksIn(b))
           /\ \A l : TasksOf(l)' \subseteq TasksOf(l)
           /\ IndexUnique => IndexUnique'
<1>1. ASSUME NEW b
      PROVE  TasksIn(b)' \subseteq TasksIn(b) /\ Cardinality(TasksIn(b)') <= Cardinality(TasksIn(b))
  <2>1. TasksIn(b)' \subseteq TasksIn(b)
    BY DEF TasksIn
  <2> QED BY <2>1, TasksFinite, FS_Subset
<1>2. \A l : TasksOf(l)' \subseteq TasksOf(l)
  BY DEF TasksOf
<1>3. IndexUnique => IndexUnique'
  BY DEF IndexUnique
<1> QED BY <1>1, <1>2, <1>3

LEMMA RoomStays ==
    ASSUME TypeOK, TypeOK', Tasks' \subseteq Tasks, \A t \in Tasks' : task'[t] = task[t]
    PROVE  \A b \in DOMAIN HomeOf : HasRoom(b) => HasRoom(b)'
<1> SUFFICES ASSUME NEW b \in DOMAIN HomeOf, HasRoom(b) PROVE HasRoom(b)'
  OBVIOUS
<1>1. TasksIn(b)' \subseteq TasksIn(b) /\ Cardinality(TasksIn(b)') <= Cardinality(TasksIn(b))
  BY Deleted
<1>2. Cardinality(TasksIn(b)) \in Nat
  BY TasksFinite
<1>3. Cardinality(TasksIn(b)') \in Nat
  <2>1. IsFiniteSet(TasksIn(b)')
    BY <1>1, TasksFinite, FS_Subset
  <2> QED BY <2>1, FS_CardinalityType
<1>4. LimitOf[b] \in Nat
  BY ConstantsAssumption
<1> QED BY <1>1, <1>2, <1>3, <1>4 DEF HasRoom

LEMMA HeldStays ==
    ASSUME TypeOK, TypeOK', Tasks' \subseteq Tasks, \A t \in Tasks' : task'[t] = task[t]
    PROVE  \A r \in Request : Held(r) /\ (r.pc \in {"index", "write"} => r.to \in DOMAIN HomeOf) => Held(r)'
<1> SUFFICES ASSUME NEW r \in Request, Held(r), r.pc \in {"index", "write"} => r.to \in DOMAIN HomeOf
             PROVE  Held(r)'
  OBVIOUS
<1>1. TasksOf(r.list)' \subseteq TasksOf(r.list) /\ \A t \in TasksOf(r.list)' : task'[t] = task[t]
  BY DEF TasksOf
<1>2. r.pc \in {"index", "write"} /\ HasRoom(r.to) => HasRoom(r.to)'
  BY RoomStays
<1> QED BY <1>1, <1>2 DEF Held

LEMMA StepKeeps == ASSUME IInv, NEW v \in Workers, Step(v) PROVE IInv'
BY NextKeepsIInv DEF Next

LEMMA OthersStep ==
    ASSUME NEW w \in Workers, WriterInv(w), NEW v \in Workers \ {w}, Step(v), Deletes(v)
    PROVE  WriterInv(w)'
<1>1. IInv /\ IInv' /\ TypeOK /\ TypeOK' /\ Deletes(v) /\ Deleter(req[v])
  BY StepKeeps DEF WriterInv, IInv
<1>2. \/ \E t \in Tasks : DeleteTask(v, t)
      \/ \E l \in lists : DropList(v, l)
      \/ CollectTasks(v)
      \/ DropNextTask(v)
  <2>1. TaskSteps(v) => \E t \in Tasks : DeleteTask(v, t)
    BY <1>1 DEF TaskSteps, BeginCreate, BeginMove, CheckLimit, ReadIndex, InsertTask, WriteTask, Deletes, Deleter
  <2>2. ~BucketSteps(v)
    BY <1>1 DEF BucketSteps, CountBuckets, DropBucket, ReadDefault, Rehome, Deletes, Deleter
  <2> QED BY <2>1, <2>2 DEF Step, ListSteps
<1>3. Tasks' \subseteq Tasks /\ \A t \in Tasks' : task'[t] = task[t]
  <2>1. ASSUME NEW t, task' = Restrict(task, Tasks \ {t})
        PROVE  Tasks' \subseteq Tasks /\ \A u \in Tasks' : task'[u] = task[u]
    BY <1>1, <2>1, RowDropped
  <2>2. (\E t : task' = Restrict(task, Tasks \ {t})) \/ UNCHANGED task
    BY <1>2 DEF DeleteTask, DropList, CollectTasks, DropNextTask
  <2> QED BY <2>1, <2>2 DEF Tasks
<1>4. \A u \in Workers \ {v} : req'[u] = req[u]
  BY <1>1, <1>2 DEF DeleteTask, DropList, CollectTasks, DropNextTask, TypeOK
<1>5. Deleter(req'[v])
  <2>1. req[v] \in Request /\ req \in [Workers -> Request]
    BY <1>1 DEF TypeOK
  <2>2. CASE \E t \in Tasks : DeleteTask(v, t)
    BY <1>1, <2>2 DEF DeleteTask
  <2>3. CASE \E l \in lists : DropList(v, l)
    BY <2>1, <2>3 DEF DropList, Deleter, Idle
  <2>4. CASE CollectTasks(v)
    BY <2>1, <2>4 DEF CollectTasks, Deleter, Request
  <2>5. CASE DropNextTask(v)
    <3> DEFINE Without(t) == [req[v] EXCEPT !.left = @ \ {t}]
    <3>1. \A t : Without(t).pc = req[v].pc
      BY <2>1 DEF Request
    <3>2. req'[v] = Idle \/ \E t : req'[v] = Without(t)
      BY <2>1, <2>5 DEF DropNextTask
    <3> HIDE DEF Without
    <3>3. req'[v].pc \in {"idle", req[v].pc}
      BY <3>1, <3>2, IdleIsRequest
    <3> QED BY <1>1, <3>3 DEF Deleter
  <2> QED BY <1>2, <2>2, <2>3, <2>4, <2>5
<1>6. IndexUnique'
  BY <1>1, <1>3, Deleted DEF WriterInv
<1>7. Held(req[w])'
  <2>1. req[w] \in Request /\ (req[w].pc \in {"index", "write"} => req[w].to \in DOMAIN HomeOf)
    BY <1>1 DEF TypeOK, IInv, HeldPairFits, Fits
  <2>2. Held(req[w])
    BY DEF WriterInv
  <2>3. \A r \in Request : r = req[w] => Held(r)'
    BY <1>1, <1>3, <2>1, <2>2, HeldStays
  <2>4. req'[w] \in Request /\ req'[w] = req[w]
    BY <1>4, <2>1
  <2> QED BY <2>3, <2>4
<1> QED BY <1>1, <1>4, <1>5, <1>6, <1>7 DEF WriterInv

(* The writer's steps that leave the rows alone or delete some. *)
LEMMA NotWriting ==
    ASSUME NEW w \in Workers, WriterInv(w), IInv', NEW r \in Request, req' = [req EXCEPT ![w] = r],
           r.pc \notin {"limit", "index", "write"}, IndexUnique'
    PROVE  WriterInv(w)'
<1>1. req'[w] = r /\ \A v \in Workers \ {w} : req'[v] = req[v]
  BY DEF WriterInv, IInv, TypeOK
<1>2. Held(req[w])'
  BY <1>1 DEF Held
<1> QED BY <1>1, <1>2 DEF WriterInv

LEMMA Holding ==
    ASSUME NEW w \in Workers, WriterInv(w), IInv', NEW r \in Request, req' = [req EXCEPT ![w] = r],
           UNCHANGED task, Held(r)
    PROVE  WriterInv(w)'
<1>1. req'[w] = r /\ \A v \in Workers \ {w} : req'[v] = req[v]
  BY DEF WriterInv, IInv, TypeOK
<1>2. Held(req[w])'
  BY <1>1 DEF Held, TasksOf, Tasks, HasRoom, TasksIn
<1>3. IndexUnique'
  BY DEF WriterInv, IndexUnique, Tasks
<1> QED BY <1>1, <1>2, <1>3 DEF WriterInv

LEMMA NextIndexIsFree ==
    ASSUME TypeOK, NEW l, NEW i \in NextIndexes(l)
    PROVE  i \in Nat \ {0} /\ \A t \in TasksOf(l) : task[t].index < i
<1>1. \A t \in TasksOf(l) : task[t].index \in Nat
  BY DEF TypeOK, TaskRow, TasksOf
<1>2. CASE TasksOf(l) = {}
  BY <1>2 DEF NextIndexes
<1>3. CASE TasksOf(l) # {}
  <2>1. PICK t \in TasksOf(l) : i = task[t].index + 1 /\ \A u \in TasksOf(l) : task[u].index <= task[t].index
    BY <1>3 DEF NextIndexes
  <2> QED BY <1>1, <2>1
<1> QED BY <1>2, <1>3

LEMMA WriterReads ==
    ASSUME NEW w \in Workers, WriterInv(w),
           \/ \E l \in lists, asked \in buckets \union {0} : BeginCreate(w, l, asked)
           \/ \E t \in Tasks, l \in lists, asked \in buckets \union {0} : BeginMove(w, t, l, asked)
           \/ CheckLimit(w) \/ ReadIndex(w)
    PROVE  WriterInv(w)'
<1> DEFINE old == req[w]
<1>1. IInv /\ IInv' /\ TypeOK /\ UNCHANGED task /\ old \in Request /\ Held(old)
  BY StepKeeps DEF WriterInv, IInv, TypeOK, Step, TaskSteps, BeginCreate, BeginMove, CheckLimit, ReadIndex
<1>2. \A l \in lists : l \in Nat \ {0}
  BY <1>1, ConstantsAssumption DEF TypeOK
<1>3. ASSUME NEW l \in lists, NEW asked \in buckets \union {0}, BeginCreate(w, l, asked)
      PROVE  WriterInv(w)'
  <2>1. PICK b \in BucketsOf(l) :
          req' = [req EXCEPT ![w] = [Idle EXCEPT !.pc = "limit", !.list = l, !.to = b]]
    BY <1>3 DEF BeginCreate, DefaultBuckets
  <2>2. b \in Nat
    BY <1>1, HomeIsNat DEF BucketsOf, TypeOK
  <2> DEFINE r == [Idle EXCEPT !.pc = "limit", !.list = l, !.to = b]
  <2>3. r \in Request
    BY <1>2, <2>2 DEF Idle, Request, PC
  <2>4. r.pc = "limit" /\ r.list = l /\ r.to = b /\ r.task = 0 /\ r.was = 0 /\ r.index = 0
    BY DEF Idle
  <2> HIDE DEF r
  <2>5. Held(r)
    BY <1>2, <2>4 DEF Held
  <2>6. req' = [req EXCEPT ![w] = r]
    BY <2>1 DEF r
  <2> QED BY <1>1, <2>3, <2>5, <2>6, Holding
<1>4. ASSUME NEW t \in Tasks, NEW l \in lists, NEW asked \in buckets \union {0}, BeginMove(w, t, l, asked)
      PROVE  WriterInv(w)'
  <2> DEFINE pc == IF asked # 0 /\ asked # task[t].bucket THEN "limit" ELSE AfterLimit(task[t].list, l)
             asks == IF asked = 0 THEN {task[t].bucket} ELSE {asked}
  <2>1. PICK b \in BucketsOf(l) :
          /\ l = task[t].list => b \in asks
          /\ req' = [req EXCEPT ![w] = [Idle EXCEPT !.pc = pc, !.task = t, !.was = task[t].list,
                                                   !.list = l, !.to = b]]
    BY <1>4 DEF BeginMove, DefaultBuckets
  <2>2. b \in Nat
    BY <1>1, HomeIsNat DEF BucketsOf, TypeOK
  <2>3. t \in Nat \ {0} /\ task[t].list \in Nat /\ pc \in {"limit", "index", "write"}
    BY <1>1 DEF TypeOK, TaskRow, AfterLimit
  <2>4. pc = "write" => l = task[t].list /\ b = task[t].bucket
    BY <2>1 DEF AfterLimit
  <2>5. pc = "index" => l # task[t].list
    BY DEF AfterLimit
  <2> HIDE DEF pc, asks
  <2> DEFINE r == [Idle EXCEPT !.pc = pc, !.task = t, !.was = task[t].list, !.list = l, !.to = b]
  <2>6. r \in Request
    BY <1>2, <2>2, <2>3 DEF Idle, Request, PC
  <2>7. r.pc = pc /\ r.task = t /\ r.was = task[t].list /\ r.list = l /\ r.to = b /\ r.index = 0
    BY DEF Idle
  <2> HIDE DEF r
  <2>8. Held(r)
    BY <1>2, <2>3, <2>4, <2>5, <2>7 DEF Held
  <2>9. req' = [req EXCEPT ![w] = r]
    BY <2>1 DEF r
  <2> QED BY <1>1, <2>6, <2>8, <2>9, Holding
<1>5. CASE CheckLimit(w)
  <2> DEFINE r == [old EXCEPT !.pc = AfterLimit(old.was, old.list)]
  <2>1. old.pc = "limit"
    BY <1>5 DEF CheckLimit
  <2>2. /\ r \in Request /\ r.pc = (IF old.was = old.list THEN "write" ELSE "index") /\ r.to = old.to
        /\ r.list = old.list /\ r.task = old.task /\ r.was = old.was /\ r.index = old.index
    BY <1>1 DEF AfterLimit, Request, PC
  <2>3. req' = [req EXCEPT ![w] = IF HasRoom(old.to) THEN r ELSE Idle]
    BY <1>5 DEF CheckLimit
  <2> HIDE DEF r, old
  <2>4. ASSUME HasRoom(old.to) PROVE Held(r)
    BY <1>1, <2>1, <2>2, <2>4 DEF Held
  <2>5. Held(Idle)
    BY DEF Held, Idle
  <2> QED BY <1>1, <2>2, <2>3, <2>4, <2>5, IdleIsRequest, Holding
<1>6. CASE ReadIndex(w)
  <2>1. PICK i \in NextIndexes(old.list) : req' = [req EXCEPT ![w].pc = "write", ![w].index = i]
    BY <1>6 DEF ReadIndex
  <2>2. old.pc = "index" /\ i \in Nat \ {0} /\ \A t \in TasksOf(old.list) : task[t].index < i
    BY <1>1, <1>6, NextIndexIsFree DEF ReadIndex
  <2> DEFINE r == [old EXCEPT !.pc = "write", !.index = i]
  <2>3. /\ r \in Request /\ r.pc = "write" /\ r.to = old.to
        /\ r.list = old.list /\ r.task = old.task /\ r.was = old.was /\ r.index = i
    BY <1>1, <2>2 DEF Request, PC
  <2>4. req' = [req EXCEPT ![w] = r]
    BY <1>1, <2>1 DEF IInv, TypeOK
  <2> HIDE DEF r, old
  <2>5. Held(r)
    BY <1>1, <2>2, <2>3 DEF Held
  <2> QED BY <1>1, <2>3, <2>4, <2>5, Holding
<1> QED BY <1>3, <1>4, <1>5, <1>6

LEMMA WriterWrites ==
    ASSUME NEW w \in Workers, WriterInv(w), InsertTask(w) \/ WriteTask(w)
    PROVE  WriterInv(w)'
<1> DEFINE r == req[w]
<1>1. /\ IInv /\ IInv' /\ TypeOK /\ r \in Request /\ Held(r) /\ IndexUnique /\ r.pc = "write"
      /\ req' = [req EXCEPT ![w] = Idle]
  BY StepKeeps DEF WriterInv, IInv, TypeOK, Step, TaskSteps, InsertTask, WriteTask
<1>2. Tasks \subseteq Nat \ {0} /\ nextTask \notin Tasks /\ \A t \in Tasks : task[t].index \in Nat
  BY <1>1 DEF TypeOK, TaskRow
<1>3. r.index \in Nat /\ r.list # 0 /\ (r.task = 0 => r.was # r.list)
  BY <1>1 DEF Held, Request
<1>4. ASSUME InsertTask(w) PROVE IndexUnique'
  <2>1. /\ Tasks' = Tasks \union {nextTask}
        /\ \A t \in Tasks : task'[t] = task[t]
        /\ task'[nextTask].list = r.list /\ task'[nextTask].index = r.index
    BY <1>2, <1>4 DEF InsertTask, Tasks
  <2>2. \A t \in Tasks : task[t].list = r.list => task[t].index < r.index
    BY <1>1, <1>3, <1>4 DEF Held, InsertTask, TasksOf
  <2> HIDE DEF r
  <2>3. \A t \in Tasks : ~(task[t].list = r.list /\ task[t].index = r.index)
    BY <1>2, <1>3, <2>2
  <2> QED BY <1>1, <2>1, <2>3 DEF IndexUnique
<1>5. ASSUME WriteTask(w) PROVE IndexUnique'
  <2>1. /\ Tasks' = Tasks
        /\ \A t \in Tasks \ {r.task} : task'[t] = task[t]
        /\ r.task \in Tasks => /\ task'[r.task].list = r.list
                               /\ task'[r.task].index = IF r.index = 0 THEN task[r.task].index ELSE r.index
    BY <1>5 DEF WriteTask, Tasks
  <2> HIDE DEF r
  <2>2. CASE r.task \notin Tasks
    BY <1>1, <2>1, <2>2 DEF IndexUnique
  <2>3. CASE r.task \in Tasks /\ r.was = r.list
    <3>1. \A t \in Tasks : task'[t].list = task[t].list /\ task'[t].index = task[t].index
      BY <1>1, <2>1, <2>3 DEF Held
    <3> QED BY <1>1, <2>1, <3>1 DEF IndexUnique
  <2>4. CASE r.task \in Tasks /\ r.was # r.list
    <3>1. r.index > 0 /\ \A t \in Tasks : task[t].list = r.list => task[t].index < r.index
      BY <1>1, <2>4 DEF Held, TasksOf
    <3>2. \A t \in Tasks : ~(task[t].list = r.list /\ task[t].index = r.index)
      BY <1>2, <1>3, <3>1
    <3>3. task'[r.task].list = r.list /\ task'[r.task].index = r.index
      BY <1>3, <2>1, <2>4, <3>1
    <3> QED BY <1>1, <2>1, <3>2, <3>3 DEF IndexUnique
  <2> QED BY <2>2, <2>3, <2>4
<1> QED BY <1>1, <1>4, <1>5, NotWriting, IdleIsRequest

LEMMA WriterDeletes ==
    ASSUME NEW w \in Workers, WriterInv(w),
           (\E t \in Tasks : DeleteTask(w, t)) \/ BucketSteps(w) \/ ListSteps(w)
    PROVE  WriterInv(w)'
<1>1. /\ IInv /\ IInv' /\ TypeOK /\ IndexUnique /\ req[w] \in Request
      /\ req \in [Workers -> Request] /\ req' \in [Workers -> Request]
  BY StepKeeps DEF WriterInv, IInv, TypeOK, Step, TaskSteps
<1>2. req' = [req EXCEPT ![w] = req'[w]] /\ req'[w] \in Request
  BY <1>1 DEF DeleteTask, BucketSteps, CountBuckets, DropBucket, ReadDefault, Rehome,
              ListSteps, DropList, CollectTasks, DropNextTask
<1>3. req'[w].pc \notin {"limit", "index", "write"}
  <2>1. CASE \E t \in Tasks : DeleteTask(w, t)
    BY <2>1 DEF DeleteTask, AtRest
  <2>2. CASE BucketSteps(w)
    <3>1. ASSUME NEW b \in buckets, CountBuckets(w, b) PROVE req'[w].pc = "drop"
      BY <1>1, <3>1 DEF CountBuckets, Idle
    <3>2. DropBucket(w) => req'[w].pc = "default"
      BY <1>1 DEF DropBucket, Request
    <3>3. ReadDefault(w) => req'[w].pc = "rehome"
      BY <1>1 DEF ReadDefault, Request
    <3>4. Rehome(w) => req'[w].pc = "idle"
      BY <1>1 DEF Rehome, Idle
    <3> QED BY <2>2, <3>1, <3>2, <3>3, <3>4 DEF BucketSteps
  <2>3. CASE (\E l \in lists : DropList(w, l)) \/ CollectTasks(w)
    <3>1. ASSUME NEW l \in lists, DropList(w, l) PROVE req'[w].pc = "collect"
      BY <1>1, <3>1 DEF DropList, Idle
    <3>2. CollectTasks(w) => req'[w].pc = "tasks"
      BY <1>1 DEF CollectTasks, Request
    <3> QED BY <2>3, <3>1, <3>2
  <2>4. CASE DropNextTask(w)
    <3> DEFINE Without(t) == [req[w] EXCEPT !.left = @ \ {t}]
    <3>1. \A t : Without(t).pc = req[w].pc
      BY <1>1 DEF Request
    <3>2. req[w].pc = "tasks" /\ (req'[w] = Idle \/ \E t : req'[w] = Without(t))
      BY <1>1, <2>4 DEF DropNextTask
    <3> HIDE DEF Without
    <3> QED BY <3>1, <3>2, IdleIsRequest
  <2> QED BY <2>1, <2>2, <2>3, <2>4 DEF ListSteps
<1>4. IndexUnique'
  <2>1. ASSUME NEW t, task' = Restrict(task, Tasks \ {t}) PROVE IndexUnique'
    <3>1. Tasks' \subseteq Tasks /\ \A u \in Tasks' : task'[u] = task[u]
      BY <1>1, <2>1, RowDropped
    <3> QED BY <1>1, <3>1, Deleted
  <2>2. CASE UNCHANGED task
    BY <1>1, <2>2 DEF IndexUnique, Tasks
  <2>3. CASE Rehome(w)
    <3>1. Tasks' = Tasks /\ \A t \in Tasks : task'[t].list = task[t].list /\ task'[t].index = task[t].index
      BY <1>1, <2>3 DEF Rehome, Tasks, TypeOK, TaskRow
    <3> QED BY <1>1, <3>1 DEF IndexUnique
  <2> QED BY <2>1, <2>2, <2>3 DEF DeleteTask, BucketSteps, CountBuckets, DropBucket, ReadDefault,
                                  ListSteps, DropList, CollectTasks, DropNextTask
<1> QED BY <1>1, <1>2, <1>3, <1>4, NotWriting

LEMMA WriterInductive ==
    ASSUME NEW w \in Workers
    PROVE  WriterInv(w) /\ [WriterStep(w)]_vars => WriterInv(w)'
<1> SUFFICES ASSUME WriterInv(w), [WriterStep(w)]_vars PROVE WriterInv(w)'
  OBVIOUS
<1>1. ASSUME NEW v \in Workers, Step(v), v # w => Deletes(v) PROVE WriterInv(w)'
  <2>1. CASE v # w
    BY <1>1, <2>1, OthersStep
  <2>2. CASE v = w
    BY <1>1, <2>2, WriterReads, WriterWrites, WriterDeletes DEF Step, TaskSteps
  <2> QED BY <2>1, <2>2
<1>2. CASE UNCHANGED vars
  BY <1>2, NextKeepsIInv DEF vars, WriterInv, IndexUnique, Held, TasksOf, TasksIn, Tasks, HasRoom
<1> QED BY <1>1, <1>2 DEF WriterStep

LEMMA InitWriter ==
    ASSUME NEW w \in Workers
    PROVE  Init => WriterInv(w)
<1> SUFFICES ASSUME Init PROVE WriterInv(w)
  OBVIOUS
<1>1. IInv
  BY InitIInv
<1>2. IndexUnique
  BY DEF Init, IndexUnique, Tasks
<1>3. Held(req[w]) /\ \A v \in Workers \ {w} : Deleter(req[v])
  BY IdleIsRequest DEF Init, Held, Deleter
<1> QED BY <1>1, <1>2, <1>3 DEF WriterInv

(* Who may write: the worker that serves alone, or the one writer next to the rest. *)
WritersInv(solo, w) == (alone => WriterInv(solo)) /\ (~alone => WriterInv(w))

LEMMA WritersInductive ==
    ASSUME OneWriter
    PROVE  \E solo, w \in Workers :
              /\ RacesInit => WritersInv(solo, w)
              /\ WritersInv(solo, w) /\ [RacesNext]_<<alone, vars>> => WritersInv(solo, w)'
<1>1. PICK w \in Workers : \A v \in Workers \ {w, Solo} : Deletes(v)
  BY DEF OneWriter
<1>2. PICK solo \in Workers : Solo \in Workers => solo = Solo
  BY <1>1
<1>3. RacesInit => WritersInv(solo, w)
  BY InitWriter DEF RacesInit, WritersInv
<1>4. ASSUME WritersInv(solo, w), [RacesNext]_<<alone, vars>> PROVE WritersInv(solo, w)'
  <2>1. UNCHANGED alone
    BY <1>4 DEF RacesNext
  <2>2. alone => [WriterStep(solo)]_vars
    BY <1>2, <1>4 DEF RacesNext, WriterStep
  <2>3. ~alone => [WriterStep(w)]_vars
    BY <1>1, <1>4 DEF RacesNext, WriterStep
  <2> QED BY <1>4, <2>1, <2>2, <2>3, WriterInductive DEF WritersInv
<1> QED BY <1>3, <1>4

(* While one worker creates and moves tasks, and the others delete them, an index *)
(* is the only one in its list (createTask, Task.Update, getNextTaskIndex).       *)
THEOREM OneWriterKeepsIndexes ==
    ASSUME OneWriter
    PROVE  RacesSpec => []IndexUnique
<1>1. PICK solo \in Workers, w \in Workers :
         /\ RacesInit => WritersInv(solo, w)
         /\ WritersInv(solo, w) /\ [RacesNext]_<<alone, vars>> => WritersInv(solo, w)'
  BY WritersInductive
<1>2. WritersInv(solo, w) => IndexUnique
  BY DEF WritersInv, WriterInv
<1> QED BY <1>1, <1>2, PTL DEF RacesSpec

-----------------------------------------------------------------------------
(* Another request that gets past a limit, or a task that another list or a *)
(* deleted bucket brings.                                                   *)
Bypass(w, b) ==
    /\ req[w].to = b
    /\ \/ req[w].pc = "write" /\ req[w].task # 0 /\ req[w].was # req[w].list
       \/ req[w].pc = "rehome"

LEMMA Counted ==
    ASSUME NEW S, NEW T, IsFiniteSet(S)
    PROVE  /\ T \subseteq S => Cardinality(T) <= Cardinality(S)
           /\ \A x : T \subseteq S \union {x} => Cardinality(T) <= Cardinality(S) + 1
<1>1. T \subseteq S => Cardinality(T) <= Cardinality(S)
  BY FS_Subset
<1>2. ASSUME NEW x, T \subseteq S \union {x} PROVE Cardinality(T) <= Cardinality(S) + 1
  <2>1. Cardinality(S) \in Nat
    BY FS_CardinalityType
  <2>2. /\ IsFiniteSet(S \union {x})
        /\ Cardinality(S \union {x}) \in {Cardinality(S), Cardinality(S) + 1}
    BY FS_AddElement
  <2>3. IsFiniteSet(T) /\ Cardinality(T) <= Cardinality(S \union {x})
    BY <1>2, <2>2, FS_Subset
  <2>4. Cardinality(T) \in Nat
    BY <2>3, FS_CardinalityType
  <2> QED BY <2>1, <2>2, <2>3, <2>4
<1> QED BY <1>1, <1>2

LEMMA WriterLimits ==
    ASSUME NEW w \in Workers, WriterInv(w), NEW b \in DOMAIN HomeOf, LimitOf[b] > 0, Next, ~Bypass(w, b)
    PROVE  \/ Cardinality(TasksIn(b)') <= Cardinality(TasksIn(b))
           \/ Cardinality(TasksIn(b)') <= LimitOf[b]
<1> DEFINE r == req[w]
           Full == ~HasRoom(b)
<1>1. TypeOK /\ Held(r) /\ r \in Request /\ IsFiniteSet(TasksIn(b)) /\ Cardinality(TasksIn(b)) \in Nat
  BY TasksFinite DEF WriterInv, IInv, TypeOK
<1>2. LimitOf[b] \in Nat
  BY ConstantsAssumption
<1>3. SUFFICES ASSUME ~(TasksIn(b)' \subseteq TasksIn(b))
               PROVE  HasRoom(b) /\ \E x : TasksIn(b)' \subseteq TasksIn(b) \union {x}
  <2>1. \/ IsFiniteSet(TasksIn(b)') /\ Cardinality(TasksIn(b)') \in Nat
        \/ ~\E x : TasksIn(b)' \subseteq TasksIn(b) \union {x}
    <3> SUFFICES ASSUME NEW x, TasksIn(b)' \subseteq TasksIn(b) \union {x}
                 PROVE  IsFiniteSet(TasksIn(b)') /\ Cardinality(TasksIn(b)') \in Nat
      OBVIOUS
    <3>1. IsFiniteSet(TasksIn(b) \union {x})
      BY <1>1, FS_AddElement
    <3> QED BY <3>1, FS_Subset, FS_CardinalityType
  <2>2. CASE TasksIn(b)' \subseteq TasksIn(b)
    BY <1>1, <2>2, Counted
  <2>3. ASSUME HasRoom(b), NEW x, TasksIn(b)' \subseteq TasksIn(b) \union {x}
        PROVE  Cardinality(TasksIn(b)') <= LimitOf[b]
    <3>1. Cardinality(TasksIn(b)) < LimitOf[b]
      BY <2>3 DEF HasRoom
    <3>2. Cardinality(TasksIn(b)') <= Cardinality(TasksIn(b)) + 1
      BY <1>1, <2>3, Counted
    <3>3. Cardinality(TasksIn(b)') \in Nat
      BY <2>1, <2>3
    <3> QED BY <1>1, <1>2, <3>1, <3>2, <3>3
  <2> QED BY <2>2, <2>3
<1>4. PICK v \in Workers : Step(v)
  BY DEF Next
<1>5. ~\E t : task' = Restrict(task, Tasks \ {t})
  <2> SUFFICES ASSUME NEW t, task' = Restrict(task, Tasks \ {t}) PROVE TasksIn(b)' \subseteq TasksIn(b)
    BY <1>3
  <2>1. Tasks' \subseteq Tasks /\ \A u \in Tasks' : task'[u] = task[u]
    BY RowDropped DEF WriterInv
  <2> QED BY <2>1 DEF TasksIn
<1>6. task' # task
  BY <1>3 DEF TasksIn, Tasks
<1>7. InsertTask(v) \/ WriteTask(v) \/ Rehome(v)
  BY <1>4, <1>5, <1>6 DEF Step, TaskSteps, BucketSteps, ListSteps, BeginCreate, BeginMove, CheckLimit, ReadIndex,
       DeleteTask, CountBuckets, DropBucket, ReadDefault, DropList, CollectTasks, DropNextTask
<1>8. v = w
  BY <1>7 DEF WriterInv, Deleter, InsertTask, WriteTask, Rehome
<1>9. CASE InsertTask(w)
  <2>1. TasksIn(b)' \subseteq TasksIn(b) \union (IF r.to = b THEN {nextTask} ELSE {})
    BY <1>9 DEF InsertTask, TasksIn, Tasks
  <2>2. r.to = b /\ HasRoom(b)
    BY <1>1, <1>3, <1>9, <2>1 DEF InsertTask, Held
  <2> QED BY <2>1, <2>2
<1>10. CASE WriteTask(w)
  <2>1. /\ Tasks' = Tasks
        /\ \A t \in Tasks \ {r.task} : task'[t] = task[t]
        /\ r.task \in Tasks => task'[r.task].bucket = r.to
    BY <1>10 DEF WriteTask, Tasks
  <2>2. r.pc = "write" /\ r.task # 0
    BY <1>10 DEF WriteTask
  <2> HIDE DEF r
  <2>3. r.to = b /\ r.task \in Tasks /\ task[r.task].bucket # b
    BY <1>3, <2>1 DEF TasksIn
  <2>4. r.was = r.list
    BY <2>2, <2>3 DEF Bypass, r
  <2>5. HasRoom(b)
    BY <1>1, <2>2, <2>3, <2>4 DEF Held
  <2>6. TasksIn(b)' \subseteq TasksIn(b) \union {r.task}
    BY <2>1 DEF TasksIn
  <2> QED BY <2>5, <2>6
<1>11. CASE Rehome(w)
  <2>1. r.to # b
    BY <1>11 DEF Rehome, Bypass
  <2>2. TasksIn(b)' \subseteq TasksIn(b)
    BY <1>1, <1>11, <2>1 DEF Rehome, TasksIn, Tasks, TypeOK, TaskRow
  <2> QED BY <1>3, <2>2
<1> QED BY <1>7, <1>8, <1>9, <1>10, <1>11

LimitStep ==
    \A b \in buckets :
          LET held == Cardinality(TasksIn(b)) IN
          LimitOf[b] > 0 /\ Cardinality(TasksIn(b)') > held /\ Cardinality(TasksIn(b)') > LimitOf[b]
          => \E w \in Workers : Bypass(w, b)

LEMMA WriterLimitStep == ASSUME NEW w \in Workers, WriterInv(w), Next PROVE LimitStep
<1> SUFFICES ASSUME NEW b \in buckets, LimitOf[b] > 0,
                    Cardinality(TasksIn(b)') > Cardinality(TasksIn(b)),
                    Cardinality(TasksIn(b)') > LimitOf[b], ~Bypass(w, b)
             PROVE  FALSE
  BY DEF LimitStep
<1>1. b \in DOMAIN HomeOf /\ LimitOf[b] \in Nat
  BY ConstantsAssumption DEF WriterInv, IInv, TypeOK
<1>2. /\ IsFiniteSet(TasksIn(b)) /\ Cardinality(TasksIn(b)) \in Nat
  BY TasksFinite DEF WriterInv, IInv
<1>3. Cardinality(TasksIn(b)') \in Nat
  <2>1. TypeOK'
    BY NextKeepsIInv DEF WriterInv, IInv
  <2> DEFINE last == nextTask' - 1
  <2>2. nextTask' \in Nat /\ Tasks' \subseteq 1..last
    BY <2>1 DEF TypeOK
  <2>3. last \in Int
    BY <2>2
  <2> HIDE DEF last
  <2>4. TasksIn(b)' \subseteq 1..last
    BY <2>2 DEF TasksIn
  <2>5. IsFiniteSet(1..last)
    BY <2>3, FS_Interval
  <2> QED BY <2>4, <2>5, FS_Subset, FS_CardinalityType
<1> QED BY <1>1, <1>2, <1>3, WriterLimits

(* While one worker creates and moves tasks, a bucket grows beyond its limit only *)
(* by a task from another list or from a bucket that was deleted                  *)
(* (checkBucketLimit, Task.Update, Bucket.Delete).                                *)
THEOREM OneWriterKeepsLimits ==
    ASSUME OneWriter
    PROVE  RacesSpec => LimitOnlyBypassed
<1>1. PICK solo \in Workers, w \in Workers :
         /\ RacesInit => WritersInv(solo, w)
         /\ WritersInv(solo, w) /\ [RacesNext]_<<alone, vars>> => WritersInv(solo, w)'
  BY WritersInductive
<1>2. WritersInv(solo, w) /\ [RacesNext]_<<alone, vars>> => [LimitStep]_vars
  BY WriterLimitStep DEF WritersInv, RacesNext, Next
<1>3. [][LimitStep]_vars <=> LimitOnlyBypassed
  BY DEF LimitStep, LimitOnlyBypassed, Bypass
<1> QED BY <1>1, <1>2, <1>3, PTL DEF RacesSpec

-----------------------------------------------------------------------------
(* A worker that serves alone: each statement is a step of Kanban.tla or none. *)

(* What it holds while it creates or moves a task: the row, the list and the *)
(* bucket it read are there, and what it counted still holds.                *)
SoloWriting(r) ==
    /\ r.list \in lists /\ r.to \in BucketsOf(r.list)
    /\ r.task = 0 => r.was = 0
    /\ r.task # 0 => r.task \in Tasks /\ task[r.task].list = r.was
    /\ r.task # 0 /\ r.was # r.list => r.to \in DefaultBuckets(r.list)
    /\ r.pc # "limit" /\ (r.task = 0 \/ (r.was = r.list /\ task[r.task].bucket # r.to)) => HasRoom(r.to)
    /\ r.pc = "index" => r.was # r.list
    /\ IF r.pc = "write" /\ r.was # r.list THEN r.index \in NextIndexes(r.list) /\ r.index <= MaxIndex
       ELSE r.index = 0

(* While it deletes a bucket, the list has another one. *)
SoloDropsBucket(r) ==
    /\ r.list \in lists /\ r.from \in DOMAIN HomeOf /\ HomeOf[r.from] = r.list
    /\ Cardinality(BucketsOf(r.list) \union {r.from}) > 1
    /\ r.from \in buckets <=> r.pc = "drop"
    /\ r.pc = "rehome" => r.to \in DefaultBuckets(r.list)

(* While it deletes a list, the tasks without a list are those still to be deleted. *)
SoloDropsList(r) ==
    /\ r.pc = "collect" => \A t \in Tasks : task[t].list \notin lists <=> task[t].list = r.list
    /\ r.pc = "tasks" => \A t \in Tasks : task[t].list \notin lists <=> t \in r.left

SoloHolds(r) ==
    /\ r.pc \in {"limit", "index", "write"} => SoloWriting(r)
    /\ r.pc \in {"drop", "default", "rehome"} => SoloDropsBucket(r)
    /\ r.pc \in {"collect", "tasks"} => SoloDropsList(r)
    /\ r.pc \notin {"collect", "tasks"} => \A t \in Tasks : task[t].list \in lists

SoloInv ==
    /\ IInv
    /\ \A v \in Workers \ {Solo} : req[v].pc = "idle"
    /\ \A t \in Tasks : task[t].index <= MaxIndex
    /\ SoloHolds(req[Solo])

LEMMA SoloGoesOn ==
    ASSUME SoloInv, IInv', Solo \in Workers, NEW r \in Request, req' = [req EXCEPT ![Solo] = r],
           \A t \in Tasks' : task'[t].index <= MaxIndex, SoloHolds(r)'
    PROVE  SoloInv'
<1>1. req'[Solo] = r /\ \A v \in Workers \ {Solo} : req'[v] = req[v]
  BY DEF SoloInv, IInv, TypeOK
<1>2. SoloHolds(req[Solo])'
  BY <1>1
<1> QED BY <1>1, <1>2 DEF SoloInv

(* A step that only reads. *)
LEMMA SoloReads ==
    ASSUME SoloInv, IInv', Solo \in Workers, NEW r \in Request, req' = [req EXCEPT ![Solo] = r],
           UNCHANGED <<lists, buckets, task>>, SoloHolds(r)
    PROVE  SoloInv'
<1>1. SoloHolds(r)'
  BY DEF SoloHolds, SoloWriting, SoloDropsBucket, SoloDropsList, Tasks, TasksIn, TasksOf, BucketsOf,
         DefaultBuckets, HasRoom, NextIndexes
<1>2. \A t \in Tasks' : task'[t].index <= MaxIndex
  BY DEF SoloInv, Tasks
<1> QED BY <1>1, <1>2, SoloGoesOn

LEMMA SoloBegins ==
    ASSUME SoloInv, IInv', Solo \in Workers,
           \/ \E l \in lists, asked \in buckets \union {0} : BeginCreate(Solo, l, asked)
           \/ \E t \in Tasks, l \in lists, asked \in buckets \union {0} : BeginMove(Solo, t, l, asked)
    PROVE  SoloInv'
<1>1. \A t \in Tasks : task[t].list \in lists /\ task[t].list \in Nat
  BY DEF SoloInv, SoloHolds, BeginCreate, BeginMove, AtRest, IInv, TypeOK, TaskRow
<1>2. lists \subseteq Nat /\ buckets \subseteq DOMAIN HomeOf /\ DOMAIN HomeOf \subseteq Nat \ {0}
      /\ Tasks \subseteq Nat \ {0}
  BY ConstantsAssumption DEF SoloInv, IInv, TypeOK
<1>3. ASSUME NEW l \in lists, NEW asked \in buckets \union {0}, BeginCreate(Solo, l, asked)
      PROVE  SoloInv'
  <2>1. PICK b \in BucketsOf(l) :
            req' = [req EXCEPT ![Solo] = [Idle EXCEPT !.pc = "limit", !.list = l, !.to = b]]
    BY <1>3 DEF BeginCreate, DefaultBuckets
  <2> DEFINE r == [Idle EXCEPT !.pc = "limit", !.list = l, !.to = b]
  <2>2. /\ r \in Request /\ r.pc = "limit" /\ r.list = l /\ r.to = b /\ r.task = 0 /\ r.was = 0
        /\ r.index = 0
    BY <1>2, <2>1 DEF Idle, Request, PC, BucketsOf
  <2>3. UNCHANGED <<lists, buckets, task>> /\ req' = [req EXCEPT ![Solo] = r]
    BY <1>3, <2>1 DEF BeginCreate
  <2> HIDE DEF r
  <2>4. SoloHolds(r)
    BY <1>1, <2>1, <2>2 DEF SoloHolds, SoloWriting
  <2> QED BY <2>2, <2>3, <2>4, SoloReads
<1>4. ASSUME NEW t \in Tasks, NEW l \in lists, NEW asked \in buckets \union {0}, BeginMove(Solo, t, l, asked)
      PROVE  SoloInv'
  <2> DEFINE old == task[t]
             pc == IF asked # 0 /\ asked # old.bucket THEN "limit" ELSE AfterLimit(old.list, l)
  <2>1. PICK b \in (IF l # old.list THEN DefaultBuckets(l)
                    ELSE (IF asked = 0 THEN {old.bucket} ELSE {asked}) \intersect BucketsOf(l)) :
            req' = [req EXCEPT ![Solo] =
               [Idle EXCEPT !.pc = pc, !.task = t, !.was = old.list, !.list = l, !.to = b]]
    BY <1>4 DEF BeginMove
  <2> DEFINE r == [Idle EXCEPT !.pc = pc, !.task = t, !.was = old.list, !.list = l, !.to = b]
  <2>2. b \in BucketsOf(l) /\ b \in Nat
    BY <1>2, <2>1 DEF DefaultBuckets, BucketsOf
  <2>3. pc \in {"limit", "index", "write"} /\ (pc = "index" => old.list # l) /\ (pc = "write" => old.list = l)
        /\ (pc # "limit" => asked = 0 \/ asked = old.bucket)
    BY DEF AfterLimit
  <2>4. /\ r \in Request /\ r.pc = pc /\ r.list = l /\ r.to = b /\ r.task = t /\ r.was = old.list
        /\ r.index = 0
    BY <1>1, <1>2, <2>2, <2>3 DEF Idle, Request, PC
  <2>5. UNCHANGED <<lists, buckets, task>> /\ req' = [req EXCEPT ![Solo] = r]
    BY <1>4, <2>1 DEF BeginMove
  <2>6. r.task # 0
    BY <1>2, <2>4
  <2>7. l # old.list => b \in DefaultBuckets(l)
    BY <2>1
  <2>8. l = old.list /\ pc # "limit" => b = old.bucket
    BY <2>1, <2>3
  <2> HIDE DEF r, pc
  <2>9. SoloWriting(r)
    BY <2>2, <2>3, <2>4, <2>6, <2>7, <2>8 DEF SoloWriting
  <2>10. SoloHolds(r)
    BY <1>1, <2>3, <2>4, <2>9 DEF SoloHolds
  <2> QED BY <2>4, <2>5, <2>10, SoloReads
<1> QED BY <1>3, <1>4

LEMMA SoloChecks ==
    ASSUME SoloInv, IInv', Solo \in Workers, CheckLimit(Solo) \/ ReadIndex(Solo)
    PROVE  SoloInv'
<1> DEFINE old == req[Solo]
<1>1. old \in Request /\ old.pc \in {"limit", "index"} /\ SoloWriting(old)
      /\ \A t \in Tasks : task[t].list \in lists
  BY DEF SoloInv, SoloHolds, CheckLimit, ReadIndex, IInv, TypeOK
<1>2. UNCHANGED <<lists, buckets, task>>
  BY DEF CheckLimit, ReadIndex
<1>3. CASE CheckLimit(Solo)
  <2>1. old.pc = "limit"
    BY <1>3 DEF CheckLimit
  <2>2. CASE HasRoom(old.to)
    <3> DEFINE pc == AfterLimit(old.was, old.list)
               r == [old EXCEPT !.pc = pc]
    <3>1. pc \in {"index", "write"} /\ (pc = "index" <=> old.was # old.list)
      BY DEF AfterLimit
    <3>2. /\ r \in Request /\ r.pc = pc /\ r.list = old.list /\ r.to = old.to /\ r.task = old.task
          /\ r.was = old.was /\ r.index = old.index
      BY <1>1, <3>1 DEF Request, PC
    <3>3. req' = [req EXCEPT ![Solo] = r]
      BY <1>3, <2>2 DEF CheckLimit
    <3> HIDE DEF r, pc
    <3>4. SoloWriting(r)
      BY <1>1, <2>1, <2>2, <3>1, <3>2 DEF SoloWriting
    <3>5. SoloHolds(r)
      BY <1>1, <3>1, <3>2, <3>4 DEF SoloHolds
    <3> QED BY <1>2, <3>2, <3>3, <3>5, SoloReads
  <2>3. CASE ~HasRoom(old.to)
    <3>1. req' = [req EXCEPT ![Solo] = Idle]
      BY <1>3, <2>3 DEF CheckLimit
    <3>2. SoloHolds(Idle)
      BY <1>1, IdleIsRequest DEF SoloHolds
    <3> QED BY <1>2, <3>1, <3>2, IdleIsRequest, SoloReads
  <2> QED BY <2>2, <2>3
<1>4. CASE ReadIndex(Solo)
  <2>1. PICK i \in NextIndexes(old.list) :
            i <= MaxIndex /\ req' = [req EXCEPT ![Solo].pc = "write", ![Solo].index = i]
    BY <1>4 DEF ReadIndex
  <2> DEFINE r == [old EXCEPT !.pc = "write", !.index = i]
  <2>2. i \in Nat
    BY NextIndexIsFree DEF SoloInv, IInv
  <2>3. /\ r \in Request /\ r.pc = "write" /\ r.list = old.list /\ r.to = old.to /\ r.task = old.task
        /\ r.was = old.was /\ r.index = i
    BY <1>1, <2>2 DEF Request, PC
  <2>4. req' = [req EXCEPT ![Solo] = r]
    BY <2>1 DEF SoloInv, IInv, TypeOK
  <2>5. old.pc = "index"
    BY <1>4 DEF ReadIndex
  <2> HIDE DEF r
  <2>6. SoloWriting(r)
    BY <1>1, <2>1, <2>3, <2>5 DEF SoloWriting
  <2>7. SoloHolds(r)
    BY <1>1, <2>3, <2>6 DEF SoloHolds
  <2> QED BY <1>2, <2>3, <2>4, <2>7, SoloReads
<1> QED BY <1>3, <1>4

LEMMA SoloWrites ==
    ASSUME SoloInv, IInv', Solo \in Workers,
           InsertTask(Solo) \/ WriteTask(Solo) \/ \E t \in Tasks : DeleteTask(Solo, t)
    PROVE  SoloInv'
<1> DEFINE r == req[Solo]
<1>1. r \in Request /\ (r.pc = "write" => SoloWriting(r)) /\ \A t \in Tasks : task[t].list \in lists /\ task[t].index <= MaxIndex
  BY DEF SoloInv, SoloHolds, InsertTask, WriteTask, DeleteTask, AtRest, IInv, TypeOK
<1>2. lists' = lists
  BY DEF InsertTask, WriteTask, DeleteTask
<1>3. \A t \in Tasks' : task'[t].list \in lists' /\ task'[t].index <= MaxIndex
  <2>1. CASE InsertTask(Solo)
    <3>1. \A t \in Tasks' : t # nextTask => t \in Tasks /\ task'[t] = task[t]
      BY <2>1 DEF InsertTask, Tasks
    <3>2. task'[nextTask].list = r.list /\ task'[nextTask].index = r.index
      BY <2>1 DEF InsertTask, Tasks
    <3>3. r.list \in lists /\ r.was = 0 /\ r.list # 0 /\ r.index <= MaxIndex
      BY <1>1, <2>1, ConstantsAssumption DEF SoloWriting, InsertTask, SoloInv, IInv, TypeOK
    <3> QED BY <1>1, <1>2, <3>1, <3>2, <3>3
  <2>2. CASE WriteTask(Solo)
    <3>1. Tasks' = Tasks
      BY <2>2 DEF WriteTask, Tasks
    <3>2. \A t \in Tasks : task'[t] = IF t = r.task THEN [list |-> r.list, bucket |-> r.to,
                        index |-> IF r.index = 0 THEN task[t].index ELSE r.index]
                  ELSE task[t]
      BY <2>2 DEF WriteTask, Tasks
    <3>3. r.list \in lists /\ (r.index # 0 => r.index <= MaxIndex)
      BY <1>1, <2>2 DEF SoloWriting, WriteTask
    <3>4. ASSUME NEW t \in Tasks
          PROVE  task'[t].list \in lists /\ task'[t].index <= MaxIndex
      <4>1. CASE t # r.task
        BY <1>1, <3>2, <4>1
      <4>2. CASE t = r.task /\ r.index = 0
        <5>1. task'[t] = [list |-> r.list, bucket |-> r.to, index |-> task[t].index]
          BY <3>2, <4>2
        <5> QED BY <1>1, <3>3, <5>1
      <4>3. CASE t = r.task /\ r.index # 0
        BY <1>1, <3>2, <3>3, <4>3
      <4> QED BY <4>1, <4>2, <4>3
    <3> QED BY <1>2, <3>1, <3>4
  <2>3. ASSUME NEW d \in Tasks, DeleteTask(Solo, d)
        PROVE  \A t \in Tasks' : task'[t].list \in lists' /\ task'[t].index <= MaxIndex
    <3>1. Tasks' \subseteq Tasks /\ \A u \in Tasks' : task'[u] = task[u]
      BY <2>3, RowDropped DEF DeleteTask, SoloInv
    <3> QED BY <1>1, <1>2, <3>1
  <2> QED BY <2>1, <2>2, <2>3
<1>4. CASE InsertTask(Solo) \/ WriteTask(Solo)
  <2>1. req' = [req EXCEPT ![Solo] = Idle]
    BY <1>4 DEF InsertTask, WriteTask
  <2>2. SoloHolds(Idle)'
    BY <1>3, IdleIsRequest DEF SoloHolds
  <2> QED BY <1>3, <2>1, <2>2, IdleIsRequest, SoloGoesOn
<1>5. CASE \E t \in Tasks : DeleteTask(Solo, t)
  <2>1. req' = req /\ req[Solo].pc = "idle"
    BY <1>5 DEF DeleteTask, AtRest
  <2>2. SoloHolds(req[Solo])'
    BY <1>3, <2>1 DEF SoloHolds
  <2> QED BY <1>3, <2>1, <2>2 DEF SoloInv
<1> QED BY <1>4, <1>5

LEMMA SoloDropsBuckets ==
    ASSUME SoloInv, IInv', Solo \in Workers, BucketSteps(Solo)
    PROVE  SoloInv'
<1> DEFINE old == req[Solo]
<1>1. old \in Request /\ (old.pc \in {"drop", "default", "rehome"} => SoloDropsBucket(old))
      /\ \A t \in Tasks : task[t].list \in lists /\ task[t].index <= MaxIndex
  BY DEF SoloInv, SoloHolds, BucketSteps, CountBuckets, DropBucket, ReadDefault, Rehome, AtRest, IInv, TypeOK
<1>2. buckets \subseteq DOMAIN HomeOf /\ \A b \in DOMAIN HomeOf : b \in Nat \ {0} /\ HomeOf[b] \in Nat
  BY HomeIsNat DEF SoloInv, IInv, TypeOK
<1>3. ASSUME NEW b \in buckets, CountBuckets(Solo, b)
      PROVE  SoloInv'
  <2> DEFINE r == [Idle EXCEPT !.pc = "drop", !.list = HomeOf[b], !.from = b]
  <2>1. r \in Request /\ r.pc = "drop" /\ r.list = HomeOf[b] /\ r.from = b
    BY <1>2 DEF Idle, Request, PC
  <2>2. /\ UNCHANGED <<lists, buckets, task>> /\ req' = [req EXCEPT ![Solo] = r]
        /\ HomeOf[b] \in lists /\ Cardinality(BucketsOf(HomeOf[b])) > 1
    BY <1>3 DEF CountBuckets
  <2> HIDE DEF r
  <2>3. BucketsOf(HomeOf[b]) \union {b} = BucketsOf(HomeOf[b])
    BY DEF BucketsOf
  <2>4. SoloDropsBucket(r)
    BY <1>2, <2>1, <2>2, <2>3 DEF SoloDropsBucket
  <2>5. SoloHolds(r)
    BY <1>1, <2>1, <2>4 DEF SoloHolds
  <2> QED BY <2>1, <2>2, <2>5, SoloReads
<1>4. CASE DropBucket(Solo)
  <2>0. PICK r \in Request : r = [old EXCEPT !.pc = "default"]
    BY <1>1 DEF Request, PC
  <2>1. /\ r.pc = "default" /\ r.list = old.list /\ r.from = old.from
    BY <1>1, <2>0 DEF Request
  <2>2. old.pc = "drop" /\ buckets' = buckets \ {old.from} /\ UNCHANGED <<lists, task>>
        /\ req' = [req EXCEPT ![Solo] = r]
    BY <1>4, <2>0 DEF DropBucket, SoloInv, IInv, TypeOK
  <2>3. BucketsOf(r.list)' \union {r.from} = BucketsOf(r.list) \union {r.from}
    BY <2>1, <2>2 DEF BucketsOf
  <2>4. SoloDropsBucket(r)'
    BY <1>1, <2>1, <2>2, <2>3 DEF SoloDropsBucket
  <2>5. SoloHolds(r)'
    BY <1>1, <2>1, <2>2, <2>4 DEF SoloHolds, Tasks
  <2>6. \A t \in Tasks' : task'[t].index <= MaxIndex
    BY <1>1, <2>2 DEF Tasks
  <2> QED BY <2>1, <2>2, <2>5, <2>6, SoloGoesOn
<1>5. CASE ReadDefault(Solo)
  <2>1. PICK b \in (IF BucketsOf(old.list) = {} THEN {0} ELSE DefaultBuckets(old.list)) :
            req' = [req EXCEPT ![Solo].pc = "rehome", ![Solo].to = b]
    BY <1>5 DEF ReadDefault
  <2>2. old.pc = "default" /\ SoloDropsBucket(old)
    BY <1>1, <1>5 DEF ReadDefault
  <2>3. BucketsOf(old.list) # {}
    <3>1. Cardinality({} \union {old.from}) = 1
      BY FS_Singleton
    <3>2. Cardinality(BucketsOf(old.list) \union {old.from}) > 1
      BY <2>2 DEF SoloDropsBucket
    <3> QED BY <3>1, <3>2
  <2>4. b \in DefaultBuckets(old.list) /\ b \in Nat
    BY <1>2, <2>1, <2>3 DEF DefaultBuckets, BucketsOf
  <2> DEFINE r == [old EXCEPT !.pc = "rehome", !.to = b]
  <2>5. /\ r \in Request /\ r.pc = "rehome" /\ r.list = old.list /\ r.from = old.from /\ r.to = b
    BY <1>1, <2>4 DEF Request, PC
  <2>6. UNCHANGED <<lists, buckets, task>> /\ req' = [req EXCEPT ![Solo] = r]
    BY <1>5, <2>1 DEF ReadDefault, SoloInv, IInv, TypeOK
  <2> HIDE DEF r
  <2>7. SoloDropsBucket(r)
    BY <2>2, <2>4, <2>5 DEF SoloDropsBucket
  <2>8. SoloHolds(r)
    BY <1>1, <2>5, <2>7 DEF SoloHolds
  <2> QED BY <2>5, <2>6, <2>8, SoloReads
<1>6. CASE Rehome(Solo)
  <2>1. lists' = lists /\ Tasks' = Tasks /\ req' = [req EXCEPT ![Solo] = Idle]
    BY <1>6 DEF Rehome, Tasks
  <2>2. \A t \in Tasks : task'[t].list = task[t].list /\ task'[t].index = task[t].index
    BY <1>6 DEF Rehome, Tasks, SoloInv, IInv, TypeOK, TaskRow
  <2>3. SoloHolds(Idle)'
    BY <1>1, <2>1, <2>2, IdleIsRequest DEF SoloHolds
  <2> QED BY <1>1, <2>1, <2>2, <2>3, IdleIsRequest, SoloGoesOn
<1> QED BY <1>3, <1>4, <1>5, <1>6 DEF BucketSteps

LEMMA SoloDropsLists ==
    ASSUME SoloInv, IInv', Solo \in Workers, ListSteps(Solo)
    PROVE  SoloInv'
<1> DEFINE old == req[Solo]
<1>1. old \in Request /\ SoloHolds(old) /\ \A t \in Tasks : task[t].index <= MaxIndex
  BY DEF SoloInv, IInv, TypeOK
<1>2. ASSUME NEW l \in lists, DropList(Solo, l)
      PROVE  SoloInv'
  <2> DEFINE r == [Idle EXCEPT !.pc = "collect", !.list = l]
  <2>0. l \in Nat
    BY ConstantsAssumption DEF SoloInv, IInv, TypeOK
  <2>1. r \in Request /\ r.pc = "collect" /\ r.list = l
    BY <2>0 DEF Idle, Request, PC
  <2>2. /\ lists' = lists \ {l} /\ UNCHANGED <<buckets, task>> /\ req' = [req EXCEPT ![Solo] = r]
        /\ old.pc = "idle"
    BY <1>2 DEF DropList, AtRest
  <2> HIDE DEF r
  <2>3. \A t \in Tasks : task[t].list \in lists
    BY <1>1, <2>2 DEF SoloHolds
  <2>4. SoloHolds(r)'
    BY <2>1, <2>2, <2>3 DEF SoloHolds, SoloDropsList, Tasks
  <2>5. \A t \in Tasks' : task'[t].index <= MaxIndex
    BY <1>1, <2>2 DEF Tasks
  <2> QED BY <2>1, <2>2, <2>4, <2>5, SoloGoesOn
<1>3. CASE CollectTasks(Solo)
  <2> DEFINE r == [old EXCEPT !.pc = "tasks", !.left = TasksOf(old.list)]
  <2>1. TasksOf(old.list) \subseteq Nat
    <3>1. Tasks \subseteq Nat
      BY TasksFinite DEF SoloInv, IInv
    <3> QED BY <3>1 DEF TasksOf
  <2>2. r \in Request /\ r.pc = "tasks" /\ r.left = TasksOf(old.list)
    BY <1>1, <2>1 DEF Request, PC
  <2>3. /\ UNCHANGED <<lists, buckets, task>> /\ req' = [req EXCEPT ![Solo] = r]
        /\ old.pc = "collect"
    BY <1>3 DEF CollectTasks, SoloInv, IInv, TypeOK
  <2> HIDE DEF r
  <2>4. SoloHolds(r)
    BY <1>1, <2>2, <2>3 DEF SoloHolds, SoloDropsList, TasksOf
  <2> QED BY <2>2, <2>3, <2>4, SoloReads
<1>4. CASE DropNextTask(Solo)
  <2>1. old.pc = "tasks" /\ lists' = lists
    BY <1>4 DEF DropNextTask
  <2>2. \A t \in Tasks : task[t].list \notin lists <=> t \in old.left
    BY <1>1, <2>1 DEF SoloHolds, SoloDropsList
  <2>3. CASE old.left = {}
    <3>1. req' = [req EXCEPT ![Solo] = Idle] /\ UNCHANGED <<lists, buckets, task>>
      BY <1>4, <2>3 DEF DropNextTask
    <3>2. SoloHolds(Idle)
      BY <2>2, <2>3, IdleIsRequest DEF SoloHolds
    <3> QED BY <3>1, <3>2, IdleIsRequest, SoloReads
  <2>4. CASE old.left # {}
    <3>1. PICK d \in old.left : task' = Restrict(task, Tasks \ {d}) /\ req' = [req EXCEPT ![Solo].left = @ \ {d}]
      BY <1>4, <2>4 DEF DropNextTask
    <3>0. PICK r \in Request : r = [old EXCEPT !.left = old.left \ {d}]
      BY <1>1 DEF Request
    <3>2. r.pc = "tasks" /\ r.left = old.left \ {d}
      BY <1>1, <2>1, <3>0 DEF Request
    <3>3. req' = [req EXCEPT ![Solo] = r]
      BY <3>0, <3>1 DEF SoloInv, IInv, TypeOK
    <3>4. Tasks' = Tasks \ {d} /\ \A u \in Tasks' : task'[u] = task[u]
      BY <3>1 DEF Restrict, Tasks
    <3>5. SoloHolds(r)'
      BY <2>1, <2>2, <3>2, <3>4 DEF SoloHolds, SoloDropsList
    <3>6. \A t \in Tasks' : task'[t].index <= MaxIndex
      BY <1>1, <3>4
    <3> QED BY <3>2, <3>3, <3>5, <3>6, SoloGoesOn
  <2> QED BY <2>3, <2>4
<1> QED BY <1>2, <1>3, <1>4 DEF ListSteps

LEMMA SoloStepKeeps == ASSUME SoloInv, Solo \in Workers, Step(Solo) PROVE SoloInv'
<1>1. IInv'
  BY StepKeeps DEF SoloInv
<1> QED BY <1>1, SoloBegins, SoloChecks, SoloWrites, SoloDropsBuckets, SoloDropsLists DEF Step, TaskSteps

LEMMA SoloInit == Init /\ Solo \in Workers => SoloInv
<1> SUFFICES ASSUME Init, Solo \in Workers PROVE SoloInv
  OBVIOUS
<1>1. IInv
  BY InitIInv
<1>2. Tasks = {} /\ req = [w \in Workers |-> Idle]
  BY DEF Init, Tasks
<1> QED BY <1>1, <1>2, IdleIsRequest DEF SoloInv, SoloHolds

(* The tables as Kanban.tla sees them. *)
Row(l, b, i) == [list |-> l, bucket |-> b, done |-> FALSE, index |-> i, after |-> FALSE, month |-> FALSE]
KTask == [t \in {u \in Tasks : task[u].list \in lists} |->
            Row(task[t].list, task[t].bucket, task[t].index)]
KBucket == [b \in KanbanBuckets |->
              [list |-> HomeOf[b], limit |-> LimitOf[b], done |-> FALSE, pos |-> b]]

LEMMA KSees ==
    /\ K!Tasks = DOMAIN KTask /\ K!Buckets = DOMAIN KBucket
    /\ \A l : K!BucketsOf(l) = {b \in DOMAIN KBucket : KBucket[b].list = l}
    /\ \A l : K!TasksOf(l) = {t \in DOMAIN KTask : KTask[t].list = l}
    /\ \A b : K!TasksIn(b) = {t \in DOMAIN KTask : KTask[t].bucket = b}
    /\ K!vars = <<lists, KBucket, KTask, MaxList + 1, Cardinality(DOMAIN HomeOf) + 1, nextTask>>
BY DEF K!Tasks, K!Buckets, K!BucketsOf, K!TasksOf, K!TasksIn, K!vars, KTask, KBucket, Row

LEMMA KCounts == \A S : K!Cardinality(S) = Cardinality(S)
BY DEF K!Cardinality, Cardinality, K!ExistsBijection, ExistsBijection

(* A statement Kanban.tla does not see. *)
LEMMA Unseen ==
    ASSUME UNCHANGED <<lists, task, nextTask, KanbanBuckets>>
    PROVE  UNCHANGED K!vars
<1>1. KTask' = KTask /\ KBucket' = KBucket
  BY DEF KTask, KBucket, Tasks
<1> QED BY <1>1 DEF K!vars, KTask, KBucket, Row

LEMMA KBuckets ==
    ASSUME SoloInv, Solo \in Workers
    PROVE  /\ KanbanBuckets = IF req[Solo].pc \in {"default", "rehome"} THEN buckets \union {req[Solo].from} ELSE buckets
           /\ KanbanBuckets \subseteq DOMAIN HomeOf
<1>1. Deleting = IF req[Solo].pc \in {"default", "rehome"} THEN {Solo} ELSE {}
  BY DEF SoloInv, Deleting
<1>2. KanbanBuckets = IF req[Solo].pc \in {"default", "rehome"} THEN buckets \union {req[Solo].from} ELSE buckets
  BY <1>1 DEF KanbanBuckets
<1>3. buckets \subseteq DOMAIN HomeOf
  BY DEF SoloInv, IInv, TypeOK
<1>4. req[Solo].pc \in {"default", "rehome"} => req[Solo].from \in DOMAIN HomeOf
  BY DEF SoloInv, SoloHolds, SoloDropsBucket
<1> QED BY <1>2, <1>3, <1>4

(* With no list half deleted every task is seen. *)
LEMMA KTasks ==
    ASSUME \A t \in Tasks : task[t].list \in lists
    PROVE  /\ DOMAIN KTask = Tasks
           /\ \A t \in Tasks : /\ KTask[t].list = task[t].list /\ KTask[t].bucket = task[t].bucket
                               /\ KTask[t].index = task[t].index /\ KTask[t].done = FALSE
           /\ \A l : K!TasksOf(l) = TasksOf(l)
           /\ \A b : K!TasksIn(b) = TasksIn(b)
           /\ \A l : K!NextIndexes(l) = NextIndexes(l)
<1>1. /\ DOMAIN KTask = Tasks
      /\ \A t \in Tasks : /\ KTask[t].list = task[t].list /\ KTask[t].bucket = task[t].bucket
                          /\ KTask[t].index = task[t].index /\ KTask[t].done = FALSE
  BY DEF KTask, Row
<1>2. \A l : K!TasksOf(l) = TasksOf(l)
  BY <1>1, KSees DEF TasksOf
<1>3. \A b : K!TasksIn(b) = TasksIn(b)
  BY <1>1, KSees DEF TasksIn
<1>4. ASSUME NEW l PROVE K!NextIndexes(l) = NextIndexes(l)
  <2>1. K!NextIndexes(l) = IF K!TasksOf(l) = {} THEN {1}
           ELSE {KTask[t].index + 1 :
             t \in {t \in K!TasksOf(l) : \A u \in K!TasksOf(l) : KTask[u].index <= KTask[t].index}}
    BY DEF K!NextIndexes, KTask, Row
  <2>2. TasksOf(l) \subseteq Tasks
    BY DEF TasksOf
  <2>3. {KTask[t].index + 1 : t \in {t \in TasksOf(l) : \A u \in TasksOf(l) : KTask[u].index <= KTask[t].index}}
        = {task[t].index + 1 : t \in {t \in TasksOf(l) : \A u \in TasksOf(l) : task[u].index <= task[t].index}}
    BY <1>1, <2>2
  <2> QED BY <1>2, <2>1, <2>3 DEF NextIndexes
<1> QED BY <1>1, <1>2, <1>3, <1>4

(* With no bucket half deleted the buckets are what Kanban.tla sees. *)
LEMMA KBucketsAre ==
    ASSUME SoloInv, Solo \in Workers, req[Solo].pc \notin {"default", "rehome"}
    PROVE  /\ DOMAIN KBucket = buckets
           /\ \A b \in buckets : /\ KBucket[b].list = HomeOf[b] /\ KBucket[b].limit = LimitOf[b]
                                 /\ KBucket[b].done = FALSE /\ KBucket[b].pos = b
           /\ \A l : K!BucketsOf(l) = BucketsOf(l)
           /\ \A l : K!DefaultBuckets(l) = DefaultBuckets(l)
<1>1. KanbanBuckets = buckets
  BY KBuckets
<1>2. /\ DOMAIN KBucket = buckets
      /\ \A b \in buckets : /\ KBucket[b].list = HomeOf[b] /\ KBucket[b].limit = LimitOf[b]
                            /\ KBucket[b].done = FALSE /\ KBucket[b].pos = b
  BY <1>1 DEF KBucket
<1>3. \A l : K!BucketsOf(l) = BucketsOf(l)
  BY <1>2, KSees DEF BucketsOf
<1>4. \A l : K!DefaultBuckets(l) = {b \in K!BucketsOf(l) : \A c \in K!BucketsOf(l) : KBucket[b].pos <= KBucket[c].pos}
  BY DEF K!DefaultBuckets, K!FirstByPosition, KBucket
<1>5. \A l : BucketsOf(l) \subseteq buckets
  BY DEF BucketsOf
<1>6. \A l : K!DefaultBuckets(l) = DefaultBuckets(l)
  BY <1>2, <1>3, <1>4, <1>5 DEF DefaultBuckets
<1> QED BY <1>2, <1>3, <1>6

LEMMA KRoom ==
    ASSUME SoloInv, Solo \in Workers, req[Solo].pc \notin {"default", "rehome"},
           \A t \in Tasks : task[t].list \in lists, NEW b \in buckets
    PROVE  K!HasRoom(b) <=> HasRoom(b)
<1>1. K!HasRoom(b) <=> (KBucket[b].limit > 0 => Cardinality(K!TasksIn(b)) < KBucket[b].limit)
  BY KCounts DEF K!HasRoom, KBucket
<1> QED BY <1>1, KBucketsAre, KTasks DEF HasRoom

(* What a step writes, as Kanban.tla sees it. *)
LEMMA NextKTask ==
    ASSUME \A t \in Tasks' : task'[t].list \in lists'
    PROVE  KTask' = [t \in Tasks' |-> Row(task'[t].list, task'[t].bucket, task'[t].index)]
BY DEF KTask

LEMMA NextKBuckets ==
    ASSUME SoloInv', Solo \in Workers
    PROVE  KanbanBuckets' = IF req'[Solo].pc \in {"default", "rehome"} THEN buckets' \union {req'[Solo].from} ELSE buckets'
<1>1. Deleting' = IF req'[Solo].pc \in {"default", "rehome"} THEN {Solo} ELSE {}
  BY DEF SoloInv, Deleting
<1> QED BY <1>1 DEF KanbanBuckets

(* Reading, counting and the first statements of deleting a bucket are not seen. *)
LEMMA SoloUnseen ==
    ASSUME SoloInv, SoloInv', Solo \in Workers,
           \/ \E l \in lists, asked \in buckets \union {0} : BeginCreate(Solo, l, asked)
           \/ \E t \in Tasks, l \in lists, asked \in buckets \union {0} : BeginMove(Solo, t, l, asked)
           \/ CheckLimit(Solo) \/ ReadIndex(Solo)
           \/ \E b \in buckets : CountBuckets(Solo, b)
           \/ DropBucket(Solo) \/ ReadDefault(Solo) \/ CollectTasks(Solo)
    PROVE  UNCHANGED K!vars
<1> DEFINE old == req[Solo]
           new == req'[Solo]
<1>1. UNCHANGED <<lists, task, nextTask>>
  BY DEF BeginCreate, BeginMove, CheckLimit, ReadIndex, CountBuckets, DropBucket, ReadDefault, CollectTasks
<1>2. old \in Request /\ req \in [Workers -> Request]
  BY DEF SoloInv, IInv, TypeOK
<1>3. CASE old.pc \in {"idle", "limit", "index", "collect"}
  <2>1. buckets' = buckets
    BY <1>3 DEF BeginCreate, BeginMove, CheckLimit, ReadIndex, CountBuckets, DropBucket, ReadDefault, CollectTasks
  <2>2. new.pc \notin {"default", "rehome"}
    <3>1. CASE \E l \in lists, asked \in buckets \union {0} : BeginCreate(Solo, l, asked)
      BY <1>2, <3>1 DEF BeginCreate, Idle
    <3>2. CASE \E t \in Tasks, l \in lists, asked \in buckets \union {0} : BeginMove(Solo, t, l, asked)
      <4>1. PICK t \in Tasks, l \in lists, asked \in buckets \union {0} : BeginMove(Solo, t, l, asked)
        BY <3>2
      <4> DEFINE pc == IF asked # 0 /\ asked # task[t].bucket THEN "limit" ELSE AfterLimit(task[t].list, l)
      <4>2. PICK b : req' = [req EXCEPT ![Solo] =
                [Idle EXCEPT !.pc = pc, !.task = t, !.was = task[t].list, !.list = l, !.to = b]]
        BY <4>1 DEF BeginMove
      <4>3. pc \in {"limit", "index", "write"}
        BY DEF AfterLimit
      <4> HIDE DEF pc
      <4>4. new.pc = pc
        BY <1>2, <4>2 DEF Idle
      <4> QED BY <4>3, <4>4
    <3>3. CASE CheckLimit(Solo)
      <4>1. new = [old EXCEPT !.pc = AfterLimit(old.was, old.list)] \/ new = Idle
        BY <1>2, <3>3 DEF CheckLimit
      <4> QED BY <1>2, <4>1 DEF AfterLimit, Idle, Request
    <3>4. CASE ReadIndex(Solo)
      BY <1>2, <3>4 DEF ReadIndex, Request
    <3>5. CASE \E b \in buckets : CountBuckets(Solo, b)
      BY <1>2, <3>5 DEF CountBuckets, Idle
    <3>6. CASE CollectTasks(Solo)
      BY <1>2, <3>6 DEF CollectTasks, Request
    <3> QED BY <1>3, <3>1, <3>2, <3>3, <3>4, <3>5, <3>6 DEF DropBucket, ReadDefault
  <2> QED BY <1>1, <1>3, <2>1, <2>2, KBuckets, NextKBuckets, Unseen
<1>4. CASE DropBucket(Solo)
  <2>1. old.pc = "drop" /\ new.pc = "default" /\ new.from = old.from /\ buckets' = buckets \ {old.from}
    BY <1>2, <1>4 DEF DropBucket, Request
  <2>2. old.from \in buckets
    BY <2>1 DEF SoloInv, SoloHolds, SoloDropsBucket
  <2> QED BY <1>1, <2>1, <2>2, KBuckets, NextKBuckets, Unseen
<1>5. CASE ReadDefault(Solo)
  <2>1. old.pc = "default" /\ new.pc = "rehome" /\ new.from = old.from /\ buckets' = buckets
    BY <1>2, <1>5 DEF ReadDefault, Request
  <2> QED BY <1>1, <2>1, KBuckets, NextKBuckets, Unseen
<1> QED BY <1>3, <1>4, <1>5 DEF BeginCreate, BeginMove, CheckLimit, ReadIndex, CountBuckets, CollectTasks, AtRest

(* The one write of createTask is the whole request. *)
LEMMA KCreate ==
    ASSUME NEW l \in lists, NEW b \in K!BucketsOf(l), NEW i \in K!NextIndexes(l),
           b # 0, K!HasRoom(b), i <= MaxIndex, nextTask <= MaxTask, nextTask' = nextTask + 1,
           KTask' = [t \in DOMAIN KTask \union {nextTask} |-> IF t = nextTask THEN Row(l, b, i) ELSE KTask[t]],
           UNCHANGED <<lists, KBucket>>
    PROVE  K!CreateTask(l, b, FALSE, FALSE, FALSE)
<1>1. b \in (IF b = 0 THEN K!DefaultBuckets(l) ELSE {b} \intersect K!BucketsOf(l))
  OBVIOUS
<1>2. KTask' = [t \in K!Tasks \union {nextTask} |-> IF t = nextTask THEN Row(l, b, i) ELSE KTask[t]]
  BY KSees
<1>3. \E bb \in (IF b = 0 THEN K!DefaultBuckets(l) ELSE {b} \intersect K!BucketsOf(l)), ii \in K!NextIndexes(l) :
        /\ K!HasRoom(bb) /\ ii <= MaxIndex
        /\ KTask' = [t \in K!Tasks \union {nextTask} |-> IF t = nextTask THEN Row(l, bb, ii) ELSE KTask[t]]
  BY <1>1, <1>2
<1>4. UNCHANGED <<lists, KBucket, MaxList + 1, Cardinality(DOMAIN HomeOf) + 1>>
  OBVIOUS
<1>5. K!CreateTask(l, b, FALSE, FALSE, FALSE) <=>
        /\ nextTask <= MaxTask
        /\ l \in lists
        /\ \E bb \in (IF b = 0 THEN K!DefaultBuckets(l) ELSE {b} \intersect K!BucketsOf(l)), ii \in K!NextIndexes(l) :
             /\ K!HasRoom(bb) /\ ii <= MaxIndex
             /\ KTask' = [t \in K!Tasks \union {nextTask} |-> IF t = nextTask THEN Row(l, bb, ii) ELSE KTask[t]]
        /\ nextTask' = nextTask + 1
        /\ UNCHANGED <<lists, KBucket, MaxList + 1, Cardinality(DOMAIN HomeOf) + 1>>
  BY DEF K!CreateTask, KTask, KBucket, Row
<1> QED BY <1>3, <1>4, <1>5

LEMMA InsertSeen ==
    ASSUME SoloInv, SoloInv', Solo \in Workers, InsertTask(Solo)
    PROVE  K!TaskNext
<1> DEFINE r == req[Solo]
<1>1. r.pc = "write" /\ r.task = 0 /\ SoloWriting(r) /\ nextTask <= MaxTask /\ r.was = 0
      /\ r.list \in lists /\ r.to \in BucketsOf(r.list) /\ r.to \in buckets /\ HasRoom(r.to)
  BY DEF InsertTask, SoloInv, SoloHolds, SoloWriting, BucketsOf
<1>2. r.list # 0 /\ r.to # 0
  BY <1>1, ConstantsAssumption DEF SoloInv, IInv, TypeOK
<1>3. r.index \in NextIndexes(r.list) /\ r.index <= MaxIndex
  BY <1>1, <1>2 DEF SoloWriting
<1>4. (\A t \in Tasks : task[t].list \in lists) /\ r.pc \notin {"default", "rehome"}
  BY <1>1 DEF SoloInv, SoloHolds
<1>5. UNCHANGED <<lists, buckets>> /\ nextTask' = nextTask + 1 /\ req'[Solo].pc = "idle"
  BY IdleIsRequest DEF InsertTask, SoloInv, IInv, TypeOK
<1>6. \A t \in Tasks' : task'[t].list \in lists'
  BY <1>5 DEF SoloInv, SoloHolds
<1>7. /\ Tasks' = Tasks \union {nextTask}
      /\ \A t \in Tasks' : task'[t] = IF t = nextTask THEN [list |-> r.list, bucket |-> r.to, index |-> r.index]
                                       ELSE task[t]
  BY DEF InsertTask, Tasks
<1>8. KTask' = [t \in Tasks \union {nextTask} |-> IF t = nextTask THEN Row(r.list, r.to, r.index) ELSE KTask[t]]
  <2>1. KTask = [t \in Tasks |-> Row(task[t].list, task[t].bucket, task[t].index)]
    BY <1>4 DEF KTask
  <2> QED BY <1>6, <1>7, <2>1, NextKTask
<1>9. KBucket' = KBucket
  BY <1>4, <1>5, KBuckets, NextKBuckets DEF KBucket
<1>10. r.to \in K!BucketsOf(r.list) /\ r.index \in K!NextIndexes(r.list) /\ K!HasRoom(r.to) /\ DOMAIN KTask = Tasks
       /\ K!Buckets = buckets
  BY <1>1, <1>3, <1>4, KBucketsAre, KTasks, KRoom, KSees
<1> HIDE DEF r
<1>11. K!CreateTask(r.list, r.to, FALSE, FALSE, FALSE)
  <2>1. KTask' = [t \in DOMAIN KTask \union {nextTask} |-> IF t = nextTask THEN Row(r.list, r.to, r.index) ELSE KTask[t]]
    BY <1>8, <1>10
  <2> QED BY <1>1, <1>2, <1>3, <1>5, <1>9, <1>10, <2>1, KCreate
<1> QED BY <1>1, <1>10, <1>11 DEF K!TaskNext

(* The write of Task.Update is the whole request as well.  The bucket asked for *)
(* is the one it writes, or none for a task that comes from another list.       *)
LEMMA KUpdate ==
    ASSUME NEW t \in DOMAIN KTask, NEW l \in lists, KTask[t].list \in lists, NEW asked, NEW b, NEW i,
           b \in (IF l # KTask[t].list THEN K!DefaultBuckets(l) ELSE {asked} \intersect K!BucketsOf(l)),
           l = KTask[t].list => asked # 0,
           i \in (IF l = KTask[t].list THEN {KTask[t].index} ELSE K!NextIndexes(l)), i <= MaxIndex,
           asked # 0 /\ asked # KTask[t].bucket => K!HasRoom(b),
           KBucket[b].done = FALSE,
           KTask' = [KTask EXCEPT ![t] = Row(l, b, i)],
           UNCHANGED <<lists, KBucket, nextTask>>
    PROVE  K!UpdateTask(t, l, asked, FALSE, FALSE, FALSE)
<1> DEFINE old == KTask[t]
<1>1. K!UpdateTask(t, l, asked, FALSE, FALSE, FALSE) <=>
        /\ t \in K!Tasks /\ KTask[t].list \in lists /\ l \in lists
        /\ \E target \in K!TargetBuckets(KTask[t], l, asked, FALSE),
              ii \in (IF l = KTask[t].list THEN {KTask[t].index} ELSE K!NextIndexes(l)) :
             /\ K!AsksToMove(KTask[t], asked) => K!HasRoom(target)
             /\ ii <= MaxIndex
             /\ KTask' = [KTask EXCEPT ![t] =
                  [list |-> l, bucket |-> K!KeptBucket(KTask[t], target, FALSE),
                   done |-> K!DoneAfterRepeat(KTask[t], K!MarkedDone(KTask[t], target, FALSE, FALSE)),
                   index |-> ii, after |-> FALSE, month |-> FALSE]]
        /\ UNCHANGED <<lists, KBucket, MaxList + 1, Cardinality(DOMAIN HomeOf) + 1, nextTask>>
  BY DEF K!UpdateTask, KTask, KBucket, Row
<1>2. b \in K!TargetBuckets(KTask[t], l, asked, FALSE)
  BY DEF K!TargetBuckets
<1>3. K!AsksToMove(KTask[t], asked) => K!HasRoom(b)
  BY DEF K!AsksToMove
<1>4. K!KeptBucket(KTask[t], b, FALSE) = b
  BY DEF K!KeptBucket
<1>5. K!MarkedDone(KTask[t], b, FALSE, FALSE) <=> FALSE
  BY DEF K!MarkedDone, KBucket
<1>6. K!DoneAfterRepeat(KTask[t], K!MarkedDone(KTask[t], b, FALSE, FALSE)) = FALSE
  BY <1>5 DEF K!DoneAfterRepeat
<1>7. t \in K!Tasks
  BY KSees
<1>8. KTask' = [KTask EXCEPT ![t] =
                  [list |-> l, bucket |-> K!KeptBucket(KTask[t], b, FALSE),
                   done |-> K!DoneAfterRepeat(KTask[t], K!MarkedDone(KTask[t], b, FALSE, FALSE)),
                   index |-> i, after |-> FALSE, month |-> FALSE]]
  BY <1>4, <1>6 DEF Row
<1>9. UNCHANGED <<lists, KBucket, MaxList + 1, Cardinality(DOMAIN HomeOf) + 1, nextTask>>
  OBVIOUS
<1>10. \E target \in K!TargetBuckets(KTask[t], l, asked, FALSE),
              ii \in (IF l = KTask[t].list THEN {KTask[t].index} ELSE K!NextIndexes(l)) :
             /\ K!AsksToMove(KTask[t], asked) => K!HasRoom(target)
             /\ ii <= MaxIndex
             /\ KTask' = [KTask EXCEPT ![t] =
                  [list |-> l, bucket |-> K!KeptBucket(KTask[t], target, FALSE),
                   done |-> K!DoneAfterRepeat(KTask[t], K!MarkedDone(KTask[t], target, FALSE, FALSE)),
                   index |-> ii, after |-> FALSE, month |-> FALSE]]
  BY <1>2, <1>3, <1>8
<1> QED BY <1>1, <1>7, <1>9, <1>10

LEMMA WriteSeen ==
    ASSUME SoloInv, SoloInv', Solo \in Workers, WriteTask(Solo)
    PROVE  K!TaskNext
<1> DEFINE r == req[Solo]
           t == r.task
           asked == IF r.was = r.list THEN r.to ELSE 0
           i == IF r.index = 0 THEN task[t].index ELSE r.index
<1>1. r.pc = "write" /\ t # 0 /\ SoloWriting(r) /\ t \in Tasks /\ task[t].list = r.was
      /\ r.list \in lists /\ r.to \in BucketsOf(r.list) /\ r.to \in buckets
  BY DEF WriteTask, SoloInv, SoloHolds, SoloWriting, BucketsOf
<1>2. r.to # 0
  BY <1>1, ConstantsAssumption DEF SoloInv, IInv, TypeOK
<1>3. r.was = r.list /\ task[t].bucket # r.to => HasRoom(r.to)
  BY <1>1 DEF SoloWriting
<1>4. (\A u \in Tasks : task[u].list \in lists) /\ r.pc \notin {"default", "rehome"}
  BY <1>1 DEF SoloInv, SoloHolds
<1>5. UNCHANGED <<lists, buckets, nextTask>> /\ req'[Solo].pc = "idle"
  BY IdleIsRequest DEF WriteTask, SoloInv, IInv, TypeOK
<1>6. \A u \in Tasks' : task'[u].list \in lists'
  BY <1>5 DEF SoloInv, SoloHolds
<1>7. /\ Tasks' = Tasks
      /\ \A u \in Tasks' : task'[u] = IF u = t THEN [list |-> r.list, bucket |-> r.to, index |-> i] ELSE task[u]
  BY DEF WriteTask, Tasks
<1>8. KTask' = [KTask EXCEPT ![t] = Row(r.list, r.to, i)]
  <2>1. KTask = [u \in Tasks |-> Row(task[u].list, task[u].bucket, task[u].index)]
    BY <1>4 DEF KTask
  <2>2. KTask' = [u \in Tasks |-> IF u = t THEN Row(r.list, r.to, i) ELSE KTask[u]]
    BY <1>6, <1>7, <2>1, NextKTask
  <2> QED BY <2>1, <2>2
<1>9. KBucket' = KBucket
  BY <1>4, <1>5, KBuckets, NextKBuckets DEF KBucket
<1>10. i \in (IF r.list = r.was THEN {task[t].index} ELSE NextIndexes(r.list)) /\ i <= MaxIndex
  <2>1. CASE r.was = r.list
    <3>1. i = task[t].index
      BY <1>1, <2>1 DEF SoloWriting
    <3> QED BY <1>1, <2>1, <3>1 DEF SoloInv
  <2>2. CASE r.was # r.list
    <3>1. r.index \in NextIndexes(r.list) /\ r.index <= MaxIndex
      BY <1>1, <2>2 DEF SoloWriting
    <3>2. r.index # 0
      BY <3>1, NextIndexIsFree DEF SoloInv, IInv
    <3> QED BY <2>2, <3>1, <3>2
  <2> QED BY <2>1, <2>2
<1>11. r.was # r.list => r.to \in DefaultBuckets(r.list)
  BY <1>1 DEF SoloWriting
<1>12. /\ t \in DOMAIN KTask /\ KTask[t].list = r.was /\ KTask[t].bucket = task[t].bucket
       /\ KTask[t].index = task[t].index /\ r.was \in lists
  BY <1>1, <1>4, KTasks
<1>13. /\ K!DefaultBuckets(r.list) = DefaultBuckets(r.list) /\ K!BucketsOf(r.list) = BucketsOf(r.list)
       /\ K!NextIndexes(r.list) = NextIndexes(r.list) /\ KBucket[r.to].done = FALSE
       /\ (K!HasRoom(r.to) <=> HasRoom(r.to)) /\ K!Buckets = buckets /\ K!Tasks = Tasks
  BY <1>1, <1>4, KBucketsAre, KTasks, KRoom, KSees
<1> HIDE DEF r, t, i
<1>14. K!UpdateTask(t, r.list, asked, FALSE, FALSE, FALSE)
  <2>1. r.to \in (IF r.list # KTask[t].list THEN K!DefaultBuckets(r.list) ELSE {asked} \intersect K!BucketsOf(r.list))
    BY <1>1, <1>11, <1>12, <1>13
  <2>2. r.list = KTask[t].list => asked # 0
    BY <1>2, <1>12
  <2>3. asked # 0 /\ asked # KTask[t].bucket => K!HasRoom(r.to)
    BY <1>3, <1>12, <1>13
  <2>4. i \in (IF r.list = KTask[t].list THEN {KTask[t].index} ELSE K!NextIndexes(r.list))
    BY <1>10, <1>12, <1>13
  <2> HIDE DEF asked
  <2> QED BY <1>1, <1>5, <1>8, <1>9, <1>10, <1>12, <1>13, <2>1, <2>2, <2>3, <2>4, KUpdate
<1>15. asked \in K!Buckets \union {0} /\ t \in K!Tasks
  BY <1>1, <1>13
<1> QED BY <1>1, <1>14, <1>15 DEF K!TaskNext

(* Task.Delete, and the deletions that List.Delete begins with and goes on with. *)
LEMMA DeleteSeen ==
    ASSUME SoloInv, SoloInv', Solo \in Workers, NEW t \in Tasks, DeleteTask(Solo, t)
    PROVE  K!TaskNext
<1>1. K!DeleteTask(t) <=>
        /\ t \in K!Tasks /\ KTask[t].list \in lists
        /\ KTask' = K!Restrict(KTask, K!Tasks \ {t})
        /\ UNCHANGED <<lists, KBucket, MaxList + 1, Cardinality(DOMAIN HomeOf) + 1, nextTask>>
  BY DEF K!DeleteTask, KTask, KBucket, Row
<1>2. req' = req /\ req[Solo].pc = "idle" /\ UNCHANGED <<lists, buckets, nextTask>>
  BY DEF DeleteTask, AtRest
<1>3. (\A u \in Tasks : task[u].list \in lists) /\ (\A u \in Tasks' : task'[u].list \in lists')
  BY <1>2 DEF SoloInv, SoloHolds
<1>4. Tasks' = Tasks \ {t} /\ \A u \in Tasks' : task'[u] = task[u]
  BY DEF DeleteTask, Tasks, Restrict
<1>5. KTask' = [u \in Tasks \ {t} |-> KTask[u]]
  <2>1. KTask = [u \in Tasks |-> Row(task[u].list, task[u].bucket, task[u].index)]
    BY <1>3 DEF KTask
  <2> QED BY <1>3, <1>4, <2>1, NextKTask
<1>6. K!Tasks = Tasks /\ t \in K!Tasks /\ KTask[t].list \in lists
  BY <1>3, KTasks, KSees
<1>7. KTask' = K!Restrict(KTask, K!Tasks \ {t})
  BY <1>5, <1>6 DEF K!Restrict
<1>8. KBucket' = KBucket
  BY <1>2, KBuckets, NextKBuckets DEF KBucket
<1>9. K!DeleteTask(t)
  BY <1>1, <1>2, <1>6, <1>7, <1>8
<1> QED BY <1>6, <1>9 DEF K!TaskNext

LEMMA DropListSeen ==
    ASSUME SoloInv, SoloInv', Solo \in Workers, NEW l \in lists, DropList(Solo, l)
    PROVE  K!ListNext
<1>1. K!DeleteList(l) <=>
        /\ l \in lists /\ lists' = lists \ {l}
        /\ KTask' = K!Restrict(KTask, K!Tasks \ K!TasksOf(l))
        /\ UNCHANGED <<KBucket, MaxList + 1, Cardinality(DOMAIN HomeOf) + 1, nextTask>>
  BY DEF K!DeleteList, KTask, KBucket, Row
<1>2. /\ lists' = lists \ {l} /\ UNCHANGED <<buckets, task, nextTask>>
      /\ req[Solo].pc = "idle" /\ req'[Solo].pc = "collect"
  BY DEF DropList, AtRest, SoloInv, IInv, TypeOK, Idle
<1>3. \A u \in Tasks : task[u].list \in lists
  BY <1>2 DEF SoloInv, SoloHolds
<1>4. KTask = [u \in Tasks |-> Row(task[u].list, task[u].bucket, task[u].index)]
  BY <1>3 DEF KTask
<1>5. KTask' = [u \in {u \in Tasks : task[u].list \in lists \ {l}} |-> Row(task[u].list, task[u].bucket, task[u].index)]
  BY <1>2 DEF KTask, Tasks
<1>6. Tasks \ TasksOf(l) = {u \in Tasks : task[u].list \in lists \ {l}}
  BY <1>3 DEF TasksOf
<1>7. K!Tasks \ K!TasksOf(l) = Tasks \ TasksOf(l)
  BY <1>3, KTasks, KSees
<1>8. KTask' = K!Restrict(KTask, K!Tasks \ K!TasksOf(l))
  BY <1>4, <1>5, <1>6, <1>7 DEF K!Restrict
<1>9. KBucket' = KBucket
  BY <1>2, KBuckets, NextKBuckets DEF KBucket
<1>10. K!DeleteList(l)
  BY <1>1, <1>2, <1>8, <1>9
<1> QED BY <1>10 DEF K!ListNext

LEMMA DropNextUnseen ==
    ASSUME SoloInv, SoloInv', Solo \in Workers, DropNextTask(Solo)
    PROVE  UNCHANGED K!vars
<1> DEFINE r == req[Solo]
<1>1. r.pc = "tasks" /\ UNCHANGED <<lists, buckets, nextTask>> /\ req'[Solo].pc \in {"tasks", "idle"}
  <2>1. req \in [Workers -> Request]
    BY DEF SoloInv, IInv, TypeOK
  <2>2. r.pc = "tasks" /\ UNCHANGED <<lists, buckets, nextTask>>
    BY DEF DropNextTask
  <2>3. CASE r.left = {}
    BY <2>1, <2>2, <2>3, IdleIsRequest DEF DropNextTask
  <2>4. CASE r.left # {}
    <3>1. PICK d \in r.left : req' = [req EXCEPT ![Solo].left = @ \ {d}]
      BY <2>4 DEF DropNextTask
    <3>2. req'[Solo] = [req[Solo] EXCEPT !.left = @ \ {d}]
      BY <2>1, <3>1
    <3> QED BY <2>1, <2>2, <3>2 DEF Request
  <2> QED BY <2>2, <2>3, <2>4
<1>2. \A t \in Tasks : task[t].list \notin lists <=> t \in r.left
  BY <1>1 DEF SoloInv, SoloHolds, SoloDropsList
<1>3. KBucket' = KBucket
  BY <1>1, KBuckets, NextKBuckets DEF KBucket
<1>4. KTask' = KTask
  <2>1. CASE r.left = {}
    BY <1>1, <2>1 DEF DropNextTask, KTask, Tasks
  <2>2. CASE r.left # {}
    <3>1. PICK d \in r.left : task' = Restrict(task, Tasks \ {d})
      BY <2>2 DEF DropNextTask
    <3>2. Tasks' = Tasks \ {d} /\ \A u \in Tasks' : task'[u] = task[u]
      BY <3>1 DEF Restrict, Tasks
    <3>3. {u \in Tasks' : task'[u].list \in lists'} = {u \in Tasks : task[u].list \in lists}
      BY <1>1, <1>2, <3>1, <3>2
    <3> QED BY <3>2, <3>3 DEF KTask
  <2> QED BY <2>1, <2>2
<1> QED BY <1>1, <1>3, <1>4 DEF K!vars, KTask, KBucket, Row

(* A row of Kanban.tla moved to another bucket. *)
LEMMA RowMoves ==
    ASSUME NEW l, NEW x, NEW y, NEW i
    PROVE  [Row(l, x, i) EXCEPT !.bucket = y] = Row(l, y, i) /\ Row(l, x, i).bucket = x
<1>1. [Row(l, x, i) EXCEPT !.bucket = y] = Row(l, y, i)
  <2>1. PICK no : no = FALSE
    OBVIOUS
  <2>2. \A b : Row(l, b, i) = [list |-> l, bucket |-> b, done |-> no, index |-> i, after |-> no, month |-> no]
    BY <2>1, Zenon DEF Row
  <2> HIDE DEF Row
  <2> QED BY <2>2
<1>2. Row(l, x, i).bucket = x
  BY DEF Row
<1> QED BY <1>1, <1>2

(* The last statement of Bucket.Delete is the whole request: only now the bucket is *)
(* gone for Kanban.tla.                                                             *)
LEMMA RehomeSeen ==
    ASSUME SoloInv, SoloInv', Solo \in Workers, Rehome(Solo)
    PROVE  K!BucketNext
<1>16. PICK l, b, to : l = req[Solo].list /\ b = req[Solo].from /\ to = req[Solo].to
  OBVIOUS
<1> DEFINE r == req[Solo]
<1>1. r.pc = "rehome" /\ SoloDropsBucket(r) /\ UNCHANGED <<lists, buckets, nextTask>> /\ req'[Solo].pc = "idle"
      /\ \A t \in Tasks : task[t].list \in lists
  BY IdleIsRequest DEF Rehome, SoloInv, SoloHolds, IInv, TypeOK
<1>2. /\ l \in lists /\ b \in DOMAIN HomeOf /\ HomeOf[b] = l /\ b \notin buckets
      /\ to \in DefaultBuckets(l) /\ Cardinality(BucketsOf(l) \union {b}) > 1
  BY <1>1, <1>16 DEF SoloDropsBucket
<1>3. KanbanBuckets = buckets \union {b} /\ KanbanBuckets' = buckets
  BY <1>1, <1>16, KBuckets, NextKBuckets
<1>4. /\ DOMAIN KBucket = buckets \union {b}
      /\ \A c \in buckets \union {b} : KBucket[c].list = HomeOf[c] /\ KBucket[c].pos = c
  BY <1>3 DEF KBucket
<1>5. K!BucketsOf(l) = BucketsOf(l) \union {b}
  BY <1>2, <1>4, KSees DEF BucketsOf
<1>6. K!DeleteBucket(l, b) <=>
        /\ K!Addressed(b, l)
        /\ K!Cardinality(K!BucketsOf(l)) > 1
        /\ KBucket' = K!Restrict(KBucket, K!Buckets \ {b})
        /\ \E d \in K!FirstByPosition(K!BucketsOf(l) \ {b}) :
             KTask' = [t \in K!Tasks |-> IF KTask[t].bucket = b THEN [KTask[t] EXCEPT !.bucket = d] ELSE KTask[t]]
        /\ UNCHANGED <<lists, MaxList + 1, Cardinality(DOMAIN HomeOf) + 1, nextTask>>
  BY DEF K!DeleteBucket, KTask, KBucket, Row
<1>7. K!Addressed(b, l)
  <2>1. K!Addressed(b, l) <=> b \in K!Buckets /\ KBucket[b].list \in lists /\ (TRUE => l = KBucket[b].list)
    BY DEF K!Addressed, KBucket
  <2> QED BY <1>2, <1>4, <2>1, KSees
<1>8. K!Cardinality(K!BucketsOf(l)) > 1
  BY <1>2, <1>5, KCounts
<1>9. KBucket' = K!Restrict(KBucket, K!Buckets \ {b})
  <2>1. KBucket' = [c \in buckets |-> [list |-> HomeOf[c], limit |-> LimitOf[c], done |-> FALSE, pos |-> c]]
    BY <1>3 DEF KBucket
  <2>2. KBucket = [c \in buckets \union {b} |-> [list |-> HomeOf[c], limit |-> LimitOf[c], done |-> FALSE, pos |-> c]]
    BY <1>3 DEF KBucket
  <2>3. K!Buckets \ {b} = buckets
    BY <1>2, <1>4, KSees
  <2> QED BY <2>1, <2>2, <2>3 DEF K!Restrict
<1>10. to \in K!FirstByPosition(K!BucketsOf(l) \ {b})
  <2>1. K!BucketsOf(l) \ {b} = BucketsOf(l) /\ BucketsOf(l) \subseteq buckets
    BY <1>2, <1>5 DEF BucketsOf
  <2>2. K!FirstByPosition(BucketsOf(l)) = {x \in BucketsOf(l) : \A y \in BucketsOf(l) : KBucket[x].pos <= KBucket[y].pos}
    BY DEF K!FirstByPosition, KBucket
  <2>3. \A x \in BucketsOf(l) : KBucket[x].pos = x
    BY <1>4, <2>1
  <2>4. to \in BucketsOf(l) /\ \A y \in BucketsOf(l) : to <= y
    BY <1>2 DEF DefaultBuckets
  <2> QED BY <2>1, <2>2, <2>3, <2>4
<1>11. KTask' = [t \in K!Tasks |-> IF KTask[t].bucket = b THEN [KTask[t] EXCEPT !.bucket = to] ELSE KTask[t]]
  <2>1. Tasks' = Tasks /\ \A t \in Tasks : task'[t] = IF task[t].bucket = b THEN [task[t] EXCEPT !.bucket = to] ELSE task[t]
    BY <1>16 DEF Rehome, Tasks
  <2>2. \A t \in Tasks : task[t] \in TaskRow
    BY DEF SoloInv, IInv, TypeOK
  <2>3. \A t \in Tasks : /\ task'[t].list = task[t].list /\ task'[t].index = task[t].index
                          /\ task'[t].bucket = IF task[t].bucket = b THEN to ELSE task[t].bucket
    BY <2>1, <2>2 DEF TaskRow
  <2>4. KTask = [t \in Tasks |-> Row(task[t].list, task[t].bucket, task[t].index)]
    BY <1>1 DEF KTask
  <2>5. \A t \in Tasks' : task'[t].list \in lists'
    BY <1>1, <2>1, <2>3
  <2>6. KTask' = [t \in Tasks |-> Row(task'[t].list, task'[t].bucket, task'[t].index)]
    BY <2>1, <2>5, NextKTask
  <2>7. K!Tasks = Tasks
    BY <1>1, KTasks, KSees
  <2>8. ASSUME NEW t \in Tasks
        PROVE  Row(task'[t].list, task'[t].bucket, task'[t].index)
               = IF KTask[t].bucket = b THEN [KTask[t] EXCEPT !.bucket = to] ELSE KTask[t]
    <3>1. KTask[t] = Row(task[t].list, task[t].bucket, task[t].index)
      BY <2>4
    <3> HIDE DEF Row, r
    <3>4. KTask[t].bucket = task[t].bucket
      BY <3>1, RowMoves
    <3>2. CASE task[t].bucket = b
      BY <2>3, <3>1, <3>2, <3>4, RowMoves
    <3>3. CASE task[t].bucket # b
      BY <2>3, <3>1, <3>3, <3>4
    <3> QED BY <3>2, <3>3
  <2> QED BY <2>6, <2>7, <2>8
<1>12. UNCHANGED <<lists, MaxList + 1, Cardinality(DOMAIN HomeOf) + 1, nextTask>>
  BY <1>1
<1> HIDE DEF r
<1>13. K!DeleteBucket(l, b)
  BY <1>6, <1>7, <1>8, <1>9, <1>10, <1>11, <1>12
<1>14. l \in K!UrlLists /\ b \in K!Buckets
  BY <1>2, <1>4, KSees, ConstantsAssumption DEF K!UrlLists, SoloInv, IInv, TypeOK
<1>15. \E urlList \in K!UrlLists, x \in K!Buckets : K!DeleteBucket(urlList, x)
  BY <1>13, <1>14
<1> QED BY <1>15 DEF K!BucketNext

LEMMA SoloStepSeen ==
    ASSUME SoloInv, Solo \in Workers, Step(Solo)
    PROVE  K!Next \/ UNCHANGED K!vars
<1>1. SoloInv'
  BY SoloStepKeeps
<1>2. TaskSteps(Solo) => K!Next \/ UNCHANGED K!vars
  BY <1>1, SoloUnseen, InsertSeen, WriteSeen, DeleteSeen DEF TaskSteps, K!Next
<1>3. BucketSteps(Solo) => K!Next \/ UNCHANGED K!vars
  BY <1>1, SoloUnseen, RehomeSeen DEF BucketSteps, K!Next
<1>4. ListSteps(Solo) => K!Next \/ UNCHANGED K!vars
  BY <1>1, SoloUnseen, DropListSeen, DropNextUnseen DEF ListSteps, K!Next
<1> QED BY <1>2, <1>3, <1>4 DEF Step

(* Whatever the tables begin with: the statements of a worker that serves alone are *)
(* whole requests of Kanban.tla, or are not seen there.                             *)
THEOREM AloneRunsAsKanban == RacesSpec => RunsAsKanban
<1> DEFINE AloneInv == alone /\ Solo \in Workers => SoloInv
<1>1. RacesInit => AloneInv
  BY SoloInit DEF RacesInit
<1>2. AloneInv /\ [RacesNext]_<<alone, vars>> => AloneInv'
  <2> SUFFICES ASSUME AloneInv, [RacesNext]_<<alone, vars>>, alone', Solo \in Workers
               PROVE  SoloInv'
    OBVIOUS
  <2>1. CASE RacesNext
    <3>1. alone /\ SoloInv /\ Step(Solo)
      BY <2>1 DEF RacesNext
    <3> QED BY <3>1, SoloStepKeeps
  <2>2. CASE UNCHANGED <<alone, vars>>
    BY <2>2, NextKeepsIInv DEF vars, SoloInv, SoloHolds, SoloWriting, SoloDropsBucket, SoloDropsList, Tasks,
       TasksIn, TasksOf, BucketsOf, DefaultBuckets, HasRoom, NextIndexes
  <2> QED BY <2>1, <2>2
<1>3. AloneInv /\ [RacesNext]_<<alone, vars>> => [alone => K!Next]_(K!vars)
  <2> SUFFICES ASSUME AloneInv, [RacesNext]_<<alone, vars>>, alone
               PROVE  K!Next \/ UNCHANGED K!vars
    OBVIOUS
  <2>1. CASE RacesNext
    <3>1. SoloInv /\ Step(Solo) /\ Solo \in Workers
      BY <2>1 DEF RacesNext
    <3> QED BY <3>1, SoloStepSeen
  <2>2. CASE UNCHANGED <<alone, vars>>
    <3>1. UNCHANGED <<lists, buckets, task, nextTask, req>>
      BY <2>2 DEF vars
    <3>2. KanbanBuckets' = KanbanBuckets
      BY <3>1 DEF KanbanBuckets, Deleting
    <3> QED BY <3>1, <3>2, Unseen
  <2> QED BY <2>1, <2>2
<1> QED BY <1>1, <1>2, <1>3, PTL DEF RacesSpec, RunsAsKanban


=============================================================================
