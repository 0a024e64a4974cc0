---------------------------- MODULE Tasks_proofs ----------------------------
(***************************************************************************)
(* What is proved of TaskRelations: that every relation is in the table    *)
(* once for each direction, whatever requests overlap, as long as clients  *)
(* delete only relations of a kind that is its own inverse.                *)
(*                                                                         *)
(* And of TaskRepeat, whatever the width of a duration, the months and the *)
(* dates of the task: that only a repeat_after which overflows makes a     *)
(* request hang, that no repeat is skipped, and what repeating keeps of    *)
(* the dates.  The loop over the dates and the starts of the months are    *)
(* functions defined by themselves.  What is said of them is shown of the  *)
(* least number for which it would not hold (FirstOf).                     *)
(***************************************************************************)
EXTENDS TaskRelations, TaskRepeat, FiniteSetTheorems, TLAPS

-----------------------------------------------------------------------------
(* Relations *)

(* The kinds are closed under their inverse, which is an involution. *)
LEMMA InverseKindInvolution ==
    \A k \in Kinds : InverseKind[k] \in Kinds /\ InverseKind[InverseKind[k]] = k
BY RelationsAssumption DEF InverseKind, AllKinds

(* The row of the other direction is a row, whose other direction is the first. *)
LEMMA FlipInvolution ==
    ASSUME NEW r \in Relation
    PROVE  /\ Flip(r) \in Relation /\ Flip(Flip(r)) = r
           /\ Flip(r).task = r.other /\ Flip(r).other = r.task
           /\ Flip(r).kind = InverseKind[r.kind]
<1>1. Flip(r) \in Relation
  BY InverseKindInvolution DEF Flip, Relation
<1>2. Flip(Flip(r)) = [task |-> r.task, other |-> r.other, kind |-> InverseKind[InverseKind[r.kind]]]
  BY DEF Flip
<1>3. InverseKind[InverseKind[r.kind]] = r.kind
  BY InverseKindInvolution DEF Relation
<1>4. Flip(Flip(r)) = r
  BY <1>2, <1>3 DEF Relation
<1> QED BY <1>1, <1>4 DEF Flip

LEMMA InitRelationsTypeOK == RelationsInit => RelationsTypeOK
BY DEF RelationsInit, RelationsTypeOK

(* Rows are only counted, so only the copies of duplicateTasks need a look: the *)
(* rows they are counted from are rows.                                         *)
LEMMA CopiedRow ==
    ASSUME NEW ts \in SUBSET tasks, tasks \subseteq 1..MaxTask, NEW copies,
           NEW old \in Bijection(copies, ts), NEW r \in Relation,
           r.task \in copies, r.other \in copies
    PROVE  /\ Source(old, r) \in Relation
           /\ Flip(Source(old, r)) = Source(old, Flip(r))
<1>1. old[r.task] \in 1..MaxTask /\ old[r.other] \in 1..MaxTask
  BY DEF Bijection, Injection, Surjection, IsInjective
<1>2. Source(old, r) \in Relation
  BY <1>1 DEF Relation, Source
<1>3. Flip(r).task = r.other /\ Flip(r).other = r.task /\ Flip(r).kind = InverseKind[r.kind]
  BY DEF Flip
<1>4. Flip(Source(old, r)) = [task |-> old[r.other], other |-> old[r.task],
                             kind |-> InverseKind[r.kind]]
  BY DEF Flip, Source
<1> QED BY <1>2, <1>3, <1>4 DEF Source

-----------------------------------------------------------------------------
(* Ids within the bound, besides RelationsTypeOK. *)
RelationsTInv == RelationsTypeOK /\ tasks \subseteq 1..MaxTask

LEMMA InitRelationsTInv == RelationsInit => RelationsTInv
BY InitRelationsTypeOK DEF RelationsTInv, RelationsInit

LEMMA NextKeepsRelationsTInv == RelationsTInv /\ [RelationsNext]_relationVars => RelationsTInv'
<1> SUFFICES ASSUME RelationsTInv, [RelationsNext]_relationVars PROVE RelationsTInv'
  OBVIOUS
<1> USE RelationsAssumption
<1>1. ASSUME NEW c \in Clients, CreateTask(c)
      PROVE  RelationsTInv'
  BY <1>1 DEF RelationsTInv, RelationsTypeOK, CreateTask
<1>2. ASSUME NEW c \in Clients, NEW t \in tasks, DeleteTask(c, t)
      PROVE  RelationsTInv'
  BY <1>2 DEF RelationsTInv, RelationsTypeOK, DeleteTask
<1>3. ASSUME NEW c \in Clients, NEW r \in Relation, CheckRelation(c, r)
      PROVE  RelationsTInv'
  BY <1>3 DEF RelationsTInv, RelationsTypeOK, CheckRelation
<1>4. ASSUME NEW c \in Clients, NEW r \in Relation, InsertRelation(c, r)
      PROVE  RelationsTInv'
  BY <1>4 DEF RelationsTInv, RelationsTypeOK, InsertRelation
<1>5. ASSUME NEW c \in Clients, NEW r \in Relation, DeleteRelation(c, r)
      PROVE  RelationsTInv'
  BY <1>5 DEF RelationsTInv, RelationsTypeOK, DeleteRelation
<1>6. ASSUME NEW c \in Clients, NEW ts \in SUBSET tasks, DuplicateList(c, ts)
      PROVE  RelationsTInv'
  <2> DEFINE n == Cardinality(ts)
             copies == nextTask..(nextTask + n - 1)
  <2>1. n \in Nat
    <3>1. IsFiniteSet(1..MaxTask)
      BY FS_Interval
    <3> QED BY <3>1, FS_Subset, FS_CardinalityType DEF RelationsTInv
  <2>2. PICK old \in Bijection(copies, ts) :
          /\ tasks' = tasks \union copies
          /\ rows' = [r \in Relation |->
                IF r.task \in copies /\ r.other \in copies
                THEN rows[Source(old, r)]
                ELSE rows[r]]
    BY <1>6 DEF DuplicateList
  <2>3. nextTask' = nextTask + n /\ nextTask + n - 1 <= MaxTask /\ UNCHANGED pending
    BY <1>6 DEF DuplicateList
  <2>4. rows' \in [Relation -> Nat]
    <3>1. ASSUME NEW r \in Relation, r.task \in copies, r.other \in copies
          PROVE  rows[Source(old, r)] \in Nat
      <4> HIDE DEF copies
      <4>1. Source(old, r) \in Relation
        BY <3>1, CopiedRow DEF RelationsTInv
      <4> QED BY <4>1 DEF RelationsTInv, RelationsTypeOK
    <3> QED BY <2>2, <3>1 DEF RelationsTInv, RelationsTypeOK
  <2> HIDE DEF n
  <2>5. tasks' \subseteq 1..(nextTask' - 1) /\ tasks' \subseteq 1..MaxTask /\ nextTask' \in Nat \ {0}
    <3>1. nextTask \in Nat \ {0} /\ tasks \subseteq 1..(nextTask - 1) /\ tasks \subseteq 1..MaxTask
      BY DEF RelationsTInv, RelationsTypeOK
    <3>2. copies \subseteq 1..(nextTask' - 1) /\ copies \subseteq 1..MaxTask
      BY <2>1, <2>3, <3>1
    <3>3. 1..(nextTask - 1) \subseteq 1..(nextTask' - 1)
      BY <2>1, <2>3, <3>1
    <3> HIDE DEF copies
    <3> QED BY <2>1, <2>2, <2>3, <3>1, <3>2, <3>3
  <2> QED BY <2>3, <2>4, <2>5 DEF RelationsTInv, RelationsTypeOK
<1>7. CASE UNCHANGED relationVars
  BY <1>7 DEF RelationsTInv, RelationsTypeOK, relationVars
<1> QED BY <1>1, <1>2, <1>3, <1>4, <1>5, <1>6, <1>7 DEF RelationsNext

(* The table stays well formed, for every set of clients and kinds. *)
THEOREM RelationsTypeCorrect == RelationsSpec => []RelationsTypeOK
<1>1. RelationsSpec => []RelationsTInv
  BY InitRelationsTInv, NextKeepsRelationsTInv, PTL DEF RelationsSpec
<1>2. RelationsTInv => RelationsTypeOK
  BY DEF RelationsTInv
<1> QED BY <1>1, <1>2, PTL

-----------------------------------------------------------------------------
LEMMA NextKeepsBalanced ==
    ASSUME \A k \in Deletes : InverseKind[k] = k
    PROVE  RelationsTInv /\ Balanced /\ [RelationsNext]_relationVars => Balanced'
<1> SUFFICES ASSUME RelationsTInv, Balanced, [RelationsNext]_relationVars, NEW r \in Relation
             PROVE  rows'[r] = rows'[Flip(r)]
  BY DEF Balanced
<1>0. /\ Flip(r) \in Relation /\ Flip(Flip(r)) = r
      /\ Flip(r).task = r.other /\ Flip(r).other = r.task
      /\ rows[r] = rows[Flip(r)]
  BY FlipInvolution DEF Balanced
<1>1. ASSUME NEW c \in Clients, NEW t \in tasks, DeleteTask(c, t)
      PROVE  rows'[r] = rows'[Flip(r)]
  BY <1>0, <1>1 DEF DeleteTask
<1>2. ASSUME NEW c \in Clients, NEW q \in Relation, InsertRelation(c, q)
      PROVE  rows'[r] = rows'[Flip(r)]
  <2>1. r \in {q, Flip(q)} <=> Flip(r) \in {q, Flip(q)}
    BY <1>0, FlipInvolution
  <2> QED BY <1>0, <1>2, <2>1 DEF InsertRelation
<1>3. ASSUME NEW c \in Clients, NEW q \in Relation, DeleteRelation(c, q)
      PROVE  rows'[r] = rows'[Flip(r)]
  <2>1. Named(q) = {q, Flip(q)}
    BY <1>3 DEF Named, Flip, DeleteRelation
  <2>2. r \in Named(q) <=> Flip(r) \in Named(q)
    BY <1>0, <2>1, FlipInvolution
  <2> QED BY <1>0, <1>3, <2>2 DEF DeleteRelation
<1>4. ASSUME NEW c \in Clients, NEW ts \in SUBSET tasks, DuplicateList(c, ts)
      PROVE  rows'[r] = rows'[Flip(r)]
  <2> DEFINE copies == nextTask..(nextTask + Cardinality(ts) - 1)
  <2>1. PICK old \in Bijection(copies, ts) :
           rows' = [q \in Relation |->
                IF q.task \in copies /\ q.other \in copies
                THEN rows[Source(old, q)]
                ELSE rows[q]]
    BY <1>4 DEF DuplicateList
  <2> HIDE DEF copies
  <2>2. CASE r.task \in copies /\ r.other \in copies
    <3>1. Source(old, r) \in Relation /\ Flip(Source(old, r)) = Source(old, Flip(r))
      BY <2>2, CopiedRow DEF RelationsTInv
    <3>2. rows'[r] = rows[Source(old, r)] /\ rows'[Flip(r)] = rows[Source(old, Flip(r))]
      BY <1>0, <2>1, <2>2
    <3> QED BY <3>1, <3>2 DEF Balanced
  <2>3. CASE ~(r.task \in copies /\ r.other \in copies)
    BY <1>0, <2>1, <2>3
  <2> QED BY <2>2, <2>3
<1>5. CASE UNCHANGED rows
  BY <1>0, <1>5
<1> QED
  BY <1>1, <1>2, <1>3, <1>4, <1>5 DEF RelationsNext, relationVars, CreateTask, CheckRelation

(* If clients delete only relations of a kind that is its own inverse, every   *)
(* row has as many partners as copies, whatever requests overlap.              *)
THEOREM RelationsBalance ==
    ASSUME \A k \in Deletes : InverseKind[k] = k
    PROVE  RelationsSpec => []Balanced
<1>1. RelationsInit => Balanced
  BY FlipInvolution DEF RelationsInit, Balanced
<1>2. RelationsSpec => []RelationsTInv
  BY InitRelationsTInv, NextKeepsRelationsTInv, PTL DEF RelationsSpec
<1>3. RelationsTInv /\ Balanced /\ [RelationsNext]_relationVars => Balanced'
  BY NextKeepsBalanced
<1> QED BY <1>1, <1>2, <1>3, PTL DEF RelationsSpec

-----------------------------------------------------------------------------
(* One client *)

(* What its Create has checked is still so when it writes. *)
PendingSound ==
    /\ \A p, q \in pending : p = q
    /\ \A p \in pending : /\ p[2].task \in tasks /\ p[2].other \in tasks
                          /\ ~Present(p[2])

SoundInv == RelationsTInv /\ Balanced /\ NoDangling /\ NoneTwice /\ PendingSound

(* A client at rest, if there is no other, leaves nothing under way. *)
LEMMA NothingPending ==
    ASSUME \A c, d \in Clients : c = d, RelationsTypeOK, NEW c \in Clients, AtRest(c)
    PROVE  pending = {}
<1>1. \A p \in pending : p[1] \in Clients
  BY DEF RelationsTypeOK
<1> QED BY <1>1 DEF AtRest

LEMMA NextKeepsSound ==
    ASSUME \A c, d \in Clients : c = d, \A k \in Deletes : InverseKind[k] = k,
           SoundInv, [RelationsNext]_relationVars
    PROVE  NoDangling' /\ NoneTwice' /\ PendingSound'
<1> RelationsTypeOK /\ RelationsTInv /\ Balanced /\ NoDangling /\ NoneTwice /\ PendingSound
  BY DEF SoundInv, RelationsTInv
<1>1. ASSUME NEW c \in Clients, CreateTask(c)
      PROVE  NoDangling' /\ NoneTwice' /\ PendingSound'
  BY <1>1 DEF CreateTask, NoDangling, NoneTwice, PendingSound, Present
<1>2. ASSUME NEW c \in Clients, NEW t \in tasks, DeleteTask(c, t)
      PROVE  NoDangling' /\ NoneTwice' /\ PendingSound'
  <2>1. pending' = {}
    BY <1>2, NothingPending DEF DeleteTask
  <2>2. \A r \in Relation : rows'[r] = IF t \in {r.task, r.other} THEN 0 ELSE rows[r]
    BY <1>2 DEF DeleteTask
  <2>3. tasks' = tasks \ {t}
    BY <1>2 DEF DeleteTask
  <2> QED BY <2>1, <2>2, <2>3 DEF NoDangling, NoneTwice, PendingSound, Present
<1>3. ASSUME NEW c \in Clients, NEW r \in Relation, CheckRelation(c, r)
      PROVE  NoDangling' /\ NoneTwice' /\ PendingSound'
  <2>1. pending' = {<<c, r>>}
    BY <1>3, NothingPending DEF CheckRelation
  <2>2. UNCHANGED <<tasks, rows>> /\ r.task \in tasks /\ r.other \in tasks /\ ~Present(r)
    BY <1>3 DEF CheckRelation
  <2> QED BY <2>1, <2>2 DEF NoDangling, NoneTwice, PendingSound, Present
<1>4. ASSUME NEW c \in Clients, NEW r \in Relation, InsertRelation(c, r)
      PROVE  NoDangling' /\ NoneTwice' /\ PendingSound'
  <2>1. <<c, r>> \in pending /\ pending' = pending \ {<<c, r>>} /\ tasks' = tasks
    BY <1>4 DEF InsertRelation
  <2>2. pending' = {}
    BY <2>1 DEF PendingSound
  <2>3. r.task \in tasks /\ r.other \in tasks /\ rows[r] = 0
    BY <2>1 DEF PendingSound, Present, RelationsTypeOK
  <2>4. /\ Flip(r) \in Relation /\ rows[Flip(r)] = 0
        /\ Flip(r).task = r.other /\ Flip(r).other = r.task
    BY <2>3, FlipInvolution DEF Balanced
  <2>5. \A q \in Relation : rows'[q] = IF q \in {r, Flip(r)} THEN rows[q] + 1 ELSE rows[q]
    BY <1>4 DEF InsertRelation
  <2> QED BY <2>1, <2>2, <2>3, <2>4, <2>5 DEF NoDangling, NoneTwice, PendingSound, Present
<1>5. ASSUME NEW c \in Clients, NEW r \in Relation, DeleteRelation(c, r)
      PROVE  NoDangling' /\ NoneTwice' /\ PendingSound'
  <2>1. pending' = {} /\ tasks' = tasks
    BY <1>5, NothingPending DEF DeleteRelation
  <2>2. \A q \in Relation : rows'[q] = IF q \in Named(r) THEN 0 ELSE rows[q]
    BY <1>5 DEF DeleteRelation
  <2> QED BY <2>1, <2>2 DEF NoDangling, NoneTwice, PendingSound, Present
<1>6. ASSUME NEW c \in Clients, NEW ts \in SUBSET tasks, DuplicateList(c, ts)
      PROVE  NoDangling' /\ NoneTwice' /\ PendingSound'
  <2> DEFINE copies == nextTask..(nextTask + Cardinality(ts) - 1)
  <2>1. PICK old \in Bijection(copies, ts) :
           /\ tasks' = tasks \union copies
           /\ rows' = [q \in Relation |->
                IF q.task \in copies /\ q.other \in copies
                THEN rows[Source(old, q)]
                ELSE rows[q]]
    BY <1>6 DEF DuplicateList
  <2>2. pending' = {}
    BY <1>6, NothingPending DEF DuplicateList
  <2> HIDE DEF copies
  <2>3. \A q \in Relation : q.task \in copies /\ q.other \in copies => Source(old, q) \in Relation
    BY CopiedRow DEF RelationsTInv
  <2> QED BY <2>1, <2>2, <2>3 DEF NoDangling, NoneTwice, PendingSound, Present
<1>7. CASE UNCHANGED relationVars
  BY <1>7 DEF relationVars, NoDangling, NoneTwice, PendingSound, Present
<1> QED BY <1>1, <1>2, <1>3, <1>4, <1>5, <1>6, <1>7 DEF RelationsNext

(* Requests that come one after the other, and delete only relations of a kind that *)
(* is its own inverse, leave no relation to a task that is gone, and none twice. The *)
(* second needs that both rows are there: Create looks only for the one it is named  *)
(* by.                                                                              *)
THEOREM RowsStaySound ==
    ASSUME \A c, d \in Clients : c = d, \A k \in Deletes : InverseKind[k] = k
    PROVE  RelationsSpec => []RowsSound
<1>1. RelationsInit => SoundInv
  BY InitRelationsTInv, FlipInvolution DEF RelationsInit, SoundInv, Balanced, NoDangling, NoneTwice, PendingSound, Present
<1>2. SoundInv /\ [RelationsNext]_relationVars => SoundInv'
  BY NextKeepsRelationsTInv, NextKeepsBalanced, NextKeepsSound DEF SoundInv
<1>3. SoundInv => RowsSound
  BY DEF SoundInv, RowsSound, RelationsTInv
<1> QED BY <1>1, <1>2, <1>3, PTL DEF RelationsSpec

-----------------------------------------------------------------------------
(* Repeating *)

(* A row keeps its repeat_after, and a request that hangs has one too large. *)
IInv ==
    /\ {"after", "mode", "done"} \subseteq DOMAIN task
    /\ task.after \in Nat /\ task.mode \in Modes
    /\ SpinsOnlyOnOverflow

(* A duration that is in range is what it says. *)
LEMMA DurationInRange ==
    ASSUME NEW after \in Nat, after * SecondLen < HalfWidth
    PROVE  Duration(after) = after * SecondLen
<1> DEFINE x == after * SecondLen
<1>1. x \in Nat /\ HalfWidth \in Nat /\ x < HalfWidth
  BY ConstantsAssumption
<1>2. \A a, b \in Nat : a < b => a % b = a
  OBVIOUS
<1>3. x + HalfWidth \in Nat /\ 2 * HalfWidth \in Nat /\ x + HalfWidth < 2 * HalfWidth
  BY <1>1
<1>4. (x + HalfWidth) % (2 * HalfWidth) = x + HalfWidth
  BY <1>2, <1>3
<1> QED BY <1>1, <1>4 DEF Duration

(* So a loop ends, unless the repeat is too large: it leads forward. *)
LEMMA LoopsEndInRange ==
    ASSUME IInv, Repeats, task.mode # "month", InRange
    PROVE  LoopsEnd
<1>1. task.after \in Nat \ {0}
  BY DEF IInv, Repeats
<1>2. Duration(task.after) = task.after * SecondLen
  BY DurationInRange, <1>1 DEF InRange
<1>3. task.after * SecondLen > 0
  BY <1>1, ConstantsAssumption
<1> QED BY <1>2, <1>3 DEF LoopsEnd, LoopEnds

LEMMA InitInv == Init => IInv
<1> SUFFICES ASSUME Init PROVE IInv
  OBVIOUS
<1>1. PICK due, start, end \in Dates \union {NoDate}, reminders \in SUBSET Dates,
           after \in Afters, mode \in Modes :
         task = [due |-> due, start |-> start, end |-> end, reminders |-> reminders,
                 after |-> after, mode |-> mode, done |-> FALSE]
  BY DEF Init
<1>2. task.after = after /\ task.mode = mode /\ after \in Nat
  BY <1>1, ConstantsAssumption
<1> QED BY <1>1, <1>2 DEF Init, IInv, SpinsOnlyOnOverflow

(* No request changes repeat_after: it only moves the dates. *)
LEMMA MarkDoneKeeps == ASSUME IInv, MarkDone PROVE IInv'
<1>1. /\ {"after", "mode", "done"} \subseteq DOMAIN task'
      /\ task'.after = task.after /\ task'.mode = task.mode
  <2>1. CASE ~Repeats
    BY <2>1 DEF IInv, MarkDone
  <2>2. CASE Repeats
    <3>1. task' \in {SetDatesDefault, SetDatesMonth, SetDatesFromCurrent}
      BY <2>2 DEF MarkDone, IInv, Modes
    <3> QED BY <3>1 DEF IInv, SetDatesDefault, SetDatesMonth, SetDatesFromCurrent, MovedBy
  <2> QED BY <2>1, <2>2
<1>2. UNCHANGED spinning /\ ~spinning
  BY DEF MarkDone, Mark, IInv
<1> QED BY <1>1, <1>2 DEF IInv, SpinsOnlyOnOverflow

LEMMA SpinKeeps == ASSUME IInv, Spin PROVE IInv'
<1>1. ~InRange
  BY LoopsEndInRange DEF Spin
<1> QED BY <1>1 DEF Spin, Mark, IInv, SpinsOnlyOnOverflow, InRange

LEMMA NextInv == ASSUME IInv, [Next]_vars PROVE IInv'
<1>1. CASE MarkDone BY <1>1, MarkDoneKeeps
<1>2. CASE Spin BY <1>2, SpinKeeps
<1>3. CASE MarkUndone
  BY <1>3 DEF MarkUndone, IInv, SpinsOnlyOnOverflow, InRange
<1>4. CASE Tick
  BY <1>4 DEF Tick, IInv, SpinsOnlyOnOverflow, InRange
<1>5. CASE UNCHANGED vars
  BY <1>5 DEF vars, IInv, SpinsOnlyOnOverflow, InRange
<1> QED BY <1>1, <1>2, <1>3, <1>4, <1>5 DEF Next

(* Marking a task as done only hangs if its repeat_after is more than a duration *)
(* can hold (setTaskDatesDefault).                                               *)
THEOREM OverflowOnly == Spec => []SpinsOnlyOnOverflow
<1>1. IInv => SpinsOnlyOnOverflow
  BY DEF IInv
<1> QED BY InitInv, NextInv, <1>1, PTL DEF Spec

-----------------------------------------------------------------------------
(* Induction.  The loop of setTaskDatesDefault and the starts of the months are *)
(* functions that are defined by themselves; what they are follows from the     *)
(* first number of which it would be false.                                     *)
LEMMA FirstOf ==
    ASSUME NEW S, S \subseteq Nat, S # {}
    PROVE  \E n \in S : \A m \in S : n <= m
<1> DEFINE R == OpToRel(<, Nat)
<1>1. IsWellFoundedOn(R, Nat)
  BY NatLessThanWellFounded, Zenon
<1>2. \A m, n \in Nat : m < n => <<m, n>> \in R
  BY DEF OpToRel
<1> HIDE DEF R
<1>3. PICK n \in S : \A m \in S : <<m, n>> \notin R
  BY <1>1, WFMin
<1>4. \A m \in S : n \in Nat /\ m \in Nat /\ ~(m < n)
  BY <1>2, <1>3
<1> QED BY <1>4

-----------------------------------------------------------------------------
(* The loop that adds the interval until the date is in the future. *)
Adds(f, dur) == f = [x \in Int |-> IF x > now THEN x ELSE f[x + dur]]

LEMMA MovedOnAdds ==
    ASSUME NEW d, NEW dur
    PROVE  MovedOn(d, dur) = (CHOOSE f : Adds(f, dur))[d + dur]
BY DEF MovedOn, Adds

LEMMA Quotient ==
    ASSUME NEW n \in Int, NEW m \in Nat \ {0}
    PROVE  /\ n \div m \in Int
           /\ n - m \in Int /\ (n - m) \div m = (n \div m) - 1
           /\ 0 <= n /\ n < m => n \div m = 0
<1>1. n \div m \in Int /\ m * (n \div m) <= n /\ n < m * (n \div m) + m
  OBVIOUS
<1> DEFINE q == n \div m
           p == (n - m) \div m
<1>2. p \in Int /\ m * p <= n - m /\ n - m < m * p + m
  OBVIOUS
<1>3. q \in Int /\ m * q <= n /\ n < m * q + m
  BY <1>1
<1> HIDE DEF q, p
<1>4. m * (p + 1) <= n /\ n < m * (p + 1) + m
  BY <1>2
<1>5. q = p + 1
  <2>1. m * q - m * (p + 1) < m /\ m * (p + 1) - m * q < m
    BY <1>2, <1>3, <1>4
  <2>2. m * (q - (p + 1)) < m /\ m * ((p + 1) - q) < m
    BY <1>2, <1>3, <2>1
  <2>3. \A z \in Int : m * z < m => z < 1
    OBVIOUS
  <2>4. q - (p + 1) < 1 /\ (p + 1) - q < 1
    BY <1>2, <1>3, <2>2, <2>3
  <2> QED BY <1>2, <1>3, <2>4
<1>6. 0 <= n /\ n < m => n \div m = 0
  OBVIOUS
<1> QED BY <1>1, <1>2, <1>5, <1>6 DEF p, q

(* There is such a function, whatever the interval. *)
LEMMA AddsExists ==
    ASSUME now \in Int, NEW dur \in Int
    PROVE  \E f : Adds(f, dur)
<1>1. CASE dur <= 0
  <2> DEFINE f == [x \in Int |-> IF x > now THEN x ELSE 0]
  <2>1. \A x \in Int : f[x] = IF x > now THEN x ELSE f[x + dur]
    BY <1>1
  <2>2. f = [x \in Int |-> IF x > now THEN x ELSE f[x + dur]]
    BY <2>1
  <2> QED BY <2>2 DEF Adds
<1>2. CASE dur > 0
  <2> DEFINE times(x) == (now - x) \div dur + 1
             f == [x \in Int |-> IF x > now THEN x ELSE x + times(x) * dur]
  <2>1. ASSUME NEW x \in Int, x <= now
        PROVE  f[x] = f[x + dur]
    <3>1. dur \in Nat \ {0} /\ now - x \in Int /\ now - (x + dur) = (now - x) - dur
      BY <1>2
    <3>2. times(x) \in Int /\ times(x + dur) = times(x) - 1
      <4>1. /\ (now - x) \div dur \in Int
            /\ ((now - x) - dur) \div dur = ((now - x) \div dur) - 1
        BY <3>1, Quotient
      <4>2. (now - (x + dur)) \div dur = ((now - x) - dur) \div dur
        BY <3>1
      <4> QED BY <4>1, <4>2
    <3>3. CASE x + dur > now
      <4>1. times(x) = 1
        BY <2>1, <3>1, <3>3, Quotient
      <4> HIDE DEF times
      <4> QED BY <1>2, <2>1, <3>3, <4>1
    <3>4. CASE x + dur <= now
      <4> HIDE DEF times
      <4>1. x + dur + (times(x) - 1) * dur = x + times(x) * dur
        BY <3>2
      <4> QED BY <2>1, <3>2, <3>4, <4>1
    <3> QED BY <3>3, <3>4
  <2>2. f = [x \in Int |-> IF x > now THEN x ELSE f[x + dur]]
    BY <2>1
  <2> QED BY <2>2 DEF Adds
<1> QED BY <1>1, <1>2

(* It leads by whole intervals to the first date in the future. *)
LEMMA AddsLeads ==
    ASSUME now \in Int, NEW dur \in Nat \ {0}, NEW f, Adds(f, dur), NEW d \in Int, d <= now
    PROVE  \E k \in Nat \ {0} : f[d] = d + k * dur /\ f[d] > now /\ d + (k - 1) * dur <= now
<1> DEFINE Leads(x) == \E k \in Nat \ {0} : f[x] = x + k * dur /\ f[x] > now /\ x + (k - 1) * dur <= now
           Wrong == {n \in Nat : ~Leads(now - n)}
<1>1. \A x \in Int : f[x] = IF x > now THEN x ELSE f[x + dur]
  BY DEF Adds
<1>2. ASSUME Wrong # {} PROVE FALSE
  <2>1. PICK n \in Wrong : \A m \in Wrong : n <= m
    BY <1>2, FirstOf
  <2> DEFINE x == now - n
  <2>2. x \in Int /\ x <= now /\ ~Leads(x) /\ n \in Nat
    BY <2>1
  <2>3. f[x] = f[x + dur]
    BY <1>1, <2>2
  <2>4. CASE x + dur > now
    <3>1. f[x] = x + 1 * dur /\ f[x] > now /\ x + (1 - 1) * dur <= now
      BY <1>1, <2>2, <2>3, <2>4
    <3>2. Leads(x)
      BY <3>1
    <3> QED BY <2>2, <3>2
  <2>5. CASE x + dur <= now
    <3>1. n - dur \in Nat /\ n - dur < n /\ now - (n - dur) = x + dur
      BY <2>2, <2>5
    <3>2. Leads(x + dur)
      <4>1. n - dur \notin Wrong
        <5> HIDE DEF Wrong
        <5> QED BY <2>1, <2>2, <3>1
      <4>2. Leads(now - (n - dur))
        BY <3>1, <4>1
      <4> QED BY <3>1, <4>2
    <3>3. PICK k \in Nat \ {0} : /\ f[x + dur] = x + dur + k * dur
                                 /\ f[x + dur] > now /\ x + dur + (k - 1) * dur <= now
      BY <3>2
    <3>4. /\ x + dur + k * dur = x + (k + 1) * dur
          /\ x + dur + (k - 1) * dur = x + (k + 1 - 1) * dur /\ k + 1 \in Nat \ {0}
      BY <2>2
    <3>5. Leads(x)
      BY <2>3, <3>3, <3>4
    <3> QED BY <2>2, <3>5
  <2> QED BY <2>2, <2>4, <2>5
<1>3. now - d \in Nat /\ now - (now - d) = d
  OBVIOUS
<1>4. Leads(d)
  BY <1>2, <1>3
<1> QED BY <1>4

(* So a date that the loop ends for goes to the first of its repeats that is in *)
(* the future, but on by one.                                                   *)
LEMMA MovedOnIsNext ==
    ASSUME now \in Int, NEW dur \in Int, NEW d \in Int, LoopEnds(d, dur)
    PROVE  /\ MovedOn(d, dur) \in Int /\ MovedOn(d, dur) > now
           /\ dur > 0 => \E k \in Nat \ {0} : /\ MovedOn(d, dur) = d + k * dur
                                              /\ k = 1 \/ d + (k - 1) * dur <= now
<1> DEFINE f == CHOOSE f : Adds(f, dur)
<1>1. Adds(f, dur)
  BY AddsExists
<1>2. MovedOn(d, dur) = f[d + dur]
  BY MovedOnAdds
<1> HIDE DEF f
<1>3. CASE d + dur > now
  <2>1. f[d + dur] = d + dur
    BY <1>1, <1>3 DEF Adds
  <2>2. d + dur = d + 1 * dur
    OBVIOUS
  <2> QED BY <1>2, <1>3, <2>1, <2>2
<1>4. CASE d + dur <= now
  <2>1. dur \in Nat \ {0}
    BY <1>4 DEF LoopEnds
  <2> DEFINE e == d + dur
  <2>2. e \in Int /\ e <= now
    BY <1>4
  <2> HIDE DEF e
  <2>3. PICK k \in Nat \ {0} : f[e] = e + k * dur /\ f[e] > now /\ e + (k - 1) * dur <= now
    BY <1>1, <2>1, <2>2, AddsLeads
  <2>4. /\ e + k * dur = d + (k + 1) * dur
        /\ e + (k - 1) * dur = d + (k + 1 - 1) * dur
        /\ k + 1 \in Nat \ {0} /\ e + k * dur \in Int
    BY <2>1 DEF e
  <2>5. MovedOn(d, dur) = f[e]
    BY <1>2 DEF e
  <2>6. \E j \in Nat \ {0} : f[e] = d + j * dur /\ d + (j - 1) * dur <= now
    <3>1. k + 1 \in Nat \ {0}
      BY <2>4
    <3> WITNESS k + 1 \in Nat \ {0}
    <3> QED BY <2>3, <2>4
  <2>7. f[e] \in Int /\ f[e] > now
    BY <2>3, <2>4
  <2> QED BY <2>5, <2>6, <2>7
<1> QED BY <1>3, <1>4

-----------------------------------------------------------------------------
(* The starts of the months: a function on the first n + 1 of them ... *)
Length(m) == MonthLen[m % Months]
Next1(f, m) == IF m = 0 THEN 0 ELSE f[m - 1] + Length(m - 1)
StartsTo(f, n) == f \in [0 .. n -> Nat] /\ \A m \in 0 .. n : f[m] = Next1(f, m)

LEMMA LengthType == \A m \in Nat : Length(m) \in Nat \ {0}
<1> SUFFICES ASSUME NEW m \in Nat PROVE Length(m) \in Nat \ {0}
  OBVIOUS
<1>1. m % Months \in 0 .. Months - 1
  BY ConstantsAssumption
<1> QED BY <1>1, ConstantsAssumption DEF Length

LEMMA StartsExist == \A n \in Nat : \E f : StartsTo(f, n)
<1> DEFINE Without == {n \in Nat : ~\E f : StartsTo(f, n)}
<1>1. ASSUME Without # {} PROVE FALSE
  <2>1. PICK n \in Without : \A m \in Without : n <= m
    BY <1>1, FirstOf
  <2>2. n \in Nat /\ ~\E f : StartsTo(f, n)
    OBVIOUS
  <2>3. CASE n = 0
    <3>1. StartsTo([m \in 0 .. n |-> 0], n)
      BY <2>3 DEF StartsTo, Next1
    <3> QED BY <2>2, <3>1
  <2>4. CASE n > 0
    <3>1. n - 1 \in Nat /\ n - 1 \notin Without
      <4> HIDE DEF Without
      <4> QED BY <2>1, <2>2, <2>4
    <3>2. PICK f : StartsTo(f, n - 1)
      BY <3>1
    <3> DEFINE g == [m \in 0 .. n |-> IF m = n THEN f[n - 1] + Length(n - 1) ELSE f[m]]
    <3>3. f[n - 1] \in Nat /\ Length(n - 1) \in Nat
      BY <3>1, <3>2, LengthType DEF StartsTo
    <3>4. g \in [0 .. n -> Nat]
      BY <2>2, <3>2, <3>3 DEF StartsTo
    <3>5. ASSUME NEW m \in 0 .. n PROVE g[m] = Next1(g, m)
      BY <2>2, <2>4, <3>2 DEF StartsTo, Next1
    <3>6. StartsTo(g, n)
      BY <3>4, <3>5 DEF StartsTo
    <3> QED BY <2>2, <3>6
  <2> QED BY <2>2, <2>3, <2>4
<1> QED BY <1>1

(* ... is the same as any other. *)
LEMMA StartsUnique ==
    ASSUME NEW n \in Nat, NEW k \in Nat, NEW f, NEW g, StartsTo(f, n), StartsTo(g, k),
           NEW m \in Nat, m <= n, m <= k
    PROVE  f[m] = g[m]
<1> DEFINE Differ == {j \in Nat : j <= n /\ j <= k /\ f[j] # g[j]}
<1>1. ASSUME Differ # {} PROVE FALSE
  <2>1. PICK j \in Differ : \A i \in Differ : j <= i
    BY <1>1, FirstOf
  <2>2. f[j] = Next1(f, j) /\ g[j] = Next1(g, j)
    BY DEF StartsTo
  <2>3. j # 0 => j - 1 \notin Differ
    <3> HIDE DEF Differ
    <3>1. j \in Nat
      BY <2>1 DEF Differ
    <3> QED BY <2>1, <3>1
  <2>4. Next1(f, j) = Next1(g, j)
    BY <2>3 DEF Next1
  <2> QED BY <2>2, <2>4
<1> QED BY <1>1

LEMMA MonthStarts ==
    /\ MonthStart \in [Nat -> Nat]
    /\ MonthStart[0] = 0
    /\ \A m \in Nat : MonthStart[m + 1] = MonthStart[m] + Length(m)
<1> DEFINE To(n) == CHOOSE f : StartsTo(f, n)
           F == [n \in Nat |-> To(n)[n]]
<1>1. \A n \in Nat : StartsTo(To(n), n)
  BY StartsExist
<1>2. F \in [Nat -> Nat]
  <2> SUFFICES ASSUME NEW n \in Nat PROVE To(n)[n] \in Nat
    OBVIOUS
  <2> HIDE DEF To
  <2> QED BY <1>1 DEF StartsTo
<1>3. ASSUME NEW n \in Nat PROVE F[n] = Next1(F, n)
  <2>1. To(n)[n] = Next1(To(n), n)
    <3> HIDE DEF To
    <3> QED BY <1>1 DEF StartsTo
  <2>2. CASE n = 0
    BY <2>1, <2>2 DEF Next1
  <2>3. CASE n # 0
    <3>1. n - 1 \in Nat /\ n - 1 <= n /\ StartsTo(To(n), n) /\ StartsTo(To(n - 1), n - 1)
      BY <1>1, <2>3
    <3> HIDE DEF To
    <3>2. To(n)[n - 1] = To(n - 1)[n - 1]
      BY <3>1, StartsUnique
    <3>3. F[n] = To(n)[n] /\ F[n - 1] = To(n - 1)[n - 1]
      BY <3>1
    <3> QED BY <2>1, <2>3, <3>2, <3>3 DEF Next1
  <2> QED BY <2>2, <2>3
<1>4. F = [n \in Nat |-> IF n = 0 THEN 0 ELSE F[n - 1] + MonthLen[(n - 1) % Months]]
  <2> HIDE DEF F
  <2> QED BY <1>2, <1>3 DEF Next1, Length
<1>5. MonthStart = CHOOSE f : f = [n \in Nat |-> IF n = 0 THEN 0 ELSE f[n - 1] + MonthLen[(n - 1) % Months]]
  BY DEF MonthStart
<1> HIDE DEF F
<1>6. MonthStart = [n \in Nat |-> IF n = 0 THEN 0 ELSE MonthStart[n - 1] + MonthLen[(n - 1) % Months]]
  BY <1>4, <1>5
<1>7. \A n \in Nat : MonthStart[n] = Next1(MonthStart, n)
  BY <1>6 DEF Next1, Length
<1> DEFINE NoStart == {n \in Nat : MonthStart[n] \notin Nat}
<1>8. ASSUME NoStart # {} PROVE FALSE
  <2>1. PICK n \in NoStart : \A m \in NoStart : n <= m
    BY <1>8, FirstOf
  <2>2. n \in Nat /\ MonthStart[n] \notin Nat
    OBVIOUS
  <2>3. n # 0 => n - 1 \in Nat /\ n - 1 \notin NoStart
    <3> HIDE DEF NoStart
    <3> QED BY <2>1, <2>2
  <2>4. n # 0 => MonthStart[n - 1] \in Nat /\ Length(n - 1) \in Nat
    BY <2>3, LengthType
  <2>5. MonthStart[n] \in Nat
    BY <1>7, <2>2, <2>4 DEF Next1
  <2> QED BY <2>2, <2>5
<1>9. MonthStart \in [Nat -> Nat]
  BY <1>6, <1>8
<1> QED
  BY <1>7, <1>9 DEF Next1

LEMMA MonthsGrow == \A n \in Nat : MonthStart[n] >= n /\ \A m \in 0 .. n - 1 : MonthStart[m] < MonthStart[n]
<1> DEFINE Grows(n) == MonthStart[n] >= n /\ \A m \in 0 .. n - 1 : MonthStart[m] < MonthStart[n]
           Wrong == {n \in Nat : ~Grows(n)}
<1>1. ASSUME Wrong # {} PROVE FALSE
  <2>1. PICK n \in Wrong : \A m \in Wrong : n <= m
    BY <1>1, FirstOf
  <2>2. n \in Nat /\ ~Grows(n)
    OBVIOUS
  <2>3. CASE n = 0
    BY <2>2, <2>3, MonthStarts
  <2>4. CASE n > 0
    <3>1. n - 1 \in Nat /\ n - 1 \notin Wrong
      <4> HIDE DEF Wrong
      <4> QED BY <2>1, <2>2, <2>4
    <3>2. Grows(n - 1)
      BY <3>1
    <3>3. MonthStart[n - 1] \in Nat /\ MonthStart[n] \in Nat /\ MonthStart[n] > MonthStart[n - 1]
      <4>1. MonthStart[(n - 1) + 1] = MonthStart[n - 1] + Length(n - 1)
        BY <3>1, MonthStarts
      <4>2. Length(n - 1) \in Nat \ {0} /\ (n - 1) + 1 = n /\ MonthStart[n - 1] \in Nat
        BY <2>2, <3>1, LengthType, MonthStarts
      <4> QED BY <4>1, <4>2
    <3>4. ASSUME NEW m \in 0 .. n - 1 PROVE MonthStart[m] < MonthStart[n]
      <4>1. m = n - 1 \/ m \in 0 .. (n - 1) - 1
        BY <2>2
      <4>2. MonthStart[m] \in Nat
        BY MonthStarts
      <4> QED BY <3>2, <3>3, <4>1, <4>2
    <3> QED BY <2>2, <3>2, <3>3, <3>4
  <2> QED BY <2>2, <2>3, <2>4
<1> QED BY <1>1

(* Every day is in one month. *)
LEMMA MonthOfDay ==
    ASSUME NEW d \in Nat
    PROVE  MonthOf(d) \in Nat /\ MonthStart[MonthOf(d)] <= d /\ d < MonthStart[MonthOf(d) + 1]
<1> DEFINE Later == {n \in Nat : d < MonthStart[n]}
<1>1. d + 1 \in Later
  BY MonthsGrow, MonthStarts
<1>2. PICK n \in Later : \A m \in Later : n <= m
  BY <1>1, FirstOf
<1>3. n \in Nat /\ d < MonthStart[n] /\ n # 0
  BY MonthStarts
<1>4. n - 1 \in Nat /\ n - 1 \notin Later
  <2> HIDE DEF Later
  <2> QED BY <1>2, <1>3
<1>5. MonthStart[n - 1] <= d /\ MonthStart[n - 1] >= n - 1 /\ (n - 1) + 1 = n
  BY <1>3, <1>4, MonthsGrow, MonthStarts
<1>6. n - 1 \in 0 .. d
  BY <1>4, <1>5, MonthStarts
<1> HIDE DEF Later
<1>7. \E m \in 0 .. d : MonthStart[m] <= d /\ d < MonthStart[m + 1]
  BY <1>3, <1>5, <1>6
<1> QED BY <1>7 DEF MonthOf

LEMMA MonthIs ==
    ASSUME NEW d \in Nat, NEW m \in Nat, MonthStart[m] <= d, d < MonthStart[m + 1]
    PROVE  MonthOf(d) = m
<1> DEFINE n == MonthOf(d)
<1>1. n \in Nat /\ MonthStart[n] <= d /\ d < MonthStart[n + 1]
  BY MonthOfDay
<1> HIDE DEF n
<1>2. /\ MonthStart[n] \in Nat /\ MonthStart[n + 1] \in Nat
      /\ MonthStart[m] \in Nat /\ MonthStart[m + 1] \in Nat
  BY <1>1, MonthStarts
<1>3. CASE n < m
  <2>1. n + 1 = m \/ n + 1 \in 0 .. m - 1
    BY <1>1, <1>3
  <2>2. MonthStart[n + 1] <= MonthStart[m]
    BY <1>2, <2>1, MonthsGrow
  <2> QED BY <1>1, <1>2, <2>2
<1>4. CASE m < n
  <2>1. m + 1 = n \/ m + 1 \in 0 .. n - 1
    BY <1>1, <1>4
  <2>2. MonthStart[m + 1] <= MonthStart[n]
    BY <1>1, <1>2, <2>1, MonthsGrow
  <2> QED BY <1>1, <1>2, <2>2
<1>5. CASE n = m
  BY <1>5 DEF n
<1> QED BY <1>1, <1>3, <1>4, <1>5

(* A month later is later, and a day that the month has stays the same in the next. *)
LEMMA OneMonthLater ==
    ASSUME NEW d \in Nat
    PROVE  AddOneMonth(d) \in Nat /\ AddOneMonth(d) >= d
<1> DEFINE n == MonthOf(d)
<1>1. n \in Nat /\ MonthStart[n] <= d
  BY MonthOfDay
<1> HIDE DEF n
<1>2. /\ MonthStart[n] \in Nat /\ MonthStart[n + 1] \in Nat /\ Length(n) \in Nat
      /\ MonthStart[n + 1] = MonthStart[n] + Length(n)
  BY <1>1, MonthStarts, LengthType
<1>3. AddOneMonth(d) = MonthStart[n + 1] + (d - MonthStart[n])
  BY DEF AddOneMonth, DayOf, n
<1> QED BY <1>1, <1>2, <1>3

LEMMA DayKept ==
    ASSUME NEW m \in Nat, NEW day \in Nat, day < Length(m)
    PROVE  AddOneMonth(MonthStart[m] + day) = MonthStart[m + 1] + day
<1> DEFINE d == MonthStart[m] + day
<1>1. MonthStart[m] \in Nat /\ MonthStart[m + 1] = MonthStart[m] + Length(m) /\ Length(m) \in Nat
  BY MonthStarts, LengthType
<1>2. d \in Nat /\ MonthStart[m] <= d /\ d < MonthStart[m + 1] /\ d - MonthStart[m] = day
  BY <1>1
<1> HIDE DEF d
<1>3. MonthOf(d) = m
  BY <1>2, MonthIs
<1>4. AddOneMonth(d) = MonthStart[m + 1] + day
  BY <1>2, <1>3 DEF AddOneMonth, DayOf
<1> QED BY <1>4 DEF d

-----------------------------------------------------------------------------
LEMMA LeastIs ==
    ASSUME NEW S, S \subseteq Int, NEW x \in S, \A y \in S : x <= y
    PROVE  Least(S) = x
<1>1. Least(S) \in S /\ \A y \in S : Least(S) <= y
  BY DEF Least
<1>2. Least(S) <= x /\ x <= Least(S) /\ x \in Int /\ Least(S) \in Int
  BY <1>1
<1> QED BY <1>2

LEMMA LeastExists ==
    ASSUME NEW S, S \subseteq Int, S # {}, NEW b \in Int, \A x \in S : b <= x
    PROVE  Least(S) \in S /\ \A x \in S : Least(S) <= x
<1> DEFINE Above == {n \in Nat : b + n \in S}
<1>1. Above # {}
  <2>1. PICK x \in S : TRUE
    OBVIOUS
  <2>2. x - b \in Nat /\ b + (x - b) = x
    BY <2>1
  <2> QED BY <2>1, <2>2
<1>2. PICK n \in Above : \A m \in Above : n <= m
  BY <1>1, FirstOf
<1>3. ASSUME NEW x \in S PROVE b + n <= x
  <2>1. x - b \in Nat /\ b + (x - b) = x
    OBVIOUS
  <2>2. n <= x - b
    BY <1>2, <2>1
  <2> QED BY <1>2, <2>1, <2>2
<1>4. \E x \in S : \A y \in S : x <= y
  BY <1>2, <1>3
<1> QED BY <1>4 DEF Least

(* The image of a finite set is no larger. *)
LEMMA ImageSmaller ==
    ASSUME NEW S, NEW T, NEW f, IsFiniteSet(S), f \in [S -> T], T = {f[x] : x \in S}
    PROVE  IsFiniteSet(T) /\ Cardinality(T) <= Cardinality(S)
<1>1. f \in Surjection(S, T)
  BY DEF Surjection
<1> QED BY <1>1, FS_Surjection

LEMMA DurationType ==
    ASSUME NEW after \in Nat
    PROVE  Duration(after) \in -HalfWidth .. HalfWidth - 1
<1> DEFINE x == after * SecondLen + HalfWidth
<1>1. x \in Int /\ HalfWidth \in Nat \ {0}
  BY ConstantsAssumption
<1> HIDE DEF x
<1>2. x % (2 * HalfWidth) \in 0 .. 2 * HalfWidth - 1
  BY <1>1
<1>3. Duration(after) = (x % (2 * HalfWidth)) - HalfWidth
  BY DEF Duration, x
<1> QED BY <1>1, <1>2, <1>3

-----------------------------------------------------------------------------
(* What the three functions make of a row. *)
TaskRow == [due : Int, start : Int, end : Int, reminders : SUBSET Int,
            after : Afters, mode : Modes, done : BOOLEAN]

RowWith(due, start, end, reminders) ==
    [due |-> due, start |-> start, end |-> end, reminders |-> reminders,
     after |-> task.after, mode |-> task.mode, done |-> task.done]

Stepped(f) == IF IsSet(f) THEN MovedOn(task[f], Duration(task.after)) ELSE task[f]
NextMonth(f) == IF IsSet(f) THEN AddOneMonth(task[f]) ELSE task[f]
FromNow(f) == IF IsSet(f) THEN CurrentDate(f, now + Duration(task.after)) ELSE NoDate

LEMMA RowExcept ==
    ASSUME task \in TaskRow, NEW due, NEW start, NEW end, NEW reminders, NEW row,
           row = [task EXCEPT !.due = due, !.start = start, !.end = end, !.reminders = reminders]
    PROVE  row = RowWith(due, start, end, reminders)
<1>1. row = [f \in {"due", "start", "end", "reminders", "after", "mode", "done"} |-> row[f]]
  BY Zenon DEF TaskRow
<1>2. /\ row.due = due /\ row.start = start /\ row.end = end /\ row.reminders = reminders
      /\ row.after = task.after /\ row.mode = task.mode /\ row.done = task.done
  BY DEF TaskRow
<1> QED BY <1>1, <1>2 DEF RowWith

SteppedReminders == {MovedOn(r, Duration(task.after)) : r \in task.reminders}
NextMonthReminders == {AddOneMonth(r) : r \in task.reminders}
FromNowReminders == {now + Duration(task.after) + r - Least(task.reminders) : r \in task.reminders}

LEMMA Rows ==
    ASSUME task \in TaskRow
    PROVE  /\ SetDatesDefault = RowWith(Stepped("due"), Stepped("start"), Stepped("end"), SteppedReminders)
           /\ SetDatesMonth = RowWith(NextMonth("due"), NextMonth("start"),
                                      IF IsSet("start") /\ IsSet("end")
                                      THEN NextMonth("start") + task.end - task.start
                                      ELSE NextMonth("end"),
                                      NextMonthReminders)
           /\ SetDatesFromCurrent =
                RowWith(FromNow("due"), FromNow("start"), FromNow("end"), FromNowReminders)
<1>1. SetDatesDefault = [task EXCEPT !.due = Stepped("due"), !.start = Stepped("start"),
                                    !.end = Stepped("end"), !.reminders = SteppedReminders]
  BY Zenon DEF SetDatesDefault, MovedBy, UpdateReminders, Stepped, SteppedReminders
<1> DEFINE moved == [task EXCEPT !.due = NextMonth("due"), !.start = NextMonth("start"),
                                 !.end = NextMonth("end"), !.reminders = NextMonthReminders]
<1>2. SetDatesMonth = IF IsSet("start") /\ IsSet("end")
                      THEN [moved EXCEPT !.end = moved.start + task.end - task.start] ELSE moved
  BY Zenon DEF SetDatesMonth, MovedBy, UpdateReminders, NextMonth, NextMonthReminders
<1>3. moved = RowWith(NextMonth("due"), NextMonth("start"), NextMonth("end"), NextMonthReminders)
  BY RowExcept, Zenon
<1> HIDE DEF moved
<1>4. SetDatesFromCurrent = [task EXCEPT !.due = FromNow("due"), !.start = FromNow("start"),
                                        !.end = FromNow("end"), !.reminders = FromNowReminders]
  BY Zenon DEF SetDatesFromCurrent, UpdateReminders, FromNow, FromNowReminders
<1>5. SetDatesMonth = RowWith(NextMonth("due"), NextMonth("start"),
                              IF IsSet("start") /\ IsSet("end")
                              THEN NextMonth("start") + task.end - task.start ELSE NextMonth("end"),
                              NextMonthReminders)
  BY <1>2, <1>3 DEF RowWith
<1>6. SetDatesDefault = RowWith(Stepped("due"), Stepped("start"), Stepped("end"), SteppedReminders)
  BY <1>1, RowExcept, Zenon
<1>7. SetDatesFromCurrent = RowWith(FromNow("due"), FromNow("start"), FromNow("end"), FromNowReminders)
  BY <1>4, RowExcept, Zenon
<1> QED BY <1>5, <1>6, <1>7

-----------------------------------------------------------------------------
(* The types.  A date of a task that does not repeat from the current date is   *)
(* never before the first moment, so it lies in a month; and the reminders of   *)
(* one that does have an earliest, from which the others are counted.           *)
DatesFit(due, start, end, reminders) ==
    /\ {due, start, end} \subseteq Int /\ reminders \subseteq Int
    /\ \A r \in reminders : r >= -HalfWidth
    /\ task.mode # "current" => {due, start, end} \subseteq Nat \union {NoDate} /\ reminders \subseteq Nat

RowInv ==
    /\ now \in 0 .. Horizon /\ marks \in 0 .. MaxMarks /\ spinning \in BOOLEAN
    /\ task \in TaskRow /\ base \in TaskRow
    /\ DatesFit(task.due, task.start, task.end, task.reminders)
    /\ IsFiniteSet(task.reminders) /\ IsFiniteSet(base.reminders)
    /\ Cardinality(task.reminders) <= Cardinality(base.reminders)
    /\ {base.due, base.start, base.end} \subseteq Dates \union {NoDate} /\ base.reminders \subseteq Dates
    /\ task.after = base.after /\ task.mode = base.mode

LEMMA Constants ==
    /\ HalfWidth \in Nat \ {0} /\ Horizon \in Nat /\ MaxMarks \in Nat
    /\ Dates \subseteq Nat /\ NoDate \in Int /\ NoDate < 0
    /\ \A d \in Dates : NoDate + d < 0
BY ConstantsAssumption DEF NoDate

LEMMA InitRow == Init => RowInv
<1> SUFFICES ASSUME Init PROVE RowInv
  OBVIOUS
<1>1. PICK due, start, end \in Dates \union {NoDate}, reminders \in SUBSET Dates,
           after \in Afters, mode \in Modes :
         task = [due |-> due, start |-> start, end |-> end, reminders |-> reminders,
                 after |-> after, mode |-> mode, done |-> FALSE]
  BY DEF Init
<1>2. task \in TaskRow /\ base = task
  BY <1>1, Constants DEF Init, TaskRow
<1>3. /\ task.due = due /\ task.start = start /\ task.end = end /\ task.reminders = reminders
  BY <1>1
<1>4. DatesFit(task.due, task.start, task.end, task.reminders)
  BY <1>1, <1>3, Constants DEF DatesFit
<1>5. IsFiniteSet(reminders)
  <2>1. IsFiniteSet(0 .. 4 * HalfWidth - 1)
    BY FS_Interval, Constants
  <2>2. reminders \in SUBSET (0 .. 4 * HalfWidth - 1)
    BY <1>1, ConstantsAssumption
  <2> QED BY <2>1, <2>2, FS_Subset
<1>6. Cardinality(reminders) \in Nat
  BY <1>5, FS_CardinalityType
<1>7. now \in 0 .. Horizon /\ marks \in 0 .. MaxMarks /\ spinning \in BOOLEAN
  <2>1. now = 0 /\ marks = 0
    BY DEF Init
  <2>2. spinning \in BOOLEAN
    BY DEF Init
  <2>3. 0 \in 0 .. Horizon /\ 0 \in 0 .. MaxMarks
    BY Constants
  <2> QED BY <2>1, <2>2, <2>3
<1>8. /\ {base.due, base.start, base.end} \subseteq Dates \union {NoDate} /\ base.reminders \subseteq Dates
      /\ task.after = base.after /\ task.mode = base.mode /\ base.reminders = reminders
  BY <1>1, <1>2, <1>3
<1>9. Cardinality(task.reminders) <= Cardinality(base.reminders)
  BY <1>3, <1>6, <1>8
<1> QED BY <1>2, <1>3, <1>4, <1>5, <1>7, <1>8, <1>9 DEF RowInv

LEMMA AfterType == RowInv => task.after \in Nat /\ task.after \in Afters
BY ConstantsAssumption DEF RowInv, TaskRow

LEMMA NextType ==
    ASSUME RowInv
    PROVE  /\ Duration(task.after) \in Int
           /\ now + Duration(task.after) \in Int /\ now + Duration(task.after) >= -HalfWidth
<1> DEFINE dur == Duration(task.after)
<1>1. dur \in -HalfWidth .. HalfWidth - 1
  BY AfterType, DurationType
<1>2. now \in Nat /\ HalfWidth \in Nat
  BY Constants DEF RowInv
<1> HIDE DEF dur
<1>3. dur \in Int /\ now + dur \in Int /\ now + dur >= -HalfWidth
  BY <1>1, <1>2
<1> QED BY <1>3 DEF dur

LEMMA SteppedFits ==
    ASSUME RowInv, LoopsEnd, task.mode = "default"
    PROVE  /\ DatesFit(Stepped("due"), Stepped("start"), Stepped("end"), SteppedReminders)
           /\ IsFiniteSet(SteppedReminders)
           /\ Cardinality(SteppedReminders) <= Cardinality(task.reminders)
<1> DEFINE dur == Duration(task.after)
           Move(d) == MovedOn(d, dur)
<1>1. now \in Nat /\ dur \in Int /\ task.reminders \subseteq Int
  BY NextType, Constants DEF RowInv, TaskRow
<1>2. ASSUME NEW d \in Int, LoopEnds(d, dur) PROVE Move(d) \in Nat
  <2>1. MovedOn(d, dur) \in Int /\ MovedOn(d, dur) > now
    BY <1>1, <1>2, MovedOnIsNext
  <2> QED BY <1>1, <2>1
<1>3. ASSUME NEW f \in Fields PROVE Stepped(f) \in Nat \union {NoDate}
  <2>1. CASE IsSet(f)
    <3>1. task[f] \in Int /\ LoopEnds(task[f], dur)
      BY <1>3, <2>1 DEF RowInv, TaskRow, LoopsEnd, Fields
    <3> QED BY <1>2, <2>1, <3>1 DEF Stepped
  <2>2. CASE ~IsSet(f)
    BY <2>2 DEF Stepped, IsSet
  <2> QED BY <2>1, <2>2
<1>4. ASSUME NEW r \in task.reminders PROVE Move(r) \in Nat
  BY <1>1, <1>2, <1>4 DEF LoopsEnd
<1> DEFINE F == [r \in task.reminders |-> Move(r)]
<1>5. SteppedReminders = {F[r] : r \in task.reminders} /\ F \in [task.reminders -> SteppedReminders]
  BY DEF SteppedReminders
<1>6. SteppedReminders \subseteq Nat
  BY <1>4 DEF SteppedReminders
<1> HIDE DEF F, Move
<1>7. DatesFit(Stepped("due"), Stepped("start"), Stepped("end"), SteppedReminders)
  BY <1>3, <1>6, Constants DEF DatesFit, Fields
<1> QED BY <1>5, <1>7, ImageSmaller DEF RowInv

LEMMA NextMonthFits ==
    ASSUME RowInv, task.mode = "month"
    PROVE  /\ DatesFit(NextMonth("due"), NextMonth("start"),
                       IF IsSet("start") /\ IsSet("end")
                       THEN NextMonth("start") + task.end - task.start ELSE NextMonth("end"),
                       NextMonthReminders)
           /\ IsFiniteSet(NextMonthReminders)
           /\ Cardinality(NextMonthReminders) <= Cardinality(task.reminders)
<1>1. /\ {task.due, task.start, task.end} \subseteq Nat \union {NoDate}
      /\ task.reminders \subseteq Nat /\ IsFiniteSet(task.reminders)
  BY DEF RowInv, DatesFit
<1>2. ASSUME NEW f \in Fields PROVE NextMonth(f) \in Nat \union {NoDate}
  <2>1. CASE IsSet(f)
    <3>1. task[f] \in Nat
      BY <1>1, <1>2, <2>1 DEF IsSet, Fields
    <3> QED BY <2>1, <3>1, OneMonthLater DEF NextMonth
  <2>2. CASE ~IsSet(f)
    BY <2>2 DEF NextMonth, IsSet
  <2> QED BY <2>1, <2>2
<1>3. IsSet("start") /\ IsSet("end") => NextMonth("start") + task.end - task.start \in Nat
  <2> SUFFICES ASSUME IsSet("start"), IsSet("end")
      PROVE NextMonth("start") + task.end - task.start \in Nat
    OBVIOUS
  <2>1. task.start \in Nat /\ task.end \in Nat
    BY <1>1 DEF IsSet
  <2>2. NextMonth("start") \in Nat /\ NextMonth("start") >= task.start
    BY <2>1, OneMonthLater DEF NextMonth
  <2> QED BY <2>1, <2>2
<1>4. NextMonthReminders \subseteq Nat
  BY <1>1, OneMonthLater DEF NextMonthReminders
<1> DEFINE F == [r \in task.reminders |-> AddOneMonth(r)]
<1>5. NextMonthReminders = {F[r] : r \in task.reminders} /\ F \in [task.reminders -> NextMonthReminders]
  BY DEF NextMonthReminders
<1> HIDE DEF F
<1>6. IsFiniteSet(NextMonthReminders) /\ Cardinality(NextMonthReminders) <= Cardinality(task.reminders)
  BY <1>1, <1>5, ImageSmaller
<1> QED BY <1>2, <1>3, <1>4, <1>6, Constants DEF DatesFit, Fields

LEMMA FromNowFits ==
    ASSUME RowInv, task.mode = "current"
    PROVE  /\ DatesFit(FromNow("due"), FromNow("start"), FromNow("end"), FromNowReminders)
           /\ IsFiniteSet(FromNowReminders)
           /\ Cardinality(FromNowReminders) <= Cardinality(task.reminders)
<1> DEFINE next == now + Duration(task.after)
<1>1. next \in Int /\ next >= -HalfWidth
  BY NextType
<1>2. /\ {task.due, task.start, task.end} \subseteq Int /\ task.reminders \subseteq Int
      /\ IsFiniteSet(task.reminders) /\ \A r \in task.reminders : -HalfWidth <= r
  BY Constants DEF RowInv, DatesFit
<1> HIDE DEF next
<1>3. {FromNow("due"), FromNow("start"), FromNow("end")} \subseteq Int
  BY <1>1, <1>2, Constants DEF FromNow, CurrentDate, next
<1>4. ASSUME NEW r \in task.reminders
      PROVE  next + r - Least(task.reminders) \in Int /\ next + r - Least(task.reminders) >= next
  <2>1. Least(task.reminders) \in Int /\ Least(task.reminders) <= r
    BY <1>2, LeastExists, Constants
  <2> QED BY <1>1, <1>2, <2>1
<1>5. \A r \in FromNowReminders : r \in Int /\ r >= -HalfWidth
  BY <1>1, <1>4, Constants DEF FromNowReminders, next
<1> DEFINE F == [r \in task.reminders |-> now + Duration(task.after) + r - Least(task.reminders)]
<1>6. FromNowReminders = {F[r] : r \in task.reminders} /\ F \in [task.reminders -> FromNowReminders]
  BY DEF FromNowReminders
<1> HIDE DEF F
<1>7. IsFiniteSet(FromNowReminders) /\ Cardinality(FromNowReminders) <= Cardinality(task.reminders)
  BY <1>2, <1>6, ImageSmaller
<1> QED BY <1>3, <1>5, <1>7 DEF DatesFit

LEMMA RowMoved ==
    ASSUME RowInv, NEW due, NEW start, NEW end, NEW reminders, DatesFit(due, start, end, reminders),
           IsFiniteSet(reminders), Cardinality(reminders) <= Cardinality(task.reminders),
           task' = RowWith(due, start, end, reminders),
           now' \in 0 .. Horizon, marks' \in 0 .. MaxMarks, spinning' \in BOOLEAN, UNCHANGED base
    PROVE  RowInv'
<1>1. /\ task'.due = due /\ task'.start = start /\ task'.end = end /\ task'.reminders = reminders
      /\ task'.after = task.after /\ task'.mode = task.mode /\ task'.done = task.done
  BY DEF RowWith
<1>2. task.after \in Afters /\ task.mode \in Modes /\ task.done \in BOOLEAN
  BY DEF RowInv, TaskRow
<1>3. due \in Int /\ start \in Int /\ end \in Int /\ reminders \in SUBSET Int
  BY DEF DatesFit
<1>4. task' \in TaskRow
  BY <1>2, <1>3 DEF RowWith, TaskRow
<1>5. DatesFit(due, start, end, reminders)'
  BY <1>1 DEF DatesFit
<1>6. Cardinality(reminders) <= Cardinality(base.reminders)
  <2>1. /\ Cardinality(reminders) \in Nat /\ Cardinality(task.reminders) \in Nat
        /\ Cardinality(base.reminders) \in Nat
    BY FS_CardinalityType DEF RowInv
  <2>2. Cardinality(task.reminders) <= Cardinality(base.reminders)
    BY DEF RowInv
  <2> QED BY <2>1, <2>2
<1> QED BY <1>1, <1>4, <1>5, <1>6 DEF RowInv, DatesFit

LEMMA MarkDoneRow == ASSUME RowInv, MarkDone PROVE RowInv'
<1>1. /\ now' \in 0 .. Horizon /\ marks' \in 0 .. MaxMarks /\ spinning' \in BOOLEAN /\ UNCHANGED base
  <2>1. UNCHANGED <<now, base, spinning>> /\ marks' = marks + 1 /\ marks < MaxMarks
    BY DEF MarkDone, Mark
  <2>2. now \in 0 .. Horizon /\ marks \in 0 .. MaxMarks /\ MaxMarks \in Nat
    BY Constants DEF RowInv
  <2>3. spinning' \in BOOLEAN
    BY <2>1 DEF RowInv
  <2> QED BY <2>1, <2>2, <2>3
<1>2. task \in TaskRow /\ task.mode \in Modes
  BY DEF RowInv, TaskRow
<1>3. CASE ~Repeats
  <2>1. task' = [task EXCEPT !.done = TRUE]
    BY <1>3 DEF MarkDone
  <2>2. task' \in TaskRow /\ \A f \in {"due", "start", "end", "reminders", "after", "mode"} : task'[f] = task[f]
    BY <1>2, <2>1 DEF TaskRow
  <2> QED BY <1>1, <2>2 DEF RowInv, DatesFit
<1>4. CASE Repeats /\ task.mode = "default"
  <2>1. LoopsEnd /\ task' = SetDatesDefault
    BY <1>4 DEF MarkDone
  <2>2. task' = RowWith(Stepped("due"), Stepped("start"), Stepped("end"), SteppedReminders)
    BY <1>2, <2>1, Rows
  <2> QED BY <1>1, <1>4, <2>1, <2>2, SteppedFits, RowMoved
<1>5. CASE Repeats /\ task.mode = "month"
  <2>1. task' = SetDatesMonth
    BY <1>5 DEF MarkDone
  <2>2. task' = RowWith(NextMonth("due"), NextMonth("start"),
                        IF IsSet("start") /\ IsSet("end")
                        THEN NextMonth("start") + task.end - task.start ELSE NextMonth("end"),
                        NextMonthReminders)
    BY <1>2, <2>1, Rows
  <2> QED BY <1>1, <1>5, <2>1, <2>2, NextMonthFits, RowMoved
<1>6. CASE Repeats /\ task.mode = "current"
  <2>1. task' = SetDatesFromCurrent
    BY <1>6 DEF MarkDone
  <2>2. task' = RowWith(FromNow("due"), FromNow("start"), FromNow("end"), FromNowReminders)
    BY <1>2, <2>1, Rows
  <2> QED BY <1>1, <1>6, <2>1, <2>2, FromNowFits, RowMoved
<1> QED BY <1>2, <1>3, <1>4, <1>5, <1>6 DEF Modes

LEMMA NextRow == ASSUME RowInv, [Next]_vars PROVE RowInv'
<1>1. CASE MarkDone
  BY <1>1, MarkDoneRow
<1>2. CASE Spin
  <2>1. UNCHANGED <<now, base, task>> /\ marks' = marks + 1 /\ marks < MaxMarks
    BY <1>2 DEF Spin, Mark
  <2>2. spinning' \in BOOLEAN
    BY <1>2 DEF Spin
  <2>3. marks' \in 0 .. MaxMarks
    BY <2>1, Constants DEF RowInv
  <2> QED BY <2>1, <2>2, <2>3 DEF RowInv, DatesFit
<1>3. CASE MarkUndone
  <2>1. UNCHANGED <<now, base, marks, spinning>> /\ task' = [task EXCEPT !.done = FALSE]
    BY <1>3 DEF MarkUndone
  <2>2. task' \in TaskRow /\ \A f \in {"due", "start", "end", "reminders", "after", "mode"} : task'[f] = task[f]
    BY <2>1 DEF TaskRow, RowInv
  <2> QED BY <2>1, <2>2 DEF RowInv, DatesFit
<1>4. CASE Tick
  <2>1. UNCHANGED <<task, base, marks, spinning>> /\ now' = now + 1 /\ now < Horizon
    BY <1>4 DEF Tick
  <2>2. now' \in 0 .. Horizon
    BY <2>1, Constants DEF RowInv
  <2> QED BY <2>1, <2>2 DEF RowInv, DatesFit
<1>5. CASE UNCHANGED vars
  BY <1>5 DEF vars, RowInv, DatesFit
<1> QED BY <1>1, <1>2, <1>3, <1>4, <1>5 DEF Next

(* A request only hangs on a repeat_after that overflows, the types are right, and *)
(* a repeat adds no reminder.                                                      *)
THEOREM MarkingEnds == Spec => []RepeatEnds
<1>1. Spec => []RowInv
  BY InitRow, NextRow, PTL DEF Spec
<1>2. RowInv => TypeOK
  BY DEF RowInv, TypeOK, TaskRow
<1>3. TypeOK /\ SpinsOnlyOnOverflow => RepeatEnds
  BY DEF RepeatEnds
<1> QED BY <1>1, <1>2, <1>3, OverflowOnly, PTL

-----------------------------------------------------------------------------
LEMMA TimesGrow ==
    ASSUME NEW j \in Int, NEW k \in Int, NEW dur \in Nat \ {0}
    PROVE  /\ j <= k => j * dur <= k * dur
           /\ j \in Nat => j <= j * dur
<1>1. \A n \in Nat : n * dur \in Nat /\ n <= n * dur
  OBVIOUS
<1>2. j <= k => j * dur <= k * dur
  <2> SUFFICES ASSUME j <= k PROVE j * dur <= k * dur
    OBVIOUS
  <2>1. k - j \in Nat /\ (k - j) * dur = k * dur - j * dur
    OBVIOUS
  <2>2. (k - j) * dur \in Nat
    BY <1>1, <2>1
  <2>3. j * dur \in Int /\ k * dur \in Int
    OBVIOUS
  <2> QED BY <2>1, <2>2, <2>3
<1> QED BY <1>1, <1>2

(* The first of the repeats of a date that is in the future, which need not be *)
(* looked for any further than the clock goes.                                 *)
LEMMA FirstRepeat ==
    ASSUME now \in 0 .. Horizon, Horizon \in Nat, NEW d \in Nat, NEW dur \in Nat \ {0}
    PROVE  MovedOn(d, dur) = Least({x \in {d + k * dur : k \in 1 .. Horizon + 1} : x > now})
<1> DEFINE S == {x \in {d + k * dur : k \in 1 .. Horizon + 1} : x > now}
           x == MovedOn(d, dur)
<1>1. LoopEnds(d, dur)
  BY DEF LoopEnds
<1>2. /\ x \in Int /\ x > now
      /\ \E k \in Nat \ {0} : x = d + k * dur /\ (k = 1 \/ d + (k - 1) * dur <= now)
  <2>1. now \in Int /\ d \in Int /\ dur \in Int /\ dur > 0
    OBVIOUS
  <2> HIDE DEF S
  <2> QED BY <1>1, <2>1, MovedOnIsNext
<1> HIDE DEF x
<1>3. PICK k \in Nat \ {0} : x = d + k * dur /\ (k = 1 \/ d + (k - 1) * dur <= now)
  BY <1>2
<1> DEFINE l == k - 1
<1>4. l \in Nat /\ l * dur \in Nat /\ l <= l * dur /\ (k = 1 \/ d + l * dur <= now)
  BY <1>3, TimesGrow
<1>5. k \in 1 .. Horizon + 1
  <2> HIDE DEF l
  <2>1. k # 1 => l <= now
    BY <1>4
  <2> QED BY <2>1 DEF l
<1>6. x \in S
  BY <1>2, <1>3, <1>5
<1>7. ASSUME NEW y \in S PROVE x <= y
  <2>1. PICK j \in 1 .. Horizon + 1 : y = d + j * dur
    BY <1>7
  <2>2. y > now
    BY <1>7
  <2>3. CASE k <= j
    <3>1. k * dur <= j * dur /\ k * dur \in Int /\ j * dur \in Int
      BY <2>3, TimesGrow
    <3> QED BY <1>3, <2>1, <3>1
  <2>4. CASE j < k
    <3>1. j \in Int /\ l \in Int /\ j <= l /\ k # 1
      BY <2>4
    <3>2. j * dur <= l * dur /\ j * dur \in Int
      BY <3>1, TimesGrow
    <3> HIDE DEF l
    <3>3. d + j * dur <= d + l * dur /\ d + l * dur <= now
      BY <1>4, <3>1, <3>2
    <3> QED BY <1>4, <2>1, <2>2, <3>2, <3>3
  <2> QED BY <2>3, <2>4
<1>8. S \subseteq Int
  OBVIOUS
<1> HIDE DEF S
<1>9. Least(S) = x
  BY <1>6, <1>7, <1>8, LeastIs
<1> QED BY <1>9 DEF S, x

NextRepeatStep ==
    task.mode = "default" /\ Repeats /\ InRange /\ marks' > marks =>
         \A f \in Fields : IsSet(f) =>
            LET dur == Duration(task.after)
            IN  task'[f] = Least({x \in {task[f] + k * dur : k \in 1 .. Horizon + 1} : x > now})

LEMMA RepeatStep == ASSUME RowInv, IInv, Next PROVE NextRepeatStep
<1> SUFFICES ASSUME task.mode = "default", Repeats, InRange, marks' > marks,
                    NEW f \in Fields, IsSet(f)
             PROVE  task'[f] = Least({x \in {task[f] + k * Duration(task.after) : k \in 1 .. Horizon + 1} : x > now})
  BY Zenon DEF NextRepeatStep
<1>1. LoopsEnd
  BY LoopsEndInRange
<1>2. MarkDone
  <2>1. ~Spin
    BY <1>1 DEF Spin
  <2>2. marks \in Int
    BY DEF RowInv
  <2>3. ~MarkUndone /\ ~Tick
    BY <2>2 DEF MarkUndone, Tick
  <2> QED BY <2>1, <2>3 DEF Next
<1>3. task' = RowWith(Stepped("due"), Stepped("start"), Stepped("end"), SteppedReminders)
  BY <1>2, Rows DEF MarkDone, RowInv
<1>4. task'[f] = MovedOn(task[f], Duration(task.after))
  BY <1>3 DEF Fields, RowWith, Stepped
<1>5. task.after \in Nat \ {0} /\ task[f] \in Nat
  BY AfterType DEF Repeats, RowInv, DatesFit, IsSet, Fields
<1>6. Duration(task.after) \in Nat \ {0}
  <2>1. Duration(task.after) = task.after * SecondLen
    BY <1>5, DurationInRange DEF InRange
  <2> QED BY <1>5, <2>1, ConstantsAssumption
<1>7. now \in 0 .. Horizon /\ Horizon \in Nat
  BY Constants DEF RowInv
<1> QED BY <1>4, <1>5, <1>6, <1>7, FirstRepeat

(* In the default mode a date goes to the first of its repeats that is in the *)
(* future, but always on by one: no repeat is skipped (setTaskDatesDefault).  *)
THEOREM NoRepeatSkipped == Spec => NextRepeat
<1>1. RowInv /\ IInv /\ [Next]_vars => [NextRepeatStep]_vars
  BY RepeatStep
<1>2. IInv /\ [Next]_vars => IInv'
  BY NextInv
<1>3. [][NextRepeatStep]_vars <=> NextRepeat
  BY DEF NextRepeat, NextRepeatStep
<1> QED BY InitRow, NextRow, InitInv, <1>1, <1>2, <1>3, PTL DEF Spec

-----------------------------------------------------------------------------
(* Repeating from the current date: no date comes or goes, the distances between *)
(* them are those of the task as it was created, and so are the reminders'.      *)
Apart(row, f) == row[f] - row.due
Gaps(reminders) == {r - Least(reminders) : r \in reminders}

KeptFromNow(row) ==
    /\ \A f \in Fields : row[f] = NoDate <=> base[f] = NoDate
    /\ \A f \in Fields : base.due # NoDate /\ base[f] # NoDate => Apart(row, f) = Apart(base, f)
    /\ base.start # NoDate /\ base.end # NoDate => row.end - row.start = base.end - base.start
    /\ base.reminders # {} => Gaps(row.reminders) = Gaps(base.reminders)

(* Repeating each month on a day that all months have: the day stays. *)
ShortDay == \A m \in 0 .. Months - 1 : DayOf(base.due) < MonthLen[m]
DueAfter(n) == MonthStart[MonthOf(base.due) + n] + DayOf(base.due)

FromNowInv == base.mode = "current" /\ InRange => KeptFromNow(task)
MonthInv == base.mode = "month" /\ base.due # NoDate /\ ShortDay => task.due = DueAfter(marks)

LEMMA BaseDates ==
    RowInv => \A f \in Fields : base[f] # NoDate => base[f] \in 0 .. 4 * HalfWidth - 1
BY ConstantsAssumption DEF RowInv, Fields

LEMMA NewDates ==
    ASSUME RowInv, KeptFromNow(task), NEW next \in Nat, next = now + Duration(task.after),
           NEW row, row = RowWith(FromNow("due"), FromNow("start"), FromNow("end"), FromNowReminders)
    PROVE  /\ \A f \in Fields : row[f] = NoDate <=> base[f] = NoDate
           /\ \A f \in Fields : base.due # NoDate /\ base[f] # NoDate => Apart(row, f) = Apart(base, f)
           /\ base.start # NoDate /\ base.end # NoDate => row.end - row.start = base.end - base.start
<1>1. \A f \in Fields : row[f] = FromNow(f)
  BY DEF RowWith, Fields
<1>2. \A f \in Fields : IsSet(f) <=> base[f] # NoDate
  BY DEF KeptFromNow, IsSet
<1>3. \A f \in Fields : task[f] \in Int /\ (base[f] # NoDate => base[f] \in 0 .. 4 * HalfWidth - 1)
  BY BaseDates DEF RowInv, TaskRow, Fields
<1>4. \A f \in Fields : ~IsSet(f) => row[f] = NoDate
  BY <1>1 DEF FromNow
<1>5. \A f \in Fields : IsSet(f) => row[f] = CurrentDate(f, next)
  BY <1>1 DEF FromNow
<1>6. NoDate \in Int /\ HalfWidth \in Nat \ {0} /\ NoDate = -4 * HalfWidth
  BY Constants DEF NoDate
<1>7. "due" \in Fields /\ "start" \in Fields /\ "end" \in Fields
  BY DEF Fields
<1>8. CASE IsSet("due")
  <2>1. base.due # NoDate /\ base.due \in 0 .. 4 * HalfWidth - 1 /\ task.due \in Int
    BY <1>2, <1>3, <1>7, <1>8
  <2>2. ASSUME NEW f \in Fields, IsSet(f)
        PROVE  /\ row[f] = next + base[f] - base.due /\ row[f] # NoDate
               /\ base[f] \in 0 .. 4 * HalfWidth - 1
    <3>1. row[f] = next + task[f] - task.due
      BY <1>5, <1>8, <2>2 DEF CurrentDate
    <3>2. task[f] - task.due = base[f] - base.due
      BY <1>2, <2>1, <2>2 DEF KeptFromNow, Apart
    <3>3. base[f] \in 0 .. 4 * HalfWidth - 1 /\ task[f] \in Int
      BY <1>2, <1>3, <2>2
    <3> QED BY <1>6, <2>1, <3>1, <3>2, <3>3
  <2>3. row.due = next
    BY <1>7, <1>8, <2>1, <2>2
  <2>4. ASSUME NEW f \in Fields PROVE row[f] = NoDate <=> base[f] = NoDate
    BY <1>2, <1>4, <2>2
  <2>5. ASSUME NEW f \in Fields, base[f] # NoDate PROVE Apart(row, f) = Apart(base, f)
    <3>1. row[f] = next + base[f] - base.due /\ base[f] \in 0 .. 4 * HalfWidth - 1
      BY <1>2, <2>2, <2>5
    <3> QED BY <2>1, <2>3, <3>1 DEF Apart
  <2>6. ASSUME base.start # NoDate, base.end # NoDate PROVE row.end - row.start = base.end - base.start
    <3>1. /\ row.end = next + base.end - base.due /\ base.end \in 0 .. 4 * HalfWidth - 1
          /\ row.start = next + base.start - base.due /\ base.start \in 0 .. 4 * HalfWidth - 1
      BY <1>2, <1>7, <2>2, <2>6
    <3> QED BY <2>1, <3>1
  <2> QED BY <2>4, <2>5, <2>6
<1>9. CASE ~IsSet("due")
  <2>1. base.due = NoDate
    BY <1>2, <1>7, <1>9
  <2>2. IsSet("due") = FALSE
    BY <1>9
  <2>3. ASSUME IsSet("start") PROVE row.start = next /\ row.start # NoDate
    BY <1>5, <1>6, <1>7, <1>9, <2>3 DEF CurrentDate
  <2>4. ASSUME IsSet("start"), IsSet("end")
        PROVE  row.end = next + base.end - base.start /\ row.end # NoDate /\ row.end - row.start = base.end - base.start
    <3>1. row.end = next + task.end - task.start
      BY <1>5, <1>7, <1>9, <2>4 DEF CurrentDate
    <3>2. task.end - task.start = base.end - base.start /\ task.end \in Int /\ task.start \in Int
      BY <1>2, <1>3, <1>7, <2>4 DEF KeptFromNow
    <3>3. base.end \in 0 .. 4 * HalfWidth - 1 /\ base.start \in 0 .. 4 * HalfWidth - 1
      BY <1>2, <1>3, <1>7, <2>4
    <3> QED BY <1>6, <2>3, <2>4, <3>1, <3>2, <3>3
  <2>5. ASSUME IsSet("end"), ~IsSet("start") PROVE row.end # NoDate
    BY <1>5, <1>6, <1>7, <1>9, <2>5 DEF CurrentDate
  <2>6. ASSUME NEW f \in Fields PROVE row[f] = NoDate <=> base[f] = NoDate
    BY <1>2, <1>4, <1>9, <2>3, <2>4, <2>5 DEF Fields
  <2>7. base.start # NoDate /\ base.end # NoDate => row.end - row.start = base.end - base.start
    BY <1>2, <1>7, <2>4
  <2> QED BY <2>1, <2>6, <2>7
<1> QED BY <1>8, <1>9

LEMMA NewGaps ==
    ASSUME RowInv, NEW next \in Nat, next = now + Duration(task.after), task.reminders # {}
    PROVE  Gaps(FromNowReminders) = Gaps(task.reminders)
<1> DEFINE R == task.reminders
           S == {next + r - Least(R) : r \in R}
           L == Least(R)
<1>1. R \subseteq Int /\ \A r \in R : -HalfWidth <= r
  BY DEF RowInv, DatesFit
<1>2. L \in R /\ \A r \in R : L <= r
  BY <1>1, LeastExists, Constants
<1>3. FromNowReminders = S
  BY DEF FromNowReminders
<1> HIDE DEF R
<1>4. Least(S) = next
  <2>1. S = {next + r - L : r \in R}
    OBVIOUS
  <2> HIDE DEF L
  <2>2. ASSUME NEW r \in R PROVE next + r - L \in Int /\ next <= next + r - L
    BY <1>1, <1>2
  <2>3. next + L - L = next /\ next \in Int
    BY <1>1, <1>2
  <2> HIDE DEF S
  <2>4. S \subseteq Int /\ next \in S /\ \A y \in S : next <= y
    BY <1>2, <2>1, <2>2, <2>3
  <2> QED BY <2>4, LeastIs
<1>5. \A r \in R : (next + r - L) - next = r - L
  <2>1. L \in Int
    BY <1>1, <1>2
  <2> HIDE DEF L
  <2>2. ASSUME NEW r \in R PROVE (next + r - L) - next = r - L
    <3>1. r \in Int /\ next \in Int
      BY <1>1
    <3> QED BY <2>1, <3>1
  <2> QED BY <2>2
<1>6. {x - next : x \in S} = {r - L : r \in R}
  BY <1>5
<1> QED BY <1>3, <1>4, <1>6 DEF Gaps, R

LEMMA FromNowKept ==
    ASSUME RowInv, FromNowInv, task.mode = "current", InRange
    PROVE  KeptFromNow(SetDatesFromCurrent)
<1> DEFINE next == now + Duration(task.after)
           row == RowWith(FromNow("due"), FromNow("start"), FromNow("end"), FromNowReminders)
<1>1. next \in Nat
  <2>1. task.after \in Nat /\ Duration(task.after) = task.after * SecondLen
    BY AfterType, DurationInRange DEF InRange
  <2>2. task.after * SecondLen \in Nat /\ now \in Nat
    BY <2>1, ConstantsAssumption DEF RowInv
  <2> QED BY <2>1, <2>2
<1>2. KeptFromNow(task)
  BY DEF FromNowInv, RowInv
<1>3. SetDatesFromCurrent = row /\ row.reminders = FromNowReminders
  BY Rows DEF RowInv, RowWith
<1>4. /\ \A f \in Fields : row[f] = NoDate <=> base[f] = NoDate
      /\ \A f \in Fields : base.due # NoDate /\ base[f] # NoDate => Apart(row, f) = Apart(base, f)
      /\ base.start # NoDate /\ base.end # NoDate => row.end - row.start = base.end - base.start
  <2> HIDE DEF next, row
  <2>1. next = now + Duration(task.after) /\ row = RowWith(FromNow("due"), FromNow("start"), FromNow("end"), FromNowReminders)
    BY DEF next, row
  <2> QED BY <1>1, <1>2, <2>1, NewDates
<1>5. base.reminders # {} => Gaps(row.reminders) = Gaps(base.reminders)
  <2> SUFFICES ASSUME base.reminders # {} PROVE Gaps(row.reminders) = Gaps(base.reminders)
    OBVIOUS
  <2>1. Gaps(task.reminders) = Gaps(base.reminders)
    BY <1>2 DEF KeptFromNow
  <2>2. task.reminders # {}
    BY <2>1 DEF Gaps
  <2>3. Gaps(FromNowReminders) = Gaps(task.reminders)
    <3> HIDE DEF next
    <3>1. next = now + Duration(task.after)
      BY DEF next
    <3> QED BY <1>1, <2>2, <3>1, NewGaps
  <2> QED BY <1>3, <2>1, <2>3
<1> HIDE DEF row
<1> QED BY <1>3, <1>4, <1>5 DEF KeptFromNow

LEMMA MonthKept ==
    ASSUME RowInv, MonthInv, task.mode = "month", base.due # NoDate, ShortDay
    PROVE  NextMonth("due") = DueAfter(marks + 1)
<1> DEFINE m == MonthOf(base.due) + marks
           day == DayOf(base.due)
<1>1. base.due \in Nat
  BY BaseDates DEF Fields
<1>2. MonthOf(base.due) \in Nat /\ day \in Nat
  <2> DEFINE n == MonthOf(base.due)
  <2>1. n \in Nat /\ MonthStart[n] <= base.due
    BY <1>1, MonthOfDay
  <2> HIDE DEF n
  <2>2. MonthStart[n] \in Nat /\ day = base.due - MonthStart[n]
    BY <2>1, MonthStarts DEF DayOf, n
  <2> QED BY <1>1, <2>1, <2>2 DEF n
<1>3. marks \in Nat /\ m \in Nat /\ m + 1 = MonthOf(base.due) + (marks + 1)
  <2>1. marks \in Nat
    BY DEF RowInv
  <2> QED BY <1>2, <2>1
<1>4. task.due = MonthStart[m] + day
  BY DEF MonthInv, DueAfter, RowInv
<1> HIDE DEF m, day
<1>5. day < Length(m)
  <2>1. m % Months \in 0 .. Months - 1
    BY <1>3, ConstantsAssumption
  <2> QED BY <2>1 DEF ShortDay, Length, day
<1>6. AddOneMonth(MonthStart[m] + day) = MonthStart[m + 1] + day
  BY <1>2, <1>3, <1>5, DayKept
<1>7. task.due # NoDate
  <2>1. MonthStart[m] \in Nat
    BY <1>3, MonthStarts
  <2> QED BY <1>2, <1>4, <2>1, Constants
<1>8. NextMonth("due") = MonthStart[m + 1] + day
  BY <1>4, <1>6, <1>7 DEF NextMonth, IsSet
<1> QED BY <1>3, <1>8 DEF DueAfter, day

LEMMA InitDates == Init => FromNowInv /\ MonthInv
<1> SUFFICES ASSUME Init PROVE FromNowInv /\ MonthInv
  OBVIOUS
<1>1. base = task /\ marks = 0 /\ RowInv
  BY InitRow DEF Init
<1>2. FromNowInv
  BY <1>1 DEF FromNowInv, KeptFromNow
<1>3. ASSUME base.due # NoDate PROVE task.due = DueAfter(marks)
  <2> DEFINE n == MonthOf(base.due)
  <2>1. base.due \in Nat
    BY <1>1, <1>3, BaseDates DEF Fields
  <2>2. n \in Nat
    BY <2>1, MonthOfDay
  <2> HIDE DEF n
  <2>3. MonthStart[n] \in Nat /\ n + marks = n
    BY <1>1, <2>2, MonthStarts
  <2>4. base.due = MonthStart[n] + (base.due - MonthStart[n])
    BY <2>1, <2>3
  <2>5. DueAfter(marks) = MonthStart[n + marks] + (base.due - MonthStart[n])
    BY DEF DueAfter, DayOf, n
  <2> QED BY <1>1, <2>3, <2>4, <2>5
<1> QED BY <1>2, <1>3 DEF MonthInv

LEMMA MarkDoneDates ==
    ASSUME RowInv, FromNowInv, MonthInv, MarkDone
    PROVE  FromNowInv' /\ MonthInv'
<1>1. /\ UNCHANGED base /\ marks' = marks + 1 /\ task.mode = base.mode
      /\ RowInv' /\ task'.after = base'.after /\ task.after = base.after
  BY MarkDoneRow DEF MarkDone, Mark, RowInv
<1>2. InRange' <=> InRange
  BY <1>1 DEF InRange
<1>3. ASSUME base.mode = "current", InRange PROVE KeptFromNow(task')
  <2>1. CASE ~Repeats
    <3>1. \A f \in {"due", "start", "end", "reminders"} : task'[f] = task[f]
      BY <2>1 DEF MarkDone, RowInv, TaskRow
    <3>2. KeptFromNow(task)
      BY <1>3 DEF FromNowInv
    <3> QED BY <3>1, <3>2 DEF KeptFromNow, Fields, Apart
  <2>2. CASE Repeats
    <3>1. task' = SetDatesFromCurrent
      BY <1>1, <1>3, <2>2 DEF MarkDone
    <3> QED BY <1>1, <1>3, <3>1, FromNowKept
  <2> QED BY <2>1, <2>2
<1>4. ASSUME base.mode = "month", base.due # NoDate, ShortDay PROVE task'.due = DueAfter(marks + 1)
  <2>1. task' = SetDatesMonth
    BY <1>1, <1>4 DEF MarkDone, Repeats
  <2>2. task'.due = NextMonth("due")
    BY <2>1, Rows DEF RowInv, RowWith
  <2> QED BY <1>1, <1>4, <2>2, MonthKept
<1>5. FromNowInv'
  BY <1>1, <1>2, <1>3 DEF FromNowInv, KeptFromNow
<1>6. MonthInv'
  BY <1>1, <1>4 DEF MonthInv, ShortDay, DueAfter
<1> QED BY <1>5, <1>6

LEMMA NextDates ==
    ASSUME RowInv, FromNowInv, MonthInv, [Next]_vars
    PROVE  FromNowInv' /\ MonthInv'
<1>1. CASE MarkDone
  BY <1>1, MarkDoneDates
<1>2. CASE Spin
  <2>1. UNCHANGED <<base, task>> /\ base.mode # "month"
    BY <1>2 DEF Spin, Mark, RowInv
  <2> QED BY <2>1 DEF FromNowInv, MonthInv, KeptFromNow, InRange, ShortDay
<1>3. CASE MarkUndone
  <2>1. /\ UNCHANGED <<base, marks>>
        /\ \A f \in {"due", "start", "end", "reminders", "after"} : task'[f] = task[f]
    BY <1>3 DEF MarkUndone, RowInv, TaskRow
  <2>2. (InRange' <=> InRange) /\ (KeptFromNow(task) => KeptFromNow(task'))
    BY <2>1 DEF InRange, KeptFromNow, Fields, Apart
  <2>3. FromNowInv'
    BY <2>1, <2>2 DEF FromNowInv, KeptFromNow
  <2>4. MonthInv'
    BY <2>1 DEF MonthInv, ShortDay, DueAfter
  <2> QED BY <2>3, <2>4
<1>4. CASE Tick \/ UNCHANGED vars
  <2>1. UNCHANGED <<base, task, marks>>
    BY <1>4 DEF Tick, vars
  <2> QED BY <2>1 DEF FromNowInv, MonthInv, KeptFromNow, InRange, ShortDay, DueAfter
<1> QED BY <1>1, <1>2, <1>3, <1>4 DEF Next

(* However often and late a task is marked as done: repeating from the current date *)
(* keeps the distances of its dates and of its reminders, and repeating each month  *)
(* keeps the day that all months have (setTaskDatesFromCurrentDateRepeat,           *)
(* setTaskDatesMonthRepeat).                                                        *)
THEOREM RepeatingKeepsDates == Spec => []DatesKept
<1>1. FromNowInv => DistancesKept
  BY DEF FromNowInv, KeptFromNow, DistancesKept, Apart, Gaps
<1>2. RowInv /\ MonthInv => DayOfMonthKept
  <2> SUFFICES ASSUME RowInv, MonthInv, base.mode = "month", base.due # NoDate, task.due # DueAfter(marks)
               PROVE  \E m \in 0 .. Months - 1 : DayOf(base.due) >= MonthLen[m]
    BY DEF DayOfMonthKept, DueAfter
  <2>1. PICK m \in 0 .. Months - 1 : ~(DayOf(base.due) < MonthLen[m])
    BY DEF MonthInv, ShortDay
  <2>2. MonthLen[m] \in Int
    BY ConstantsAssumption
  <2>3. DayOf(base.due) \in Int
    <3> DEFINE n == MonthOf(base.due)
    <3>1. base.due \in Nat
      BY BaseDates DEF Fields
    <3>2. MonthStart[n] \in Nat
      BY <3>1, MonthOfDay, MonthStarts
    <3> QED BY <3>1, <3>2 DEF DayOf
  <2> QED BY <2>1, <2>2, <2>3
<1>3. FromNowInv /\ RowInv /\ MonthInv => DatesKept
  BY <1>1, <1>2 DEF DatesKept
<1> QED BY InitRow, NextRow, InitDates, NextDates, <1>3, PTL DEF Spec

=============================================================================
