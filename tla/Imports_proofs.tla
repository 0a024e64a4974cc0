--------------------------- MODULE Imports_proofs ---------------------------
(***************************************************************************)
(* What is proved of Imports, whatever the other service has: that an      *)
(* import makes every task once, in the list of its project and in the     *)
(* bucket of its section, as far as each converter keeps that, and that    *)
(* one that fails at any statement leaves data that can be used.           *)
(***************************************************************************)
EXTENDS Imports, FiniteSetTheorems, TLAPS

-----------------------------------------------------------------------------
(* Types *)

Link == [kind : {"subtask", "parenttask"}, row : Rows, id : Nat]

StructureType ==
    /\ data \in Data
    /\ toNest \subseteq Rows /\ nested \subseteq Items

ControlType ==
    /\ step \in {"convert", "list", "backlog", "fill", "rehome", "done", "failed"}
    /\ lists \subseteq Projects /\ at \in lists \union {0}
    /\ step \in {"backlog", "fill", "rehome"} => at # 0
    /\ step = "convert" => lists = {}
    /\ row \in Rows \union {0} /\ links \subseteq Link
    /\ dropped \in Nat
    /\ made \in [0 .. NumSections -> Nat] /\ needsDefault \in BOOLEAN
    /\ idOf \in [Rows -> Nat]

BucketType ==
    /\ nextBucket \in Nat \ {0} /\ DOMAIN bucket \subseteq 1 .. nextBucket - 1
    /\ bucket \in [DOMAIN bucket -> [list : lists, of : Sections \union {0}, pos : Nat]]

TaskType ==
    /\ nextTask \in Nat \ {0} /\ DOMAIN task \subseteq 1 .. nextTask - 1
    /\ task \in [DOMAIN task -> [item : Items, list : lists, bucket : Nat \ {0}]]

TInv == StructureType /\ ControlType /\ BucketType /\ TaskType

(* What the other service has. *)
Parent(i) == data.item[i].parent

LEMMA DataIs ==
    ASSUME data \in Data
    PROVE  /\ data.service \in Services /\ data.again \subseteq Items
           /\ data.item \in [Items -> Item]
           /\ \A i \in Items : Offers(data.service, data.item[i])
           /\ \A i \in Items : Parent(i) \in Items \union {0}
           /\ \A i \in Items : Parent(i) # 0 => data.item[Parent(i)].project = data.item[i].project
<1>1. PICK service \in Services :
        \E item \in {f \in [Items -> {i \in Item : Offers(service, i)}] : NoCycle(f) /\ Family(f)},
           again \in SUBSET Items :
          data = [service |-> service, item |-> item, again |-> again]
  BY DEF Data
<1>2. PICK item \in {f \in [Items -> {i \in Item : Offers(service, i)}] : NoCycle(f) /\ Family(f)},
           again \in SUBSET Items :
         data = [service |-> service, item |-> item, again |-> again]
  BY <1>1
<1>3. data.service = service /\ data.item = item /\ data.again = again
  BY <1>2
<1>4. item \in [Items -> {i \in Item : Offers(service, i)}] /\ Family(item)
  OBVIOUS
<1>5. \A i \in Items : item[i] \in Item /\ Offers(service, item[i])
  BY <1>4
<1>6. item \in [Items -> Item]
  BY <1>4
<1>7. \A i \in Item : i.parent \in Items \union {0}
  BY DEF Item
<1> QED BY <1>3, <1>4, <1>5, <1>6, <1>7 DEF Parent, Family

(* The rows of an item are its own and, if it is answered twice, the second one. *)
LEMMA RowsAre ==
    ASSUME data \in Data
    PROVE  /\ Rows \subseteq Nat \ {0} /\ Items \subseteq Rows
           /\ \A r \in Rows : ItemNo(r) \in Items
           /\ \A r \in Rows : r = ItemNo(r) \/ (ItemNo(r) \in data.again /\ r = NumItems + ItemNo(r))
           /\ \A i \in Items : LastRow(i) \in Rows /\ ItemNo(LastRow(i)) = i
           /\ \A i \in Items : ItemNo(i) = i
           /\ \A i \in data.again : i \in Items /\ NumItems + i \in Rows /\ ItemNo(NumItems + i) = i
<1>1. NumItems \in Nat /\ Items = 1 .. NumItems /\ data.again \subseteq Items
  BY ConstantsAssumption, DataIs DEF Items
<1>2. \A i \in Items : i \in Nat \ {0} /\ i <= NumItems /\ ItemNo(i) = i /\ ItemNo(NumItems + i) = i
  BY <1>1 DEF ItemNo
<1>3. \A r \in Rows : r \in Items \/ \E i \in data.again : r = NumItems + i
  BY DEF Rows
<1>4. \A i \in data.again : i \in Items /\ NumItems + i \in Rows /\ NumItems + i \in Nat \ {0}
  BY <1>1, <1>2 DEF Rows
<1>5. Items \subseteq Rows
  BY DEF Rows
<1>6. \A r \in Rows : /\ r \in Nat \ {0} /\ ItemNo(r) \in Items
                      /\ r = ItemNo(r) \/ (ItemNo(r) \in data.again /\ r = NumItems + ItemNo(r))
  BY <1>2, <1>3, <1>4
<1>7. \A i \in Items : LastRow(i) \in Rows /\ ItemNo(LastRow(i)) = i
  BY <1>2, <1>4, <1>5 DEF LastRow
<1> QED BY <1>2, <1>4, <1>5, <1>6, <1>7

(* Nothing that follows from the answer of the other service changes. *)
LEMMA DataStays ==
    ASSUME data' = data
    PROVE  /\ Rows' = Rows /\ Link' = Link
           /\ \A r : ItemOf(r)' = ItemOf(r)
           /\ \A i : LastRow(i)' = LastRow(i) /\ Parent(i)' = Parent(i)
           /\ \A s : OldId(s)' = OldId(s)
           /\ \A p : RowsOf(p)' = RowsOf(p)
           /\ \A p : OldBuckets(p)' = OldBuckets(p)
           /\ ListsToMake' = ListsToMake
<1>1. Rows' = Rows /\ \A r : ItemOf(r)' = ItemOf(r)
  BY DEF Rows, ItemOf
<1>2. Link' = Link
  BY <1>1 DEF Link
<1>3. \A i : LastRow(i)' = LastRow(i) /\ Parent(i)' = Parent(i)
  BY DEF LastRow, Parent
<1>4. \A s : OldId(s)' = OldId(s)
  BY DEF OldId
<1>5. \A p : RowsOf(p)' = RowsOf(p)
  BY <1>1 DEF RowsOf
<1>6. \A p : OldBuckets(p)' = OldBuckets(p)
  BY DEF OldBuckets
<1>7. ListsToMake' = ListsToMake
  BY <1>5 DEF ListsToMake
<1> QED BY <1>1, <1>2, <1>3, <1>4, <1>5, <1>6, <1>7

-----------------------------------------------------------------------------
(* What the statements write *)

LEMMA BucketAdded ==
    ASSUME BucketType, NEW l \in lists, NEW s \in Sections \union {0}, NEW p \in Nat,
           lists' = lists, InsertBucket(l, s, p)
    PROVE  /\ BucketType'
           /\ DOMAIN bucket' = DOMAIN bucket \union {nextBucket}
           /\ \A b \in DOMAIN bucket : b \in Nat /\ b < nextBucket /\ bucket'[b] = bucket[b]
           /\ bucket'[nextBucket] = [list |-> l, of |-> s, pos |-> p]
           /\ \A q : q # l => BucketsOf(q)' = BucketsOf(q)
           /\ BucketsOf(l)' = BucketsOf(l) \union {nextBucket}
<1>1. /\ DOMAIN bucket' = DOMAIN bucket \union {nextBucket}
      /\ \A b \in DOMAIN bucket' : bucket'[b] = IF b = nextBucket
                                                THEN [list |-> l, of |-> s, pos |-> p]
                                                ELSE bucket[b]
      /\ nextBucket' = nextBucket + 1
  BY DEF InsertBucket
<1>2. nextBucket \in Nat \ {0} /\ \A b \in DOMAIN bucket : b \in Nat \ {0} /\ b < nextBucket
  BY DEF BucketType
<1>3. \A b \in DOMAIN bucket : bucket'[b] = bucket[b]
  BY <1>1, <1>2
<1>4. bucket'[nextBucket] = [list |-> l, of |-> s, pos |-> p]
  BY <1>1
<1>5. DOMAIN bucket' \subseteq 1 .. nextBucket' - 1
  BY <1>1, <1>2
<1>6. \A b \in DOMAIN bucket' : bucket'[b] \in [list : lists, of : Sections \union {0}, pos : Nat]
  BY <1>1, <1>3, <1>4 DEF BucketType
<1>7. bucket' = [b \in DOMAIN bucket' |-> bucket'[b]]
  BY <1>1 DEF InsertBucket
<1>8. bucket' \in [DOMAIN bucket' -> [list : lists, of : Sections \union {0}, pos : Nat]]
  BY <1>6, <1>7
<1>9. BucketType'
  BY <1>1, <1>2, <1>5, <1>8 DEF BucketType
<1>10. \A q : q # l => BucketsOf(q)' = BucketsOf(q)
  BY <1>1, <1>3, <1>4 DEF BucketsOf
<1>11. BucketsOf(l)' = BucketsOf(l) \union {nextBucket}
  BY <1>1, <1>3, <1>4 DEF BucketsOf
<1> QED BY <1>1, <1>2, <1>3, <1>4, <1>9, <1>10, <1>11

LEMMA FirstBucketsAre ==
    ASSUME BucketType, NEW l
    PROVE  /\ FirstBuckets(l) \subseteq BucketsOf(l) /\ BucketsOf(l) \subseteq DOMAIN bucket
           /\ DOMAIN bucket \subseteq Nat \ {0}
BY DEF FirstBuckets, BucketsOf, BucketType

LEMMA OldIdIs ==
    ASSUME NEW s \in Sections \union {0}
    PROVE  /\ OldId(s) \in 0 .. NumSections
           /\ s # 0 => OldId(s) # 0
           /\ data.service # "todoist" => OldId(s) = s
           /\ data.service = "todoist" /\ s # 0 => OldId(s) = 1
           /\ OldId(0) = 0
<1>1. NumSections \in Nat /\ Sections = 1 .. NumSections
  BY ConstantsAssumption DEF Sections
<1>2. s \in 0 .. NumSections /\ 0 \in 0 .. NumSections /\ (s # 0 => 1 \in 0 .. NumSections)
  BY <1>1
<1> QED BY <1>2 DEF OldId

LEMMA SectionIs ==
    ASSUME data \in Data, NEW i \in Items
    PROVE  /\ data.item[i].section \in Sections \union {0}
           /\ data.item[i].section # 0 => SectionProject[data.item[i].section] = data.item[i].project
           /\ data.item[i].project \in Projects \union {0}
<1>1. data.item[i] \in Item
  BY DataIs
<1> QED BY <1>1 DEF Item, Placed

LEMMA TaskAdded ==
    ASSUME TInv, at # 0, NEW r \in Rows, InsertTask(r)
    PROVE  /\ TaskType' /\ idOf' \in [Rows -> Nat] /\ needsDefault' \in BOOLEAN
           /\ DOMAIN task' = DOMAIN task \union {nextTask}
           /\ \A t \in DOMAIN task : t \in Nat /\ t < nextTask /\ task'[t] = task[t]
           /\ nextTask \in Nat \ {0} /\ nextTask \notin DOMAIN task
           /\ task'[nextTask].item = ItemNo(r) /\ task'[nextTask].list = at
           /\ LET b == made[OldId(ItemOf(r).section)]
              IN  IF b # 0 THEN task'[nextTask].bucket = b
                  ELSE task'[nextTask].bucket \in FirstBuckets(at) /\ needsDefault'
           /\ needsDefault => needsDefault'
           /\ idOf'[r] = nextTask /\ \A q \in Rows : q # r => idOf'[q] = idOf[q]
<1> DEFINE b == made[OldId(ItemOf(r).section)]
           new(c) == [item |-> ItemNo(r), list |-> at, bucket |-> c]
<1>1. at \in lists /\ idOf \in [Rows -> Nat] /\ nextTask \in Nat \ {0}
  BY DEF TInv, ControlType, TaskType
<1>2. ItemNo(r) \in Items /\ OldId(ItemOf(r).section) \in 0 .. NumSections
  BY RowsAre, SectionIs, OldIdIs DEF TInv, StructureType, ItemOf
<1>3. b \in Nat
  BY <1>2 DEF TInv, ControlType
<1>4. PICK c \in IF b # 0 THEN {b} ELSE FirstBuckets(at) :
        task' = [t \in DOMAIN task \union {nextTask} |->
                   IF t = nextTask THEN new(c) ELSE task[t]]
  BY DEF InsertTask
<1>5. c \in Nat \ {0}
  BY <1>3, <1>4, FirstBucketsAre DEF TInv
<1>6. new(c) \in [item : Items, list : lists, bucket : Nat \ {0}]
  BY <1>1, <1>2, <1>5
<1>7. \A t \in DOMAIN task : t \in Nat \ {0} /\ t < nextTask
  BY DEF TInv, TaskType
<1>8. /\ DOMAIN task' = DOMAIN task \union {nextTask}
      /\ task'[nextTask] = new(c)
      /\ \A t \in DOMAIN task : task'[t] = task[t]
  BY <1>4, <1>7
<1>9. lists' = lists /\ nextTask' = nextTask + 1 /\ idOf' = [idOf EXCEPT ![r] = nextTask]
      /\ needsDefault' = (needsDefault \/ b = 0)
  BY DEF InsertTask
<1>10. task' \in [DOMAIN task' -> [item : Items, list : lists, bucket : Nat \ {0}]]
  <2>1. \A t \in DOMAIN task : task[t] \in [item : Items, list : lists, bucket : Nat \ {0}]
    BY DEF TInv, TaskType
  <2>2. \A t \in DOMAIN task' : task'[t] \in [item : Items, list : lists, bucket : Nat \ {0}]
    BY <2>1, <1>6, <1>8
  <2> HIDE DEF new
  <2>3. task' = [t \in DOMAIN task' |-> task'[t]]
    BY <1>4
  <2> QED BY <2>2, <2>3
<1>11. DOMAIN task' \subseteq 1 .. nextTask' - 1
  BY <1>1, <1>7, <1>8, <1>9
<1>12. TaskType'
  BY <1>1, <1>9, <1>10, <1>11 DEF TaskType
<1>13. idOf' \in [Rows -> Nat] /\ idOf'[r] = nextTask /\ \A q \in Rows : q # r => idOf'[q] = idOf[q]
  BY <1>1, <1>9
<1>14. task'[nextTask].item = ItemNo(r) /\ task'[nextTask].list = at /\ task'[nextTask].bucket = c
  BY <1>8
<1>15. b # 0 => task'[nextTask].bucket = b
  BY <1>4, <1>14
<1>16. b = 0 => task'[nextTask].bucket \in FirstBuckets(at) /\ needsDefault'
  BY <1>4, <1>9, <1>14
<1>17. needsDefault' \in BOOLEAN /\ (needsDefault => needsDefault')
  BY <1>9
<1>18. nextTask \notin DOMAIN task
  BY <1>1, <1>7
<1> QED BY <1>1, <1>7, <1>8, <1>12, <1>13, <1>14, <1>15, <1>16, <1>17, <1>18

(* What a task brings to be related to: of a Todoist only tasks that are made *)
(* with it, and of the others only tasks by the id they had.                  *)
LEMMA LinksAre ==
    ASSUME StructureType, NEW r \in Rows
    PROVE  /\ Links(r) \subseteq Link
           /\ data.service = "todoist" =>
                Links(r) = {[kind |-> "subtask", row |-> LastRow(i), id |-> 0] : i \in Below(r)}
           /\ data.service # "todoist" => \A k \in Links(r) : k.id # 0
<1> DEFINE up == {[kind |-> "parenttask", row |-> r, id |-> ItemOf(r).parent]}
           below == {[kind |-> "subtask", row |-> r, id |-> i] :
                       i \in {j \in Items : data.item[j].parent = r}}
           new == {[kind |-> "subtask", row |-> LastRow(i), id |-> 0] : i \in Below(r)}
<1>1. data \in Data /\ nested \subseteq Items
  BY DEF StructureType
<1>2. /\ data.service = "todoist" => Links(r) = new
      /\ data.service = "trello" => Links(r) = {}
      /\ data.service = "ticktick" => Links(r) = {k \in up : k.id # 0}
      /\ data.service = "vikunja" => Links(r) = {k \in up : k.id # 0} \union below
  BY DEF Links
<1>3. data.service \in {"todoist", "trello", "ticktick", "vikunja"}
  BY <1>1, DataIs DEF Services
<1>4. \A i \in Items : i \in Nat /\ i # 0
  BY ConstantsAssumption DEF Items
<1>5. PICK parent \in Items \union {0} : parent = ItemOf(r).parent
  BY <1>1, DataIs, RowsAre DEF ItemOf, Parent
<1>6. up \subseteq Link
  <2>1. parent \in Nat
    BY <1>4, <1>5
  <2>2. [kind |-> "parenttask", row |-> r, id |-> parent] \in Link
    BY <2>1 DEF Link
  <2> QED BY <1>5, <2>2
<1>7. below \subseteq Link /\ \A k \in below : k.id # 0
  BY <1>4 DEF Link
<1>8. new \subseteq Link
  BY <1>1, RowsAre DEF Link, Below
<1> QED BY <1>2, <1>3, <1>6, <1>7, <1>8

LEMMA InitTypes == Init => TInv
<1> SUFFICES ASSUME Init PROVE TInv
  OBVIOUS
<1>1. data \in Data /\ toNest \subseteq Rows /\ nested \subseteq Items
  BY DEF Init
<1>2. PICK n \in Used : nextBucket = n + 1 /\ nextTask = n + 1
  BY DEF Init
<1>3. nextBucket \in Nat \ {0} /\ nextTask \in Nat \ {0}
  BY <1>2, ConstantsAssumption
<1>4. /\ step = "convert" /\ at = 0 /\ row = 0 /\ links = {} /\ dropped = 0
      /\ made = [o \in 0 .. NumSections |-> 0] /\ needsDefault = FALSE
      /\ idOf = [r \in Rows |-> 0] /\ lists = {}
  BY DEF Init
<1>5. made \in [0 .. NumSections -> Nat] /\ idOf \in [Rows -> Nat]
  BY <1>4
<1>6. ControlType
  BY <1>4, <1>5 DEF ControlType
<1>7. DOMAIN bucket = {} /\ bucket \in [DOMAIN bucket -> [list : lists, of : Sections \union {0}, pos : Nat]]
  BY DEF Init
<1>8. DOMAIN task = {} /\ task \in [DOMAIN task -> [item : Items, list : lists, bucket : Nat \ {0}]]
  BY DEF Init
<1> QED BY <1>1, <1>3, <1>6, <1>7, <1>8 DEF TInv, StructureType, BucketType, TaskType

(* The converter does not touch the tables, and the import not what was converted. *)
LEMMA NextStands ==
    ASSUME Next, ~ \E r \in Rows : Nest(r)
    PROVE  structure' = structure
BY DEF Next, Converted, InsertList, InsertBacklog, InsertOldBucket, InsertTop, InsertRelated,
   InsertTask, Relate, KeepBacklog, DropFirstBucket, Rehome, Fail, Finish, structure

LEMMA NextStructure ==
    ASSUME StructureType, [Next]_vars
    PROVE  StructureType' /\ data' = data
<1>1. ASSUME NEW r \in Rows, Nest(r) PROVE StructureType' /\ data' = data
  <2>1. data' = data /\ toNest' \subseteq toNest
    BY <1>1 DEF Nest
  <2>2. ItemNo(r) \in Items
    BY RowsAre DEF StructureType
  <2>3. nested' \subseteq nested \union {ItemNo(r)}
    BY <1>1 DEF Nest
  <2> QED BY <2>1, <2>2, <2>3, DataStays DEF StructureType
<1>2. ASSUME structure' = structure PROVE StructureType' /\ data' = data
  BY <1>2, DataStays DEF structure, StructureType
<1> QED BY <1>1, <1>2, NextStands DEF vars, structure

(* The bucket of a task that is made, and the relations it is to get. *)
LEMMA TopType ==
    ASSUME TInv, NEW r \in Rows, InsertTop(r)
    PROVE  ControlType' /\ BucketType' /\ TaskType'
<1>1. /\ step = "fill" /\ InsertTask(r) /\ row' = r /\ links' = Links(r)
      /\ UNCHANGED <<structure, step, at, dropped, made, lists, bucket, nextBucket>>
  BY DEF InsertTop, InsertTask
<1>2. at # 0
  BY <1>1 DEF TInv, ControlType
<1>3. TaskType' /\ idOf' \in [Rows -> Nat] /\ needsDefault' \in BOOLEAN
  BY <1>1, <1>2, TaskAdded
<1>4. Links(r) \subseteq Link
  BY LinksAre DEF TInv
<1>5. Rows' = Rows /\ Link' = Link
  BY <1>1, DataStays DEF structure
<1> QED BY <1>1, <1>3, <1>4, <1>5 DEF TInv, ControlType, BucketType

LEMMA RelatedType ==
    ASSUME TInv, NEW k \in links, InsertRelated(k)
    PROVE  ControlType' /\ BucketType' /\ TaskType'
<1>1. /\ step = "fill" /\ InsertTask(k.row) /\ row' = row
      /\ links' = (links \ {k}) \union {[k EXCEPT !.id = nextTask]}
      /\ UNCHANGED <<structure, step, at, dropped, made, lists, bucket, nextBucket>>
  BY DEF InsertRelated, InsertTask
<1>2. at # 0 /\ links \subseteq Link
  BY <1>1 DEF TInv, ControlType
<1>3. k.row \in Rows /\ nextTask \in Nat
  BY <1>2 DEF Link, TInv, TaskType
<1>4. TaskType' /\ idOf' \in [Rows -> Nat] /\ needsDefault' \in BOOLEAN
  BY <1>1, <1>2, <1>3, TaskAdded
<1>5. [k EXCEPT !.id = nextTask] \in Link
  BY <1>2, <1>3 DEF Link
<1>6. Rows' = Rows /\ Link' = Link
  BY <1>1, DataStays DEF structure
<1> QED BY <1>1, <1>2, <1>4, <1>5, <1>6 DEF TInv, ControlType, BucketType

LEMMA NextTypes == ASSUME TInv, [Next]_vars PROVE TInv'
<1>1. StructureType' /\ data' = data
  BY NextStructure DEF TInv
<1>2. Rows' = Rows /\ Link' = Link
  BY <1>1, DataStays
<1>3. CASE UNCHANGED vars
  BY <1>1, <1>2, <1>3 DEF TInv, ControlType, BucketType, TaskType, vars
<1>4. ASSUME NEW r \in Rows, Nest(r) PROVE TInv'
  BY <1>1, <1>2, <1>4 DEF TInv, ControlType, BucketType, TaskType, Nest
<1>5. ASSUME NEW r \in Rows, InsertTop(r) PROVE TInv'
  BY <1>1, <1>5, TopType DEF TInv
<1>6. CASE Converted
  BY <1>1, <1>2, <1>6 DEF TInv, ControlType, BucketType, TaskType, Converted
<1>7. ASSUME NEW p \in Projects, InsertList(p) PROVE TInv'
  <2>1. /\ lists' = lists \union {p} /\ at' = p /\ step' = "backlog"
        /\ made' = [o \in 0 .. NumSections |-> 0] /\ needsDefault' = FALSE
        /\ UNCHANGED <<row, links, dropped, idOf, bucket, task, nextBucket, nextTask>>
    BY <1>7 DEF InsertList
  <2>2. made' \in [0 .. NumSections -> Nat] /\ p # 0
    BY <2>1, ConstantsAssumption
  <2>3. ControlType'
    BY <1>2, <2>1, <2>2 DEF TInv, ControlType
  <2>4. BucketType' /\ TaskType'
    BY <2>1 DEF TInv, BucketType, TaskType
  <2> QED BY <1>1, <2>3, <2>4 DEF TInv
<1>8. CASE InsertBacklog
  <2>1. at \in lists /\ nextBucket \in Nat /\ lists' = lists
    BY <1>8 DEF TInv, ControlType, BucketType, InsertBacklog
  <2>2. BucketType'
    BY <1>8, <2>1, BucketAdded DEF TInv, InsertBacklog
  <2> QED BY <1>1, <1>2, <1>8, <2>2 DEF TInv, ControlType, TaskType, InsertBacklog
<1>9. ASSUME NEW s \in Sections, InsertOldBucket(s) PROVE TInv'
  <2>1. at \in lists /\ nextBucket \in Nat /\ lists' = lists
    BY <1>9 DEF TInv, ControlType, BucketType, InsertOldBucket
  <2>2. PICK pos : pos = IF data.service = "vikunja" THEN OldPosition[s] ELSE nextBucket
    OBVIOUS
  <2>3. pos \in Nat
    BY <2>1, <2>2, ConstantsAssumption
  <2>4. BucketType'
    BY <1>9, <2>1, <2>2, <2>3, BucketAdded DEF TInv, InsertOldBucket
  <2>5. made' \in [0 .. NumSections -> Nat]
    BY <1>9, <2>1 DEF TInv, ControlType, InsertOldBucket
  <2> QED BY <1>1, <1>2, <1>9, <2>4, <2>5 DEF TInv, ControlType, TaskType, InsertOldBucket
<1>10. ASSUME NEW k \in links, InsertRelated(k) PROVE TInv'
  BY <1>1, <1>10, RelatedType DEF TInv
<1>11. ASSUME NEW k \in links, Relate(k) PROVE TInv'
  BY <1>1, <1>2, <1>11 DEF TInv, ControlType, BucketType, TaskType, Relate
<1>12. CASE KeepBacklog
  BY <1>1, <1>2, <1>12 DEF TInv, ControlType, BucketType, TaskType, KeepBacklog
<1>13. ASSUME NEW b \in DOMAIN bucket, DropFirstBucket(b) PROVE TInv'
  <2>1. /\ bucket' = [c \in DOMAIN bucket \ {b} |-> bucket[c]] /\ dropped' = b /\ step' = "rehome"
        /\ UNCHANGED <<at, row, links, made, needsDefault, idOf, lists, task, nextBucket, nextTask>>
        /\ step = "fill"
    BY <1>13 DEF DropFirstBucket, Filled
  <2>2. BucketType'
    BY <2>1 DEF TInv, BucketType
  <2>3. b \in Nat
    BY DEF TInv, BucketType
  <2>4. ControlType'
    BY <1>2, <2>1, <2>3 DEF TInv, ControlType
  <2> QED BY <1>1, <2>1, <2>2, <2>4 DEF TInv, TaskType
<1>14. ASSUME NEW b \in DOMAIN bucket, Rehome(b) PROVE TInv'
  <2>1. /\ task' = [t \in DOMAIN task |->
                      IF task[t].bucket = dropped THEN [task[t] EXCEPT !.bucket = b] ELSE task[t]]
        /\ step' = "list" /\ step = "rehome"
        /\ UNCHANGED <<at, row, links, dropped, made, needsDefault, idOf, lists, bucket,
                       nextBucket, nextTask>>
    BY <1>14 DEF Rehome
  <2>2. b \in Nat \ {0}
    BY DEF TInv, BucketType
  <2>3. \A t \in DOMAIN task : task[t] \in [item : Items, list : lists, bucket : Nat \ {0}]
    BY DEF TInv, TaskType
  <2>4. TaskType'
    BY <2>1, <2>2, <2>3 DEF TInv, TaskType
  <2>5. ControlType'
    BY <1>2, <2>1 DEF TInv, ControlType
  <2> QED BY <1>1, <2>1, <2>4, <2>5 DEF TInv, BucketType
<1>15. CASE Fail
  BY <1>1, <1>2, <1>15 DEF TInv, ControlType, BucketType, TaskType, Fail
<1>16. CASE Finish
  BY <1>1, <1>2, <1>16 DEF TInv, ControlType, BucketType, TaskType, Finish
<1> QED BY <1>3, <1>4, <1>5, <1>6, <1>7, <1>8, <1>9, <1>10, <1>11, <1>12, <1>13, <1>14, <1>15, <1>16
        DEF Next

LEMMA TypesAreTyped == TInv => TypeOK
<1> SUFFICES ASSUME TInv PROVE TypeOK
  OBVIOUS
<1>1. \A b \in DOMAIN bucket : bucket[b] \in [list : Projects, of : Sections \union {0}, pos : Nat]
  BY DEF TInv, BucketType, ControlType
<1>2. \A t \in Tasks : task[t].item \in Items /\ task[t].list \in Projects
  BY DEF TInv, TaskType, ControlType, Tasks
<1>3. nextBucket \notin DOMAIN bucket /\ nextTask \notin Tasks
  BY DEF TInv, BucketType, TaskType, Tasks
<1> QED BY <1>1, <1>2, <1>3 DEF TypeOK, TInv, ControlType

(* The types, for every service and whatever it answers: ids that were given *)
(* are not given again, and a task is in a list that was made (the counters   *)
(* of the tables, insertFromStructure).                                       *)
THEOREM TypeCorrect == Spec => []TypeOK
<1>1. TInv /\ [Next]_vars => TInv'
  BY NextTypes
<1> QED BY InitTypes, <1>1, TypesAreTyped, PTL DEF Spec

-----------------------------------------------------------------------------
(* The converter of Todoist *)

Shallow(i) == Parent(i) # 0 => Parent(Parent(i)) = 0

(* A task whose parent is on top is put below it when its first row is looked *)
(* at, and at a second row of it the converter panics.                        *)
NestInv ==
    /\ step \in {"convert", "failed"} \/ toNest = {}
    /\ \A r \in toNest : data.service = "todoist" /\ Parent(ItemNo(r)) # 0
    /\ \A i \in nested : data.service = "todoist" /\ Parent(i) # 0
    /\ step # "failed" /\ data.service = "todoist" =>
         \A r \in Rows \ toNest : Parent(ItemNo(r)) # 0 /\ Shallow(ItemNo(r)) =>
            /\ ItemNo(r) \in nested
            /\ ItemNo(r) \in data.again => r <= NumItems /\ NumItems + r \in toNest

LEMMA InitNest == Init => NestInv
<1> SUFFICES ASSUME Init PROVE NestInv
  OBVIOUS
<1>1. step = "convert" /\ nested = {}
      /\ toNest = IF data.service = "todoist" THEN {r \in Rows : ItemOf(r).parent # 0} ELSE {}
  BY DEF Init
<1>2. \A r \in toNest : data.service = "todoist" /\ Parent(ItemNo(r)) # 0
  BY <1>1 DEF Parent, ItemOf
<1>3. data.service = "todoist" => \A r \in Rows \ toNest : Parent(ItemNo(r)) = 0
  BY <1>1 DEF Parent, ItemOf
<1> QED BY <1>1, <1>2, <1>3 DEF NestInv

LEMMA NestKeeps ==
    ASSUME TInv, NestInv, NEW r \in Rows, Nest(r)
    PROVE  NestInv'
<1> DEFINE i == ItemNo(r)
<1>1. /\ step = "convert" /\ r \in toNest /\ \A q \in toNest : r <= q
      /\ toNest' = toNest \ {r} /\ data' = data
      /\ step' \in {"convert", "failed"} /\ nested \subseteq nested' /\ nested' \subseteq nested \union {i}
      /\ Parent(i) \notin nested /\ step' # "failed" => i \notin nested /\ i \in nested'
  BY DEF Nest, IsLeast, ItemOf, Parent
<1>2. data.service = "todoist" /\ Parent(i) # 0
  BY <1>1 DEF NestInv
<1>3. Rows' = Rows /\ \A j : Parent(j)' = Parent(j)
  BY <1>1, DataStays
<1>4. \A q \in toNest' : Parent(ItemNo(q)) # 0
  BY <1>1 DEF NestInv
<1>5. \A j \in nested' : Parent(j) # 0
  BY <1>1, <1>2 DEF NestInv
<1>6. ASSUME step' # "failed", NEW q \in Rows \ toNest',
             Parent(ItemNo(q)) # 0, Shallow(ItemNo(q))
      PROVE  /\ ItemNo(q) \in nested'
             /\ ItemNo(q) \in data.again => q <= NumItems /\ NumItems + q \in toNest'
  <2>1. ASSUME Shallow(i) PROVE i \notin nested /\ i \in nested'
    <3>1. Parent(Parent(i)) = 0
      BY <2>1, <1>2 DEF Shallow
    <3>2. Parent(i) \notin nested
      BY <3>1 DEF NestInv
    <3> QED BY <3>2, <1>6, <1>1
  <2>2. NumItems \in Nat /\ Rows \subseteq Nat
    BY ConstantsAssumption, RowsAre DEF TInv, StructureType
  <2>3. CASE q = r
    <3>1. i \notin nested /\ i \in nested'
      BY <2>1, <2>3, <1>6
    <3>2. ASSUME i \in data.again PROVE r <= NumItems /\ NumItems + r \in toNest'
      <4>1. i \in Items /\ i \in Rows /\ ItemNo(i) = i /\ NumItems + i \in Rows /\ ItemNo(NumItems + i) = i
            /\ (r = i \/ r = NumItems + i)
        BY <3>2, RowsAre DEF TInv, StructureType
      <4>2. i \in Nat /\ 1 <= i /\ i <= NumItems
        BY <4>1, <2>2 DEF Items
      <4>3. \A o \in Rows : ItemNo(o) = i => o \in toNest
        BY <3>1, <2>3, <1>1, <1>2, <1>6 DEF NestInv
      <4>4. i \in toNest /\ NumItems + i \in toNest
        BY <4>1, <4>3
      <4>5. r <= i
        BY <4>4, <1>1
      <4>6. r # NumItems + i
        BY <4>5, <4>2, <2>2
      <4> QED BY <4>1, <4>2, <4>4, <4>6, <2>2, <1>1
    <3> QED BY <3>1, <3>2, <2>3
  <2>4. CASE q # r
    <3>1. q \in Rows \ toNest
      BY <2>4, <1>1, <1>6
    <3>2. ItemNo(q) \in nested /\ (ItemNo(q) \in data.again => q <= NumItems /\ NumItems + q \in toNest)
      BY <3>1, <1>1, <1>2, <1>6 DEF NestInv
    <3>3. ASSUME ItemNo(q) \in data.again, NumItems + q = r PROVE FALSE
      <4>1. q <= NumItems
        BY <3>2, <3>3
      <4>2. ItemNo(q) = q /\ q \in data.again
        BY <4>1, <3>3 DEF ItemNo
      <4>3. ItemNo(r) = q
        BY <4>2, <3>3, RowsAre DEF TInv, StructureType
      <4> QED BY <4>2, <4>3, <3>2, <2>1, <1>6
    <3> QED BY <3>2, <3>3, <1>1
  <2> QED BY <2>3, <2>4
<1>7. \A j : Shallow(j)' = Shallow(j)
  BY <1>3 DEF Shallow
<1> QED BY <1>1, <1>2, <1>3, <1>4, <1>5, <1>6, <1>7 DEF NestInv

LEMMA NextNest == ASSUME TInv, NestInv, [Next]_vars PROVE NestInv'
<1>1. ASSUME UNCHANGED <<data, toNest, nested>>, step' = step \/ (step # "failed" /\ toNest = {})
      PROVE  NestInv'
  <2>1. Rows' = Rows /\ \A j : Parent(j)' = Parent(j)
    BY <1>1, DataStays
  <2>2. \A j : Shallow(j)' = Shallow(j)
    BY <2>1 DEF Shallow
  <2> QED BY <1>1, <2>1, <2>2 DEF NestInv
<1>2. ASSUME Next, ~ \E r \in Rows : Nest(r)
      PROVE  UNCHANGED <<data, toNest, nested>>
  BY <1>2, NextStands DEF structure
<1>5. ASSUME Next, ~ \E r \in Rows : Nest(r)
      PROVE  step \in {"list", "backlog", "fill", "rehome"} \/ (toNest = {} /\ step = "convert")
  BY <1>5 DEF Next, Converted, InsertList, InsertBacklog, InsertOldBucket, InsertTop, InsertRelated,
     Relate, KeepBacklog, DropFirstBucket, Rehome, Fail, Finish, Filled
<1>3. step \in {"list", "backlog", "fill", "rehome"} => step # "failed" /\ toNest = {}
  BY DEF NestInv
<1>4. UNCHANGED vars => UNCHANGED <<data, toNest, nested>> /\ step' = step
  BY DEF vars
<1>6. step = "convert" => step # "failed"
  OBVIOUS
<1> QED BY <1>1, <1>2, <1>3, <1>4, <1>5, <1>6, NestKeeps DEF Next

(* What is below a task comes after it, and is in its list. *)
LEMMA BelowAre ==
    ASSUME TInv, NestInv, NEW r, NEW i \in Below(r)
    PROVE  /\ i \in nested /\ i \in Items /\ data.service = "todoist"
           /\ Parent(i) \in Items /\ r = LastRow(Parent(i)) /\ r \in Rows
           /\ LastRow(i) \in Rows /\ ItemNo(LastRow(i)) = i
           /\ ItemOf(LastRow(i)).project = ItemOf(r).project
<1>1. i \in nested /\ r = LastRow(Parent(i)) /\ i \in Items
  BY DEF Below, Parent, TInv, StructureType
<1>2. data.service = "todoist" /\ Parent(i) \in Items /\ Parent(i) # 0
  BY <1>1, DataIs DEF NestInv, TInv, StructureType
<1>3. /\ LastRow(i) \in Rows /\ ItemNo(LastRow(i)) = i
      /\ r \in Rows /\ ItemNo(r) = Parent(i)
  BY <1>1, <1>2, RowsAre DEF TInv, StructureType
<1>4. data.item[Parent(i)].project = data.item[i].project
  BY <1>1, <1>2, DataIs DEF TInv, StructureType
<1> QED BY <1>1, <1>2, <1>3, <1>4 DEF ItemOf

-----------------------------------------------------------------------------
(* Every task once, and related *)

(* The rows that have a task and the tasks belong together one to one. *)
Matched ==
    /\ \A r \in Rows : idOf[r] # 0 =>
         /\ idOf[r] \in DOMAIN task
         /\ task[idOf[r]].item = ItemNo(r) /\ task[idOf[r]].list = ItemOf(r).project
    /\ \A r, q \in Rows : idOf[r] = idOf[q] /\ idOf[r] # 0 => r = q
    /\ \A t \in DOMAIN task : \E r \in Rows : idOf[r] = t

Top(r) == ItemNo(r) \in nested => r # LastRow(ItemNo(r))
Related(o, t) == <<o, "subtask", t>> \in relation /\ <<t, "parenttask", o>> \in relation

(* Relations are left of a task of the list at hand, which was made as one of *)
(* the list; those of a Todoist lead to the tasks below it, by their ids once *)
(* these are made.                                                            *)
LinksSound ==
    /\ links # {} =>
         /\ step \in {"fill", "failed"}
         /\ row \in Rows /\ Top(row) /\ idOf[row] # 0 /\ ItemOf(row).project = at
    /\ \A k \in links :
         \/ data.service # "todoist" /\ k.id # 0
         \/ /\ data.service = "todoist" /\ k.kind = "subtask" /\ k.id = idOf[k.row]
            /\ \E i \in Below(row) : k.row = LastRow(i)

(* A task below another is not made before that, and it is made and related to *)
(* it, or that is ahead.                                                       *)
BelowSound ==
    /\ \A i \in nested : idOf[LastRow(i)] # 0 => idOf[LastRow(Parent(i))] # 0
    /\ \A r \in Rows : Top(r) /\ idOf[r] # 0 =>
         \A i \in Below(r) :
            \/ r = row /\ \E k \in links : k.row = LastRow(i)
            \/ idOf[LastRow(i)] # 0 /\ Related(idOf[r], idOf[LastRow(i)])

(* A list that is done has a task of each of its rows that are on top. *)
ListsSound ==
    /\ \A p \in lists : p # at \/ step \in {"list", "rehome", "done"} =>
         \A r \in TopRows(p) : idOf[r] # 0
    /\ step = "done" => ListsToMake \subseteq lists

(* Relations go both ways, and those of a Todoist to tasks that are there. *)
RelationsSound ==
    \A r \in relation :
       /\ r = <<r[1], r[2], r[3]>> /\ r[2] \in {"subtask", "parenttask"}
       /\ <<r[3], Inverted(r[2]), r[1]>> \in relation
       /\ r[1] \in DOMAIN task \/ r[3] \in DOMAIN task
       /\ data.service = "todoist" => r[1] \in DOMAIN task /\ r[3] \in DOMAIN task

OnceInv ==
    NestInv /\ Matched /\ LinksSound /\ BelowSound /\ ListsSound /\ RelationsSound

LEMMA InitOnce == Init => OnceInv
<1> SUFFICES ASSUME Init PROVE OnceInv
  OBVIOUS
<1>1. /\ step = "convert" /\ links = {} /\ nested = {} /\ idOf = [r \in Rows |-> 0]
      /\ lists = {} /\ DOMAIN task = {} /\ relation = {}
  BY DEF Init
<1>2. Matched /\ LinksSound /\ BelowSound /\ ListsSound /\ RelationsSound
  BY <1>1 DEF Matched, LinksSound, BelowSound, ListsSound, RelationsSound
<1> QED BY <1>2, InitNest DEF OnceInv

(* As long as rows are converted there is no task. *)
LEMMA NothingMade ==
    ASSUME TInv, Matched, step = "convert"
    PROVE  \A r \in Rows : idOf[r] = 0
<1>1. lists = {}
  BY DEF TInv, ControlType
<1>2. \A t \in DOMAIN task : task[t].list \in lists
  BY DEF TInv, TaskType
<1> QED BY <1>1, <1>2 DEF Matched

(* Which steps write which tables. *)
LEMMA NextTables ==
    ASSUME Next
    PROVE  /\ ~ (\E r \in Rows : InsertTop(r)) /\ ~ (\E k \in links : InsertRelated(k)) => UNCHANGED idOf
           /\ /\ ~ (\E r \in Rows : InsertTop(r)) /\ ~ (\E k \in links : InsertRelated(k))
              /\ ~ (\E b \in DOMAIN bucket : Rehome(b))
              => UNCHANGED task
           /\ /\ ~ (\E r \in Rows : InsertTop(r)) /\ ~ (\E k \in links : InsertRelated(k))
              /\ ~ (\E k \in links : Relate(k))
              => UNCHANGED <<row, links>>
           /\ ~ (\E k \in links : Relate(k)) => UNCHANGED relation
<1>1. ASSUME ~ (\E r \in Rows : InsertTop(r)), ~ (\E k \in links : InsertRelated(k))
      PROVE  /\ UNCHANGED idOf
             /\ ~ (\E b \in DOMAIN bucket : Rehome(b)) => UNCHANGED task
             /\ ~ (\E k \in links : Relate(k)) => UNCHANGED <<row, links>>
  BY <1>1 DEF Next, Nest, Converted, InsertList, InsertBacklog, InsertOldBucket,
     Relate, KeepBacklog, DropFirstBucket, Rehome, Fail, Finish
<1>2. ~ (\E k \in links : Relate(k)) => UNCHANGED relation
  BY DEF Next, Nest, Converted, InsertList, InsertBacklog, InsertOldBucket, InsertTop, InsertRelated,
     InsertTask, KeepBacklog, DropFirstBucket, Rehome, Fail, Finish
<1> QED BY <1>1, <1>2

(* A task is made of a row that has none yet, in the list of its project. *)
LEMMA TopIsNew ==
    ASSUME TInv, NEW r \in Rows, InsertTop(r)
    PROVE  /\ at # 0 /\ idOf[r] = 0 /\ ItemOf(r).project = at /\ Top(r)
           /\ links = {} /\ step = "fill" /\ InsertTask(r) /\ BucketsLeft = {}
           /\ row' = r /\ links' = Links(r)
<1>1. /\ r \in RowsLeft /\ step = "fill" /\ links = {} /\ InsertTask(r) /\ BucketsLeft = {}
      /\ row' = r /\ links' = Links(r)
  BY DEF InsertTop, IsLeast
<1>2. r \in TopRows(at) /\ idOf[r] = 0
  BY <1>1 DEF RowsLeft
<1> QED BY <1>1, <1>2 DEF TopRows, RowsOf, Top, TInv, ControlType

LEMMA RelatedIsNew ==
    ASSUME TInv, NestInv, LinksSound, NEW k \in links, InsertRelated(k)
    PROVE  /\ at # 0 /\ k.row \in Rows /\ idOf[k.row] = 0 /\ ItemOf(k.row).project = at
           /\ k \in Link /\ k.id = 0 /\ k.kind = "subtask" /\ data.service = "todoist"
           /\ step = "fill" /\ InsertTask(k.row)
           /\ row' = row /\ links' = (links \ {k}) \union {[k EXCEPT !.id = nextTask]}
           /\ row \in Rows /\ idOf[row] # 0 /\ ItemOf(row).project = at
           /\ \E i \in Below(row) : k.row = LastRow(i)
<1>1. /\ step = "fill" /\ InsertTask(k.row) /\ k.id = 0
      /\ row' = row /\ links' = (links \ {k}) \union {[k EXCEPT !.id = nextTask]}
  BY DEF InsertRelated
<1>2. at # 0 /\ k \in Link
  BY <1>1 DEF TInv, ControlType
<1>3. PICK i \in Below(row) : data.service = "todoist" /\ k.kind = "subtask" /\ k.id = idOf[k.row]
                              /\ k.row = LastRow(i)
  BY <1>1 DEF LinksSound
<1>4. ItemOf(row).project = at /\ idOf[row] # 0 /\ row \in Rows
  BY DEF LinksSound
<1>5. ItemOf(k.row).project = at
  BY <1>3, <1>4, BelowAre
<1>6. k.row \in Rows
  BY <1>2 DEF Link
<1> QED BY <1>1, <1>2, <1>3, <1>4, <1>5, <1>6

LEMMA TaskMatched ==
    ASSUME TInv, Matched, at # 0, NEW r \in Rows, InsertTask(r),
           idOf[r] = 0, ItemOf(r).project = at
    PROVE  Matched'
<1>1. /\ DOMAIN task' = DOMAIN task \union {nextTask}
      /\ \A t \in DOMAIN task : task'[t] = task[t]
      /\ nextTask \notin DOMAIN task
      /\ task'[nextTask].item = ItemNo(r) /\ task'[nextTask].list = at
      /\ idOf'[r] = nextTask /\ \A q \in Rows : q # r => idOf'[q] = idOf[q]
  BY TaskAdded
<1>2. data' = data
  BY DEF InsertTask, structure
<1>3. Rows' = Rows /\ \A q : ItemOf(q)' = ItemOf(q)
  BY <1>2, DataStays
<1>4. \A q \in Rows : q # r /\ idOf[q] # 0 => idOf[q] \in DOMAIN task /\ idOf[q] # nextTask
  BY <1>1 DEF Matched
<1>5. \A q \in Rows : idOf'[q] # 0 =>
         /\ idOf'[q] \in DOMAIN task'
         /\ task'[idOf'[q]].item = ItemNo(q) /\ task'[idOf'[q]].list = ItemOf(q).project
  BY <1>1, <1>4 DEF Matched
<1>6. \A p, q \in Rows : idOf'[p] = idOf'[q] /\ idOf'[p] # 0 => p = q
  BY <1>1, <1>4 DEF Matched
<1>7. \A t \in DOMAIN task' : \E q \in Rows : idOf'[q] = t
  <2>1. \A t \in DOMAIN task : t # 0
    BY DEF TInv, TaskType
  <2>2. ASSUME NEW t \in DOMAIN task PROVE \E q \in Rows : idOf'[q] = t
    <3>1. PICK q \in Rows : idOf[q] = t
      BY DEF Matched
    <3> QED BY <3>1, <2>1, <1>1
  <2> QED BY <2>2, <1>1
<1> QED BY <1>3, <1>5, <1>6, <1>7 DEF Matched

LEMMA NextMatched ==
    ASSUME TInv, NestInv, LinksSound, Matched, [Next]_vars
    PROVE  Matched'
<1>1. data' = data /\ Rows' = Rows /\ \A q : ItemOf(q)' = ItemOf(q)
  BY NextStructure, DataStays DEF TInv
<1>2. ASSUME UNCHANGED <<idOf, task>> PROVE Matched'
  BY <1>1, <1>2 DEF Matched
<1>3. ASSUME NEW r \in Rows, InsertTop(r) PROVE Matched'
  BY <1>3, TopIsNew, TaskMatched
<1>4. ASSUME NEW k \in links, InsertRelated(k) PROVE Matched'
  <2>1. /\ at # 0 /\ k.row \in Rows /\ idOf[k.row] = 0 /\ ItemOf(k.row).project = at
        /\ InsertTask(k.row)
    BY <1>4, RelatedIsNew
  <2> QED BY <2>1, TaskMatched
<1>5. ASSUME NEW b \in DOMAIN bucket, Rehome(b), UNCHANGED idOf PROVE Matched'
  <2>1. task' = [t \in DOMAIN task |->
                   IF task[t].bucket = dropped THEN [task[t] EXCEPT !.bucket = b] ELSE task[t]]
    BY <1>5 DEF Rehome
  <2>2. \A t \in DOMAIN task : task[t] \in [item : Items, list : lists, bucket : Nat \ {0}]
    BY DEF TInv, TaskType
  <2>3. /\ DOMAIN task' = DOMAIN task
        /\ \A t \in DOMAIN task : task'[t].item = task[t].item /\ task'[t].list = task[t].list
    BY <2>1, <2>2
  <2> QED BY <1>1, <1>5, <2>3 DEF Matched
<1>6. UNCHANGED vars => UNCHANGED <<idOf, task>>
  BY DEF vars
<1> QED BY <1>2, <1>3, <1>4, <1>5, <1>6, NextTables

(* Top tasks and the tasks below them change only while rows are converted. *)
LEMMA BelowStays ==
    ASSUME UNCHANGED <<data, nested>>
    PROVE  /\ \A r : Below(r)' = Below(r) /\ Top(r)' = Top(r)
           /\ \A p : TopRows(p)' = TopRows(p)
<1>1. /\ \A i : LastRow(i)' = LastRow(i)
      /\ \A p : RowsOf(p)' = RowsOf(p)
  BY DataStays
<1>2. \A r : Below(r)' = Below(r)
  BY <1>1 DEF Below
<1>3. \A r : ItemNo(r)' = ItemNo(r)
  BY DEF ItemNo
<1>4. \A r : Top(r)' = Top(r)
  BY <1>1, <1>3 DEF Top
<1>5. \A p : TopRows(p)' = TopRows(p)
  BY <1>1, <1>3 DEF TopRows
<1> QED BY <1>2, <1>4, <1>5

LEMMA TopLinks ==
    ASSUME TInv, OnceInv, NEW r \in Rows, InsertTop(r)
    PROVE  LinksSound' /\ BelowSound'
<1>1. /\ at # 0 /\ idOf[r] = 0 /\ ItemOf(r).project = at /\ Top(r)
      /\ links = {} /\ step = "fill" /\ InsertTask(r)
      /\ row' = r /\ links' = Links(r)
  BY TopIsNew
<1>2. /\ nextTask # 0 /\ idOf'[r] = nextTask /\ \A q \in Rows : q # r => idOf'[q] = idOf[q]
      /\ UNCHANGED <<structure, step, at, relation>>
  BY <1>1, TaskAdded DEF InsertTask
<1>3. UNCHANGED <<data, nested>>
  BY <1>2 DEF structure
<1>4. /\ Rows' = Rows /\ \A q : ItemOf(q)' = ItemOf(q)
      /\ \A i : LastRow(i)' = LastRow(i) /\ Parent(i)' = Parent(i)
      /\ \A q : Below(q)' = Below(q) /\ Top(q)' = Top(q)
  BY <1>3, DataStays, BelowStays
<1>5. \A i \in nested : /\ LastRow(i) \in Rows /\ ItemNo(LastRow(i)) = i /\ LastRow(i) # r
                        /\ LastRow(Parent(i)) \in Rows
  <2>1. \A i \in nested : i \in Items /\ Parent(i) \in Items
    BY DataIs DEF TInv, StructureType, OnceInv, NestInv
  <2>2. \A i \in nested : LastRow(i) \in Rows /\ ItemNo(LastRow(i)) = i /\ LastRow(Parent(i)) \in Rows
    BY <2>1, RowsAre DEF TInv, StructureType
  <2> QED BY <2>2, <1>1 DEF Top
<1>6. \A q : \A i \in Below(q) : i \in nested /\ q = LastRow(Parent(i)) /\ data.service = "todoist"
  BY BelowAre DEF OnceInv
<1>7. \A i \in Below(r) : idOf[LastRow(i)] = 0
  BY <1>1, <1>6 DEF OnceInv, BelowSound
<1>8. data.service = "todoist" =>
        Links(r) = {[kind |-> "subtask", row |-> LastRow(i), id |-> 0] : i \in Below(r)}
  BY LinksAre DEF TInv
<1>9. data.service # "todoist" => \A k \in Links(r) : k.id # 0
  BY LinksAre DEF TInv
<1>10. ASSUME NEW k \in Links(r)
       PROVE \/ data.service # "todoist" /\ k.id # 0
             \/ /\ data.service = "todoist" /\ k.kind = "subtask" /\ k.id = idOf'[k.row]
                /\ \E i \in Below(r) : k.row = LastRow(i)
  <2>1. CASE data.service # "todoist"
    BY <2>1, <1>9
  <2>2. CASE data.service = "todoist"
    <3>1. PICK i \in Below(r) : k = [kind |-> "subtask", row |-> LastRow(i), id |-> 0]
      BY <2>2, <1>8
    <3>2. k.kind = "subtask" /\ k.row = LastRow(i) /\ k.id = 0
      BY <3>1
    <3>3. idOf'[LastRow(i)] = 0
      BY <1>2, <1>5, <1>6, <1>7
    <3> QED BY <2>2, <3>2, <3>3
  <2> QED BY <2>1, <2>2
<1>11. LinksSound'
  BY <1>1, <1>2, <1>3, <1>4, <1>10 DEF LinksSound
<1>12. \A i \in nested : idOf'[LastRow(i)] # 0 => idOf'[LastRow(Parent(i))] # 0
  BY <1>2, <1>5 DEF OnceInv, BelowSound
<1>13. ASSUME NEW i \in Below(r) PROVE \E k \in Links(r) : k.row = LastRow(i)
  <2> DEFINE k == [kind |-> "subtask", row |-> LastRow(i), id |-> 0]
  <2>1. k \in Links(r)
    BY <1>6, <1>8
  <2> QED BY <2>1
<1>14. ASSUME NEW q \in Rows, Top(q), idOf[q] # 0, q # r, NEW i \in Below(q)
       PROVE  idOf'[LastRow(i)] # 0 /\ Related(idOf'[q], idOf'[LastRow(i)])
  <2>1. idOf[LastRow(i)] # 0 /\ Related(idOf[q], idOf[LastRow(i)])
    BY <1>14, <1>1 DEF OnceInv, BelowSound
  <2> QED BY <2>1, <1>2, <1>5, <1>6, <1>14
<1>15. \A o, t : Related(o, t)' = Related(o, t)
  BY <1>2 DEF Related
<1>16. ASSUME NEW q \in Rows, Top(q), idOf'[q] # 0, NEW i \in Below(q)
       PROVE  \/ q = row' /\ \E k \in links' : k.row = LastRow(i)
              \/ idOf'[LastRow(i)] # 0 /\ Related(idOf'[q], idOf'[LastRow(i)])
  BY <1>1, <1>2, <1>13, <1>14, <1>16
<1>17. BelowSound'
  BY <1>3, <1>4, <1>12, <1>15, <1>16 DEF BelowSound, Related
<1> QED BY <1>11, <1>17

LEMMA RelatedLinks ==
    ASSUME TInv, OnceInv, NEW k \in links, InsertRelated(k)
    PROVE  LinksSound' /\ BelowSound'
<1> DEFINE new == [k EXCEPT !.id = nextTask]
<1>1. /\ at # 0 /\ k.row \in Rows /\ idOf[k.row] = 0
      /\ k \in Link /\ k.id = 0 /\ k.kind = "subtask" /\ data.service = "todoist"
      /\ step = "fill" /\ InsertTask(k.row)
      /\ row' = row /\ links' = (links \ {k}) \union {new}
      /\ row \in Rows /\ idOf[row] # 0 /\ ItemOf(row).project = at
  BY RelatedIsNew DEF OnceInv
<1>2. PICK below \in Below(row) : k.row = LastRow(below)
  BY RelatedIsNew DEF OnceInv
<1>3. /\ nextTask # 0 /\ idOf'[k.row] = nextTask /\ \A q \in Rows : q # k.row => idOf'[q] = idOf[q]
      /\ UNCHANGED <<structure, step, at, relation>>
  BY <1>1, TaskAdded DEF InsertTask
<1>4. UNCHANGED <<data, nested>>
  BY <1>3 DEF structure
<1>5. /\ Rows' = Rows /\ \A q : ItemOf(q)' = ItemOf(q)
      /\ \A i : LastRow(i)' = LastRow(i) /\ Parent(i)' = Parent(i)
      /\ \A q : Below(q)' = Below(q) /\ Top(q)' = Top(q)
  BY <1>4, DataStays, BelowStays
<1>6. \A i \in nested : /\ LastRow(i) \in Rows /\ ItemNo(LastRow(i)) = i
                        /\ LastRow(Parent(i)) \in Rows
  <2>1. \A i \in nested : i \in Items /\ Parent(i) \in Items
    BY DataIs DEF TInv, StructureType, OnceInv, NestInv
  <2> QED BY <2>1, RowsAre DEF TInv, StructureType
<1>7. \A q : \A i \in Below(q) : i \in nested /\ q = LastRow(Parent(i))
  BY BelowAre DEF OnceInv
<1>8. Top(row) /\ ~Top(k.row)
  BY <1>2, <1>6, <1>7 DEF OnceInv, LinksSound, Top
<1>9. new.row = k.row /\ new.kind = "subtask" /\ new.id = nextTask
  BY <1>1 DEF Link
<1>10. ASSUME NEW l \in links'
       PROVE  /\ l.kind = "subtask" /\ l.id = idOf'[l.row]
              /\ \E i \in Below(row) : l.row = LastRow(i)
  <2>1. CASE l = new
    BY <2>1, <1>2, <1>3, <1>9
  <2>2. CASE l \in links /\ l # k
    <3>1. /\ l.kind = "subtask" /\ l.id = idOf[l.row] /\ l \in Link /\ l.row \in Rows
          /\ \E i \in Below(row) : l.row = LastRow(i)
      BY <2>2, <1>1 DEF OnceInv, LinksSound, TInv, ControlType, Link
    <3>2. l.row # k.row
      BY <3>1, <2>2, <1>1 DEF Link
    <3> QED BY <3>1, <3>2, <1>3
  <2> QED BY <2>1, <2>2, <1>1
<1>11. LinksSound'
  BY <1>1, <1>3, <1>4, <1>5, <1>8, <1>10 DEF LinksSound
<1>12. \A i \in nested : idOf'[LastRow(i)] # 0 => idOf'[LastRow(Parent(i))] # 0
  <2>1. ASSUME NEW i \in nested, LastRow(i) = k.row PROVE idOf'[LastRow(Parent(i))] # 0
    <3>1. i = below
      BY <2>1, <1>2, <1>6, <1>7
    <3> QED BY <3>1, <1>1, <1>2, <1>3, <1>7
  <2> QED BY <2>1, <1>3, <1>6 DEF OnceInv, BelowSound
<1>13. ASSUME NEW q \in Rows, Top(q), idOf'[q] # 0, NEW i \in Below(q)
       PROVE  \/ q = row' /\ \E l \in links' : l.row = LastRow(i)
              \/ idOf'[LastRow(i)] # 0 /\ Related(idOf'[q], idOf'[LastRow(i)])
  <2>1. q # k.row /\ idOf'[q] = idOf[q]
    BY <1>3, <1>8, <1>13
  <2>2. CASE q = row /\ \E l \in links : l.row = LastRow(i)
    BY <2>2, <1>1, <1>9
  <2>3. CASE idOf[LastRow(i)] # 0 /\ Related(idOf[q], idOf[LastRow(i)])
    BY <2>1, <2>3, <1>1, <1>3, <1>6, <1>7
  <2> QED BY <2>1, <2>2, <2>3, <1>13 DEF OnceInv, BelowSound
<1>14. BelowSound'
  <2>1. \A o, t : Related(o, t)' = Related(o, t)
    BY <1>3 DEF Related
  <2> QED BY <1>3, <1>4, <1>5, <1>12, <1>13, <2>1 DEF BelowSound, Related
<1> QED BY <1>11, <1>14

LEMMA RelateLinks ==
    ASSUME TInv, OnceInv, NEW k \in links, Relate(k)
    PROVE  LinksSound' /\ BelowSound' /\ RelationsSound'
<1> DEFINE t == idOf[row]
<1>1. /\ step = "fill" /\ k.id # 0 /\ links' = links \ {k}
      /\ relation' = relation \union {<<t, k.kind, k.id>>, <<k.id, Inverted(k.kind), t>>}
      /\ UNCHANGED <<data, nested, step, at, row, idOf, task>>
  BY DEF Relate, structure
<1>2. /\ Rows' = Rows /\ \A q : ItemOf(q)' = ItemOf(q)
      /\ \A i : LastRow(i)' = LastRow(i) /\ Parent(i)' = Parent(i)
      /\ \A q : Below(q)' = Below(q) /\ Top(q)' = Top(q)
  BY <1>1, DataStays, BelowStays
<1>3. row \in Rows /\ t # 0 /\ t \in DOMAIN task
  BY DEF OnceInv, LinksSound, Matched
<1>4. k.kind \in {"subtask", "parenttask"} /\ k.row \in Rows
  BY DEF TInv, ControlType, Link
<1>5. data.service = "todoist" => k.kind = "subtask" /\ k.id = idOf[k.row] /\ k.id \in DOMAIN task
  BY <1>1, <1>4 DEF OnceInv, LinksSound, Matched
<1>6. LinksSound'
  BY <1>1, <1>2 DEF OnceInv, LinksSound
<1>7. \A o, s : Related(o, s) => Related(o, s)'
  BY <1>1 DEF Related
<1>8. ASSUME NEW q \in Rows, Top(q), idOf[q] # 0, NEW i \in Below(q)
      PROVE  \/ q = row /\ \E l \in links' : l.row = LastRow(i)
             \/ idOf[LastRow(i)] # 0 /\ <<idOf[q], "subtask", idOf[LastRow(i)]>> \in relation'
                                     /\ <<idOf[LastRow(i)], "parenttask", idOf[q]>> \in relation'
  <2>1. CASE q = row /\ k.row = LastRow(i)
    <3>1. data.service = "todoist"
      BY BelowAre, <1>8 DEF OnceInv
    <3> QED BY <3>1, <2>1, <1>1, <1>5 DEF Inverted
  <2>2. CASE q = row /\ \E l \in links : l # k /\ l.row = LastRow(i)
    BY <2>2, <1>1
  <2>3. CASE idOf[LastRow(i)] # 0 /\ Related(idOf[q], idOf[LastRow(i)])
    BY <2>3, <1>1 DEF Related
  <2> QED BY <2>1, <2>2, <2>3, <1>8 DEF OnceInv, BelowSound
<1>9. BelowSound'
  BY <1>1, <1>2, <1>8 DEF OnceInv, BelowSound, Related
<1>10. Inverted(k.kind) \in {"subtask", "parenttask"} /\ Inverted(Inverted(k.kind)) = k.kind
  BY <1>4 DEF Inverted
<1>11. RelationsSound'
  <2> DEFINE Sound(r) ==
               /\ r = <<r[1], r[2], r[3]>> /\ r[2] \in {"subtask", "parenttask"}
               /\ <<r[3], Inverted(r[2]), r[1]>> \in relation'
               /\ r[1] \in DOMAIN task \/ r[3] \in DOMAIN task
               /\ data.service = "todoist" => r[1] \in DOMAIN task /\ r[3] \in DOMAIN task
  <2>1. \A r \in relation : Sound(r)
    BY <1>1 DEF OnceInv, RelationsSound
  <2>2. Sound(<<t, k.kind, k.id>>)
    BY <1>1, <1>3, <1>4, <1>5
  <2>3. Sound(<<k.id, Inverted(k.kind), t>>)
    BY <1>1, <1>3, <1>5, <1>10
  <2>4. \A r \in relation' : Sound(r)
    <3> HIDE DEF Sound
    <3> QED BY <2>1, <2>2, <2>3, <1>1
  <2> QED BY <2>4, <1>1 DEF RelationsSound
<1> QED BY <1>6, <1>9, <1>11

LEMMA NextLinks ==
    ASSUME TInv, OnceInv, [Next]_vars
    PROVE  LinksSound' /\ BelowSound'
<1>1. ASSUME NEW r \in Rows, Nest(r) PROVE LinksSound' /\ BelowSound'
  <2>1. step = "convert" /\ links = {} /\ UNCHANGED <<data, links, row, idOf>>
    BY <1>1 DEF OnceInv, LinksSound, Nest
  <2>2. \A q \in Rows : idOf[q] = 0
    BY <2>1, NothingMade DEF OnceInv
  <2>3. Rows' = Rows /\ \A i : LastRow(i)' = LastRow(i)
    BY <2>1, DataStays
  <2>4. nested' \subseteq Items
    BY NextStructure DEF TInv, StructureType
  <2>5. \A i \in nested' : LastRow(i) \in Rows
    BY <2>4, RowsAre DEF TInv, StructureType
  <2>6. LinksSound'
    BY <2>1 DEF LinksSound
  <2>7. BelowSound'
    BY <2>1, <2>2, <2>3, <2>5 DEF BelowSound
  <2> QED BY <2>6, <2>7
<1>2. ASSUME UNCHANGED <<data, nested, idOf, links, row, relation>>,
             links # {} => at' = at /\ step' \in {"fill", "failed"}
      PROVE  LinksSound' /\ BelowSound'
  <2>1. /\ Rows' = Rows /\ \A q : ItemOf(q)' = ItemOf(q)
        /\ \A i : LastRow(i)' = LastRow(i) /\ Parent(i)' = Parent(i)
        /\ \A q : Below(q)' = Below(q) /\ Top(q)' = Top(q)
    BY <1>2, DataStays, BelowStays
  <2>2. LinksSound'
    BY <1>2, <2>1 DEF OnceInv, LinksSound
  <2>3. BelowSound'
    BY <1>2, <2>1 DEF OnceInv, BelowSound, Related
  <2> QED BY <2>2, <2>3
<1>3. ASSUME Next, ~ (\E r \in Rows : Nest(r)), ~ (\E r \in Rows : InsertTop(r)),
             ~ (\E k \in links : InsertRelated(k)), ~ (\E k \in links : Relate(k)), links # {}
      PROVE  at' = at /\ step' \in {"fill", "failed"}
  <2>1. step \in {"fill", "failed"} /\ links # {}
    BY <1>3 DEF OnceInv, LinksSound
  <2> QED BY <1>3, <2>1 DEF Next, Converted, InsertList, InsertBacklog, InsertOldBucket,
             KeepBacklog, DropFirstBucket, Filled, Rehome, Fail, Finish
<1>4. ASSUME Next, ~ (\E r \in Rows : Nest(r)), ~ (\E r \in Rows : InsertTop(r)),
             ~ (\E k \in links : InsertRelated(k)), ~ (\E k \in links : Relate(k))
      PROVE  UNCHANGED <<data, nested, idOf, links, row, relation>>
  BY <1>4, NextTables, NextStands DEF structure
<1>5. CASE UNCHANGED vars
  <2>1. links # {} => step \in {"fill", "failed"}
    BY DEF OnceInv, LinksSound
  <2> QED BY <1>2, <1>5, <2>1 DEF vars
<1> QED BY <1>1, <1>2, <1>3, <1>4, <1>5, TopLinks, RelatedLinks, RelateLinks

LEMMA NextRelations ==
    ASSUME TInv, OnceInv, [Next]_vars
    PROVE  RelationsSound'
<1>1. ASSUME UNCHANGED <<data, relation>>, DOMAIN task \subseteq DOMAIN task' PROVE RelationsSound'
  BY <1>1 DEF OnceInv, RelationsSound
<1>2. data' = data
  BY NextStructure DEF TInv
<1>3. ASSUME NEW r \in Rows, InsertTop(r) PROVE DOMAIN task \subseteq DOMAIN task'
  <2>1. at # 0 /\ InsertTask(r)
    BY <1>3, TopIsNew
  <2> QED BY <2>1, TaskAdded
<1>4. ASSUME NEW k \in links, InsertRelated(k) PROVE DOMAIN task \subseteq DOMAIN task'
  <2>1. at # 0 /\ k.row \in Rows /\ InsertTask(k.row)
    BY <1>4, RelatedIsNew DEF OnceInv
  <2> QED BY <2>1, TaskAdded
<1>5. ASSUME NEW b \in DOMAIN bucket, Rehome(b) PROVE DOMAIN task \subseteq DOMAIN task'
  BY <1>5 DEF Rehome
<1>6. UNCHANGED vars => UNCHANGED relation /\ DOMAIN task \subseteq DOMAIN task'
  BY DEF vars
<1> QED BY <1>1, <1>2, <1>3, <1>4, <1>5, <1>6, RelateLinks, NextTables

LEMMA NextLists ==
    ASSUME TInv, OnceInv, [Next]_vars
    PROVE  ListsSound'
<1> USE DEF OnceInv
<1>1. ASSUME NEW r \in Rows, Nest(r) PROVE ListsSound'
  <2>1. lists = {} /\ lists' = lists /\ step' # "done"
    BY <1>1 DEF Nest, TInv, ControlType
  <2> QED BY <2>1 DEF ListsSound
<1>2. ASSUME UNCHANGED <<data, nested>>, \A r \in Rows : idOf[r] # 0 => idOf'[r] # 0,
             lists' = lists, at' = at, step' = "done" => ListsToMake \subseteq lists,
             \/ step' \notin {"list", "rehome", "done"}
             \/ step \in {"list", "rehome", "done"}
             \/ \A r \in TopRows(at) : idOf[r] # 0
      PROVE  ListsSound'
  <2>1. /\ \A p : TopRows(p)' = TopRows(p)
        /\ ListsToMake' = ListsToMake
    BY <1>2, DataStays, BelowStays
  <2>2. \A p : TopRows(p) \subseteq Rows
    BY DEF TopRows, RowsOf
  <2> QED BY <1>2, <2>1, <2>2 DEF ListsSound
<1>3. ASSUME NEW p \in Projects, InsertList(p) PROVE ListsSound'
  <2>1. /\ step = "list" /\ lists' = lists \union {p} /\ at' = p /\ step' = "backlog"
        /\ UNCHANGED <<data, nested, idOf>>
    BY <1>3 DEF InsertList, structure
  <2>2. \A q : TopRows(q)' = TopRows(q)
    BY <2>1, BelowStays
  <2> QED BY <2>1, <2>2 DEF ListsSound
<1>4. ASSUME NEW r \in Rows, InsertTask(r), at # 0
      PROVE  \A q \in Rows : idOf[q] # 0 => idOf'[q] # 0
  BY <1>4, TaskAdded
<1>5. ASSUME NEW r \in Rows, InsertTop(r) PROVE ListsSound'
  <2>1. at # 0 /\ InsertTask(r) /\ step = "fill" /\ UNCHANGED <<structure, lists, at, step>>
    BY <1>5, TopIsNew DEF InsertTask
  <2> QED BY <1>2, <1>4, <2>1 DEF structure
<1>6. ASSUME NEW k \in links, InsertRelated(k) PROVE ListsSound'
  <2>1. /\ at # 0 /\ k.row \in Rows /\ InsertTask(k.row) /\ step = "fill"
        /\ UNCHANGED <<structure, lists, at, step>>
    BY <1>6, RelatedIsNew DEF InsertTask
  <2> QED BY <1>2, <1>4, <2>1 DEF structure
<1>7. Filled => \A r \in TopRows(at) : idOf[r] # 0
  BY DEF Filled, RowsLeft
<1>8. ASSUME KeepBacklog \/ \E b \in DOMAIN bucket : DropFirstBucket(b) PROVE ListsSound'
  <2>1. Filled /\ UNCHANGED <<structure, lists, at, idOf>> /\ step' # "done"
    BY <1>8 DEF KeepBacklog, DropFirstBucket
  <2> QED BY <1>2, <1>7, <2>1 DEF structure
<1>9. ASSUME Converted \/ InsertBacklog \/ Fail \/ (\E s \in Sections : InsertOldBucket(s))
             \/ (\E k \in links : Relate(k))
      PROVE  UNCHANGED <<structure, lists, at, idOf>> /\ step' # "done"
             /\ (step' \in {"list", "rehome", "done"} => step = "convert")
  BY <1>9 DEF Converted, InsertBacklog, Fail, InsertOldBucket, Relate
<1>12. CASE Converted
  <2>1. lists = {} /\ lists' = lists /\ step' = "list"
    BY <1>12 DEF Converted, TInv, ControlType
  <2> QED BY <2>1 DEF ListsSound
<1>13. ASSUME InsertBacklog \/ Fail \/ (\E s \in Sections : InsertOldBucket(s))
              \/ (\E k \in links : Relate(k))
       PROVE  ListsSound'
  <2>1. step' \notin {"list", "rehome", "done"}
    BY <1>13 DEF InsertBacklog, Fail, InsertOldBucket, Relate
  <2> QED BY <1>2, <1>9, <1>13, <2>1 DEF structure
<1>14. ASSUME Finish \/ \E b \in DOMAIN bucket : Rehome(b) PROVE ListsSound'
  <2>1. /\ UNCHANGED <<structure, lists, at, idOf>> /\ step \in {"list", "rehome"}
        /\ step' = "done" => ListsToMake \subseteq lists
    BY <1>14 DEF Finish, Rehome
  <2> QED BY <1>2, <2>1 DEF structure
<1>15. CASE UNCHANGED vars
  BY <1>2, <1>15 DEF vars, ListsSound
<1> QED BY <1>1, <1>3, <1>5, <1>6, <1>8, <1>12, <1>13, <1>14, <1>15 DEF Next

LEMMA NextOnce == ASSUME TInv, OnceInv, [Next]_vars PROVE OnceInv'
BY NextNest, NextMatched, NextLinks, NextRelations, NextLists DEF OnceInv

LEMMA TwoAre ==
    ASSUME NEW a, NEW b
    PROVE  /\ IsFiniteSet({a, b}) /\ Cardinality({a, b}) <= 2
           /\ a # b => Cardinality({a, b}) = 2
<1>1. IsFiniteSet({a}) /\ Cardinality({a}) = 1
  BY FS_Singleton
<1>2. {a} \union {b} = {a, b}
  OBVIOUS
<1>3. IsFiniteSet({a, b}) /\ Cardinality({a, b}) = IF b \in {a} THEN 1 ELSE 1 + 1
  BY <1>1, <1>2, FS_AddElement
<1> QED BY <1>3

(* The tasks that were made of an item are those of its rows. *)
LEMMA CopiesAre ==
    ASSUME TInv, OnceInv, NEW i \in Items
    PROVE  /\ \A t \in CopiesOf(i) : /\ task[t].list = data.item[i].project
                                     /\ \E r \in Rows : ItemNo(r) = i /\ idOf[r] = t /\ t # 0
           /\ \A r \in Rows : ItemNo(r) = i /\ idOf[r] # 0 => idOf[r] \in CopiesOf(i)
<1>1. ASSUME NEW t \in CopiesOf(i)
      PROVE  /\ task[t].list = data.item[i].project
             /\ \E r \in Rows : ItemNo(r) = i /\ idOf[r] = t /\ t # 0
  <2>1. t \in DOMAIN task /\ task[t].item = i /\ t # 0
    BY DEF CopiesOf, Tasks, TInv, TaskType
  <2>2. PICK r \in Rows : idOf[r] = t
    BY <2>1 DEF OnceInv, Matched
  <2>3. task[t].item = ItemNo(r) /\ task[t].list = ItemOf(r).project
    BY <2>1, <2>2 DEF OnceInv, Matched
  <2> QED BY <2>1, <2>2, <2>3 DEF ItemOf
<1>2. ASSUME NEW r \in Rows, ItemNo(r) = i, idOf[r] # 0
      PROVE  idOf[r] \in CopiesOf(i)
  BY <1>2 DEF OnceInv, Matched, CopiesOf, Tasks
<1> QED BY <1>1, <1>2

LEMMA CopiesAreCounted ==
    ASSUME TInv, OnceInv, NEW i \in Items
    PROVE  /\ Cardinality(CopiesOf(i)) <= Times(i)
           /\ (\A r \in Rows : ItemNo(r) = i => idOf[r] # 0) => Cardinality(CopiesOf(i)) = Times(i)
<1>1. i \in Rows /\ ItemNo(i) = i /\ (\A r \in Rows : ItemNo(r) = i => r = i \/ (i \in data.again /\ r = NumItems + i))
  BY RowsAre DEF TInv, StructureType
<1>2. CASE i \notin data.again
  <2>1. CopiesOf(i) \subseteq {idOf[i]}
    BY <1>1, <1>2, CopiesAre
  <2>2. IsFiniteSet({idOf[i]}) /\ Cardinality({idOf[i]}) = 1
    BY FS_Singleton
  <2>3. Cardinality(CopiesOf(i)) <= 1
    BY <2>1, <2>2, FS_Subset
  <2>4. idOf[i] # 0 => CopiesOf(i) = {idOf[i]}
    BY <1>1, <2>1, CopiesAre
  <2> QED BY <1>1, <1>2, <2>2, <2>3, <2>4 DEF Times
<1>3. CASE i \in data.again
  <2> DEFINE j == NumItems + i
  <2>1. j \in Rows /\ ItemNo(j) = i /\ j # i
    <3>1. j \in Rows /\ ItemNo(j) = i
      BY <1>3, RowsAre DEF TInv, StructureType
    <3>2. i \in Nat /\ NumItems \in Nat /\ i >= 1 /\ i <= NumItems
      BY ConstantsAssumption DEF Items
    <3> QED BY <3>1, <3>2
  <2> HIDE DEF j
  <2>2. CopiesOf(i) \subseteq {idOf[i], idOf[j]}
    BY <1>1, CopiesAre DEF j
  <2>3. PICK both : both = {idOf[i], idOf[j]}
    OBVIOUS
  <2>4. /\ IsFiniteSet(both) /\ Cardinality(both) <= 2
        /\ idOf[i] # idOf[j] => Cardinality(both) = 2
    BY <2>3, TwoAre
  <2>5. Cardinality(CopiesOf(i)) <= Cardinality(both) /\ IsFiniteSet(CopiesOf(i))
    BY <2>2, <2>3, <2>4, FS_Subset
  <2>6. Cardinality(CopiesOf(i)) \in Nat /\ Cardinality(both) \in Nat
    BY <2>4, <2>5, FS_CardinalityType
  <2>7. Cardinality(CopiesOf(i)) <= 2
    BY <2>4, <2>5, <2>6
  <2>8. ASSUME idOf[i] # 0, idOf[j] # 0 PROVE Cardinality(CopiesOf(i)) = 2
    <3>1. CopiesOf(i) = both
      BY <2>1, <2>2, <2>3, <2>8, <1>1, CopiesAre
    <3>2. idOf[i] # idOf[j]
      BY <2>1, <2>8, <1>1 DEF OnceInv, Matched
    <3> QED BY <3>1, <3>2, <2>4
  <2> QED BY <1>1, <1>3, <2>1, <2>7, <2>8 DEF Times
<1> QED BY <1>2, <1>3

LEMMA DoneIsOnce == ASSUME TInv, OnceInv PROVE ImportedOnce
<1> SUFFICES ASSUME step = "done", NEW i \in Items
    PROVE  LET it == data.item[i]
               parent == it.parent
               shallow == parent # 0 => data.item[parent].parent = 0
           IN  /\ \A t \in CopiesOf(i) : task[t].list = it.project
               /\ Cardinality(CopiesOf(i)) <= Times(i)
               /\ (it.project # 0 /\ (data.service = "todoist" => shallow)) =>
                    Cardinality(CopiesOf(i)) = Times(i)
               /\ (data.service = "todoist" /\ it.project # 0 /\ parent # 0 /\ shallow) =>
                    Under(i, parent)
  BY DEF ImportedOnce
<1> DEFINE p == data.item[i].project
<1>1. data \in Data /\ toNest = {} /\ links = {} /\ ListsToMake \subseteq lists
  BY DEF TInv, StructureType, OnceInv, NestInv, LinksSound, ListsSound
<1>2. Parent(i) \in Items \union {0} /\ p \in Projects \union {0}
  BY <1>1, DataIs, SectionIs
<1>3. \A q \in Items : data.item[q].project # 0 =>
        \A r \in Rows : ItemNo(r) = q /\ Top(r) => idOf[r] # 0
  <2> SUFFICES ASSUME NEW q \in Items, data.item[q].project # 0,
                      NEW r \in Rows, ItemNo(r) = q, Top(r)
               PROVE  idOf[r] # 0
    OBVIOUS
  <2>1. ItemOf(r).project = data.item[q].project /\ data.item[q].project \in Projects
    BY <1>1, SectionIs DEF ItemOf
  <2>2. r \in TopRows(data.item[q].project) /\ r \in RowsOf(data.item[q].project)
    BY <2>1 DEF TopRows, RowsOf, Top
  <2>3. data.item[q].project \in lists
    BY <2>1, <2>2, <1>1 DEF ListsToMake
  <2> QED BY <2>2, <2>3 DEF OnceInv, ListsSound
<1>4. ASSUME data.service # "todoist" \/ Parent(i) = 0
      PROVE  \A r \in Rows : ItemNo(r) = i => Top(r)
  BY <1>4 DEF Top, OnceInv, NestInv
<1>5. ASSUME data.service = "todoist", Parent(i) # 0, Shallow(i), p # 0
      PROVE  /\ \A r \in Rows : ItemNo(r) = i => idOf[r] # 0
             /\ Under(i, Parent(i))
  <2>1. i \in Rows /\ ItemNo(i) = i
        /\ (\A r \in Rows : ItemNo(r) = i => r = i \/ (i \in data.again /\ r = NumItems + i))
    BY <1>1, RowsAre
  <2>2. i \in nested /\ i \notin data.again
    BY <2>1, <1>1, <1>5 DEF OnceInv, NestInv
  <2>3. LastRow(i) = i
    BY <2>2 DEF LastRow
  <2>4. PICK a \in Items : a = Parent(i)
    BY <1>2, <1>5
  <2>5. data.item[a].project = p /\ Parent(a) = 0
    BY <1>1, <1>5, <2>4, DataIs DEF Shallow
  <2>6. PICK r \in Rows : r = LastRow(a) /\ ItemNo(r) = a
    BY <1>1, RowsAre
  <2>7. Top(r)
    BY <2>5, <2>6 DEF Top, OnceInv, NestInv
  <2>8. idOf[r] # 0
    BY <2>5, <2>6, <2>7, <1>3, <1>5
  <2>9. i \in Below(r)
    BY <2>2, <2>4, <2>6 DEF Below, Parent
  <2>10. idOf[i] # 0 /\ Related(idOf[r], idOf[i])
    BY <2>3, <2>7, <2>8, <2>9, <1>1 DEF OnceInv, BelowSound
  <2>11. idOf[i] \in CopiesOf(i) /\ idOf[r] \in CopiesOf(a)
    BY <2>1, <2>6, <2>8, <2>10, CopiesAre
  <2>12. Under(i, Parent(i))
    BY <2>4, <2>10, <2>11 DEF Under, Related
  <2> QED BY <2>1, <2>2, <2>10, <2>12
<1>6. (p # 0 /\ (data.service = "todoist" => Shallow(i))) =>
         \A r \in Rows : ItemNo(r) = i => idOf[r] # 0
  BY <1>3, <1>4, <1>5
<1>7. (p # 0 /\ (data.service = "todoist" => Shallow(i))) => Cardinality(CopiesOf(i)) = Times(i)
  BY <1>6, CopiesAreCounted
<1>8. (data.service = "todoist" /\ p # 0 /\ Parent(i) # 0 /\ Shallow(i)) => Under(i, Parent(i))
  BY <1>5
<1> QED BY <1>7, <1>8, CopiesAre, CopiesAreCounted DEF Shallow, Parent

(* Whatever the other service has, an import that is done has made every task *)
(* of it as often as the service has it, in the list of its project; of a     *)
(* Todoist those that are no deeper than the first level of subtasks, below   *)
(* their parents (the loops over the items in todoist.go, insertFromStructure *)
(* and its map of tasks).                                                     *)
THEOREM ImportsOnce == Spec => []ImportedOnce
<1>1. Init => TInv /\ OnceInv
  BY InitTypes, InitOnce
<1>2. TInv /\ OnceInv /\ [Next]_vars => (TInv /\ OnceInv)'
  BY NextTypes, NextOnce
<1>3. TInv /\ OnceInv => ImportedOnce
  BY DoneIsOnce
<1> QED BY <1>1, <1>2, <1>3, PTL DEF Spec

-----------------------------------------------------------------------------
(* Every task in the bucket of its section *)

(* A section's bucket is in the list of its project, and, unless the file of a *)
(* Vikunja brings another, the position of a bucket is its id.  Only the list  *)
(* at hand may be without one.                                                 *)
BucketsSound ==
    /\ \A b \in DOMAIN bucket :
         /\ bucket[b].of # 0 => SectionProject[bucket[b].of] = bucket[b].list
         /\ bucket[b].pos = IF bucket[b].of # 0 /\ data.service = "vikunja"
                            THEN OldPosition[bucket[b].of] ELSE b
    /\ \A l \in lists : BucketsOf(l) = {} => l = at /\ step \in {"backlog", "failed"}
    /\ step = "backlog" => BucketsOf(at) = {} /\ \A o \in 0 .. NumSections : made[o] = 0

(* The list at hand: its own bucket is the oldest, and each section has one,  *)
(* which the map names; that of a Todoist has one entry, for the last section *)
(* so far.                                                                    *)
MapSound ==
    step \in {"backlog", "fill"} =>
      /\ \A b, c \in BucketsOf(at) : bucket[b].of = 0 => b <= c
      /\ \A b, c \in BucketsOf(at) : bucket[b].of = bucket[c].of => b = c
      /\ step = "fill" => \E b \in BucketsOf(at) : bucket[b].of = 0
      /\ \A b \in BucketsOf(at) : bucket[b].of # 0 =>
           /\ made[OldId(bucket[b].of)] # 0 /\ bucket[b].of \in OldBuckets(at)
           /\ \A s \in BucketsLeft : bucket[b].of < s
           /\ data.service = "todoist" => bucket[b].of <= bucket[made[OldId(bucket[b].of)]].of
      /\ \A o \in 0 .. NumSections : made[o] # 0 =>
           /\ made[o] \in BucketsOf(at) /\ bucket[made[o]].of # 0 /\ OldId(bucket[made[o]].of) = o

TaskRow == [item : Items, list : Projects, bucket : Nat]
SectionOf(x) == data.item[x.item].section
Siblings(x) == {q \in Sections : SectionProject[q] = x.list}

(* Tasks that are in the bucket of their section, or of the last one; *)
Own ==
    {x \in TaskRow :
       /\ x.bucket \in BucketsOf(x.list)
       /\ \/ bucket[x.bucket].of = SectionOf(x)
          \/ /\ data.service = "todoist" /\ SectionOf(x) # 0
             /\ \A q \in Siblings(x) : q <= bucket[x.bucket].of}

(* those whose bucket came before the one of the list; *)
Lost ==
    {x \in TaskRow :
       /\ data.service = "vikunja" /\ SectionOf(x) # 0
       /\ \A q \in Siblings(x) : OldPosition[SectionOf(x)] <= OldPosition[q]
       /\ \E b \in BucketsOf(x.list) : bucket[b].of = 0}

(* what an import that is done leaves; and what setBucketOrDefault does. *)
Kept == Own \union {x \in Lost : x.bucket \in FirstBuckets(x.list)}

Filling ==
    {x \in TaskRow :
       /\ x.bucket \in BucketsOf(at)
       /\ IF SectionOf(x) = 0 THEN bucket[x.bucket].of = 0 /\ needsDefault
          ELSE x.bucket = made[OldId(SectionOf(x))]}

PlacesSound ==
    /\ \A t \in DOMAIN task : task[t].list # at \/ step \in {"list", "done"} => task[t] \in Kept
    /\ step \in {"backlog", "fill"} =>
         \A t \in DOMAIN task : task[t].list = at => task[t] \in Filling /\ BucketsLeft = {}
    /\ step = "rehome" =>
         /\ dropped \notin DOMAIN bucket
         /\ \A t \in DOMAIN task : task[t].list = at =>
              task[t] \in Kept \/ (task[t].bucket = dropped /\ task[t] \in Lost)
    /\ \A t \in DOMAIN task :
         /\ task[t].bucket < nextBucket
         /\ task[t].bucket \in DOMAIN bucket => bucket[task[t].bucket].list = task[t].list

BucketInv == BucketsSound /\ MapSound /\ PlacesSound

LEMMA InitBuckets == Init => BucketInv
<1> SUFFICES ASSUME Init PROVE BucketInv
  OBVIOUS
<1>1. step = "convert" /\ lists = {} /\ DOMAIN bucket = {} /\ DOMAIN task = {}
  BY DEF Init
<1> QED BY <1>1 DEF BucketInv, BucketsSound, MapSound, PlacesSound

(* Tasks are records of tasks. *)
LEMMA TasksAreRows == ASSUME TInv PROVE \A t \in DOMAIN task : task[t] \in TaskRow
<1>1. lists \subseteq Projects
  BY DEF TInv, ControlType
<1>2. \A t \in DOMAIN task : task[t] \in [item : Items, list : lists, bucket : Nat \ {0}]
  BY DEF TInv, TaskType
<1> QED BY <1>1, <1>2 DEF TaskRow

(* The buckets of a list decide what its tasks are. *)
LEMMA KeptStays ==
    ASSUME data' = data, NEW l, BucketsOf(l)' = BucketsOf(l),
           \A b \in BucketsOf(l) : bucket'[b] = bucket[b],
           NEW x, x.list = l
    PROVE  /\ x \in Kept => x \in Kept'
           /\ x \in Lost => x \in Lost'
<1>1. SectionOf(x)' = SectionOf(x)
  BY DEF SectionOf
<1>2. FirstBuckets(l)' = FirstBuckets(l)
  BY DEF FirstBuckets
<1>3. x \in Own => x \in Own'
  BY <1>1 DEF Own, Siblings
<1>4. x \in Lost => x \in Lost'
  BY <1>1 DEF Lost, Siblings
<1> QED BY <1>2, <1>3, <1>4 DEF Kept

(* What is not about buckets leaves the invariant. *)
LEMMA BucketsStay ==
    ASSUME TInv, BucketInv,
           UNCHANGED <<data, at, lists, bucket, task, made, needsDefault, dropped, nextBucket>>,
           \/ step' = step \/ step' = "failed"
           \/ step = "list" /\ step' = "done"
           \/ lists = {} /\ step' \in {"convert", "list"}
    PROVE  BucketInv'
<1>1. /\ \A s : OldId(s)' = OldId(s)
      /\ \A p : OldBuckets(p)' = OldBuckets(p)
  BY DataStays
<1>2. \A l : BucketsOf(l)' = BucketsOf(l)
  BY DEF BucketsOf
<1>3. BucketsLeft' = BucketsLeft
  BY DEF BucketsLeft, OldBuckets, BucketsOf
<1>4. BucketsSound'
  BY <1>2 DEF BucketInv, BucketsSound
<1>5. MapSound'
  BY <1>1, <1>2, <1>3 DEF BucketInv, MapSound
<1>6. \A x : SectionOf(x)' = SectionOf(x)
  BY DEF SectionOf
<1>7. Filling' = Filling
  BY <1>1, <1>2, <1>6 DEF Filling
<1>8. \A t \in DOMAIN task : /\ task[t] \in Kept => task[t] \in Kept'
                             /\ task[t] \in Lost => task[t] \in Lost'
  BY <1>2, KeptStays
<1>9. lists = {} => DOMAIN task = {}
  BY DEF TInv, TaskType
<1>10. PlacesSound'
  BY <1>3, <1>7, <1>8, <1>9 DEF BucketInv, PlacesSound
<1> QED BY <1>4, <1>5, <1>10 DEF BucketInv

LEMMA ListBuckets ==
    ASSUME TInv, BucketInv, NEW p \in Projects, InsertList(p)
    PROVE  BucketInv'
<1>1. /\ step = "list" /\ p \notin lists /\ lists' = lists \union {p} /\ at' = p
      /\ made' = [o \in 0 .. NumSections |-> 0] /\ needsDefault' = FALSE /\ step' = "backlog"
      /\ UNCHANGED <<data, dropped, bucket, task, nextBucket>>
  BY DEF InsertList, IsLeast, structure
<1>2. \A b \in DOMAIN bucket : bucket[b].list \in lists
  BY DEF TInv, BucketType
<1>3. \A t \in DOMAIN task : task[t].list \in lists
  BY DEF TInv, TaskType
<1>4. \A l : BucketsOf(l)' = BucketsOf(l)
  BY <1>1 DEF BucketsOf
<1>5. BucketsOf(p) = {}
  BY <1>1, <1>2 DEF BucketsOf
<1>6. BucketsSound'
  BY <1>1, <1>4, <1>5 DEF BucketInv, BucketsSound
<1>7. MapSound'
  BY <1>1, <1>4, <1>5 DEF MapSound
<1>8. \A t \in DOMAIN task : task[t] \in Kept'
  BY <1>1, <1>4, KeptStays DEF BucketInv, PlacesSound
<1>9. PlacesSound'
  BY <1>1, <1>3, <1>8 DEF BucketInv, PlacesSound
<1> QED BY <1>6, <1>7, <1>9 DEF BucketInv

LEMMA BacklogBuckets ==
    ASSUME TInv, BucketInv, InsertBacklog
    PROVE  BucketInv'
<1>1. /\ step = "backlog" /\ InsertBucket(at, 0, nextBucket) /\ step' = "fill"
      /\ UNCHANGED <<data, at, dropped, made, needsDefault, lists, task>>
  BY DEF InsertBacklog, structure
<1>2. at \in lists /\ nextBucket \in Nat \ {0}
  BY <1>1 DEF TInv, ControlType, BucketType
<1>3. /\ DOMAIN bucket' = DOMAIN bucket \union {nextBucket}
      /\ \A b \in DOMAIN bucket : b \in Nat /\ b < nextBucket /\ bucket'[b] = bucket[b]
      /\ bucket'[nextBucket] = [list |-> at, of |-> 0, pos |-> nextBucket]
      /\ \A q : q # at => BucketsOf(q)' = BucketsOf(q)
      /\ BucketsOf(at)' = BucketsOf(at) \union {nextBucket}
      /\ nextBucket' = nextBucket + 1
  BY <1>1, <1>2, BucketAdded DEF TInv, InsertBucket
<1>4. BucketsOf(at)' = {nextBucket} /\ \A o \in 0 .. NumSections : made'[o] = 0
  BY <1>1, <1>3 DEF BucketInv, BucketsSound
<1>5. BucketsSound'
  <2>1. \A b \in DOMAIN bucket' :
          /\ bucket'[b].of # 0 => SectionProject[bucket'[b].of] = bucket'[b].list
          /\ bucket'[b].pos = IF bucket'[b].of # 0 /\ data.service = "vikunja"
                              THEN OldPosition[bucket'[b].of] ELSE b
    BY <1>3 DEF BucketInv, BucketsSound
  <2>2. \A l \in lists : BucketsOf(l)' # {}
    BY <1>1, <1>3, <1>4 DEF BucketInv, BucketsSound
  <2> QED BY <1>1, <2>1, <2>2 DEF BucketsSound
<1>6. MapSound'
  <2>1. at' = at
    BY <1>1
  <2>2. nextBucket \in BucketsOf(at)' /\ bucket'[nextBucket].of = 0
    BY <1>3, <1>4
  <2>3. nextBucket <= nextBucket
    BY <1>2
  <2> QED BY <2>1, <2>2, <2>3, <1>4 DEF MapSound
<1>7. \A t \in DOMAIN task : task[t].list # at
  BY <1>1 DEF BucketInv, BucketsSound, PlacesSound, Filling
<1>8. ASSUME NEW t \in DOMAIN task PROVE task[t] \in Kept'
  <2>1. PICK l : l = task[t].list
    OBVIOUS
  <2>2. BucketsOf(l)' = BucketsOf(l) /\ \A b \in BucketsOf(l) : bucket'[b] = bucket[b]
    BY <2>1, <1>3, <1>7 DEF BucketsOf
  <2> QED BY <1>1, <1>7, <2>1, <2>2, KeptStays DEF BucketInv, PlacesSound
<1>9. \A t \in DOMAIN task : /\ task[t].bucket < nextBucket /\ task[t].bucket \in Nat
                             /\ task[t].bucket \in DOMAIN bucket => bucket[task[t].bucket].list = task[t].list
  BY DEF BucketInv, PlacesSound, TInv, TaskType
<1>10. \A t \in DOMAIN task : /\ task[t].bucket < nextBucket'
                              /\ task[t].bucket \in DOMAIN bucket' => bucket'[task[t].bucket].list = task[t].list
  BY <1>2, <1>3, <1>9
<1>11. PlacesSound'
  BY <1>1, <1>7, <1>8, <1>10 DEF PlacesSound
<1> QED BY <1>5, <1>6, <1>11 DEF BucketInv

LEMMA OldBucketBuckets ==
    ASSUME TInv, BucketInv, NEW s \in Sections, InsertOldBucket(s)
    PROVE  BucketInv'
<1> PICK pos : pos = IF data.service = "vikunja" THEN OldPosition[s] ELSE nextBucket
  OBVIOUS
<1>1. /\ step = "fill" /\ InsertBucket(at, s, pos) /\ step' = "fill"
      /\ s \in BucketsLeft /\ \A q \in BucketsLeft : s <= q
      /\ made' = [made EXCEPT ![OldId(s)] = nextBucket]
      /\ UNCHANGED <<data, at, dropped, needsDefault, lists, task>>
  BY DEF InsertOldBucket, IsLeast, structure
<1>2. at \in lists /\ nextBucket \in Nat \ {0} /\ pos \in Nat
  BY <1>1, ConstantsAssumption DEF TInv, ControlType, BucketType
<1>3. /\ DOMAIN bucket' = DOMAIN bucket \union {nextBucket}
      /\ \A b \in DOMAIN bucket : b \in Nat /\ b < nextBucket /\ bucket'[b] = bucket[b]
      /\ bucket'[nextBucket] = [list |-> at, of |-> s, pos |-> pos]
      /\ \A q : q # at => BucketsOf(q)' = BucketsOf(q)
      /\ BucketsOf(at)' = BucketsOf(at) \union {nextBucket}
      /\ nextBucket' = nextBucket + 1
  BY <1>1, <1>2, BucketAdded DEF TInv, InsertBucket
<1>4. BucketsOf(at) \subseteq DOMAIN bucket /\ nextBucket \notin DOMAIN bucket
  BY <1>2, <1>3 DEF BucketsOf
<1>5. /\ s # 0 /\ s \in Nat /\ SectionProject[s] = at /\ s \in OldBuckets(at)
      /\ \A b \in BucketsOf(at) : bucket[b].of # s
  BY <1>1, ConstantsAssumption DEF BucketsLeft, OldBuckets, Sections
<1>6. /\ OldId(s) \in 0 .. NumSections /\ made'[OldId(s)] = nextBucket
      /\ \A o \in 0 .. NumSections : o # OldId(s) => made'[o] = made[o]
  BY <1>1, OldIdIs DEF TInv, ControlType
<1>7. /\ \A o : OldId(o)' = OldId(o)
      /\ \A p : OldBuckets(p)' = OldBuckets(p)
  BY <1>1, DataStays
<1>8. BucketsLeft' = BucketsLeft \ {s}
  <2>1. BucketsLeft' = {q \in OldBuckets(at) : \A b \in BucketsOf(at) \union {nextBucket} : bucket'[b].of # q}
    BY <1>1, <1>3, <1>7 DEF BucketsLeft
  <2>2. \A b \in BucketsOf(at) : bucket'[b] = bucket[b]
    BY <1>3, <1>4
  <2> QED BY <2>1, <2>2, <1>3 DEF BucketsLeft
<1>9. BucketsSound'
  <2>1. \A b \in DOMAIN bucket' :
          /\ bucket'[b].of # 0 => SectionProject[bucket'[b].of] = bucket'[b].list
          /\ bucket'[b].pos = IF bucket'[b].of # 0 /\ data.service = "vikunja"
                              THEN OldPosition[bucket'[b].of] ELSE b
    BY <1>3, <1>5 DEF BucketInv, BucketsSound
  <2>2. \A l \in lists : BucketsOf(l)' # {}
    BY <1>1, <1>3 DEF BucketInv, BucketsSound
  <2> QED BY <1>1, <2>1, <2>2 DEF BucketsSound
<1>10. \A b \in BucketsOf(at) : /\ bucket'[b] = bucket[b] /\ b < nextBucket /\ b \in Nat
                                /\ bucket[b].of \in Sections \union {0}
  BY <1>3, <1>4 DEF TInv, BucketType
<1>11. MapSound'
  <2>1. \A b, c \in BucketsOf(at) \union {nextBucket} : bucket'[b].of = 0 => b <= c
    BY <1>1, <1>2, <1>3, <1>5, <1>10 DEF BucketInv, MapSound
  <2>2. \A b, c \in BucketsOf(at) \union {nextBucket} : bucket'[b].of = bucket'[c].of => b = c
    BY <1>1, <1>3, <1>5, <1>10 DEF BucketInv, MapSound
  <2>3. \E b \in BucketsOf(at) \union {nextBucket} : bucket'[b].of = 0
    BY <1>1, <1>10 DEF BucketInv, MapSound
  <2>4. ASSUME NEW o \in 0 .. NumSections, made'[o] # 0
        PROVE  /\ made'[o] \in BucketsOf(at) \union {nextBucket}
               /\ bucket'[made'[o]].of # 0 /\ OldId(bucket'[made'[o]].of) = o
    BY <2>4, <1>1, <1>3, <1>5, <1>6, <1>10 DEF BucketInv, MapSound
  <2>5. ASSUME NEW b \in BucketsOf(at) \union {nextBucket}, bucket'[b].of # 0
        PROVE  /\ made'[OldId(bucket'[b].of)] # 0 /\ bucket'[b].of \in OldBuckets(at)
               /\ \A q \in BucketsLeft \ {s} : bucket'[b].of < q
               /\ data.service = "todoist" => bucket'[b].of <= bucket'[made'[OldId(bucket'[b].of)]].of
    <3>1. CASE b = nextBucket
      <4>1. \A q \in BucketsLeft \ {s} : q \in Nat /\ s < q
        BY <1>1, <1>5, ConstantsAssumption DEF BucketsLeft, OldBuckets, Sections
      <4> QED BY <3>1, <4>1, <1>2, <1>3, <1>5, <1>6
    <3>2. CASE b \in BucketsOf(at)
      <4>1. PICK f \in Sections : f = bucket[b].of /\ bucket'[b].of = f /\ f # 0
        BY <3>2, <2>5, <1>10
      <4>2. /\ made[OldId(f)] # 0 /\ f \in OldBuckets(at)
            /\ \A q \in BucketsLeft : f < q
            /\ data.service = "todoist" => f <= bucket[made[OldId(f)]].of
        BY <1>1, <3>2, <4>1 DEF BucketInv, MapSound
      <4>3. OldId(f) \in 0 .. NumSections
        BY OldIdIs
      <4>4. CASE OldId(f) = OldId(s)
        <5>1. f < s /\ f \in Nat
          BY <1>1, <4>2, ConstantsAssumption DEF Sections
        <5>2. f <= s
          BY <5>1, <1>5
        <5>3. made'[OldId(f)] = nextBucket /\ bucket'[made'[OldId(f)]].of = s
          BY <4>4, <1>3, <1>6
        <5> QED BY <4>1, <4>2, <5>2, <5>3, <1>2
      <4>5. CASE OldId(f) # OldId(s)
        <5>1. made'[OldId(f)] = made[OldId(f)] /\ made[OldId(f)] \in BucketsOf(at)
          BY <4>2, <4>3, <4>5, <1>1, <1>6 DEF BucketInv, MapSound
        <5> QED BY <4>1, <4>2, <5>1, <1>10
      <4> QED BY <4>4, <4>5
    <3> QED BY <3>1, <3>2
  <2> QED BY <1>1, <1>3, <1>7, <1>8, <2>1, <2>2, <2>3, <2>4, <2>5 DEF MapSound
<1>12. \A t \in DOMAIN task : task[t].list # at
  BY <1>1 DEF BucketInv, PlacesSound
<1>13. ASSUME NEW t \in DOMAIN task PROVE task[t] \in Kept'
  <2>1. PICK l : l = task[t].list
    OBVIOUS
  <2>2. BucketsOf(l)' = BucketsOf(l) /\ \A b \in BucketsOf(l) : bucket'[b] = bucket[b]
    BY <2>1, <1>3, <1>12 DEF BucketsOf
  <2> QED BY <1>1, <1>12, <2>1, <2>2, KeptStays DEF BucketInv, PlacesSound
<1>14. \A t \in DOMAIN task : /\ task[t].bucket < nextBucket /\ task[t].bucket \in Nat
                              /\ task[t].bucket \in DOMAIN bucket => bucket[task[t].bucket].list = task[t].list
  BY DEF BucketInv, PlacesSound, TInv, TaskType
<1>15. \A t \in DOMAIN task : /\ task[t].bucket < nextBucket'
                              /\ task[t].bucket \in DOMAIN bucket' => bucket'[task[t].bucket].list = task[t].list
  BY <1>2, <1>3, <1>14
<1>16. PlacesSound'
  BY <1>1, <1>12, <1>13, <1>15 DEF PlacesSound
<1> QED BY <1>9, <1>11, <1>16 DEF BucketInv

(* The task that is made comes into the bucket of its section; where it has none, *)
(* into the one the list came with, which is then the first.                      *)
LEMMA FirstIsBacklog ==
    ASSUME TInv, BucketsSound, MapSound, step = "fill", data.service # "vikunja",
           NEW c \in FirstBuckets(at)
    PROVE  bucket[c].of = 0
<1>1. PICK b \in BucketsOf(at) : bucket[b].of = 0
  BY DEF MapSound
<1>2. \A d \in BucketsOf(at) : b <= d /\ bucket[d].pos = d /\ d \in Nat
  BY <1>1, FirstBucketsAre DEF MapSound, BucketsSound, TInv
<1>3. c \in BucketsOf(at) /\ bucket[c].pos <= bucket[b].pos
  BY <1>1 DEF FirstBuckets
<1>4. c = b
  BY <1>1, <1>2, <1>3
<1> QED BY <1>1, <1>4

(* When all its buckets are made, each section of the list is in one and in the map. *)
LEMMA SectionsMade ==
    ASSUME TInv, MapSound, step = "fill", BucketsLeft = {}, NEW s \in OldBuckets(at)
    PROVE  \E b \in BucketsOf(at) : bucket[b].of = s /\ made[OldId(s)] # 0
<1>1. PICK b \in BucketsOf(at) : bucket[b].of = s
  BY DEF BucketsLeft
<1>2. s # 0
  BY ConstantsAssumption DEF OldBuckets, Sections
<1> QED BY <1>1, <1>2 DEF MapSound

LEMMA TaskFills ==
    ASSUME TInv, BucketInv, step = "fill", BucketsLeft = {},
           NEW r \in Rows, InsertTask(r), ItemOf(r).project = at
    PROVE  BucketInv'
<1> DEFINE s == ItemOf(r).section
           x == task'[nextTask]
<1>1. at # 0 /\ at \in lists /\ data \in Data /\ at \in Projects
  BY DEF TInv, ControlType, StructureType
<1>2. /\ TaskType' /\ needsDefault' \in BOOLEAN
      /\ DOMAIN task' = DOMAIN task \union {nextTask}
      /\ \A t \in DOMAIN task : task'[t] = task[t]
      /\ x.item = ItemNo(r) /\ x.list = at
      /\ IF made[OldId(s)] # 0 THEN x.bucket = made[OldId(s)]
         ELSE x.bucket \in FirstBuckets(at) /\ needsDefault'
      /\ needsDefault => needsDefault'
  BY <1>1, TaskAdded
<1>3. UNCHANGED <<data, step, at, dropped, made, lists, bucket, nextBucket>>
  BY DEF InsertTask, structure
<1>4. /\ ItemNo(r) \in Items /\ s \in Sections \union {0}
      /\ s # 0 => SectionProject[s] = at
  BY <1>1, RowsAre, SectionIs DEF ItemOf
<1>5. ASSUME s # 0 PROVE made[OldId(s)] # 0
  <2>1. Offers(data.service, data.item[ItemNo(r)])
    BY <1>1, <1>4, DataIs
  <2>2. data.service # "ticktick"
    BY <2>1, <1>5 DEF Offers, ItemOf
  <2>3. s \in OldBuckets(at)
    BY <2>2, <1>4, <1>5 DEF OldBuckets
  <2> QED BY <2>3, SectionsMade DEF BucketInv
<1>6. ASSUME s = 0
      PROVE  made[OldId(s)] = 0 /\ \A c \in FirstBuckets(at) : bucket[c].of = 0
  <2>1. OldId(0) = 0 /\ 0 \in 0 .. NumSections
    BY OldIdIs, ConstantsAssumption
  <2>2. made[0] # 0 => made[0] \in BucketsOf(at) /\ bucket[made[0]].of # 0 /\ OldId(bucket[made[0]].of) = 0
    BY <2>1 DEF BucketInv, MapSound
  <2>3. \A b \in BucketsOf(at) : bucket[b].of \in Sections \union {0}
    BY FirstBucketsAre DEF TInv, BucketType
  <2>4. made[0] = 0
    BY <2>2, <2>3, OldIdIs
  <2>5. Offers(data.service, data.item[ItemNo(r)])
    BY <1>1, <1>4, DataIs
  <2>6. data.service # "vikunja"
    BY <2>5, <1>6 DEF Offers, ItemOf
  <2> QED BY <2>1, <2>4, <2>6, <1>6, FirstIsBacklog DEF BucketInv
<1>7. \A b \in BucketsOf(at) : b \in DOMAIN bucket /\ b < nextBucket /\ bucket[b].list = at
  BY DEF BucketsOf, TInv, BucketType
<1>8. x.bucket \in BucketsOf(at)
  BY <1>2, <1>4, <1>5, <1>6, FirstBucketsAre, OldIdIs DEF BucketInv, MapSound, TInv
<1>9. x \in TaskRow
  <2>1. x \in [item : Items, list : lists', bucket : Nat \ {0}]
    BY <1>2 DEF TaskType
  <2> QED BY <2>1, <1>3 DEF TaskRow, TInv, ControlType
<1>10. /\ \A l : BucketsOf(l)' = BucketsOf(l)
       /\ BucketsLeft' = BucketsLeft
       /\ \A o : OldId(o)' = OldId(o)
       /\ \A p : OldBuckets(p)' = OldBuckets(p)
  <2>1. \A l : BucketsOf(l)' = BucketsOf(l)
    BY <1>3 DEF BucketsOf
  <2>2. BucketsLeft' = BucketsLeft
    BY <1>3 DEF BucketsLeft, OldBuckets, BucketsOf
  <2> QED BY <2>1, <2>2, <1>3, DataStays
<1>11. BucketsSound'
  BY <1>3, <1>10 DEF BucketInv, BucketsSound
<1>12. MapSound'
  BY <1>3, <1>10 DEF BucketInv, MapSound
<1>13. \A y : SectionOf(y)' = SectionOf(y)
  BY <1>3 DEF SectionOf
<1>14. SectionOf(x) = s
  BY <1>2 DEF SectionOf, ItemOf
<1>15. x \in Filling'
  <2>1. CASE s = 0
    <3>1. x.bucket \in FirstBuckets(at) /\ needsDefault' /\ bucket[x.bucket].of = 0
      BY <2>1, <1>2, <1>6
    <3> HIDE DEF x
    <3> QED BY <3>1, <2>1, <1>3, <1>8, <1>9, <1>10, <1>13, <1>14 DEF Filling, TaskRow
  <2>2. CASE s # 0
    <3>1. x.bucket = made[OldId(s)]
      BY <2>2, <1>2, <1>5
    <3> HIDE DEF x
    <3> QED BY <3>1, <2>2, <1>3, <1>8, <1>9, <1>10, <1>13, <1>14 DEF Filling, TaskRow
  <2> QED BY <2>1, <2>2
<1>16. Filling \subseteq Filling'
  BY <1>2, <1>3, <1>10, <1>13 DEF Filling
<1>17. \A t \in DOMAIN task : task[t] \in Kept => task[t] \in Kept'
  BY <1>3, <1>10, KeptStays
<1>18. \A t \in DOMAIN task' : task'[t].list # at => task'[t] \in Kept'
  <2>1. \A t \in DOMAIN task : task[t].list # at => task[t] \in Kept'
    BY <1>17 DEF BucketInv, PlacesSound
  <2> QED BY <2>1, <1>2
<1>19. \A t \in DOMAIN task' : task'[t].list = at => task'[t] \in Filling'
  <2>1. \A t \in DOMAIN task : task[t].list = at => task[t] \in Filling'
    BY <1>16 DEF BucketInv, PlacesSound
  <2> QED BY <2>1, <1>2, <1>15
<1>20. \A t \in DOMAIN task' :
          /\ task'[t].bucket < nextBucket
          /\ task'[t].bucket \in DOMAIN bucket => bucket[task'[t].bucket].list = task'[t].list
  <2>1. \A t \in DOMAIN task :
          /\ task[t].bucket < nextBucket
          /\ task[t].bucket \in DOMAIN bucket => bucket[task[t].bucket].list = task[t].list
    BY DEF BucketInv, PlacesSound
  <2> QED BY <2>1, <1>2, <1>7, <1>8
<1>21. PlacesSound'
  BY <1>3, <1>10, <1>18, <1>19, <1>20 DEF PlacesSound
<1> QED BY <1>11, <1>12, <1>21 DEF BucketInv

(* When all tasks of a list are made, each is in the bucket of its section. *)
LEMMA PlaceIs ==
    ASSUME TInv, OnceInv, BucketInv, step = "fill",
           NEW t \in DOMAIN task, task[t].list = at
    PROVE  /\ BucketsLeft = {} /\ task[t] \in Filling /\ task[t] \in TaskRow
           /\ SectionOf(task[t]) \in Sections \union {0}
           /\ SectionOf(task[t]) # 0 => SectionOf(task[t]) \in OldBuckets(at)
<1>1. PICK r \in Rows : idOf[r] = t
  BY DEF OnceInv, Matched
<1>2. t # 0 /\ task[t] \in TaskRow
  BY TasksAreRows DEF TInv, TaskType
<1>3. task[t].item = ItemNo(r) /\ ItemOf(r).project = at /\ ItemNo(r) \in Items
  BY <1>1, <1>2, RowsAre DEF OnceInv, Matched, TInv, StructureType
<1>4. SectionOf(task[t]) = data.item[ItemNo(r)].section /\ data \in Data
  BY <1>3 DEF SectionOf, TInv, StructureType
<1>5. /\ SectionOf(task[t]) \in Sections \union {0}
      /\ SectionOf(task[t]) # 0 => SectionProject[SectionOf(task[t])] = at
  BY <1>3, <1>4, SectionIs DEF ItemOf
<1>6. Offers(data.service, data.item[ItemNo(r)])
  BY <1>3, <1>4, DataIs
<1>7. SectionOf(task[t]) # 0 => data.service # "ticktick"
  BY <1>4, <1>6 DEF Offers
<1>8. SectionOf(task[t]) # 0 => SectionOf(task[t]) \in OldBuckets(at)
  BY <1>5, <1>7 DEF OldBuckets
<1> QED BY <1>2, <1>5, <1>8 DEF BucketInv, PlacesSound

LEMMA FilledIsOwn ==
    ASSUME TInv, OnceInv, BucketInv, step = "fill",
           NEW t \in DOMAIN task, task[t].list = at
    PROVE  task[t] \in Own
<1> PICK x : x = task[t]
  OBVIOUS
<1> PICK s : s = SectionOf(x)
  OBVIOUS
<1>1. /\ BucketsLeft = {} /\ x \in Filling /\ x \in TaskRow /\ x.list = at
      /\ s \in Sections \union {0}
      /\ s # 0 => s \in OldBuckets(at)
  BY PlaceIs
<1>2. x.bucket \in BucketsOf(at)
  BY <1>1 DEF Filling
<1>3. CASE s = 0
  BY <1>1, <1>2, <1>3 DEF Filling, Own
<1>4. CASE s # 0
  <2>1. PICK b \in BucketsOf(at) : bucket[b].of = s /\ made[OldId(s)] # 0
    BY <1>1, <1>4, SectionsMade DEF BucketInv
  <2>2. x.bucket = made[OldId(s)] /\ OldId(s) \in 0 .. NumSections
    BY <1>1, <1>4, OldIdIs DEF Filling
  <2>3. bucket[x.bucket].of # 0 /\ OldId(bucket[x.bucket].of) = OldId(s)
    BY <2>1, <2>2 DEF BucketInv, MapSound
  <2>4. bucket[x.bucket].of \in Sections
    BY <1>2, <2>3, FirstBucketsAre DEF TInv, BucketType
  <2>5. CASE data.service # "todoist"
    <3>1. bucket[x.bucket].of = s
      BY <2>3, <2>4, <2>5, <1>1, OldIdIs
    <3> QED BY <3>1, <1>1, <1>2 DEF Own
  <2>6. CASE data.service = "todoist"
    <3>1. ASSUME NEW q \in Siblings(x) PROVE q <= bucket[x.bucket].of
      <4>1. q \in OldBuckets(at) /\ q \in Sections /\ q # 0
        BY <1>1, <2>6, ConstantsAssumption DEF Siblings, OldBuckets, Sections
      <4>2. PICK c \in BucketsOf(at) : bucket[c].of = q
        BY <4>1, <1>1, SectionsMade DEF BucketInv
      <4>3. q <= bucket[made[OldId(q)]].of
        BY <4>1, <4>2, <2>6 DEF BucketInv, MapSound
      <4> QED BY <4>1, <4>3, <2>2, <2>6, <1>1, <1>4, OldIdIs
    <3> QED BY <3>1, <2>6, <1>1, <1>2, <1>4 DEF Own
  <2> QED BY <2>5, <2>6
<1> QED BY <1>3, <1>4

LEMMA KeptBuckets ==
    ASSUME TInv, OnceInv, BucketInv, KeepBacklog
    PROVE  BucketInv'
<1>1. /\ step = "fill" /\ step' = "list"
      /\ UNCHANGED <<data, at, lists, bucket, task, made, needsDefault, dropped, nextBucket>>
  BY DEF KeepBacklog, Filled, structure
<1>2. \A t \in DOMAIN task : task[t] \in Kept
  BY <1>1, FilledIsOwn DEF BucketInv, PlacesSound, Kept
<1>3. \A l : BucketsOf(l)' = BucketsOf(l)
  BY <1>1 DEF BucketsOf
<1>4. \A t \in DOMAIN task : task[t] \in Kept'
  BY <1>1, <1>2, <1>3, KeptStays
<1>5. BucketsSound'
  BY <1>1, <1>3 DEF BucketInv, BucketsSound
<1>6. MapSound'
  BY <1>1 DEF MapSound
<1>7. PlacesSound'
  BY <1>1, <1>4 DEF BucketInv, PlacesSound
<1> QED BY <1>5, <1>6, <1>7 DEF BucketInv

(* The bucket that is dropped is the one of the list, or, of a Vikunja, one *)
(* whose section comes before all others.                                   *)
LEMMA DroppedBuckets ==
    ASSUME TInv, OnceInv, BucketInv, NEW b \in DOMAIN bucket, DropFirstBucket(b)
    PROVE  BucketInv'
<1>1. /\ step = "fill" /\ step' = "rehome" /\ dropped' = b /\ ~needsDefault
      /\ b \in FirstBuckets(at) /\ Cardinality(BucketsOf(at)) > 1
      /\ bucket' = [c \in DOMAIN bucket \ {b} |-> bucket[c]]
      /\ BucketsLeft = {}
      /\ UNCHANGED <<data, at, lists, task, made, needsDefault, nextBucket>>
  BY DEF DropFirstBucket, Filled, structure
<1>2. b \in BucketsOf(at) /\ bucket[b].list = at /\ at \in lists
  BY <1>1, FirstBucketsAre DEF BucketsOf, TInv, ControlType
<1>3. /\ DOMAIN bucket' = DOMAIN bucket \ {b}
      /\ \A c \in DOMAIN bucket' : bucket'[c] = bucket[c]
      /\ \A l : BucketsOf(l)' = BucketsOf(l) \ {b}
      /\ \A l : l # at => BucketsOf(l)' = BucketsOf(l)
  <2>1. /\ DOMAIN bucket' = DOMAIN bucket \ {b}
        /\ \A c \in DOMAIN bucket' : bucket'[c] = bucket[c]
    BY <1>1
  <2>2. \A l : BucketsOf(l)' = BucketsOf(l) \ {b}
    BY <2>1 DEF BucketsOf
  <2> QED BY <2>1, <2>2, <1>2 DEF BucketsOf
<1>4. BucketsOf(at)' # {}
  <2>1. BucketsOf(at) # {b}
    BY <1>1, FS_Singleton
  <2>2. BucketsOf(at)' = BucketsOf(at) \ {b}
    BY <1>1, <1>3
  <2> QED BY <2>1, <2>2, <1>2
<1>5. BucketsSound'
  <2>1. \A l \in lists : BucketsOf(l)' # {}
    BY <1>1, <1>3, <1>4 DEF BucketInv, BucketsSound
  <2> QED BY <1>1, <1>3, <2>1 DEF BucketInv, BucketsSound
<1>6. MapSound'
  BY <1>1 DEF MapSound
<1>7. ASSUME NEW t \in DOMAIN task, task[t].list # at PROVE task[t] \in Kept'
  <2>1. PICK l : l = task[t].list
    OBVIOUS
  <2>2. BucketsOf(l)' = BucketsOf(l) /\ \A c \in BucketsOf(l) : bucket'[c] = bucket[c]
    BY <2>1, <1>3, <1>7 DEF BucketsOf
  <2> QED BY <1>1, <1>7, <2>1, <2>2, KeptStays DEF BucketInv, PlacesSound
<1>8. ASSUME NEW t \in DOMAIN task, task[t].list = at
      PROVE  task[t] \in Kept' \/ (task[t].bucket = b /\ task[t] \in Lost')
  <2> PICK x : x = task[t]
    OBVIOUS
  <2> PICK s : s = SectionOf(x)
    OBVIOUS
  <2>1. /\ x \in Filling /\ x \in TaskRow /\ x.list = at
        /\ s \in Sections \union {0}
        /\ s # 0 => s \in OldBuckets(at)
    BY <1>1, <1>8, PlaceIs
  <2>2. s # 0 /\ x.bucket = made[OldId(s)] /\ x.bucket \in BucketsOf(at)
    BY <2>1, <1>1 DEF Filling
  <2>3. SectionOf(x)' = s
    BY <1>1 DEF SectionOf
  <2>4. CASE x.bucket # b
    <3>1. x \in Own
      BY <1>1, <1>8, FilledIsOwn
    <3>2. x.bucket \in BucketsOf(at)' /\ bucket'[x.bucket] = bucket[x.bucket]
      BY <2>2, <2>4, <1>1, <1>3, FirstBucketsAre DEF TInv
    <3>3. x \in Own'
      BY <3>1, <3>2, <2>1, <2>3, <1>1 DEF Own, Siblings
    <3> QED BY <3>3 DEF Kept
  <2>5. CASE x.bucket = b
    <3>1. bucket[b].of # 0 /\ OldId(bucket[b].of) = OldId(s)
      <4>1. b # 0 /\ OldId(s) \in 0 .. NumSections
        BY <2>1, OldIdIs DEF TInv, BucketType
      <4> QED BY <4>1, <2>2, <2>5, <1>1 DEF BucketInv, MapSound
    <3>2. data.service = "vikunja"
      BY <3>1, <1>1, FirstIsBacklog DEF BucketInv
    <3>3. bucket[b].of \in Sections
      BY <3>1 DEF TInv, BucketType
    <3>4. bucket[b].of = s /\ bucket[b].pos = OldPosition[s]
      BY <3>1, <3>2, <3>3, <2>1, OldIdIs DEF BucketInv, BucketsSound
    <3>5. ASSUME NEW q \in Siblings(x) PROVE OldPosition[s] <= OldPosition[q]
      <4>1. q \in OldBuckets(at) /\ q # 0
        BY <2>1, <3>2, ConstantsAssumption DEF Siblings, OldBuckets, Sections
      <4>2. PICK c \in BucketsOf(at) : bucket[c].of = q
        BY <4>1, <1>1, SectionsMade DEF BucketInv
      <4>3. bucket[c].pos = OldPosition[q]
        BY <4>1, <4>2, <3>2, FirstBucketsAre DEF BucketInv, BucketsSound, TInv
      <4> QED BY <4>2, <4>3, <3>4, <1>1 DEF FirstBuckets
    <3>6. PICK c \in BucketsOf(at) : bucket[c].of = 0
      BY <1>1 DEF BucketInv, MapSound
    <3>7. c \in BucketsOf(at)' /\ bucket'[c].of = 0
      BY <3>1, <3>6, <1>1, <1>3, FirstBucketsAre DEF TInv
    <3>8. x \in Lost'
      BY <3>2, <3>5, <3>7, <2>1, <2>2, <2>3, <1>1 DEF Lost, Siblings
    <3> QED BY <3>8, <2>5
  <2> QED BY <2>4, <2>5
<1>9. b \notin DOMAIN bucket'
  BY <1>3
<1>10. PlacesSound'
  BY <1>1, <1>3, <1>7, <1>8, <1>9 DEF BucketInv, PlacesSound
<1> QED BY <1>5, <1>6, <1>10 DEF BucketInv

LEMMA RehomedBuckets ==
    ASSUME TInv, OnceInv, BucketInv, NEW d \in DOMAIN bucket, Rehome(d)
    PROVE  BucketInv'
<1>1. /\ step = "rehome" /\ step' = "list" /\ d \in FirstBuckets(at)
      /\ task' = [t \in DOMAIN task |->
                    IF task[t].bucket = dropped THEN [task[t] EXCEPT !.bucket = d] ELSE task[t]]
      /\ UNCHANGED <<data, at, lists, bucket, made, needsDefault, dropped, nextBucket>>
  BY DEF Rehome, structure
<1>2. \A l : BucketsOf(l)' = BucketsOf(l)
  BY <1>1 DEF BucketsOf
<1>3. \A t \in DOMAIN task : task[t] \in TaskRow
  BY TasksAreRows
<1>4. d \in BucketsOf(at) /\ bucket[d].list = at /\ d \in Nat /\ d < nextBucket
  BY <1>1, FirstBucketsAre DEF BucketsOf, TInv, BucketType
<1>5. dropped \notin DOMAIN bucket
  BY <1>1 DEF BucketInv, PlacesSound
<1>6. \A x \in Own : x.bucket \in DOMAIN bucket
  BY DEF Own, BucketsOf
<1>7. \A x \in Kept : x.bucket \in DOMAIN bucket
  BY <1>6, FirstBucketsAre DEF Kept, TInv
<1>8. ASSUME NEW t \in DOMAIN task, task[t] \in Kept
      PROVE  task'[t] = task[t] /\ task'[t] \in Kept'
  <2>1. task'[t] = task[t]
    BY <1>1, <1>5, <1>7, <1>8
  <2> QED BY <2>1, <1>1, <1>2, <1>8, KeptStays
<1>9. ASSUME NEW t \in DOMAIN task, task[t].list = at, task[t].bucket = dropped, task[t] \in Lost
      PROVE  task'[t] \in Kept' /\ task'[t].bucket = d /\ task'[t].list = at
  <2> PICK x : x = task[t]
    OBVIOUS
  <2> PICK y : y = [x EXCEPT !.bucket = d]
    OBVIOUS
  <2>1. task'[t] = y
    BY <1>1, <1>9
  <2>2. y \in TaskRow /\ y.bucket = d /\ y.list = at /\ y.item = x.item
    BY <1>3, <1>4, <1>9 DEF TaskRow
  <2>3. SectionOf(y) = SectionOf(x)
    BY <2>2 DEF SectionOf
  <2>4. y \in Lost
    BY <2>2, <2>3, <1>9 DEF Lost, Siblings
  <2>5. y \in Kept
    BY <2>2, <2>4, <1>1 DEF Kept
  <2>6. y \in Kept'
    BY <2>2, <2>5, <1>1, <1>2, KeptStays
  <2> QED BY <2>1, <2>2, <2>6
<1>10. \A t \in DOMAIN task :
          task[t] \in Kept \/ (task[t].list = at /\ task[t].bucket = dropped /\ task[t] \in Lost)
  BY <1>1 DEF BucketInv, PlacesSound
<1>11. \A t \in DOMAIN task : /\ task'[t] \in Kept'
                              /\ task'[t].bucket < nextBucket
                              /\ task'[t].bucket \in DOMAIN bucket =>
                                   bucket[task'[t].bucket].list = task'[t].list
  BY <1>4, <1>8, <1>9, <1>10 DEF BucketInv, PlacesSound
<1>12. DOMAIN task' = DOMAIN task
  BY <1>1
<1>13. PlacesSound'
  BY <1>1, <1>11, <1>12 DEF PlacesSound
<1>14. BucketsSound'
  BY <1>1, <1>2 DEF BucketInv, BucketsSound
<1>15. MapSound'
  BY <1>1 DEF MapSound
<1> QED BY <1>13, <1>14, <1>15 DEF BucketInv

LEMMA NextBuckets == ASSUME TInv, OnceInv, BucketInv, [Next]_vars PROVE BucketInv'
<1>1. ASSUME NEW r \in Rows, Nest(r) PROVE BucketInv'
  <2>1. /\ UNCHANGED <<data, at, lists, bucket, task, made, needsDefault, dropped, nextBucket>>
        /\ step' = step \/ step' = "failed"
    BY <1>1 DEF Nest
  <2> QED BY <2>1, BucketsStay
<1>2. ASSUME NEW r \in Rows, InsertTop(r) PROVE BucketInv'
  BY <1>2, TopIsNew, TaskFills
<1>3. CASE Converted
  <2>1. /\ UNCHANGED <<data, at, lists, bucket, task, made, needsDefault, dropped, nextBucket>>
        /\ lists = {} /\ step' = "list"
    BY <1>3 DEF Converted, structure, TInv, ControlType
  <2> QED BY <2>1, BucketsStay
<1>4. ASSUME NEW k \in links, InsertRelated(k) PROVE BucketInv'
  <2>1. /\ step = "fill" /\ k.row \in Rows /\ InsertTask(k.row) /\ ItemOf(k.row).project = at
        /\ row \in Rows /\ idOf[row] # 0 /\ ItemOf(row).project = at
    BY <1>4, RelatedIsNew DEF OnceInv
  <2>2. idOf[row] \in DOMAIN task /\ task[idOf[row]].list = at
    BY <2>1 DEF OnceInv, Matched
  <2>3. BucketsLeft = {}
    BY <2>1, <2>2 DEF BucketInv, PlacesSound
  <2> QED BY <2>1, <2>3, TaskFills
<1>5. ASSUME NEW k \in links, Relate(k) PROVE BucketInv'
  <2>1. /\ UNCHANGED <<data, at, lists, bucket, task, made, needsDefault, dropped, nextBucket>>
        /\ step' = step
    BY <1>5 DEF Relate, structure
  <2> QED BY <2>1, BucketsStay
<1>6. CASE Fail
  <2>1. /\ UNCHANGED <<data, at, lists, bucket, task, made, needsDefault, dropped, nextBucket>>
        /\ step' = "failed"
    BY <1>6 DEF Fail, structure
  <2> QED BY <2>1, BucketsStay
<1>7. CASE Finish
  <2>1. /\ UNCHANGED <<data, at, lists, bucket, task, made, needsDefault, dropped, nextBucket>>
        /\ step = "list" /\ step' = "done"
    BY <1>7 DEF Finish, structure
  <2> QED BY <2>1, BucketsStay
<1>8. CASE UNCHANGED vars
  <2>1. /\ UNCHANGED <<data, at, lists, bucket, task, made, needsDefault, dropped, nextBucket>>
        /\ step' = step
    BY <1>8 DEF vars
  <2> QED BY <2>1, BucketsStay
<1> QED BY <1>1, <1>2, <1>3, <1>4, <1>5, <1>6, <1>7, <1>8, ListBuckets, BacklogBuckets,
           OldBucketBuckets, KeptBuckets, DroppedBuckets, RehomedBuckets DEF Next

LEMMA DoneIsKept == ASSUME TInv, BucketInv PROVE BucketKept
<1> SUFFICES ASSUME step = "done", NEW t \in Tasks
    PROVE  LET s == data.item[task[t].item].section
               siblings == {q \in Sections : SectionProject[q] = task[t].list}
               took == bucket[task[t].bucket].of
           IN  \/ took = s
               \/ /\ data.service = "todoist" /\ s # 0
                  /\ took # s /\ \A q \in siblings : q <= took
               \/ /\ data.service = "vikunja"
                  /\ \A q \in siblings : OldPosition[s] <= OldPosition[q]
                  /\ task[t].bucket \in FirstBuckets(task[t].list)
                  /\ \E b \in BucketsOf(task[t].list) : bucket[b].of = 0
  BY DEF BucketKept
<1>1. task[t] \in Kept
  BY DEF BucketInv, PlacesSound, Tasks
<1>2. CASE task[t] \in Own
  BY <1>2 DEF Own, SectionOf, Siblings
<1>3. CASE task[t] \in Lost /\ task[t].bucket \in FirstBuckets(task[t].list)
  BY <1>3 DEF Lost, SectionOf, Siblings
<1> QED BY <1>1, <1>2, <1>3 DEF Kept

LEMMA HalfIsSound == ASSUME TInv, OnceInv, BucketInv PROVE HalfImportSound
<1>1. TypeOK
  BY TypesAreTyped
<1>2. ASSUME NEW l \in lists, l # at \/ step = "done" PROVE Whole(l)
  <2>1. BucketsOf(l) # {}
    BY <1>2 DEF BucketInv, BucketsSound
  <2>2. ASSUME NEW t \in Tasks, task[t].list = l PROVE task[t].bucket \in BucketsOf(l)
    <3>1. task[t] \in Kept
      BY <1>2, <2>2 DEF BucketInv, PlacesSound, Tasks
    <3>2. task[t].bucket \in BucketsOf(task[t].list)
      BY <3>1, FirstBucketsAre DEF Kept, Own, TInv
    <3> QED BY <3>2, <2>2
  <2> QED BY <2>1, <2>2 DEF Whole
<1>3. \A t \in Tasks :
        /\ task[t].list \in lists
        /\ task[t].bucket \in DOMAIN bucket => bucket[task[t].bucket].list = task[t].list
  BY DEF Tasks, TInv, TaskType, BucketInv, PlacesSound
<1>4. \A r \in relation :
        /\ <<r[3], Inverted(r[2]), r[1]>> \in relation
        /\ r[1] \in Tasks \/ r[3] \in Tasks
        /\ data.service = "todoist" => r[1] \in Tasks /\ r[3] \in Tasks
  BY DEF Tasks, OnceInv, RelationsSound
<1> QED BY <1>1, <1>2, <1>3, <1>4 DEF HalfImportSound

LEMMA ImportInvariant == Spec => [](TInv /\ OnceInv /\ BucketInv)
<1>1. Init => TInv /\ OnceInv /\ BucketInv
  BY InitTypes, InitOnce, InitBuckets
<1>2. TInv /\ OnceInv /\ BucketInv /\ [Next]_vars => (TInv /\ OnceInv /\ BucketInv)'
  BY NextTypes, NextOnce, NextBuckets
<1> QED BY <1>1, <1>2, PTL DEF Spec

(* Whatever the other service has, an import that is done has put every task  *)
(* into the bucket of its section, into the last one of its project if it is  *)
(* a Todoist, or, from a file of a Vikunja, into the one that comes first     *)
(* where its own came before that of the list (setBucketOrDefault, and the    *)
(* deletion of the default bucket in insertFromStructure).                    *)
THEOREM ImportsKeepBuckets == Spec => []BucketKept
<1>1. TInv /\ OnceInv /\ BucketInv => BucketKept
  BY DoneIsKept
<1> QED BY <1>1, ImportInvariant, PTL

(* At whatever statement an import fails, and whatever it was to import, no    *)
(* list but the one it was at lacks a bucket or has tasks without one, and the *)
(* relations it has written have both their rows (InsertFromStructure, whose   *)
(* rollback has nothing to roll back).                                         *)
THEOREM HalfImportsAreSound == Spec => []HalfImportSound
<1>1. TInv /\ OnceInv /\ BucketInv => HalfImportSound
  BY HalfIsSound
<1> QED BY <1>1, ImportInvariant, PTL

=============================================================================
