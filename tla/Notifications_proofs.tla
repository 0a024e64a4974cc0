-------------------------- MODULE Notifications_proofs --------------------------
(***************************************************************************)
(* For any users, subscriptions, retries, errors and restarts, and any     *)
(* length of the queue: the variables keep their types, the counter of     *)
(* tasks settles, and nobody is told twice but where ToldOnce says so.     *)
(***************************************************************************)
EXTENDS Notifications, TLAPS

(* Only listeners that tell somebody work on an event for more than a step, and *)
(* only those that tell subscribers read them.                                  *)
JobOK(h, j) ==
    /\ h \in Mentioners \union Tellers
    /\ h \notin Tellers => ~j.read
    /\ j.mailed \subseteq j.todo
    /\ \A row \in j.todo : row[2] = "mention" => row[1] \in j.mentioned
    /\ ~j.read => \A row \in j.todo : row[2] = "mention"

TInv ==
    /\ TypeOK /\ requests \in 0 .. MaxRequests /\ faults \in Nat
    /\ \A h \in Handlers : \A i, j \in job[h] : i = j /\ JobOK(h, j)

-----------------------------------------------------------------------------
(* The counter: events of created and of deleted tasks that it does not show yet. *)
Rising == {e \in pending : e.topic = "task.created"} \union inbox["increase"]
Falling == {e \in pending : e.topic = "task.deleted"} \union inbox["decrease"]

(* There is at most one of each, on one of the two ways. *)
CountInv ==
    /\ task = "none" => Rising = {}
    /\ task # "gone" => Falling = {}
    /\ \A e, f \in Rising : e = f
    /\ \A e, f \in Falling : e = f
    /\ \A e \in pending : /\ e.topic = "task.created" => inbox["increase"] = {}
                          /\ e.topic = "task.deleted" => inbox["decrease"] = {}
    /\ ~missed => count = TasksInTable - (IF Rising = {} THEN 0 ELSE 1) + (IF Falling = {} THEN 0 ELSE 1)

-----------------------------------------------------------------------------
(* Notifications of one name: at most one event is on its way to a listener that *)
(* sends them.                                                                   *)
Quiet(n) == \A h \in Naming(n) : ~Busy(h)

OneEvent(n) ==
    \A g, h \in Naming(n) :
       /\ \A e, f \in pending : g \in Listeners[e.topic] /\ h \in Listeners[f.topic] => e = f
       /\ \A e \in pending : g \in Listeners[e.topic] => inbox[h] = {} /\ job[h] = {}
       /\ \A e \in inbox[g], f \in inbox[h] : e = f /\ g = h
       /\ inbox[g] # {} => job[h] = {}
       /\ job[g] # {} /\ job[h] # {} => g = h

(* The listeners of comments and deletions have not told anybody before they begin. *)
Untold(u, n) ==
    \A h \in Naming(n) \intersect Tellers :
        inbox[h] # {} \/ (\E e \in pending : h \in Listeners[e.topic]) => told[u][n] = 0

(* Whom a listener has yet to tell it has not told. *)
TellsOnce(u, n, j) ==
    /\ (\E row \in j.mailed : row[1] = u) => told[u][n] = 0
    /\ ~j.read /\ u \notin j.mentioned => told[u][n] = 0
    /\ \A row \in j.todo : row[1] = u /\ row[2] # "mention" /\ u \notin j.mentioned => told[u][n] = 0
    /\ \A r, s \in j.todo : r[1] = u /\ s[1] = u /\ r[2] # "mention" /\ s[2] # "mention" => r = s

Once(u, n) ==
    /\ told[u][n] <= 1 /\ OneEvent(n) /\ Untold(u, n)
    /\ \A h \in Naming(n) \intersect Tellers : \A j \in job[h] : TellsOnce(u, n, j)
    /\ \A h \in Naming(n) : \A j \in job[h] : (\E row \in j.mailed : row[1] = u) => told[u][n] = 0

ToldInv ==
    /\ ~comment => Quiet("task.comment") /\ \A u \in Users : told[u]["task.comment"] = 0
    /\ task # "gone" => Quiet("task.deleted") /\ \A u \in Users : told[u]["task.deleted"] = 0
    /\ \A u \in Users : {u} \X Entities \subseteq subscriptions => {u} \X Names \subseteq again
    /\ \A u \in Users, n \in Names \ {"task.assigned"} : <<u, n>> \notin again => Once(u, n)

-----------------------------------------------------------------------------
(* The listeners by topic and by the name of what they send. *)
LEMMA Topical ==
    /\ Topics = {"task.created", "task.updated", "task.deleted", "assignee.created",
                 "comment.created", "comment.updated"}
    /\ Listeners["task.created"] = {"increase", "mentions"}
    /\ Listeners["task.updated"] = {"updated"}
    /\ Listeners["task.deleted"] = {"decrease", "deleted"}
    /\ Listeners["assignee.created"] = {"assigned", "subscribe"}
    /\ Listeners["comment.created"] = {"comment"}
    /\ Listeners["comment.updated"] = {"edit"}
BY DEF Topics, Listeners

LEMMA HandlersAre ==
    /\ Handlers = {"increase", "mentions", "updated", "decrease", "deleted", "assigned",
                   "subscribe", "comment", "edit"}
    /\ \A x \in Topics : Listeners[x] \subseteq Handlers
<1>1. \A x \in Topics : Listeners[x] \subseteq Handlers
  BY DEF Handlers
<1>2. Handlers \subseteq {"increase", "mentions", "updated", "decrease", "deleted", "assigned",
                          "subscribe", "comment", "edit"}
  BY Topical DEF Handlers
<1>3. {"increase", "mentions", "updated", "decrease", "deleted", "assigned",
       "subscribe", "comment", "edit"} \subseteq Handlers
  BY <1>1, Topical
<1> QED BY <1>1, <1>2, <1>3

LEMMA NamingIs ==
    /\ Names = {"task.mentioned", "task.comment", "task.assigned", "task.deleted"}
    /\ Naming("task.mentioned") = {"mentions", "updated"}
    /\ Naming("task.comment") = {"comment", "edit"}
    /\ Naming("task.assigned") = {"assigned"}
    /\ Naming("task.deleted") = {"deleted"}
    /\ \A h \in Mentioners \union Tellers : NotificationName[h] \in Names /\ h \in Naming(NotificationName[h])
    /\ \A n : \A h \in Naming(n) : h \in Mentioners \union Tellers /\ h \in Handlers /\ NotificationName[h] = n
<1>1. /\ NotificationName["mentions"] = "task.mentioned" /\ NotificationName["updated"] = "task.mentioned"
      /\ NotificationName["comment"] = "task.comment" /\ NotificationName["edit"] = "task.comment"
      /\ NotificationName["assigned"] = "task.assigned" /\ NotificationName["deleted"] = "task.deleted"
  BY DEF NotificationName, Mentioners, Tellers
<1>2. Mentioners \union Tellers = {"mentions", "updated", "comment", "edit", "assigned", "deleted"}
  BY DEF Mentioners, Tellers
<1>3. Names = {"task.mentioned", "task.comment", "task.assigned", "task.deleted"}
  BY <1>1, <1>2 DEF Names
<1> QED BY <1>1, <1>2, <1>3, HandlersAre DEF Naming

-----------------------------------------------------------------------------
(* Types *)
LEMMA BeginIsJob ==
    ASSUME NEW h \in Mentioners \union Tellers, NEW e \in Event, NEW k \in 1 .. MaxRetries + 1
    PROVE  Begin(h, e, k) \in Job /\ JobOK(h, Begin(h, e, k))
<1> DEFINE mentioned == IF h \in Mentioners THEN e.users \cap accounts ELSE {}
           new == [event |-> e, tries |-> k, mentioned |-> mentioned,
                   todo |-> mentioned \X {"mention"}, read |-> FALSE, mailed |-> {}]
<1>1. Begin(h, e, k) = new
  BY DEF Begin
<1>2. mentioned \subseteq Users /\ mentioned \X {"mention"} \subseteq Rows
  BY DEF Event, Rows
<1> HIDE DEF mentioned
<1>3. new \in Job
  BY <1>2 DEF Job
<1>4. JobOK(h, new)
  BY DEF JobOK
<1> HIDE DEF new
<1> QED BY <1>1, <1>3, <1>4

LEMMA InitType == Init => TInv
<1> SUFFICES ASSUME Init PROVE TInv
  OBVIOUS
<1>1. again \subseteq Users \X Names /\ subscriptions \subseteq Users \X Entities
  BY ConstantsAssumption DEF Init
<1>2. queue \in 0 .. QueueLen /\ requests \in 0 .. MaxRequests /\ faults \in Nat /\ count \in Int
  BY ConstantsAssumption DEF Init, TasksInTable
<1>3. told \in [Users -> [Names -> Nat]]
  BY DEF Init
<1>4. inbox \in [Handlers -> SUBSET Event] /\ job \in [Handlers -> SUBSET Job]
      /\ \A h \in Handlers : job[h] = {}
  BY DEF Init
<1>5. task \in {"none", "alive", "gone"} /\ comment \in BOOLEAN /\ pending \subseteq Event
      /\ accounts \subseteq Users /\ listening \in BOOLEAN /\ missed \in BOOLEAN /\ due \subseteq Users
  BY DEF Init
<1> QED BY <1>1, <1>2, <1>3, <1>4, <1>5 DEF TInv, TypeOK

(* A request leaves an event that is to be dispatched. *)
LEMMA DoEvent ==
    ASSUME TInv, NEW topic \in Topics, NEW doer \in Users \union {NoDoer}, NEW users \in SUBSET Users,
           Do(topic, doer, users)
    PROVE  \E e \in Event : e.topic = topic /\ e.users = users /\ pending' = pending \union {e}
<1> DEFINE e == [topic |-> topic, doer |-> doer, users |-> users, no |-> requests + 1]
<1>1. requests + 1 \in 1 .. MaxRequests
  BY ConstantsAssumption DEF TInv, Do, Request
<1>2. e \in Event /\ e.topic = topic /\ e.users = users
  BY <1>1 DEF Event
<1>3. pending' = pending \union {e}
  BY DEF Do
<1> QED BY <1>2, <1>3

LEMMA DoType ==
    ASSUME TInv, NEW topic \in Topics, NEW doer \in Users \union {NoDoer}, NEW users \in SUBSET Users,
           Do(topic, doer, users), task' \in {"none", "alive", "gone"}, comment' \in BOOLEAN, due' \subseteq Users
    PROVE  TInv'
<1>1. pending' \subseteq Event
  <2>1. PICK e \in Event : pending' = pending \union {e}
    BY DoEvent
  <2> QED BY <2>1 DEF TInv, TypeOK
<1>2. again' \subseteq Users \X Names
  BY DEF Do, TInv, TypeOK
<1>3. requests' \in 0 .. MaxRequests /\ faults' = faults
  BY ConstantsAssumption DEF Do, Request, TInv
<1> QED BY <1>1, <1>2, <1>3 DEF TInv, TypeOK, JobOK, Do

Changes(u) ==
    \/ \E mentioned \in Texts :
          \/ CreateTask(u, mentioned) \/ UpdateTask(u, mentioned) \/ CreateComment(u, mentioned)
          \/ \E author \in {u, NoDoer} : UpdateComment(u, author, mentioned)
    \/ \E v \in Users : Assign(u, v)
    \/ DeleteTask(u)

LEMMA ChangesType == ASSUME TInv, NEW u \in Authors, Changes(u) PROVE TInv'
<1> USE ConstantsAssumption, Topical
<1>1. ASSUME NEW mentioned \in Texts, CreateTask(u, mentioned) PROVE TInv'
  BY <1>1, DoType DEF CreateTask, TInv, TypeOK
<1>2. ASSUME NEW mentioned \in Texts, UpdateTask(u, mentioned) PROVE TInv'
  BY <1>2, DoType DEF UpdateTask, TInv, TypeOK
<1>3. ASSUME NEW mentioned \in Texts, CreateComment(u, mentioned) PROVE TInv'
  BY <1>3, DoType DEF CreateComment, TInv, TypeOK
<1>4. ASSUME NEW mentioned \in Texts, NEW author \in {u, NoDoer}, UpdateComment(u, author, mentioned) PROVE TInv'
  <2>1. author \in Users \union {NoDoer} /\ mentioned \in SUBSET Users
    BY <1>4
  <2>2. Do("comment.updated", author, mentioned) /\ UNCHANGED <<task, comment, due>>
    BY <1>4 DEF UpdateComment
  <2> QED BY <2>1, <2>2, DoType DEF TInv, TypeOK
<1>5. ASSUME NEW v \in Users, Assign(u, v) PROVE TInv'
  BY <1>5, DoType DEF Assign, TInv, TypeOK
<1>6. CASE DeleteTask(u)
  BY <1>6, DoType DEF DeleteTask, TInv, TypeOK
<1> QED BY <1>1, <1>2, <1>3, <1>4, <1>5, <1>6 DEF Changes

Subscribes(u) ==
    \/ \E e \in Entities : Subscribe(u, e) \/ Unsubscribe(u, e)
    \/ DeleteAccount(u)

LEMMA SubscribesType == ASSUME TInv, NEW u \in Users, Subscribes(u) PROVE TInv'
<1>1. ASSUME NEW e \in Entities, Subscribe(u, e) PROVE TInv'
  <2>1. again' \subseteq Users \X Names /\ subscriptions' \subseteq Users \X Entities
    BY <1>1 DEF Subscribe, TInv, TypeOK
  <2>2. requests' \in 0 .. MaxRequests /\ faults' = faults
    BY <1>1, ConstantsAssumption DEF Subscribe, Request, TInv
  <2> QED BY <1>1, <2>1, <2>2 DEF Subscribe, TInv, TypeOK, JobOK, rows
<1>2. ASSUME NEW e \in Entities, Unsubscribe(u, e) PROVE TInv'
  <2>1. requests' \in 0 .. MaxRequests /\ faults' = faults
    BY <1>2, ConstantsAssumption DEF Unsubscribe, Request, TInv
  <2> QED BY <1>2, <2>1 DEF Unsubscribe, TInv, TypeOK, JobOK, rows
<1>3. ASSUME DeleteAccount(u) PROVE TInv'
  <2>1. requests' \in 0 .. MaxRequests /\ faults' = faults
    BY <1>3, ConstantsAssumption DEF DeleteAccount, Request, TInv
  <2> QED BY <1>3, <2>1 DEF DeleteAccount, TInv, TypeOK, JobOK, rows
<1> QED BY <1>1, <1>2, <1>3 DEF Subscribes

LEMMA BusType ==
    ASSUME TInv, \/ \E e \in pending : Dispatch(e) \/ RequestFails(e)
                 \/ StartRouter \/ SendMail \/ Restart
    PROVE  TInv'
<1>1. CASE \E e \in pending : Dispatch(e)
  <2>1. PICK e \in pending : Dispatch(e)
    BY <1>1
  <2>2. inbox' \in [Handlers -> SUBSET Event]
    BY <2>1 DEF Dispatch, TInv, TypeOK
  <2>3. missed' \in BOOLEAN /\ due' \subseteq Users /\ pending' \subseteq Event
    BY <2>1 DEF Dispatch, TInv, TypeOK
  <2> QED BY <2>1, <2>2, <2>3 DEF Dispatch, TInv, TypeOK, JobOK, bounds
<1>2. CASE \E e \in pending : RequestFails(e)
  BY <1>2 DEF RequestFails, TInv, TypeOK, JobOK
<1>3. CASE StartRouter
  BY <1>3 DEF StartRouter, TInv, TypeOK, JobOK, rows, bounds, history
<1>4. CASE SendMail
  <2>1. queue' \in 0 .. QueueLen
    BY <1>4, ConstantsAssumption DEF SendMail, TInv, TypeOK
  <2> QED BY <1>4, <2>1 DEF SendMail, TInv, TypeOK, JobOK, state, rows, bounds, history
<1>5. CASE Restart
  <2>1. count' \in Int /\ queue' \in 0 .. QueueLen /\ faults' \in Nat
    BY <1>5, ConstantsAssumption DEF Restart, TasksInTable, TInv
  <2>2. inbox' \in [Handlers -> SUBSET Event] /\ job' \in [Handlers -> SUBSET Job] /\ \A h \in Handlers : job'[h] = {}
    BY <1>5 DEF Restart
  <2> QED BY <1>5, <2>1, <2>2 DEF Restart, TInv, TypeOK
<1> QED BY <1>1, <1>2, <1>3, <1>4, <1>5

(* One listener goes on to a job that is right. *)
LEMMA JobGoesOn ==
    ASSUME TInv, NEW h \in Handlers, NEW j \in Job, JobOK(h, j), job' = [job EXCEPT ![h] = {j}]
    PROVE  job' \in [Handlers -> SUBSET Job] /\ \A g \in Handlers : \A i, k \in job'[g] : i = k /\ JobOK(g, k)'
<1>1. \A g \in Handlers : job'[g] = IF g = h THEN {j} ELSE job[g]
  BY DEF TInv, TypeOK
<1>2. \A g, k : JobOK(g, k)' <=> JobOK(g, k)
  BY DEF JobOK
<1> QED BY <1>1, <1>2 DEF TInv, TypeOK

LEMMA JobEnds ==
    ASSUME TInv, NEW h \in Handlers, job' = [job EXCEPT ![h] = {}]
    PROVE  job' \in [Handlers -> SUBSET Job] /\ \A g \in Handlers : \A i, k \in job'[g] : i = k /\ JobOK(g, k)'
<1>1. \A g \in Handlers : job'[g] = IF g = h THEN {} ELSE job[g]
  BY DEF TInv, TypeOK
<1>2. \A g, k : JobOK(g, k)' <=> JobOK(g, k)
  BY DEF JobOK
<1> QED BY <1>1, <1>2 DEF TInv, TypeOK

Takes(h, e) == Count(h, e) \/ Take(h, e) \/ (h = "subscribe" /\ SubscribeAssignee(e))

LEMMA TakesType ==
    ASSUME TInv, NEW h \in Handlers, NEW e \in inbox[h], Takes(h, e)
    PROVE  TInv'
<1>1. e \in Event /\ inbox \in [Handlers -> SUBSET Event]
  BY DEF TInv, TypeOK
<1>2. inbox' = [inbox EXCEPT ![h] = @ \ {e}]
  BY DEF Takes, Count, Take, SubscribeAssignee
<1>3. inbox' \in [Handlers -> SUBSET Event]
  BY <1>1, <1>2
<1>4. CASE Count(h, e)
  BY <1>3, <1>4 DEF Count, TInv, TypeOK, JobOK, state, rows, bounds, history
<1>5. CASE h = "subscribe" /\ SubscribeAssignee(e)
  <2>1. e.users \subseteq Users
    BY <1>1 DEF Event
  <2>2. subscriptions' \subseteq Users \X Entities
    BY <1>5, <2>1 DEF SubscribeAssignee, TInv, TypeOK, Entities
  <2>3. again' \subseteq Users \X Names
    BY <1>5, <2>1 DEF SubscribeAssignee, TInv, TypeOK
  <2> QED BY <1>3, <1>5, <2>2, <2>3 DEF SubscribeAssignee, TInv, TypeOK, JobOK, state, rows, bounds
<1>6. CASE Take(h, e)
  <2>1. 1 \in 1 .. MaxRetries + 1
    BY ConstantsAssumption
  <2>2. h \in Mentioners \union Tellers /\ job' = [job EXCEPT ![h] = {Begin(h, e, 1)}]
    BY <1>6 DEF Take
  <2>3. job' \in [Handlers -> SUBSET Job] /\ \A g \in Handlers : \A i, k \in job'[g] : i = k /\ JobOK(g, k)'
    BY <1>1, <2>1, <2>2, BeginIsJob, JobGoesOn
  <2> QED BY <1>3, <1>6, <2>3 DEF Take, TInv, TypeOK, state, rows, bounds, history
<1> QED BY <1>4, <1>5, <1>6 DEF Takes

Works(h, j) ==
    \/ \E row \in j.todo : Pass(h, j, row) \/ QueueMail(h, j, row) \/ Save(h, j, row)
    \/ ReadSubscribers(h, j) \/ Finish(h, j) \/ Panic(h, j) \/ DatabaseFails(h, j)

LEMMA RetryType ==
    ASSUME TInv, NEW h \in Handlers, NEW j \in job[h], Retry(h, j), faults' \in Nat
    PROVE  TInv'
<1>1. j \in Job /\ JobOK(h, j) /\ j.tries \in 1 .. MaxRetries + 1 /\ j.event \in Event
  BY DEF TInv, TypeOK, Job
<1>2. h \in Mentioners \union Tellers
  BY <1>1 DEF JobOK
<1>3. again' \subseteq Users \X Names
  BY <1>2, NamingIs DEF Retry, TInv, TypeOK
<1>4. CASE j.tries <= MaxRetries
  <2>1. j.tries + 1 \in 1 .. MaxRetries + 1
    BY <1>1, <1>4, ConstantsAssumption
  <2>2. job' = [job EXCEPT ![h] = {Begin(h, j.event, j.tries + 1)}]
    BY <1>4 DEF Retry
  <2>3. job' \in [Handlers -> SUBSET Job] /\ \A g \in Handlers : \A i, k \in job'[g] : i = k /\ JobOK(g, k)'
    BY <1>1, <1>2, <2>1, <2>2, BeginIsJob, JobGoesOn
  <2> QED BY <1>3, <2>3 DEF Retry, TInv, TypeOK, state, rows
<1>5. CASE ~(j.tries <= MaxRetries)
  <2>1. job' = [job EXCEPT ![h] = {}]
    BY <1>5 DEF Retry
  <2>2. job' \in [Handlers -> SUBSET Job] /\ \A g \in Handlers : \A i, k \in job'[g] : i = k /\ JobOK(g, k)'
    BY <2>1, JobEnds
  <2> QED BY <1>3, <2>2 DEF Retry, TInv, TypeOK, state, rows
<1> QED BY <1>4, <1>5

LEMMA WorksType ==
    ASSUME TInv, NEW h \in Handlers, NEW j \in job[h], Works(h, j)
    PROVE  TInv'
<1>1. j \in Job /\ JobOK(h, j)
  BY DEF TInv, TypeOK
<1>2. h \in Mentioners \union Tellers
  BY <1>1 DEF JobOK
<1>3. ASSUME NEW row \in j.todo, Pass(h, j, row) PROVE TInv'
  <2> DEFINE k == [j EXCEPT !.todo = @ \ {row}]
  <2>1. k \in Job
    BY <1>1 DEF Job
  <2>2. j.mailed = {} /\ job' = [job EXCEPT ![h] = {k}]
    BY <1>3 DEF Pass
  <2>3. /\ k.todo = j.todo \ {row} /\ k.read = j.read /\ k.mentioned = j.mentioned /\ k.mailed = j.mailed
    BY <1>1 DEF Job
  <2> HIDE DEF k
  <2>4. JobOK(h, k)
    BY <1>1, <2>2, <2>3 DEF JobOK
  <2>5. job' \in [Handlers -> SUBSET Job] /\ \A g \in Handlers : \A i, l \in job'[g] : i = l /\ JobOK(g, l)'
    BY <2>1, <2>2, <2>4, JobGoesOn
  <2> QED BY <1>3, <2>5 DEF Pass, TInv, TypeOK, state, rows, bounds, history
<1>4. ASSUME NEW row \in j.todo, QueueMail(h, j, row) PROVE TInv'
  <2> DEFINE k == [j EXCEPT !.mailed = {row}]
  <2>1. k \in Job
    BY <1>1 DEF Job
  <2>2. job' = [job EXCEPT ![h] = {k}]
    BY <1>4 DEF QueueMail
  <2>3. k.todo = j.todo /\ k.read = j.read /\ k.mentioned = j.mentioned /\ k.mailed = {row}
    BY <1>1 DEF Job
  <2> HIDE DEF k
  <2>4. JobOK(h, k)
    BY <1>1, <1>4, <2>3 DEF JobOK
  <2>5. job' \in [Handlers -> SUBSET Job] /\ \A g \in Handlers : \A i, l \in job'[g] : i = l /\ JobOK(g, l)'
    BY <2>1, <2>2, <2>4, JobGoesOn
  <2>6. queue' \in 0 .. QueueLen
    BY <1>4, ConstantsAssumption DEF QueueMail, TInv, TypeOK
  <2> QED BY <1>4, <2>5, <2>6 DEF QueueMail, TInv, TypeOK, state, rows, bounds, history
<1>5. ASSUME NEW row \in j.todo, Save(h, j, row) PROVE TInv'
  <2> DEFINE k == [j EXCEPT !.todo = @ \ {row}, !.mailed = {}]
  <2>1. k \in Job
    BY <1>1 DEF Job
  <2>2. job' = [job EXCEPT ![h] = {k}]
    BY <1>5 DEF Save
  <2>3. k.todo = j.todo \ {row} /\ k.read = j.read /\ k.mentioned = j.mentioned /\ k.mailed = {}
    BY <1>1 DEF Job
  <2> HIDE DEF k
  <2>4. JobOK(h, k)
    BY <1>1, <2>3 DEF JobOK
  <2>5. job' \in [Handlers -> SUBSET Job] /\ \A g \in Handlers : \A i, l \in job'[g] : i = l /\ JobOK(g, l)'
    BY <2>1, <2>2, <2>4, JobGoesOn
  <2>6. told' \in [Users -> [Names -> Nat]]
    <3>1. row[1] \in Users /\ NotificationName[h] \in Names /\ told \in [Users -> [Names -> Nat]]
      BY <1>1, <1>2, NamingIs DEF Job, Rows, TInv, TypeOK
    <3> QED BY <1>5, <3>1 DEF Save
  <2> QED BY <1>5, <2>5, <2>6 DEF Save, TInv, TypeOK, state, rows, bounds, history
<1>6. CASE ReadSubscribers(h, j)
  <2> DEFINE found == {row \in subscriptions : row[2] = "task" \/ task = "alive"}
             k == [j EXCEPT !.read = TRUE, !.todo = found]
  <2>1. found \subseteq Rows
    BY DEF TInv, TypeOK, Rows
  <2>2. \A row \in found : row[2] # "mention"
    BY DEF TInv, TypeOK, Entities
  <2>3. h \in Tellers /\ j.todo = {} /\ job' = [job EXCEPT ![h] = {k}]
    BY <1>6 DEF ReadSubscribers
  <2> HIDE DEF found
  <2>4. k \in Job
    BY <1>1, <2>1 DEF Job
  <2>5. k.todo = found /\ k.read = TRUE /\ k.mailed = j.mailed
    BY <1>1 DEF Job
  <2> HIDE DEF k
  <2>6. JobOK(h, k)
    BY <1>1, <2>2, <2>3, <2>5 DEF JobOK
  <2>7. job' \in [Handlers -> SUBSET Job] /\ \A g \in Handlers : \A i, l \in job'[g] : i = l /\ JobOK(g, l)'
    BY <2>3, <2>4, <2>6, JobGoesOn
  <2> QED BY <1>6, <2>7 DEF ReadSubscribers, TInv, TypeOK, state, rows, bounds, history
<1>7. CASE Finish(h, j)
  <2>1. job' = [job EXCEPT ![h] = {}]
    BY <1>7 DEF Finish
  <2>2. job' \in [Handlers -> SUBSET Job] /\ \A g \in Handlers : \A i, k \in job'[g] : i = k /\ JobOK(g, k)'
    BY <2>1, JobEnds
  <2> QED BY <1>7, <2>2 DEF Finish, TInv, TypeOK, state, rows, bounds, history
<1>8. CASE Panic(h, j)
  BY <1>8, RetryType DEF Panic, TInv
<1>9. CASE DatabaseFails(h, j)
  BY <1>9, RetryType DEF DatabaseFails, TInv
<1> QED BY <1>3, <1>4, <1>5, <1>6, <1>7, <1>8, <1>9 DEF Works

(* The steps, one kind after the other. *)
LEMMA Kinds ==
    ASSUME Next
    PROVE  \/ \E u \in Authors : Changes(u)
           \/ \E u \in Users : Subscribes(u)
           \/ \E e \in pending : Dispatch(e) \/ RequestFails(e)
           \/ StartRouter \/ SendMail \/ Restart
           \/ \E h \in Handlers : \/ \E e \in inbox[h] : Takes(h, e)
                                  \/ \E j \in job[h] : Works(h, j)
<1>1. ASSUME NEW h \in Handlers, Step(h) \/ \E j \in job[h] : DatabaseFails(h, j)
      PROVE  \/ \E e \in inbox[h] : Takes(h, e)
             \/ \E j \in job[h] : Works(h, j)
  BY <1>1 DEF Step, Takes, Works
<1> QED BY <1>1 DEF Next, Changes, Subscribes

LEMMA NextType == TInv /\ [Next]_vars => TInv'
<1> SUFFICES ASSUME TInv, [Next]_vars PROVE TInv'
  OBVIOUS
<1>1. CASE Next
  BY <1>1, Kinds, ChangesType, SubscribesType, BusType, TakesType, WorksType
<1>2. CASE UNCHANGED vars
  BY <1>2 DEF vars, TInv, TypeOK, JobOK
<1> QED BY <1>1, <1>2

(* The variables keep their types, and no mail is put into a queue that is full. *)
THEOREM TypeCorrect == Spec => []TypeOK
<1>1. TInv => TypeOK
  BY DEF TInv
<1> QED BY <1>1, InitType, NextType, PTL DEF Spec

-----------------------------------------------------------------------------
(* The counter *)
LEMMA InitCount == Init => CountInv
BY HandlersAre DEF Init, CountInv, Rising, Falling, TasksInTable

LEMMA CountStays ==
    ASSUME CountInv, UNCHANGED <<task, count, missed>>,
           inbox'["increase"] = inbox["increase"], inbox'["decrease"] = inbox["decrease"],
           \A e : e.topic \in {"task.created", "task.deleted"} => (e \in pending' <=> e \in pending)
    PROVE  CountInv'
<1>1. Rising' = Rising /\ Falling' = Falling /\ TasksInTable' = TasksInTable
  BY DEF Rising, Falling, TasksInTable
<1>2. \A e \in pending' : /\ e.topic = "task.created" => inbox'["increase"] = {}
                          /\ e.topic = "task.deleted" => inbox'["decrease"] = {}
  BY DEF CountInv
<1> QED BY <1>1, <1>2 DEF CountInv

LEMMA ChangesCount == ASSUME TInv, CountInv, NEW u \in Authors, Changes(u) PROVE CountInv'
<1> USE ConstantsAssumption, Topical
<1>1. ASSUME NEW topic \in Topics \ {"task.created", "task.deleted"}, NEW doer \in Users \union {NoDoer},
             NEW users \in SUBSET Users, Do(topic, doer, users), task' = task
      PROVE  CountInv'
  <2>1. PICK e \in Event : e.topic = topic /\ pending' = pending \union {e}
    BY <1>1, DoEvent
  <2>2. UNCHANGED <<count, inbox, missed>>
    BY <1>1 DEF Do
  <2> QED BY <1>1, <2>1, <2>2, CountStays
<1>2. ASSUME NEW mentioned \in Texts, CreateTask(u, mentioned) PROVE CountInv'
  <2>1. Do("task.created", u, mentioned) /\ task = "none" /\ task' = "alive"
    BY <1>2 DEF CreateTask
  <2>2. PICK e \in Event : e.topic = "task.created" /\ pending' = pending \union {e}
    BY <2>1, DoEvent
  <2>3. UNCHANGED <<count, inbox, missed>>
    BY <2>1 DEF Do
  <2>4. Rising = {} /\ Falling = {} /\ Rising' = {e} /\ Falling' = {}
    BY <2>1, <2>2, <2>3 DEF CountInv, Rising, Falling
  <2>5. TasksInTable = 0 /\ TasksInTable' = 1
    BY <2>1 DEF TasksInTable
  <2>6. inbox'["increase"] = {} /\ inbox'["decrease"] = {}
    BY <2>3, <2>4 DEF Rising, Falling
  <2>7. ~missed' => count' = TasksInTable' - 1 + 0
    BY <2>3, <2>4, <2>5 DEF CountInv
  <2> QED BY <2>1, <2>4, <2>6, <2>7 DEF CountInv
<1>3. CASE DeleteTask(u)
  <2>1. Do("task.deleted", u, {}) /\ task = "alive" /\ task' = "gone"
    BY <1>3 DEF DeleteTask
  <2>2. PICK e \in Event : e.topic = "task.deleted" /\ pending' = pending \union {e}
    BY <2>1, DoEvent
  <2>3. UNCHANGED <<count, inbox, missed>>
    BY <2>1 DEF Do
  <2>4. Falling = {} /\ Falling' = {e} /\ Rising' = Rising
    BY <2>1, <2>2, <2>3 DEF CountInv, Rising, Falling
  <2>5. TasksInTable = 1 /\ TasksInTable' = 0
    BY <2>1 DEF TasksInTable
  <2>6. inbox'["increase"] = inbox["increase"] /\ inbox'["decrease"] = {}
    BY <2>3, <2>4 DEF Falling
  <2>7. \A f \in pending' : f.topic = "task.created" => inbox'["increase"] = {}
    BY <2>2, <2>6 DEF CountInv
  <2>8. ~missed' => count' = TasksInTable' - (IF Rising' = {} THEN 0 ELSE 1) + 1
    BY <2>3, <2>4, <2>5 DEF CountInv
  <2>9. \A f, g \in Rising' : f = g
    BY <2>4 DEF CountInv
  <2> QED BY <2>1, <2>4, <2>6, <2>7, <2>8, <2>9 DEF CountInv
<1>4. ASSUME NEW mentioned \in Texts, UpdateTask(u, mentioned) PROVE CountInv'
  BY <1>1, <1>4 DEF UpdateTask
<1>5. ASSUME NEW mentioned \in Texts, CreateComment(u, mentioned) PROVE CountInv'
  BY <1>1, <1>5 DEF CreateComment
<1>6. ASSUME NEW mentioned \in Texts, NEW author \in {u, NoDoer}, UpdateComment(u, author, mentioned)
      PROVE  CountInv'
  <2>1. author \in Users \union {NoDoer} /\ mentioned \in SUBSET Users
    BY <1>6
  <2>2. Do("comment.updated", author, mentioned) /\ task' = task
    BY <1>6 DEF UpdateComment
  <2> QED BY <1>1, <2>1, <2>2
<1>7. ASSUME NEW v \in Users, Assign(u, v) PROVE CountInv'
  BY <1>1, <1>7 DEF Assign
<1> QED BY <1>2, <1>3, <1>4, <1>5, <1>6, <1>7 DEF Changes

LEMMA DispatchCount == ASSUME TInv, CountInv, NEW e \in pending, Dispatch(e) PROVE CountInv'
<1>1. /\ pending' = pending \ {e} /\ task' = task /\ count' = count /\ missed' = (missed \/ ~listening)
      /\ \A h \in Handlers : inbox'[h] = IF listening /\ h \in Listeners[e.topic] THEN inbox[h] \union {e}
                                                                                 ELSE inbox[h]
  BY DEF Dispatch
<1>2. e.topic \in Topics /\ {"increase", "decrease"} \subseteq Handlers
  BY HandlersAre DEF TInv, TypeOK, Event
<1>3. /\ "increase" \in Listeners[e.topic] <=> e.topic = "task.created"
      /\ "decrease" \in Listeners[e.topic] <=> e.topic = "task.deleted"
  BY <1>2, Topical
<1>4. Rising' \subseteq Rising /\ Falling' \subseteq Falling
  BY <1>1, <1>2, <1>3 DEF Rising, Falling
<1>5. ASSUME listening PROVE Rising' = Rising /\ Falling' = Falling
  <2>1. CASE e.topic = "task.created"
    <3>1. inbox'["increase"] = inbox["increase"] \union {e} /\ inbox'["decrease"] = inbox["decrease"]
      BY <1>1, <1>2, <1>3, <1>5, <2>1
    <3> QED BY <1>1, <2>1, <3>1 DEF Rising, Falling
  <2>2. CASE e.topic = "task.deleted"
    BY <1>1, <1>2, <1>3, <1>5, <2>2 DEF Rising, Falling
  <2>3. CASE e.topic \notin {"task.created", "task.deleted"}
    BY <1>1, <1>2, <1>3, <1>5, <2>3 DEF Rising, Falling
  <2> QED BY <2>1, <2>2, <2>3
<1>6. \A f \in pending' : /\ f.topic = "task.created" => inbox'["increase"] = {}
                          /\ f.topic = "task.deleted" => inbox'["decrease"] = {}
  <2> SUFFICES ASSUME NEW f \in pending'
               PROVE  /\ f.topic = "task.created" => inbox'["increase"] = {}
                      /\ f.topic = "task.deleted" => inbox'["decrease"] = {}
    OBVIOUS
  <2>1. f \in pending /\ f # e
    BY <1>1
  <2>2. f.topic = "task.created" => e.topic # "task.created" /\ inbox["increase"] = {}
    BY <2>1 DEF CountInv, Rising
  <2>3. f.topic = "task.deleted" => e.topic # "task.deleted" /\ inbox["decrease"] = {}
    BY <2>1 DEF CountInv, Falling
  <2> QED BY <1>1, <1>2, <1>3, <2>2, <2>3
<1>7. TasksInTable' = TasksInTable
  BY <1>1 DEF TasksInTable
<1>8. ~missed' => count' = TasksInTable' - (IF Rising' = {} THEN 0 ELSE 1) + (IF Falling' = {} THEN 0 ELSE 1)
  BY <1>1, <1>5, <1>7 DEF CountInv
<1>9. /\ task' = "none" => Rising' = {}
      /\ task' # "gone" => Falling' = {}
      /\ \A f, g \in Rising' : f = g
      /\ \A f, g \in Falling' : f = g
  BY <1>1, <1>4 DEF CountInv
<1> QED BY <1>6, <1>8, <1>9 DEF CountInv

LEMMA CountCount == ASSUME TInv, CountInv, NEW h \in Handlers, NEW e \in inbox[h], Count(h, e) PROVE CountInv'
<1>1. UNCHANGED <<task, pending, missed>> /\ h \in {"increase", "decrease"}
  BY DEF Count, Counters, state, rows, history
<1>2. inbox' = [inbox EXCEPT ![h] = @ \ {e}] /\ {"increase", "decrease"} \subseteq Handlers
  BY HandlersAre DEF Count
<1>3. \A g \in Handlers : inbox'[g] = IF g = h THEN inbox[g] \ {e} ELSE inbox[g]
  BY <1>2 DEF TInv, TypeOK
<1>4. TasksInTable' = TasksInTable /\ TasksInTable \in Int /\ count \in Int
  BY <1>1 DEF TasksInTable, TInv, TypeOK
<1>5. CASE h = "increase"
  <2>1. Rising = {e} /\ Rising' = {} /\ Falling' = Falling
    BY <1>1, <1>2, <1>3, <1>5 DEF CountInv, Rising, Falling
  <2>2. count' = count + 1
    BY <1>5 DEF Count
  <2>3. \A f \in pending' : /\ f.topic = "task.created" => inbox'["increase"] = {}
                            /\ f.topic = "task.deleted" => inbox'["decrease"] = {}
    BY <1>1, <1>2, <1>3, <1>5 DEF CountInv
  <2>4. ~missed' => count' = TasksInTable' - (IF Rising' = {} THEN 0 ELSE 1) + (IF Falling' = {} THEN 0 ELSE 1)
    BY <1>1, <1>4, <2>1, <2>2 DEF CountInv
  <2> QED BY <1>1, <2>1, <2>3, <2>4 DEF CountInv
<1>6. CASE h = "decrease"
  <2>1. Falling = {e} /\ Falling' = {} /\ Rising' = Rising
    BY <1>1, <1>2, <1>3, <1>6 DEF CountInv, Rising, Falling
  <2>2. count' = count - 1
    BY <1>6 DEF Count
  <2>3. \A f \in pending' : /\ f.topic = "task.created" => inbox'["increase"] = {}
                            /\ f.topic = "task.deleted" => inbox'["decrease"] = {}
    BY <1>1, <1>2, <1>3, <1>6 DEF CountInv
  <2>4. ~missed' => count' = TasksInTable' - (IF Rising' = {} THEN 0 ELSE 1) + (IF Falling' = {} THEN 0 ELSE 1)
    BY <1>1, <1>4, <2>1, <2>2 DEF CountInv
  <2> QED BY <1>1, <2>1, <2>3, <2>4 DEF CountInv
<1> QED BY <1>1, <1>5, <1>6

LEMMA NextCount == TInv /\ CountInv /\ [Next]_vars => CountInv'
<1> SUFFICES ASSUME TInv, CountInv, [Next]_vars PROVE CountInv'
  OBVIOUS
<1>1. ASSUME NEW u \in Users, Subscribes(u) PROVE CountInv'
  BY <1>1, CountStays DEF Subscribes, Subscribe, Unsubscribe, DeleteAccount, rows
<1>2. CASE StartRouter \/ SendMail
  BY <1>2, CountStays DEF StartRouter, SendMail, state, rows, history
<1>3. ASSUME NEW e \in pending, RequestFails(e) PROVE CountInv'
  <2>1. /\ pending' = pending \ {e} /\ missed' = TRUE /\ UNCHANGED <<task, inbox>>
    BY <1>3 DEF RequestFails
  <2>2. Rising' \subseteq Rising /\ Falling' \subseteq Falling
    BY <2>1 DEF Rising, Falling
  <2> QED BY <2>1, <2>2 DEF CountInv
<1>4. CASE Restart
  <2>1. pending' = {} /\ inbox'["increase"] = {} /\ inbox'["decrease"] = {}
    BY <1>4, HandlersAre DEF Restart
  <2>2. Rising' = {} /\ Falling' = {}
    BY <2>1 DEF Rising, Falling
  <2>3. count' = TasksInTable' - 0 + 0
    BY <1>4 DEF Restart, TasksInTable
  <2> QED BY <2>1, <2>2, <2>3 DEF CountInv
<1>5. ASSUME NEW h \in Handlers, NEW e \in inbox[h], Takes(h, e) PROVE CountInv'
  <2>1. CASE Take(h, e) \/ (h = "subscribe" /\ SubscribeAssignee(e))
    <3>1. inbox' = [inbox EXCEPT ![h] = @ \ {e}] /\ UNCHANGED <<task, pending, count, missed>>
      BY <2>1 DEF Take, SubscribeAssignee, state, rows, history
    <3>2. h \notin {"increase", "decrease"}
      BY <2>1 DEF Take, Mentioners, Tellers
    <3>3. inbox'["increase"] = inbox["increase"] /\ inbox'["decrease"] = inbox["decrease"]
      BY <3>1, <3>2 DEF TInv, TypeOK
    <3> QED BY <3>1, <3>3, CountStays
  <2> QED BY <1>5, <2>1, CountCount DEF Takes
<1>6. ASSUME NEW h \in Handlers, NEW j \in job[h], Works(h, j) PROVE CountInv'
  <2>1. UNCHANGED <<task, pending, count, missed, inbox>>
    BY <1>6 DEF Works, Pass, QueueMail, Save, ReadSubscribers, Finish, Panic, DatabaseFails, Retry,
               state, rows, history
  <2> QED BY <2>1, CountStays
<1>7. CASE UNCHANGED vars
  BY <1>7, CountStays DEF vars
<1> QED BY <1>1, <1>2, <1>3, <1>4, <1>5, <1>6, <1>7, Kinds, ChangesCount, DispatchCount, ConstantsAssumption

(* Once the listeners of created and deleted tasks have no event left, the counter in *)
(* the key value store is the number of rows, over errors, restarts and reordering.    *)
THEOREM CounterAgrees == Spec => []CounterSettles
<1>1. TInv /\ CountInv => CounterSettles
  <2> SUFFICES ASSUME TInv, CountInv, ~missed, pending = {}, inbox["increase"] = {}, inbox["decrease"] = {}
               PROVE  count = TasksInTable
    BY DEF CounterSettles
  <2>1. Rising = {} /\ Falling = {}
    BY DEF Rising, Falling
  <2>2. TasksInTable \in Int
    BY DEF TasksInTable
  <2>3. count = TasksInTable - 0 + 0
    BY <2>1 DEF CountInv
  <2> QED BY <2>2, <2>3
<1> QED BY <1>1, InitType, NextType, InitCount, NextCount, PTL DEF Spec

-----------------------------------------------------------------------------
(* Nobody is told twice *)
LEMMA NamesAre ==
    /\ Names \ {"task.assigned"} = {"task.mentioned", "task.comment", "task.deleted"}
    /\ \A n : Naming(n) \subseteq Handlers
BY NamingIs

(* One event never comes to two listeners that send notifications of one name. *)
LEMMA OneListener ==
    \A n \in Names : \A x \in Topics : \A g, h \in Naming(n) \intersect Listeners[x] : g = h
<1> SUFFICES ASSUME NEW n \in Names, NEW x \in Topics, NEW g \in Naming(n), NEW h \in Naming(n),
                    g \in Listeners[x], h \in Listeners[x]
             PROVE  g = h
  OBVIOUS
<1>1. CASE n = "task.mentioned"
  BY <1>1, NamingIs, Topical
<1>2. CASE n = "task.comment"
  BY <1>2, NamingIs, Topical
<1>3. CASE n \in {"task.assigned", "task.deleted"}
  BY <1>3, NamingIs
<1> QED BY <1>1, <1>2, <1>3, NamingIs

LEMMA TellsSame ==
    ASSUME NEW u, NEW n, told'[u][n] = told[u][n]
    PROVE  \A j : TellsOnce(u, n, j)' <=> TellsOnce(u, n, j)
BY DEF TellsOnce

(* Fewer events and jobs tell nobody. *)
LEMMA Calmer ==
    ASSUME NEW u, NEW n, Once(u, n), told'[u][n] = told[u][n],
           \A h \in Naming(n) : inbox'[h] \subseteq inbox[h] /\ job'[h] \subseteq job[h],
           \A e \in pending' : \A h \in Naming(n) : h \in Listeners[e.topic] => e \in pending
    PROVE  Once(u, n)'
<1>1. OneEvent(n)'
  BY DEF Once, OneEvent
<1>2. Untold(u, n)'
  BY DEF Once, Untold
<1>3. \A h \in Naming(n) \intersect Tellers : \A j \in job'[h] : TellsOnce(u, n, j)'
  BY TellsSame DEF Once
<1>4. \A h \in Naming(n) : \A j \in job'[h] : (\E row \in j.mailed : row[1] = u) => told'[u][n] = 0
  BY DEF Once
<1> QED BY <1>1, <1>2, <1>3, <1>4 DEF Once

LEMMA Quieter ==
    ASSUME NEW n, Quiet(n),
           \A h \in Naming(n) : inbox'[h] \subseteq inbox[h] /\ job'[h] \subseteq job[h],
           \A e \in pending' : \A h \in Naming(n) : h \in Listeners[e.topic] => e \in pending
    PROVE  Quiet(n)'
BY DEF Quiet, Busy

Subscribing == \A u \in Users : {u} \X Entities \subseteq subscriptions => {u} \X Names \subseteq again

LEMMA Calm ==
    ASSUME ToldInv, pending' \subseteq pending, UNCHANGED <<told, comment, task>>, again \subseteq again',
           \A h \in Handlers : inbox'[h] \subseteq inbox[h] /\ job'[h] \subseteq job[h], Subscribing'
    PROVE  ToldInv'
<1>1. \A n : Quiet(n) => Quiet(n)'
  BY NamesAre, Quieter
<1>2. \A u \in Users, n \in Names \ {"task.assigned"} : <<u, n>> \notin again' => Once(u, n)'
  <2> SUFFICES ASSUME NEW u \in Users, NEW n \in Names \ {"task.assigned"}, <<u, n>> \notin again'
               PROVE  Once(u, n)'
    OBVIOUS
  <2>1. Once(u, n)
    BY DEF ToldInv
  <2> QED BY <2>1, NamesAre, Calmer
<1> QED BY <1>1, <1>2 DEF ToldInv, Subscribing

LEMMA InitTold == Init => ToldInv
<1> SUFFICES ASSUME Init PROVE ToldInv
  OBVIOUS
<1>1. pending = {} /\ \A h \in Handlers : inbox[h] = {} /\ job[h] = {}
  BY DEF Init
<1>2. \A u \in Users, n \in Names : told[u][n] = 0
  BY DEF Init
<1>3. \A n : Quiet(n)
  BY <1>1, NamesAre DEF Quiet, Busy
<1>4. Subscribing
  BY DEF Init, Subscribing
<1>5. \A u \in Users, n \in Names : Once(u, n)
  <2>1. \A n : OneEvent(n)
    BY <1>1, NamesAre DEF OneEvent
  <2> QED BY <1>1, <1>2, <2>1, NamesAre DEF Once, Untold
<1> QED BY <1>2, <1>3, <1>4, <1>5, NamingIs DEF ToldInv, Subscribing

-----------------------------------------------------------------------------
(* Who is told twice: the requests *)
LEMMA DoOnce ==
    ASSUME TInv, ToldInv, NEW topic \in Topics, NEW doer \in Users \union {NoDoer}, NEW users \in SUBSET Users,
           Do(topic, doer, users), topic = "comment.created" => ~comment, topic = "task.deleted" => task # "gone",
           NEW u \in Users, NEW n \in Names \ {"task.assigned"}, <<u, n>> \notin again'
    PROVE  Once(u, n)'
<1>1. PICK e \in Event : e.topic = topic /\ pending' = pending \union {e}
  BY DoEvent
<1>2. UNCHANGED <<inbox, job, told>> /\ <<u, n>> \notin again
  BY DEF Do
<1>3. Once(u, n)
  BY <1>2 DEF ToldInv
<1>4. CASE Naming(n) \intersect Listeners[topic] = {}
  BY <1>1, <1>2, <1>3, <1>4, Calmer
<1>5. CASE Naming(n) \intersect Listeners[topic] # {}
  <2>1. Quiet(n)
    BY <1>5 DEF Do, Quiet
  <2>2. \A h \in Naming(n) : /\ inbox'[h] = {} /\ job'[h] = {}
                             /\ \A f \in pending' : h \in Listeners[f.topic] => f = e
    BY <1>1, <1>2, <2>1 DEF Quiet, Busy
  <2>3. OneEvent(n)'
    BY <2>2 DEF OneEvent
  <2>4. Untold(u, n)'
    <3> SUFFICES ASSUME NEW h \in Naming(n) \intersect Tellers, NEW f \in pending', h \in Listeners[f.topic]
                 PROVE  told[u][n] = 0
      BY <1>2, <2>2 DEF Untold
    <3>1. h \in Listeners[topic]
      BY <1>1, <2>2
    <3>2. CASE n = "task.mentioned"
      BY <3>2, NamingIs DEF Tellers
    <3>3. CASE n = "task.comment"
      <4>1. h = "comment"
        BY <3>3, NamingIs DEF Tellers
      <4>2. topic = "comment.created"
        BY <3>1, <4>1, Topical
      <4> QED BY <3>3, <4>2 DEF ToldInv
    <3>4. CASE n = "task.deleted"
      <4>1. h = "deleted"
        BY <3>4, NamingIs
      <4>2. topic = "task.deleted"
        BY <3>1, <4>1, Topical
      <4> QED BY <3>4, <4>2 DEF ToldInv
    <3> QED BY <3>2, <3>3, <3>4, NamesAre
  <2> QED BY <1>2, <1>3, <2>2, <2>3, <2>4 DEF Once
<1> QED BY <1>4, <1>5

LEMMA DoTold ==
    ASSUME TInv, ToldInv, NEW topic \in Topics, NEW doer \in Users \union {NoDoer}, NEW users \in SUBSET Users,
           Do(topic, doer, users), topic = "comment.created" => ~comment, topic = "task.deleted" => task # "gone",
           ~comment' => ~comment /\ topic \notin {"comment.created", "comment.updated"},
           task' # "gone" => task # "gone" /\ topic # "task.deleted"
    PROVE  ToldInv'
<1>1. PICK e \in Event : e.topic = topic /\ pending' = pending \union {e}
  BY DoEvent
<1>2. UNCHANGED <<inbox, job, told, subscriptions>> /\ again \subseteq again'
  BY DEF Do
<1>3. \A n : Quiet(n) /\ Naming(n) \intersect Listeners[topic] = {} => Quiet(n)'
  BY <1>1, <1>2, Quieter
<1>4. ~comment' => Quiet("task.comment")' /\ \A u \in Users : told'[u]["task.comment"] = 0
  <2> SUFFICES ASSUME ~comment' PROVE Quiet("task.comment")' /\ \A u \in Users : told'[u]["task.comment"] = 0
    OBVIOUS
  <2>1. Naming("task.comment") \intersect Listeners[topic] = {}
    BY NamingIs, Topical
  <2> QED BY <1>2, <1>3, <2>1 DEF ToldInv
<1>5. task' # "gone" => Quiet("task.deleted")' /\ \A u \in Users : told'[u]["task.deleted"] = 0
  <2> SUFFICES ASSUME task' # "gone"
               PROVE  Quiet("task.deleted")' /\ \A u \in Users : told'[u]["task.deleted"] = 0
    OBVIOUS
  <2>1. Naming("task.deleted") \intersect Listeners[topic] = {}
    BY NamingIs, Topical
  <2> QED BY <1>2, <1>3, <2>1 DEF ToldInv
<1>6. Subscribing'
  BY <1>2 DEF ToldInv, Subscribing
<1> QED BY <1>4, <1>5, <1>6, DoOnce DEF ToldInv, Subscribing

LEMMA ChangesTold == ASSUME TInv, ToldInv, NEW u \in Authors, Changes(u) PROVE ToldInv'
<1> USE ConstantsAssumption, Topical
<1>1. ASSUME NEW topic \in Topics \ {"comment.created", "task.deleted"}, NEW doer \in Users \union {NoDoer},
             NEW users \in SUBSET Users, Do(topic, doer, users), comment' = comment,
             topic = "comment.updated" => comment, task' # "gone" => task # "gone"
      PROVE  ToldInv'
  BY <1>1, DoTold
<1>2. ASSUME NEW mentioned \in Texts, CreateTask(u, mentioned) PROVE ToldInv'
  BY <1>1, <1>2 DEF CreateTask
<1>3. ASSUME NEW mentioned \in Texts, UpdateTask(u, mentioned) PROVE ToldInv'
  BY <1>1, <1>3 DEF UpdateTask
<1>4. ASSUME NEW mentioned \in Texts, CreateComment(u, mentioned) PROVE ToldInv'
  BY <1>4, DoTold DEF CreateComment
<1>5. ASSUME NEW mentioned \in Texts, NEW author \in {u, NoDoer}, UpdateComment(u, author, mentioned)
      PROVE  ToldInv'
  <2>1. author \in Users \union {NoDoer} /\ mentioned \in SUBSET Users
    BY <1>5
  <2>2. Do("comment.updated", author, mentioned) /\ UNCHANGED <<task, comment>> /\ comment
    BY <1>5 DEF UpdateComment
  <2> QED BY <1>1, <2>1, <2>2
<1>6. ASSUME NEW v \in Users, Assign(u, v) PROVE ToldInv'
  BY <1>1, <1>6 DEF Assign
<1>7. CASE DeleteTask(u)
  BY <1>7, DoTold DEF DeleteTask
<1> QED BY <1>2, <1>3, <1>4, <1>5, <1>6, <1>7 DEF Changes

LEMMA SubscribesTold == ASSUME TInv, ToldInv, NEW u \in Users, Subscribes(u) PROVE ToldInv'
<1>1. \A h \in Handlers : inbox'[h] \subseteq inbox[h] /\ job'[h] \subseteq job[h]
  BY DEF Subscribes, Subscribe, Unsubscribe, DeleteAccount
<1>2. pending' = pending /\ UNCHANGED <<told, comment, task>> /\ again \subseteq again'
  BY DEF Subscribes, Subscribe, Unsubscribe, DeleteAccount, rows
<1>3. Subscribing'
  <2>1. ASSUME NEW e \in Entities, Subscribe(u, e) PROVE Subscribing'
    <3> SUFFICES ASSUME NEW v \in Users, {v} \X Entities \subseteq subscriptions' PROVE {v} \X Names \subseteq again'
      BY DEF Subscribing
    <3>1. subscriptions' = subscriptions \union {<<u, e>>}
          /\ again' = again \union (IF Subscribed(u) THEN {u} \X Names ELSE {})
      BY <2>1 DEF Subscribe
    <3>2. CASE v # u
      <4>1. {v} \X Entities \subseteq subscriptions
        BY <3>1, <3>2
      <4> QED BY <3>1, <4>1 DEF ToldInv
    <3>3. CASE v = u
      <4>1. PICK f \in Entities : f # e
        BY DEF Entities
      <4>2. <<u, f>> \in subscriptions
        BY <3>1, <3>3, <4>1
      <4> QED BY <3>1, <3>3, <4>2 DEF Subscribed
    <3> QED BY <3>2, <3>3
  <2>2. CASE (\E e \in Entities : Unsubscribe(u, e)) \/ DeleteAccount(u)
    <3>1. subscriptions' \subseteq subscriptions /\ again' = again
      BY <2>2 DEF Unsubscribe, DeleteAccount
    <3> QED BY <3>1 DEF ToldInv, Subscribing
  <2> QED BY <2>1, <2>2 DEF Subscribes
<1> QED BY <1>1, <1>2, <1>3, Calm

LEMMA DispatchTold == ASSUME TInv, ToldInv, NEW e \in pending, Dispatch(e) PROVE ToldInv'
<1>1. /\ pending' = pending \ {e} /\ UNCHANGED <<task, comment, told, job, subscriptions, again>>
      /\ \A h \in Handlers : inbox'[h] = IF listening /\ h \in Listeners[e.topic] THEN inbox[h] \union {e}
                                                                                 ELSE inbox[h]
  BY DEF Dispatch, bounds
<1>2. \A n : Quiet(n) => Quiet(n)'
  BY <1>1, NamesAre DEF Quiet, Busy
<1>3. Subscribing'
  BY <1>1 DEF ToldInv, Subscribing
<1>4. e.topic \in Topics
  BY DEF TInv, TypeOK, Event
<1>5. ASSUME NEW u \in Users, NEW n \in Names \ {"task.assigned"}, <<u, n>> \notin again' PROVE Once(u, n)'
  <2>1. Once(u, n)
    BY <1>1, <1>5 DEF ToldInv
  <2>2. \A h \in Naming(n) : inbox'[h] = IF listening /\ h \in Listeners[e.topic] THEN inbox[h] \union {e}
                                                                                 ELSE inbox[h]
    BY <1>1, NamesAre
  <2>3. OneEvent(n)'
    <3> SUFFICES ASSUME NEW g \in Naming(n), NEW h \in Naming(n)
                 PROVE  /\ \A d, f \in pending' : g \in Listeners[d.topic] /\ h \in Listeners[f.topic] => d = f
                        /\ \A d \in pending' : g \in Listeners[d.topic] => inbox'[h] = {} /\ job'[h] = {}
                        /\ \A d \in inbox'[g], f \in inbox'[h] : d = f /\ g = h
                        /\ inbox'[g] # {} => job'[h] = {}
                        /\ job'[g] # {} /\ job'[h] # {} => g = h
      BY DEF OneEvent
    <3>1. \A d, f \in pending' : g \in Listeners[d.topic] /\ h \in Listeners[f.topic] => d = f
      BY <1>1, <2>1 DEF Once, OneEvent
    <3>2. ASSUME NEW d \in pending', g \in Listeners[d.topic] PROVE inbox'[h] = {} /\ job'[h] = {}
      <4>1. d \in pending /\ d # e
        BY <1>1, <3>2
      <4>2. h \notin Listeners[e.topic] /\ inbox[h] = {} /\ job[h] = {}
        BY <2>1, <3>2, <4>1 DEF Once, OneEvent
      <4> QED BY <1>1, <2>2, <4>2
    <3>3. ASSUME NEW d \in inbox'[g], NEW f \in inbox'[h] PROVE d = f /\ g = h
      <4>1. /\ g \in Listeners[e.topic] => inbox[g] = {} /\ inbox[h] = {}
            /\ h \in Listeners[e.topic] => inbox[g] = {} /\ inbox[h] = {}
        BY <2>1 DEF Once, OneEvent
      <4>2. CASE d \in inbox[g] /\ f \in inbox[h]
        BY <2>1, <4>2 DEF Once, OneEvent
      <4>3. CASE ~(d \in inbox[g] /\ f \in inbox[h])
        <5>1. d = e /\ f = e /\ g \in Listeners[e.topic] /\ h \in Listeners[e.topic]
          BY <2>2, <3>3, <4>1, <4>3
        <5> QED BY <1>4, <5>1, OneListener
      <4> QED BY <4>2, <4>3
    <3>4. inbox'[g] # {} => job'[h] = {}
      BY <1>1, <2>1, <2>2 DEF Once, OneEvent
    <3>5. job'[g] # {} /\ job'[h] # {} => g = h
      BY <1>1, <2>1 DEF Once, OneEvent
    <3> QED BY <3>1, <3>2, <3>3, <3>4, <3>5
  <2>4. Untold(u, n)'
    BY <1>1, <2>1, <2>2 DEF Once, Untold
  <2>5. \A h \in Naming(n) \intersect Tellers : \A j \in job'[h] : TellsOnce(u, n, j)'
    BY <1>1, <2>1, TellsSame DEF Once
  <2> QED BY <1>1, <2>1, <2>3, <2>4, <2>5 DEF Once
<1> QED BY <1>1, <1>2, <1>3, <1>5 DEF ToldInv, Subscribing

LEMMA BusTold ==
    ASSUME TInv, ToldInv, (\E e \in pending : RequestFails(e)) \/ StartRouter \/ SendMail \/ Restart
    PROVE  ToldInv'
<1>1. pending' \subseteq pending /\ UNCHANGED <<told, comment, task, subscriptions, again>>
  BY DEF RequestFails, StartRouter, SendMail, Restart, state, rows, history
<1>2. \A h \in Handlers : inbox'[h] \subseteq inbox[h] /\ job'[h] \subseteq job[h]
  BY DEF RequestFails, StartRouter, SendMail, Restart
<1>3. Subscribing'
  BY <1>1 DEF ToldInv, Subscribing
<1> QED BY <1>1, <1>2, <1>3, Calm

-----------------------------------------------------------------------------
(* Who is told twice: the listeners *)

(* A listener changes what happens to the notifications of its own name only. *)
LEMMA OwnName ==
    ASSUME TInv, ToldInv, NEW h \in Mentioners \union Tellers, Busy(h),
           \A g \in Handlers : (g # h => inbox'[g] = inbox[g] /\ job'[g] = job[g]),
           \A u \in Users, n \in Names : n # NotificationName[h] => told'[u][n] = told[u][n],
           UNCHANGED <<task, comment, pending, subscriptions>>, again \subseteq again',
           \A u \in Users : NotificationName[h] # "task.assigned" /\ <<u, NotificationName[h]>> \notin again'
               => Once(u, NotificationName[h])'
    PROVE  ToldInv'
<1> DEFINE own == NotificationName[h]
<1>1. own \in Names /\ h \in Naming(own) /\ \A n : n # own => h \notin Naming(n)
  BY NamingIs
<1>2. \A n : n # own => \A g \in Naming(n) : inbox'[g] = inbox[g] /\ job'[g] = job[g]
  BY <1>1, NamesAre
<1>3. \A n : n # own /\ Quiet(n) => Quiet(n)'
  BY <1>2, Quieter
<1>4. ~Quiet(own)
  BY <1>1 DEF Quiet
<1> HIDE DEF own
<1>5. ~comment' => Quiet("task.comment")' /\ \A u \in Users : told'[u]["task.comment"] = 0
  <2> SUFFICES ASSUME ~comment' PROVE Quiet("task.comment")' /\ \A u \in Users : told'[u]["task.comment"] = 0
    OBVIOUS
  <2>1. Quiet("task.comment") /\ \A u \in Users : told[u]["task.comment"] = 0
    BY DEF ToldInv
  <2>2. own # "task.comment"
    BY <1>4, <2>1
  <2> QED BY <1>3, <2>1, <2>2, NamingIs DEF own
<1>6. task' # "gone" => Quiet("task.deleted")' /\ \A u \in Users : told'[u]["task.deleted"] = 0
  <2> SUFFICES ASSUME task' # "gone"
               PROVE  Quiet("task.deleted")' /\ \A u \in Users : told'[u]["task.deleted"] = 0
    OBVIOUS
  <2>1. Quiet("task.deleted") /\ \A u \in Users : told[u]["task.deleted"] = 0
    BY DEF ToldInv
  <2>2. own # "task.deleted"
    BY <1>4, <2>1
  <2> QED BY <1>3, <2>1, <2>2, NamingIs DEF own
<1>7. ASSUME NEW u \in Users, NEW n \in Names \ {"task.assigned"}, <<u, n>> \notin again' PROVE Once(u, n)'
  <2>1. CASE n = own
    BY <1>7, <2>1 DEF own
  <2>2. CASE n # own
    <3>1. Once(u, n)
      BY <1>7 DEF ToldInv
    <3>2. told'[u][n] = told[u][n]
      BY <2>2 DEF own
    <3> QED BY <1>2, <2>2, <3>1, <3>2, Calmer
  <2> QED BY <2>1, <2>2
<1>8. Subscribing'
  BY DEF ToldInv, Subscribing
<1> QED BY <1>5, <1>6, <1>7, <1>8 DEF ToldInv, Subscribing

LEMMA TakeTold == ASSUME TInv, ToldInv, NEW h \in Handlers, NEW e \in inbox[h], Take(h, e) PROVE ToldInv'
<1> DEFINE n == NotificationName[h]
<1>1. h \in Mentioners \union Tellers /\ Busy(h)
  BY DEF Take, Busy
<1>2. /\ UNCHANGED <<task, comment, pending, subscriptions, told, again>>
      /\ \A g \in Handlers : inbox'[g] = IF g = h THEN inbox[g] \ {e} ELSE inbox[g]
      /\ \A g \in Handlers : job'[g] = IF g = h THEN {Begin(h, e, 1)} ELSE job[g]
  BY DEF Take, state, rows, history, TInv, TypeOK
<1>3. n \in Names /\ h \in Naming(n)
  BY <1>1, NamingIs
<1> HIDE DEF n
<1>4. ASSUME NEW u \in Users, n # "task.assigned", <<u, n>> \notin again' PROVE Once(u, n)'
  <2>1. Once(u, n)
    BY <1>2, <1>3, <1>4 DEF ToldInv
  <2>2. /\ \A g \in Naming(n) : inbox[g] \subseteq {e} /\ (g # h => inbox[g] = {}) /\ job[g] = {}
        /\ \A d \in pending : \A g \in Naming(n) : g \notin Listeners[d.topic]
    BY <1>3, <2>1 DEF Once, OneEvent
  <2>3. \A g \in Naming(n) : inbox'[g] = {} /\ (g # h => job'[g] = {})
    BY <1>2, <2>2, NamesAre
  <2>4. OneEvent(n)' /\ Untold(u, n)'
    BY <1>2, <2>2, <2>3 DEF OneEvent, Untold
  <2>5. h \in Tellers => told[u][n] = 0
    BY <1>3, <2>1 DEF Once, Untold
  <2>6. PICK k : k = Begin(h, e, 1)
    OBVIOUS
  <2>7. k.mailed = {} /\ \A row \in k.todo : row[2] = "mention"
    BY <2>6 DEF Begin
  <2>8. h \in Tellers => TellsOnce(u, n, k)'
    BY <1>2, <2>5, <2>7 DEF TellsOnce
  <2>9. \A g \in Naming(n) : \A j \in job'[g] : g = h /\ j = k
    BY <1>2, <2>3, <2>6
  <2> QED BY <1>2, <2>1, <2>4, <2>7, <2>8, <2>9 DEF Once
<1> QED BY <1>1, <1>2, <1>4, OwnName DEF n

(* The listener goes on from j; nobody else is at work on a notification of that name. *)
LEMMA WorksOnce ==
    ASSUME TInv, NEW h \in Handlers, NEW j \in job[h], NEW u \in Users, NEW n, h \in Naming(n), Once(u, n),
           \A g \in Handlers : inbox'[g] = inbox[g] /\ (g # h => job'[g] = job[g]),
           pending' = pending, told'[u][n] <= 1,
           \A k \in job'[h] : (h \in Tellers => TellsOnce(u, n, k)')
                              /\ ((\E row \in k.mailed : row[1] = u) => told'[u][n] = 0)
    PROVE  Once(u, n)'
<1>1. /\ \A g \in Naming(n) : inbox[g] = {} /\ (g # h => job[g] = {})
      /\ \A d \in pending : \A g \in Naming(n) : g \notin Listeners[d.topic]
  BY DEF Once, OneEvent
<1>2. \A g \in Naming(n) : inbox'[g] = {} /\ (g # h => job'[g] = {})
  BY <1>1, NamesAre
<1>3. OneEvent(n)' /\ Untold(u, n)'
  BY <1>1, <1>2 DEF OneEvent, Untold
<1> QED BY <1>2, <1>3 DEF Once

(* What a listener may do next to a user it works for. *)
GoesOn(h, u, n) ==
    /\ told'[u][n] <= 1
    /\ \A k \in job'[h] : /\ h \in Tellers => TellsOnce(u, n, k)'
                          /\ (\E row \in k.mailed : row[1] = u) => told'[u][n] = 0

LEMMA QueueMailTold ==
    ASSUME TInv, NEW h \in Handlers, NEW j \in job[h], NEW row \in j.todo, QueueMail(h, j, row),
           NEW u \in Users, NEW n, h \in Naming(n), Once(u, n), NotificationName[h] = n
    PROVE  GoesOn(h, u, n)
<1>1. j \in Job /\ JobOK(h, j)
  BY DEF TInv, TypeOK
<1>2. UNCHANGED told /\ Wanted(h, j, row) /\ job' = [job EXCEPT ![h] = {[j EXCEPT !.mailed = {row}]}]
  BY DEF QueueMail, state, rows, bounds, history
<1>3. PICK k : k = [j EXCEPT !.mailed = {row}]
  OBVIOUS
<1>4. k.mailed = {row} /\ k.todo = j.todo /\ k.read = j.read /\ k.mentioned = j.mentioned
  BY <1>1, <1>3 DEF Job
<1>5. job'[h] = {k}
  BY <1>2, <1>3 DEF TInv, TypeOK
<1>6. ASSUME row[1] = u PROVE told[u][n] = 0
  <2>1. CASE row[2] = "mention"
    BY <1>2, <1>6, <2>1 DEF Wanted
  <2>2. CASE row[2] # "mention"
    <3>1. u \notin j.mentioned
      BY <1>2, <1>6, <2>2 DEF Wanted
    <3>2. h \in Tellers
      BY <1>1, <2>2 DEF JobOK
    <3>3. TellsOnce(u, n, j)
      BY <3>2 DEF Once
    <3> QED BY <1>6, <2>2, <3>1, <3>3 DEF TellsOnce
  <2> QED BY <2>1, <2>2
<1>7. h \in Tellers => TellsOnce(u, n, k)'
  <2> SUFFICES ASSUME h \in Tellers PROVE TellsOnce(u, n, k)'
    OBVIOUS
  <2>1. TellsOnce(u, n, j)
    BY DEF Once
  <2> QED BY <1>2, <1>4, <1>6, <2>1 DEF TellsOnce
<1> QED BY <1>2, <1>4, <1>5, <1>6, <1>7 DEF GoesOn, Once

LEMMA SaveTold ==
    ASSUME TInv, NEW h \in Handlers, NEW j \in job[h], NEW row \in j.todo, Save(h, j, row),
           NEW u \in Users, NEW n \in Names, h \in Naming(n), Once(u, n), NotificationName[h] = n
    PROVE  GoesOn(h, u, n)
<1>1. j \in Job /\ JobOK(h, j) /\ row \in j.mailed /\ row[1] \in Users
  BY DEF TInv, TypeOK, Save, Job, Rows
<1>2. /\ told' = [told EXCEPT ![row[1]][n] = @ + 1]
      /\ job' = [job EXCEPT ![h] = {[j EXCEPT !.todo = @ \ {row}, !.mailed = {}]}]
  BY DEF Save
<1>3. PICK k : k = [j EXCEPT !.todo = @ \ {row}, !.mailed = {}]
  OBVIOUS
<1>4. k.mailed = {} /\ k.todo = j.todo \ {row} /\ k.read = j.read /\ k.mentioned = j.mentioned
  BY <1>1, <1>3 DEF Job
<1>5. job'[h] = {k}
  BY <1>2, <1>3 DEF TInv, TypeOK
<1>6. told'[u][n] = IF u = row[1] THEN told[u][n] + 1 ELSE told[u][n]
  BY <1>1, <1>2 DEF TInv, TypeOK
<1>7. u = row[1] => told[u][n] = 0
  BY <1>1 DEF Once
<1>8. told'[u][n] <= 1
  BY <1>6, <1>7 DEF Once
<1>9. h \in Tellers => TellsOnce(u, n, k)'
  <2> SUFFICES ASSUME h \in Tellers PROVE TellsOnce(u, n, k)'
    OBVIOUS
  <2>1. TellsOnce(u, n, j)
    BY DEF Once
  <2>2. CASE u # row[1]
    BY <1>4, <1>6, <2>1, <2>2 DEF TellsOnce
  <2>3. CASE u = row[1]
    <3>1. ~k.read => u \in k.mentioned
      BY <1>1, <1>4, <2>3 DEF JobOK
    <3>2. row[2] = "mention" => u \in k.mentioned
      BY <1>1, <1>4, <2>3 DEF JobOK
    <3>3. \A r \in k.todo : ~(r[1] = u /\ r[2] # "mention" /\ row[2] # "mention")
      BY <1>4, <2>1, <2>3 DEF TellsOnce
    <3> QED BY <1>4, <2>1, <3>1, <3>2, <3>3 DEF TellsOnce
  <2> QED BY <2>2, <2>3
<1> QED BY <1>4, <1>5, <1>8, <1>9 DEF GoesOn

LEMMA ReadTold ==
    ASSUME TInv, ToldInv, NEW h \in Handlers, NEW j \in job[h], ReadSubscribers(h, j),
           NEW u \in Users, NEW n \in Names, h \in Naming(n), Once(u, n), <<u, n>> \notin again
    PROVE  GoesOn(h, u, n)
<1> DEFINE found == {row \in subscriptions : row[2] = "task" \/ task = "alive"}
<1>1. j \in Job /\ JobOK(h, j) /\ h \in Tellers /\ ~j.read /\ j.todo = {}
  BY DEF TInv, TypeOK, ReadSubscribers
<1>2. job' = [job EXCEPT ![h] = {[j EXCEPT !.read = TRUE, !.todo = found]}] /\ told' = told
  BY DEF ReadSubscribers
<1>3. found \subseteq subscriptions
  OBVIOUS
<1> HIDE DEF found
<1>4. PICK k : k = [j EXCEPT !.read = TRUE, !.todo = found]
  OBVIOUS
<1>5. k.mailed = {} /\ k.todo = found /\ k.read = TRUE /\ k.mentioned = j.mentioned
  BY <1>1, <1>4 DEF Job, JobOK
<1>6. job'[h] = {k}
  BY <1>2, <1>4 DEF TInv, TypeOK
<1>7. TellsOnce(u, n, j)
  BY <1>1 DEF Once
<1>8. \A r, s \in found : r[1] = u /\ s[1] = u => r = s
  <2> SUFFICES ASSUME NEW r \in found, NEW s \in found, r[1] = u, s[1] = u, r # s PROVE FALSE
    OBVIOUS
  <2>1. r \in subscriptions /\ s \in subscriptions
    BY <1>3
  <2>2. PICK x \in Entities, y \in Entities : r = <<u, x>> /\ s = <<u, y>> /\ x # y
    BY <2>1 DEF TInv, TypeOK
  <2>3. {u} \X Entities \subseteq subscriptions
    BY <2>1, <2>2 DEF Entities
  <2> QED BY <2>3 DEF ToldInv
<1>9. TellsOnce(u, n, k)'
  BY <1>1, <1>2, <1>5, <1>7, <1>8 DEF TellsOnce
<1> QED BY <1>2, <1>5, <1>6, <1>9 DEF GoesOn, Once

LEMMA RetryTold ==
    ASSUME TInv, NEW h \in Handlers, NEW j \in job[h], Retry(h, j), h \in Mentioners \union Tellers,
           NEW u \in Users, NEW n, h \in Naming(n), Once(u, n), NotificationName[h] = n, <<u, n>> \notin again'
    PROVE  GoesOn(h, u, n)
<1>1. n = "task.mentioned"
  BY DEF Retry
<1>2. h \notin Tellers
  BY <1>1, NamingIs DEF Tellers
<1>3. told' = told /\ job' = [job EXCEPT ![h] = IF j.tries <= MaxRetries THEN {Begin(h, j.event, j.tries + 1)} ELSE {}]
  BY DEF Retry
<1>4. PICK k : k = Begin(h, j.event, j.tries + 1)
  OBVIOUS
<1>5. k.mailed = {}
  BY <1>4 DEF Begin
<1>6. job'[h] \subseteq {k}
  BY <1>3, <1>4 DEF TInv, TypeOK
<1> QED BY <1>2, <1>3, <1>5, <1>6 DEF GoesOn, Once

LEMMA WorksTold == ASSUME TInv, ToldInv, NEW h \in Handlers, NEW j \in job[h], Works(h, j) PROVE ToldInv'
<1> DEFINE n == NotificationName[h]
<1>1. j \in Job /\ JobOK(h, j)
  BY DEF TInv, TypeOK
<1>2. h \in Mentioners \union Tellers /\ Busy(h)
  BY <1>1 DEF JobOK, Busy
<1>3. UNCHANGED <<task, comment, pending, subscriptions, inbox>> /\ again \subseteq again'
  BY DEF Works, Pass, QueueMail, Save, ReadSubscribers, Finish, Panic, DatabaseFails, Retry, state, rows, history
<1>4. \A g \in Handlers : g # h => job'[g] = job[g]
  BY DEF Works, Pass, QueueMail, Save, ReadSubscribers, Finish, Panic, DatabaseFails, Retry, TInv, TypeOK
<1>5. n \in Names /\ h \in Naming(n)
  BY <1>2, NamingIs
<1>6. \A v \in Users, m \in Names : m # n => told'[v][m] = told[v][m]
  <2>1. ASSUME NEW row \in j.todo, Save(h, j, row) PROVE \A v \in Users, m \in Names : m # n => told'[v][m] = told[v][m]
    <3>1. told' = [told EXCEPT ![row[1]][n] = @ + 1] /\ row[1] \in Users
      BY <1>1, <2>1 DEF Save, Job, Rows
    <3> HIDE DEF n
    <3> QED BY <1>5, <3>1 DEF TInv, TypeOK
  <2>2. CASE \A row \in j.todo : ~Save(h, j, row)
    <3>1. told' = told
      BY <2>2 DEF Works, Pass, QueueMail, ReadSubscribers, Finish, Panic, DatabaseFails, Retry
    <3> QED BY <3>1
  <2> QED BY <2>1, <2>2
<1> HIDE DEF n
<1>7. ASSUME NEW u \in Users, n # "task.assigned", <<u, n>> \notin again' PROVE Once(u, n)'
  <2>1. <<u, n>> \notin again /\ Once(u, n)
    BY <1>3, <1>5, <1>7 DEF ToldInv
  <2>2. NotificationName[h] = n
    BY DEF n
  <2>3. ASSUME NEW row \in j.todo, Pass(h, j, row) PROVE GoesOn(h, u, n)
    <3>1. PICK k : k = [j EXCEPT !.todo = @ \ {row}]
      OBVIOUS
    <3>2. k.mailed = j.mailed /\ k.todo \subseteq j.todo /\ k.read = j.read /\ k.mentioned = j.mentioned
      BY <1>1, <3>1 DEF Job
    <3>3. told' = told /\ job'[h] = {k}
      BY <2>3, <3>1 DEF Pass, TInv, TypeOK
    <3>4. h \in Tellers => TellsOnce(u, n, k)'
      BY <1>5, <2>1, <3>2, <3>3 DEF Once, TellsOnce
    <3> QED BY <1>5, <2>1, <3>2, <3>3, <3>4 DEF GoesOn, Once
  <2>4. CASE Finish(h, j)
    <3>1. told' = told /\ job'[h] = {}
      BY <2>4 DEF Finish, TInv, TypeOK
    <3> QED BY <1>5, <2>1, <3>1, <1>3, <1>4, WorksOnce DEF Once
  <2>5. ASSUME Retry(h, j) PROVE GoesOn(h, u, n)
    BY <1>2, <1>5, <1>7, <2>1, <2>2, <2>5, RetryTold
  <2>6. GoesOn(h, u, n) \/ Finish(h, j)
    BY <1>5, <2>1, <2>2, <2>3, <2>5, QueueMailTold, SaveTold, ReadTold DEF Works, Panic, DatabaseFails
  <2> QED BY <1>3, <1>4, <1>5, <2>1, <2>4, <2>6, WorksOnce DEF GoesOn
<1> QED BY <1>2, <1>3, <1>4, <1>6, <1>7, OwnName DEF n

LEMMA NextTold == TInv /\ ToldInv /\ [Next]_vars => ToldInv'
<1> SUFFICES ASSUME TInv, ToldInv, [Next]_vars PROVE ToldInv'
  OBVIOUS
<1>1. ASSUME NEW h \in Handlers, NEW e \in inbox[h], Takes(h, e) PROVE ToldInv'
  <2>1. CASE Count(h, e)
    <3>1. UNCHANGED <<pending, told, comment, task, job, subscriptions, again>>
      BY <2>1 DEF Count, state, rows, history
    <3>2. \A g \in Handlers : inbox'[g] \subseteq inbox[g]
      BY <2>1 DEF Count, TInv, TypeOK
    <3>3. Subscribing'
      BY <3>1 DEF ToldInv, Subscribing
    <3> QED BY <3>1, <3>2, <3>3, Calm
  <2>2. CASE h = "subscribe" /\ SubscribeAssignee(e)
    <3>1. UNCHANGED <<pending, told, comment, task, job>> /\ again \subseteq again'
      BY <2>2 DEF SubscribeAssignee, state, rows
    <3>2. \A g \in Handlers : inbox'[g] \subseteq inbox[g]
      BY <2>2 DEF SubscribeAssignee, TInv, TypeOK
    <3>3. Subscribing'
      <4> SUFFICES ASSUME NEW u \in Users, {u} \X Entities \subseteq subscriptions' PROVE {u} \X Names \subseteq again'
        BY DEF Subscribing
      <4>1. CASE {u} \X Entities \subseteq subscriptions
        BY <3>1, <4>1 DEF ToldInv
      <4>2. CASE ~({u} \X Entities \subseteq subscriptions)
        <5>1. subscriptions' = subscriptions \union {<<v, "task">> : v \in {v \in e.users : ~AlreadySubscribed(v, "task")}}
          BY <2>2 DEF SubscribeAssignee
        <5>2. <<u, "list">> \in subscriptions
          BY <5>1 DEF Entities
        <5>3. <<u, "task">> \notin subscriptions
          BY <4>2, <5>2 DEF Entities
        <5>4. u \in e.users /\ ~AlreadySubscribed(u, "task")
          BY <5>1, <5>3 DEF Entities
        <5>5. Subscribed(u)
          BY <5>2 DEF Subscribed, Entities
        <5>6. again' = again \union {v \in e.users : Subscribed(v) /\ ~AlreadySubscribed(v, "task")} \X Names
          BY <2>2 DEF SubscribeAssignee
        <5> QED BY <5>4, <5>5, <5>6
      <4> QED BY <4>1, <4>2
    <3> QED BY <3>1, <3>2, <3>3, Calm
  <2> QED BY <1>1, <2>1, <2>2, TakeTold DEF Takes
<1>2. CASE UNCHANGED vars
  <2>1. Subscribing'
    BY <1>2 DEF vars, ToldInv, Subscribing
  <2> QED BY <1>2, <2>1, Calm DEF vars
<1> QED BY <1>1, <1>2, Kinds, ChangesTold, SubscribesTold, DispatchTold, BusTold, WorksTold

(* Nobody gets a second notification of a mention, of the comment or of the deletion: not *)
(* from the listener of another event, nor as mentioned and as subscribed, nor by a retry  *)
(* of a mention, but in the cases that are collected in again.                             *)
THEOREM NobodyToldTwice == Spec => []ToldOnce
<1>1. TInv /\ ToldInv => ToldOnce
  BY DEF ToldInv, Once, ToldOnce
<1> QED BY <1>1, InitType, NextType, InitTold, NextTold, PTL DEF Spec

=============================================================================
