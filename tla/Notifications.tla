--------------------------- MODULE Notifications ---------------------------
(***************************************************************************)
(* Who is told of what happens to a task: the handlers that dispatch       *)
(* events, the in-memory bus with its retries (pkg/events), the listeners  *)
(* that read the subscriptions and notify (pkg/models/listeners.go), the   *)
(* bounded queue of mails (pkg/mail) and the table of notifications.       *)
(*                                                                         *)
(* There is one list, one task in it and one comment on it; all users may  *)
(* read them.  Every listener takes one event at a time, in any order, and *)
(* works while requests and other listeners do.  An error makes the bus    *)
(* call it again, from the start, up to MaxRetries times; then the event   *)
(* goes to the poison queue, whose handler writes a line to the log.       *)
(***************************************************************************)
EXTENDS Integers, FiniteSets

CONSTANTS
    Users,
    Authors,        \* the users that change the task; the others only subscribe
    Subscribers,    \* the users that may be subscribed when the process starts
    Texts,          \* the users a text mentions: a set of sets of users
    MaxRetries,     \* 5 in the code
    QueueLen,       \* mailer.queuelength
    MaxRequests,    \* bound of the requests
    MaxFaults       \* bound of the errors of the database and the restarts of the process

ASSUME ConstantsAssumption ==
    /\ Authors \subseteq Users /\ Subscribers \subseteq Users /\ Texts \subseteq SUBSET Users
    /\ {MaxRetries, QueueLen, MaxRequests, MaxFaults} \subseteq Nat

Entities == {"task", "list"}
Topics == {"task.created", "task.updated", "task.deleted", "assignee.created",
           "comment.created", "comment.updated"}

Listeners ==
    [x \in Topics |->
       CASE x = "task.created" -> {"increase", "mentions"}
         [] x = "task.updated" -> {"updated"}
         [] x = "task.deleted" -> {"decrease", "deleted"}
         [] x = "assignee.created" -> {"assigned", "subscribe"}
         [] x = "comment.created" -> {"comment"}
         [] x = "comment.updated" -> {"edit"}]

Handlers == UNION {Listeners[x] : x \in Topics}
Counters == {"increase", "decrease"}
Mentioners == {"mentions", "updated", "comment", "edit"}   \* call notifyMentionedUsers
Tellers == {"comment", "assigned", "deleted"}              \* tell the subscribers

(* The name of a listener's notifications; their subject is the task or the comment. *)
NotificationName ==
    [h \in Mentioners \union Tellers |->
       CASE h \in {"mentions", "updated"} -> "task.mentioned"
         [] h \in {"comment", "edit"} -> "task.comment"
         [] h = "assigned" -> "task.assigned"
         [] h = "deleted" -> "task.deleted"]
Names == {NotificationName[h] : h \in Mentioners \union Tellers}

NoDoer == "nobody"    \* an edit whose client did not send the author

(* An event: a topic, who caused it and the users its text mentions, or the assignee. *)
Event == [topic : Topics, doer : Users \union {NoDoer}, users : SUBSET Users, no : 1 .. MaxRequests]

(* What a listener has yet to tell: a mentioned user, or a row of the subscriptions. *)
Rows == Users \X (Entities \union {"mention"})

VARIABLES
    task,           \* the row of the task: "none", "alive" or "gone"
    comment,        \* whether there is the row of the comment
    pending,        \* events of requests that have changed the tables and go on
    accounts,       \* users that have an account
    subscriptions,  \* rows of a user and an entity
    count,          \* the counter of tasks, in the key value store
    listening,      \* the router has subscribed to the topics
    inbox,          \* handler -> events it has yet to handle
    job,            \* handler -> the event it handles, or none
    queue,          \* mails in the queue
    told,           \* table notifications: user and name -> rows
    requests, faults,   \* so far, for the bounds
    (* What happened, for the properties *)
    missed,         \* an event was dispatched while the router did not listen, or never was
    again,          \* users and names of notifications that they may get again, see ToldOnce
    due             \* users that were subscribed when the comment was created, and since

vars == <<task, comment, pending, accounts, subscriptions, count, listening, inbox, job, queue,
          told, requests, faults, missed, again, due>>
rows == <<task, comment, pending>>
bounds == <<requests, faults>>
history == <<missed, again, due>>

Job == [event : Event, tries : 1 .. MaxRetries + 1, mentioned : SUBSET Users,
        todo : SUBSET Rows, read : BOOLEAN, mailed : SUBSET Rows]

(* metrics.setupMetrics counts the tasks when the process starts. *)
TasksInTable == IF task = "alive" THEN 1 ELSE 0

Init ==
    /\ task \in {"none", "alive"} /\ comment = FALSE /\ pending = {}
    /\ accounts = Users /\ subscriptions \in SUBSET (Subscribers \X Entities)
    /\ count = TasksInTable /\ listening = FALSE
    /\ inbox = [h \in Handlers |-> {}] /\ job = [h \in Handlers |-> {}]
    /\ queue = 0
    /\ told = [u \in Users |-> [n \in Names |-> 0]]
    /\ requests = 0 /\ faults = 0
    /\ missed = FALSE /\ due = {}
    /\ again = {u \in Users : {u} \X Entities \subseteq subscriptions} \X Names

-----------------------------------------------------------------------------
(* The requests *)

Naming(n) == {h \in Mentioners \union Tellers : NotificationName[h] = n}

Request ==
    /\ requests < MaxRequests
    /\ requests' = requests + 1
    /\ UNCHANGED faults

Busy(h) == inbox[h] # {} \/ job[h] # {} \/ \E e \in pending : h \in Listeners[e.topic]

(* A request changes the tables, statement by statement and with no transaction,  *)
(* and then dispatches its event.                                                 *)
Do(topic, doer, users) ==
    /\ Request
    /\ pending' = pending \union {[topic |-> topic, doer |-> doer, users |-> users, no |-> requests + 1]}
    /\ again' = again \union
         Users \X {n \in Names : Naming(n) \cap Listeners[topic] # {} /\ \E h \in Naming(n) : Busy(h)}
    /\ UNCHANGED <<accounts, subscriptions, count, listening, inbox, job, queue, told, missed>>

CreateTask(u, mentioned) ==
    /\ u \in accounts /\ task = "none"
    /\ task' = "alive"
    /\ Do("task.created", u, mentioned) /\ UNCHANGED <<comment, due>>

UpdateTask(u, mentioned) ==
    /\ u \in accounts /\ task = "alive"
    /\ Do("task.updated", u, mentioned) /\ UNCHANGED <<task, comment, due>>

DeleteTask(u) ==
    /\ u \in accounts /\ task = "alive"
    /\ task' = "gone" /\ due' = {}
    /\ Do("task.deleted", u, {}) /\ UNCHANGED comment

Assign(u, assignee) ==
    /\ u \in accounts /\ assignee \in accounts /\ task = "alive"
    /\ Do("assignee.created", u, {assignee}) /\ UNCHANGED <<task, comment, due>>

CreateComment(u, mentioned) ==
    /\ u \in accounts /\ task = "alive" /\ ~comment
    /\ comment' = TRUE
    /\ Do("comment.created", u, mentioned) /\ UNCHANGED <<task, due>>

(* The author is the one the client sends along, if it does. *)
UpdateComment(u, author, mentioned) ==
    /\ u \in accounts /\ author \in {u, NoDoer} /\ task = "alive" /\ comment
    /\ Do("comment.updated", author, mentioned) /\ UNCHANGED <<task, comment, due>>

Subscribed(u) == \E e \in Entities : <<u, e>> \in subscriptions

(* Dispatch publishes and returns.  Without the router, nobody hears of it. *)
Dispatch(e) ==
    /\ e \in pending /\ pending' = pending \ {e}
    /\ inbox' = [h \in Handlers |->
                   IF listening /\ h \in Listeners[e.topic] THEN inbox[h] \union {e} ELSE inbox[h]]
    /\ missed' = (missed \/ ~listening)
    /\ due' = IF /\ e.topic = "comment.created" /\ task = "alive" /\ listening
                 /\ \A row \in subscriptions : row[1] \in accounts
              THEN {v \in accounts \ {e.doer} : Subscribed(v)} ELSE due
    /\ UNCHANGED <<task, comment, accounts, subscriptions, count, listening, job, queue, told, bounds, again>>

(* An error after the first change: what was changed stays, and there is no event. *)
RequestFails(e) ==
    /\ e \in pending /\ faults < MaxFaults
    /\ faults' = faults + 1
    /\ pending' = pending \ {e}
    /\ missed' = TRUE
    /\ UNCHANGED <<task, comment, accounts, subscriptions, count, listening, inbox, job, queue, told,
                   requests, again, due>>

(* Subscription.Create looks for a subscription to the entity or to what it is in. *)
AlreadySubscribed(u, e) == <<u, e>> \in subscriptions \/ (e = "task" /\ task = "alive" /\ Subscribed(u))

Subscribe(u, e) ==
    /\ u \in accounts /\ (e = "task" => task = "alive")
    /\ ~AlreadySubscribed(u, e)
    /\ Request
    /\ subscriptions' = subscriptions \union {<<u, e>>}
    /\ again' = again \union (IF Subscribed(u) THEN {u} \X Names ELSE {})
    /\ UNCHANGED <<rows, accounts, count, listening, inbox, job, queue, told, missed, due>>

Unsubscribe(u, e) ==
    /\ u \in accounts /\ <<u, e>> \in subscriptions
    /\ Request
    /\ subscriptions' = subscriptions \ {<<u, e>>}
    /\ due' = due \ {u}
    /\ UNCHANGED <<rows, accounts, count, listening, inbox, job, queue, told, missed, again>>

(* The subscriptions of a deleted account stay. *)
DeleteAccount(u) ==
    /\ u \in accounts
    /\ Request
    /\ accounts' = accounts \ {u}
    /\ due' = IF Subscribed(u) THEN {} ELSE due
    /\ UNCHANGED <<rows, subscriptions, count, listening, inbox, job, queue, told,
                   missed, again>>

-----------------------------------------------------------------------------
(* The bus and the listeners *)

StartRouter ==
    /\ ~listening
    /\ listening' = TRUE
    /\ UNCHANGED <<rows, accounts, subscriptions, count, inbox, job, queue, told, bounds, history>>

state == <<rows, accounts, listening>>

(* Mutant of Count: a task that is deleted is not counted down. *)
CountUp(h, e) ==
    /\ h \in Counters /\ e \in inbox[h]
    /\ inbox' = [inbox EXCEPT ![h] = @ \ {e}]
    /\ count' = IF h = "increase" THEN count + 1 ELSE count
    /\ UNCHANGED <<state, subscriptions, job, queue, told, bounds, history>>

(* The listeners of the counters change them in one step. *)
Count(h, e) ==
    /\ h \in Counters /\ e \in inbox[h]
    /\ inbox' = [inbox EXCEPT ![h] = @ \ {e}]
    /\ count' = IF h = "increase" THEN count + 1 ELSE count - 1
    /\ UNCHANGED <<state, subscriptions, job, queue, told, bounds, history>>

(* SubscribeAssigneeToTask; who is subscribed to the task or the list already, is no error. *)
SubscribeAssignee(e) ==
    /\ e \in inbox["subscribe"]
    /\ inbox' = [inbox EXCEPT !["subscribe"] = @ \ {e}]
    /\ subscriptions' = subscriptions \union
         {<<u, "task">> : u \in {u \in e.users : ~AlreadySubscribed(u, "task")}}
    /\ UNCHANGED <<state, count, job, queue, told, bounds, missed, due>>
    /\ again' = again \union {u \in e.users : Subscribed(u) /\ ~AlreadySubscribed(u, "task")} \X Names

(* The start of a listener: FindMentionedUsersInText finds who has an account. *)
Begin(h, e, tries) ==
    LET mentioned == IF h \in Mentioners THEN e.users \cap accounts ELSE {}
    IN  [event |-> e, tries |-> tries, mentioned |-> mentioned,
         todo |-> mentioned \X {"mention"}, read |-> FALSE, mailed |-> {}]

Take(h, e) ==
    /\ h \in Mentioners \union Tellers /\ job[h] = {} /\ e \in inbox[h]
    /\ inbox' = [inbox EXCEPT ![h] = @ \ {e}]
    /\ job' = [job EXCEPT ![h] = {Begin(h, e, 1)}]
    /\ UNCHANGED <<state, subscriptions, count, queue, told, bounds, history>>

(* Mutant of Wanted: the subscribers are told whoever was mentioned. *)
WantedMentionedToo(h, j, row) ==
    IF row[2] = "mention" THEN told[row[1]][NotificationName[h]] = 0 ELSE row[1] # j.event.doer

(* A mentioned user who has a notification of that name and subject gets no other; *)
(* a subscriber is not told of what they did, nor of a comment that mentions them. *)
Wanted(h, j, row) ==
    IF row[2] = "mention" THEN told[row[1]][NotificationName[h]] = 0
    ELSE row[1] # j.event.doer /\ row[1] \notin j.mentioned

(* Neither the mail nor its address can be made: there is no author, or the *)
(* subscriber's account is gone.                                            *)
Unmailable(j, row) == j.event.doer = NoDoer \/ (row[2] # "mention" /\ row[1] \notin accounts)

(* notifyMentionedUsers reads the task for every user, and fails if it is not there. *)
Readable(row) == row[2] = "mention" => task = "alive"

Pass(h, j, row) ==
    /\ row \in j.todo /\ j.mailed = {} /\ Readable(row) /\ ~Wanted(h, j, row)
    /\ job' = [job EXCEPT ![h] = {[j EXCEPT !.todo = @ \ {row}]}]
    /\ UNCHANGED <<state, subscriptions, count, inbox, queue, told, bounds, history>>

(* Mutant of QueueMail: it does not wait for room in the queue. *)
QueueMailAnyway(h, j, row) ==
    /\ row \in j.todo /\ j.mailed = {} /\ Readable(row) /\ Wanted(h, j, row)
    /\ ~Unmailable(j, row)
    /\ queue' = queue + 1
    /\ job' = [job EXCEPT ![h] = {[j EXCEPT !.mailed = {row}]}]
    /\ UNCHANGED <<state, subscriptions, count, inbox, told, bounds, history>>

(* SendMail waits for room in the queue ... *)
QueueMail(h, j, row) ==
    /\ row \in j.todo /\ j.mailed = {} /\ Readable(row) /\ Wanted(h, j, row)
    /\ ~Unmailable(j, row)
    /\ queue < QueueLen
    /\ queue' = queue + 1
    /\ job' = [job EXCEPT ![h] = {[j EXCEPT !.mailed = {row}]}]
    /\ UNCHANGED <<state, subscriptions, count, inbox, told, bounds, history>>

(* ... and then the notification is saved. *)
Save(h, j, row) ==
    /\ row \in j.mailed
    /\ told' = [told EXCEPT ![row[1]][NotificationName[h]] = @ + 1]
    /\ job' = [job EXCEPT ![h] = {[j EXCEPT !.todo = @ \ {row}, !.mailed = {}]}]
    /\ UNCHANGED <<state, subscriptions, count, inbox, queue, bounds, history>>

(* getSubscribersForEntity finds the list through the task's row.  The listener of *)
(* an assignment reads the task as well.                                           *)
ReadSubscribers(h, j) ==
    /\ h \in Tellers /\ ~j.read /\ j.todo = {}
    /\ h = "assigned" => task = "alive"
    /\ job' = [job EXCEPT ![h] =
                 {[j EXCEPT !.read = TRUE,
                            !.todo = {row \in subscriptions : row[2] = "task" \/ task = "alive"}]}]
    /\ UNCHANGED <<state, subscriptions, count, inbox, queue, told, bounds, history>>

Finish(h, j) ==
    /\ j.todo = {} /\ (h \in Tellers => j.read)
    /\ job' = [job EXCEPT ![h] = {}]
    /\ UNCHANGED <<state, subscriptions, count, inbox, queue, told, bounds, history>>

(* Mutants of Retry: the bus gives up at the first error, or never. *)
RetryNever(h, j) ==
    /\ job' = [job EXCEPT ![h] = {}]
    /\ UNCHANGED <<state, subscriptions, count, inbox, queue, told, requests, history>>

RetryForever(h, j) ==
    /\ job' = [job EXCEPT ![h] = {Begin(h, j.event, j.tries)}]
    /\ again' = again \union Users \X ({NotificationName[h]} \ {"task.mentioned"})
    /\ UNCHANGED <<state, subscriptions, count, inbox, queue, told, requests, missed, due>>

(* The listener returns an error or panics: the bus calls it again, or gives up. *)
Retry(h, j) ==
    /\ job' = [job EXCEPT ![h] = IF j.tries <= MaxRetries THEN {Begin(h, j.event, j.tries + 1)} ELSE {}]
    /\ again' = again \union Users \X ({NotificationName[h]} \ {"task.mentioned"})
    /\ UNCHANGED <<state, subscriptions, count, inbox, queue, told, requests, missed, due>>

Panic(h, j) ==
    /\ \/ j.mailed = {} /\ \E row \in j.todo :
             ~Readable(row) \/ (Wanted(h, j, row) /\ Unmailable(j, row))
       \/ h = "assigned" /\ ~j.read /\ task # "alive"
    /\ Retry(h, j) /\ UNCHANGED faults

DatabaseFails(h, j) ==
    /\ faults < MaxFaults
    /\ faults' = faults + 1
    /\ Retry(h, j)

Step(h) ==
    \/ \E e \in inbox[h] : Count(h, e) \/ Take(h, e)
    \/ h = "subscribe" /\ \E e \in inbox[h] : SubscribeAssignee(e)
    \/ \E j \in job[h] :
          \/ \E row \in j.todo : Pass(h, j, row) \/ QueueMail(h, j, row) \/ Save(h, j, row)
          \/ ReadSubscribers(h, j) \/ Finish(h, j) \/ Panic(h, j)

(* The daemon sends the mail, or logs that it could not. *)
SendMail ==
    /\ queue > 0
    /\ queue' = queue - 1
    /\ UNCHANGED <<state, subscriptions, count, inbox, job, told, bounds, history>>

(* Bus, counter and queue are in memory; the counter is set from the table. *)
Restart ==
    /\ faults < MaxFaults
    /\ faults' = faults + 1
    /\ pending' = {}
    /\ listening' = FALSE /\ missed' = FALSE
    /\ inbox' = [h \in Handlers |-> {}] /\ job' = [h \in Handlers |-> {}]
    /\ queue' = 0
    /\ count' = TasksInTable
    /\ due' = {}
    /\ UNCHANGED <<task, comment, accounts, subscriptions, told, requests, again>>

Next ==
    \/ \E u \in Authors :
          \/ \E mentioned \in Texts :
                \/ CreateTask(u, mentioned) \/ UpdateTask(u, mentioned) \/ CreateComment(u, mentioned)
                \/ \E author \in {u, NoDoer} : UpdateComment(u, author, mentioned)
          \/ \E v \in Users : Assign(u, v)
          \/ DeleteTask(u)
    \/ \E u \in Users :
          \/ \E e \in Entities : Subscribe(u, e) \/ Unsubscribe(u, e)
          \/ DeleteAccount(u)
    \/ \E e \in pending : Dispatch(e) \/ RequestFails(e)
    \/ StartRouter
    \/ \E h \in Handlers : Step(h) \/ \E j \in job[h] : DatabaseFails(h, j)
    \/ SendMail
    \/ Restart

Spec == Init /\ [][Next]_vars

(* The process goes on: a request comes to its event or fails, the router starts, *)
(* every listener takes its events and works on them, the daemon reads the queue. *)
(* Users and errors come as they do.  The mailer is enabled: if it is not, nobody *)
(* reads the queue, SendMail never happens and the listeners wait for ever once it *)
(* is full; what holds under Spec holds then, too.                                *)
Fairness == WF_vars(\E e \in pending : Dispatch(e)) /\ WF_vars(StartRouter) /\ WF_vars(SendMail) /\ \A h \in Handlers : WF_vars(Step(h))

FairSpec == Spec /\ Fairness

-----------------------------------------------------------------------------
(* The types; the queue of mails is never longer than its channel. *)
TypeOK ==
    /\ task \in {"none", "alive", "gone"} /\ comment \in BOOLEAN /\ pending \subseteq Event
    /\ accounts \subseteq Users /\ subscriptions \subseteq Users \X Entities
    /\ count \in Int /\ listening \in BOOLEAN
    /\ inbox \in [Handlers -> SUBSET Event] /\ job \in [Handlers -> SUBSET Job]
    /\ queue \in 0 .. QueueLen
    /\ told \in [Users -> [Names -> Nat]]
    /\ missed \in BOOLEAN /\ again \subseteq Users \X Names /\ due \subseteq Users

(* Once the bus has handed out all events of created and deleted tasks, the counter *)
(* the metrics show is the number of rows of the table, in whatever order they were  *)
(* handled and after every restart: but for an event before the router listened, or  *)
(* that a request never came to because it failed half way.                          *)
CounterSettles ==
    ~missed /\ pending = {} /\ inbox["increase"] = {} /\ inbox["decrease"] = {} => count = TasksInTable

(* Nobody is told twice of a mention in the task, of its comment or of its deletion, *)
(* as mentioned and as subscribed or by two listeners, but where the code lets that  *)
(* happen: two subscriptions of a user to the task, a listener called again after it *)
(* failed half way, and a second event, as the edit of a comment, while the listener *)
(* of the first is not done.  Mentions are looked up before they are told, so being  *)
(* called again does not repeat them.                                                *)
ToldOnce ==
    \A u \in Users, n \in Names : told[u][n] <= 1 \/ n = "task.assigned" \/ <<u, n>> \in again

(* Whoever is subscribed to the task or its list when a comment is written, and stays *)
(* so, is told of it in the end: over retries after errors of the database, with the  *)
(* queue full for a while and other listeners at work.  That needs a router that    *)
(* listens and no subscription left behind by a deleted account (see README).        *)
SubscriberTold ==
    due # {} ~> \A u \in due : told[u]["task.comment"] > 0

(* Every event is handled or given up after its retries: no listener   *)
(* hangs on the full queue or fails for ever, though some events can never be handled. *)
BusSettles ==
    <>[](\A h \in Handlers : inbox[h] = {} /\ job[h] = {})
=============================================================================
