-------------------------- MODULE AccountDeletion --------------------------
(***************************************************************************)
(* How an account is deleted (pkg/user/delete.go, pkg/models/user_delete.go*)
(* and the tokens of pkg/user/token.go): a user asks for it, confirms it   *)
(* with the token of a mail, is reminded once a day and may cancel, until  *)
(* three days later the account goes.                                      *)
(*                                                                         *)
(* The requests each run in a transaction.  The three jobs run once an     *)
(* hour, in any order, and the two that go through a list of users work on *)
(* rows they read before.  So does the change of a password, which hashes  *)
(* the new one between reading the row and writing it back.                *)
(*                                                                         *)
(* Times are kept as ages, in moments: an hour has HourLen of them.  A     *)
(* mail that is not sent, and a reminder that is not saved, are left out.  *)
(***************************************************************************)
EXTENDS Integers, FiniteSets

CONSTANTS
    Users,
    HourLen,      \* moments of an hour
    Day,          \* moments of a day
    MaxLate,      \* bound: an account that is late is counted no later than this
    MaxTokens     \* bound of the tokens that exist at a time

ASSUME ConstantsAssumption ==
    /\ HourLen \in Nat \ {0} /\ Day \in Nat \ {0} /\ MaxLate \in Nat /\ MaxTokens \in Nat

Delay == 3 * Day
NotScheduled == Delay + 1    \* deletion_scheduled_at is null
NotReminded == Day + 1       \* deletion_last_reminder_sent is null

Scheduled == -MaxLate .. NotScheduled    \* moments left until deletion_scheduled_at
Reminded == 0 .. NotReminded             \* moments since the last reminder; Day: a day or more
Jobs == {"cleanUp", "notify", "delete"}
Loops == {"notify", "delete"}            \* the jobs that go through a list of users

VARIABLES
    moment,       \* of the hour
    waiting,      \* the jobs that have yet to start in this hour
    row,          \* user -> the two columns of the deletion
    gone,         \* users whose account is deleted
    tokens,       \* the AccountDeletion tokens
    listed,       \* job -> the users it has read and not come to yet
    changing,     \* user -> the row a change of the password has read, or none
    (* What happened, for the properties *)
    wish,         \* user -> "stay", or "go" since the deletion was confirmed
    asked,        \* user -> moments since then
    told,         \* user -> reminders of this deletion, none once its row is overtaken
    overtaken     \* users whose row changed while a job or a request held a copy

vars == <<moment, waiting, row, gone, tokens, listed, changing, wish, asked, told, overtaken>>
history == <<wish, asked, told, overtaken>>

Row == [left : Scheduled, since : Reminded]
Token == [user : Users, age : 0 .. Day]
Untouched == [left |-> NotScheduled, since |-> NotReminded]

Init ==
    /\ moment = 0 /\ waiting = Jobs
    /\ row = [u \in Users |-> Untouched]
    /\ gone = {} /\ tokens = {}
    /\ listed = [j \in Loops |-> {}]
    /\ changing = [u \in Users |-> {}]
    /\ wish = [u \in Users |-> "stay"]
    /\ asked = [u \in Users |-> Delay] /\ told = [u \in Users |-> 0]
    /\ overtaken = {}

Least(a, b) == IF a < b THEN a ELSE b
Most(a, b) == IF a > b THEN a ELSE b

-----------------------------------------------------------------------------
(* The requests *)

HasRow(u) == u \notin gone

(* Somebody holds an older copy of u's row. *)
Held(u) == changing[u] # {} \/ \E j \in Loops : u \in listed[j]

RequestDeletion(u) ==
    /\ HasRow(u)
    /\ Cardinality(tokens) < MaxTokens
    /\ tokens' = tokens \union {[user |-> u, age |-> 0]}
    /\ UNCHANGED <<moment, waiting, row, gone, listed, changing, history>>

(* getToken asks for the kind of the token and not for its user; a token that *)
(* does not exist is no error, and nothing happens.  The tokens that go are   *)
(* those of the user who confirms.  A second confirmation moves the date, and *)
(* not the reminders.                                                         *)
ConfirmDeletion(u, tk) ==
    /\ HasRow(u)
    /\ tk \in tokens
    /\ tokens' = {t \in tokens : t.user # u}
    /\ row' = [row EXCEPT ![u].left = Delay]
    /\ wish' = [wish EXCEPT ![u] = "go"]
    /\ asked' = [asked EXCEPT ![u] = 0]
    /\ told' = [told EXCEPT ![u] = IF wish[u] = "go" THEN @ ELSE 0]
    /\ overtaken' = IF Held(u) THEN overtaken \union {u} ELSE overtaken
    /\ UNCHANGED <<moment, waiting, gone, listed, changing>>

(* Mutant of CancelDeletion: the time of the last reminder stays. *)
CancelKeepsReminder(u) ==
    /\ HasRow(u) /\ row[u] # Untouched
    /\ row' = [row EXCEPT ![u].left = NotScheduled]
    /\ wish' = [wish EXCEPT ![u] = "stay"]
    /\ asked' = [asked EXCEPT ![u] = Delay] /\ told' = [told EXCEPT ![u] = 0]
    /\ overtaken' = IF Held(u) THEN overtaken \union {u} ELSE overtaken \ {u}
    /\ UNCHANGED <<moment, waiting, gone, tokens, listed, changing>>

CancelDeletion(u) ==
    /\ HasRow(u) /\ row[u] # Untouched
    /\ row' = [row EXCEPT ![u] = Untouched]
    /\ wish' = [wish EXCEPT ![u] = "stay"]
    /\ asked' = [asked EXCEPT ![u] = Delay] /\ told' = [told EXCEPT ![u] = 0]
    /\ overtaken' = IF Held(u) THEN overtaken \union {u} ELSE overtaken \ {u}
    /\ UNCHANGED <<moment, waiting, gone, tokens, listed, changing>>

(* UpdateUserPassword reads the whole row ... *)
ReadForPassword(u) ==
    /\ HasRow(u) /\ changing[u] = {}
    /\ changing' = [changing EXCEPT ![u] = {row[u]}]
    /\ UNCHANGED <<moment, waiting, row, gone, tokens, listed, history>>

(* ... and, once the new password is hashed, writes it back, but for the columns *)
(* that were empty.                                                              *)
WritePassword(u) ==
    \E old \in changing[u] :
      /\ changing' = [changing EXCEPT ![u] = {}]
      /\ row' = IF HasRow(u)
                THEN [row EXCEPT ![u] =
                        [left |-> IF old.left = NotScheduled THEN @.left ELSE old.left,
                         since |-> IF old.since = NotReminded THEN @.since ELSE old.since]]
                ELSE row
      /\ UNCHANGED <<moment, waiting, gone, tokens, listed, history>>

-----------------------------------------------------------------------------
(* The jobs *)

(* The cleanup deletes what was created within the last day. *)
CleanUp ==
    /\ "cleanUp" \in waiting
    /\ waiting' = waiting \ {"cleanUp"}
    /\ tokens' = {t \in tokens : t.age >= Day}
    /\ UNCHANGED <<moment, row, gone, listed, changing, history>>

ListScheduled ==
    /\ "notify" \in waiting
    /\ waiting' = waiting \ {"notify"}
    /\ listed' = [listed EXCEPT !["notify"] =
                    {u \in Users \ gone : /\ row[u].left # NotScheduled
                                          /\ row[u].since >= Day}]
    /\ UNCHANGED <<moment, row, gone, tokens, changing, history>>

NotifyOne(u) ==
    /\ u \in listed["notify"]
    /\ listed' = [listed EXCEPT !["notify"] = @ \ {u}]
    /\ row' = IF HasRow(u) THEN [row EXCEPT ![u].since = 0] ELSE row
    /\ told' = [told EXCEPT ![u] = IF u \in overtaken THEN 0 ELSE Least(@ + 1, 3)]
    /\ overtaken' = IF changing[u] # {} \/ u \in listed["delete"] THEN overtaken \union {u} ELSE overtaken
    /\ UNCHANGED <<moment, waiting, gone, tokens, changing, wish, asked>>

(* Mutant of ListDue: an account that is due in this hour counts as due. *)
ListDueSoon ==
    /\ "delete" \in waiting
    /\ waiting' = waiting \ {"delete"}
    /\ listed' = [listed EXCEPT !["delete"] = {u \in Users \ gone : row[u].left < HourLen}]
    /\ UNCHANGED <<moment, row, gone, tokens, changing, history>>

(* Mutant of ListDue: only what became due since the run before is listed. *)
ListDueSinceLastRun ==
    /\ "delete" \in waiting
    /\ waiting' = waiting \ {"delete"}
    /\ listed' = [listed EXCEPT !["delete"] = {u \in Users \ gone : row[u].left \in 1 - HourLen .. -1}]
    /\ UNCHANGED <<moment, row, gone, tokens, changing, history>>

ListDue ==
    /\ "delete" \in waiting
    /\ waiting' = waiting \ {"delete"}
    /\ listed' = [listed EXCEPT !["delete"] = {u \in Users \ gone : row[u].left < 0}]
    /\ UNCHANGED <<moment, row, gone, tokens, changing, history>>

(* The user's rows go in a transaction of their own, whatever has become of the *)
(* wish since the list was read.  The tokens stay.                              *)
DeleteOne(u) ==
    /\ u \in listed["delete"]
    /\ listed' = [listed EXCEPT !["delete"] = @ \ {u}]
    /\ gone' = gone \union {u}
    /\ row' = [row EXCEPT ![u] = Untouched]
    /\ UNCHANGED <<moment, waiting, tokens, changing, history>>

(* The first error ends the run, also for the users after it. *)
DeleteFails ==
    /\ listed["delete"] # {}
    /\ listed' = [listed EXCEPT !["delete"] = {}]
    /\ UNCHANGED <<moment, waiting, row, gone, tokens, changing, history>>

Older(r) ==
    [left |-> IF r.left = NotScheduled THEN r.left ELSE Most(r.left - 1, -MaxLate),
     since |-> IF r.since = NotReminded THEN r.since ELSE Least(r.since + 1, Day)]

(* Time passes.  The jobs of an hour have started and ended by the next one, and *)
(* no job and no request lasts from one moment to another.                       *)
Tick ==
    /\ listed = [j \in Loops |-> {}] /\ changing = [u \in Users |-> {}]
    /\ moment + 1 = HourLen => waiting = {}
    /\ moment' = (moment + 1) % HourLen
    /\ waiting' = IF moment + 1 = HourLen THEN Jobs ELSE waiting
    /\ row' = [u \in Users |-> Older(row[u])]
    /\ tokens' = {[t EXCEPT !.age = Least(@ + 1, Day)] : t \in tokens}
    /\ asked' = [u \in Users |-> Least(asked[u] + 1, Delay)]
    /\ UNCHANGED <<gone, listed, changing, wish, told, overtaken>>

JobStep ==
    \/ CleanUp \/ ListScheduled \/ ListDue \/ DeleteFails
    \/ \E u \in Users : NotifyOne(u) \/ DeleteOne(u)

Next ==
    \/ \E u \in Users :
          \/ RequestDeletion(u) \/ CancelDeletion(u)
          \/ \E tk \in tokens : ConfirmDeletion(u, tk)
          \/ ReadForPassword(u) \/ WritePassword(u)
    \/ JobStep
    \/ Tick

Spec == Init /\ [][Next]_vars

(* The clock starts the jobs, and a job or a request that has started goes on; *)
(* users need never do anything.  No user who changes the password again and   *)
(* again stops the clock.  The deletion of an account may fail, but not in     *)
(* every hour for ever.                                                        *)
Fairness ==
    /\ SF_vars(Tick) /\ WF_vars(JobStep)
    /\ \A u \in Users : WF_vars(WritePassword(u)) /\ SF_vars(DeleteOne(u))

FairSpec == Spec /\ Fairness

-----------------------------------------------------------------------------
TypeOK ==
    /\ moment \in 0 .. HourLen - 1 /\ waiting \subseteq Jobs
    /\ row \in [Users -> Row] /\ gone \subseteq Users
    /\ tokens \subseteq Token
    /\ listed \in [Loops -> SUBSET Users]
    /\ changing \in [Users -> SUBSET Row]
    /\ wish \in [Users -> {"stay", "go"}]
    /\ asked \in [Users -> 0 .. Delay] /\ told \in [Users -> 0 .. 3]
    /\ overtaken \subseteq Users

(* An account is deleted only if its user confirmed that three days ago or     *)
(* more and has not cancelled it since, unless the row changed while a job or  *)
(* a change of the password held an older copy: then a cancelled deletion can  *)
(* take place all the same.                                                    *)
DeletedAsAsked ==
    \A u \in gone : u \in overtaken \/ (wish[u] = "go" /\ asked[u] = Delay)

(* Nobody is deleted who has not been reminded of it three times before, with *)
(* the same exception: a deletion that was cancelled leaves nothing behind    *)
(* that would make a later one silent, and the late start of a job does not   *)
(* cost a reminder.                                                           *)
WarnedThrice ==
    \A u \in gone : u \in overtaken \/ told[u] = 3

(* An account whose user has confirmed and neither cancels nor confirms again *)
(* is deleted in the end: a run that fails leaves it to a later one.          *)
DeletedInTheEnd ==
    \A u \in Users : []<>(u \in gone \/ wish[u] = "stay" \/ asked[u] < Delay)
=============================================================================
