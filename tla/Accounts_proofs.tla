--------------------------- MODULE Accounts_proofs ---------------------------
(***************************************************************************)
(* Deletion, for any users and any length of an hour and a day: the        *)
(* variables keep their types, nobody is deleted who has not asked for it  *)
(* three days before and, if a day has six hours, nobody who was not       *)
(* reminded three times.  The second needs to be known of the rows, of the *)
(* copies of them and of the list of the job before it holds of the        *)
(* accounts that are gone; the third needs a bound of the time to the next *)
(* reminder.                                                               *)
(*                                                                         *)
(* Logins, for any number of requests and any limits: the variables keep   *)
(* their types, an account is locked at the limit, its user warned in      *)
(* time, a second factor enabled as proven, and no account waits for       *)
(* confirmation again.  All of them but the first need to be known of what *)
(* the requests on their way remember: that is LoginsInv.                  *)
(***************************************************************************)
EXTENDS AccountDeletion, Logins, SequenceTheorems, TLAPS

USE DEF Scheduled, Reminded, Delay, NotScheduled, NotReminded, Jobs, Loops

(* A row tells the truth about the wish of its user: it has no date without a *)
(* confirmation, and as many moments left as three days have more than the    *)
(* moments since.                                                             *)
Truthful(u, r) ==
    r.left # NotScheduled =>
        wish[u] = "go" /\ (asked[u] = Delay \/ asked[u] + r.left >= Delay)

Ripe(u) == wish[u] = "go" /\ asked[u] = Delay

UserInv(u) ==
    /\ Truthful(u, row[u])
    /\ \A r \in changing[u] : Truthful(u, r)
    /\ u \in listed["delete"] => Ripe(u)
    /\ u \in gone => Ripe(u)

IInv == TypeOK /\ \A u \in Users \ overtaken : UserInv(u)

-----------------------------------------------------------------------------
LEMMA MinMax ==
    ASSUME NEW a \in Int, NEW b \in Int
    PROVE  /\ Least(a, b) \in {a, b} /\ Least(a, b) <= a /\ Least(a, b) <= b
           /\ Most(a, b) \in {a, b} /\ Most(a, b) >= a /\ Most(a, b) >= b
BY DEF Least, Most

(* A row that grows older stays a row, and truthful. *)
LEMMA OlderRow ==
    ASSUME NEW r \in Row
    PROVE  /\ Older(r) \in Row
           /\ r.left = NotScheduled => Older(r).left = NotScheduled
           /\ r.left # NotScheduled => Older(r).left >= r.left - 1
BY ConstantsAssumption, MinMax DEF Older, Row, Least, Most

LEMMA UntouchedRow == Untouched \in Row /\ Untouched.left = NotScheduled
BY ConstantsAssumption DEF Untouched, Row

-----------------------------------------------------------------------------
LEMMA InitInv == Init => IInv
<1> SUFFICES ASSUME Init PROVE IInv
  OBVIOUS
<1>1. TypeOK
  BY ConstantsAssumption, UntouchedRow DEF Init, TypeOK, Token
<1>2. \A u \in Users \ overtaken : UserInv(u)
  BY UntouchedRow DEF Init, UserInv, Truthful
<1> QED BY <1>1, <1>2 DEF IInv

LEMMA NextType == TypeOK /\ [Next]_vars => TypeOK'
<1> SUFFICES ASSUME TypeOK, [Next]_vars PROVE TypeOK'
  OBVIOUS
<1> USE ConstantsAssumption
<1>1. ASSUME NEW u \in Users, RequestDeletion(u) PROVE TypeOK'
  BY <1>1 DEF TypeOK, RequestDeletion, Token, history
<1>2. ASSUME NEW u \in Users, CancelDeletion(u) PROVE TypeOK'
  BY <1>2, UntouchedRow DEF TypeOK, CancelDeletion
<1>3. ASSUME NEW u \in Users, NEW tk \in tokens, ConfirmDeletion(u, tk) PROVE TypeOK'
  <2>1. row' \in [Users -> Row]
    BY <1>3 DEF TypeOK, ConfirmDeletion, Row
  <2> QED BY <1>3, <2>1 DEF TypeOK, ConfirmDeletion
<1>4. ASSUME NEW u \in Users, ReadForPassword(u) PROVE TypeOK'
  BY <1>4 DEF TypeOK, ReadForPassword, history
<1>5. ASSUME NEW u \in Users, WritePassword(u) PROVE TypeOK'
  <2>1. row' \in [Users -> Row]
    BY <1>5 DEF TypeOK, WritePassword, Row
  <2> QED BY <1>5, <2>1 DEF TypeOK, WritePassword, history
<1>6. ASSUME NEW u \in Users, NotifyOne(u) PROVE TypeOK'
  <2>1. row' \in [Users -> Row]
    BY <1>6 DEF TypeOK, NotifyOne, Row
  <2>2. told' \in [Users -> 0 .. 3]
    BY <1>6 DEF TypeOK, NotifyOne, Least
  <2> QED BY <1>6, <2>1, <2>2 DEF TypeOK, NotifyOne
<1>7. ASSUME NEW u \in Users, DeleteOne(u) PROVE TypeOK'
  BY <1>7, UntouchedRow DEF TypeOK, DeleteOne, history
<1>8. CASE CleanUp
  BY <1>8 DEF TypeOK, CleanUp, history
<1>9. CASE ListScheduled
  BY <1>9 DEF TypeOK, ListScheduled, history
<1>10. CASE ListDue
  BY <1>10 DEF TypeOK, ListDue, history
<1>11. CASE DeleteFails
  BY <1>11 DEF TypeOK, DeleteFails, history
<1>12. CASE Tick
  <2>1. row' \in [Users -> Row]
    BY <1>12, OlderRow DEF TypeOK, Tick
  <2>2. tokens' \subseteq Token
    BY <1>12, MinMax DEF TypeOK, Tick, Token, Least
  <2>3. asked' \in [Users -> 0 .. Delay]
    BY <1>12 DEF TypeOK, Tick, Least
  <2>4. moment' \in 0 .. HourLen - 1 /\ waiting' \subseteq Jobs
    BY <1>12 DEF TypeOK, Tick
  <2> QED BY <1>12, <2>1, <2>2, <2>3, <2>4 DEF TypeOK, Tick
<1>13. CASE UNCHANGED vars
  BY <1>13 DEF TypeOK, vars
<1> QED
  BY <1>1, <1>2, <1>3, <1>4, <1>5, <1>6, <1>7, <1>8, <1>9, <1>10, <1>11, <1>12, <1>13 DEF Next, JobStep

(* What an action does to another user, or to none, is nothing. *)
LEMMA Undisturbed ==
    ASSUME NEW u \in Users, UserInv(u),
           UNCHANGED <<row[u], changing[u], wish[u], asked[u]>>,
           u \in listed'["delete"] => u \in listed["delete"],
           u \in gone' => u \in gone
    PROVE  UserInv(u)'
BY DEF UserInv, Truthful, Ripe

LEMMA NextInv == IInv /\ [Next]_vars => IInv'
<1> SUFFICES ASSUME IInv, [Next]_vars PROVE IInv'
  OBVIOUS
<1>0. TypeOK /\ TypeOK'
  BY NextType DEF IInv
<1> SUFFICES ASSUME NEW v \in Users \ overtaken' PROVE UserInv(v)'
  BY <1>0 DEF IInv
<1> USE ConstantsAssumption
<1>1. ASSUME NEW u \in Users, RequestDeletion(u) PROVE UserInv(v)'
  BY <1>1, Undisturbed DEF RequestDeletion, history, IInv
<1>2. ASSUME NEW u \in Users, CancelDeletion(u) PROVE UserInv(v)'
  <2>1. CASE v = u
    BY <1>0, <1>2, <2>1, UntouchedRow DEF CancelDeletion, Held, HasRow, UserInv, Truthful, TypeOK
  <2>2. CASE v # u
    BY <1>0, <1>2, <2>2, Undisturbed DEF CancelDeletion, IInv, TypeOK
  <2> QED BY <2>1, <2>2
<1>3. ASSUME NEW u \in Users, NEW tk \in tokens, ConfirmDeletion(u, tk) PROVE UserInv(v)'
  <2>1. CASE v = u
    BY <1>0, <1>3, <2>1 DEF ConfirmDeletion, Held, HasRow, UserInv, Truthful, TypeOK, Row
  <2>2. CASE v # u
    BY <1>0, <1>3, <2>2, Undisturbed DEF ConfirmDeletion, IInv, TypeOK
  <2> QED BY <2>1, <2>2
<1>4. ASSUME NEW u \in Users, ReadForPassword(u) PROVE UserInv(v)'
  <2>0. UserInv(v)
    BY <1>4 DEF ReadForPassword, history, IInv
  <2> QED BY <1>0, <1>4, <2>0 DEF ReadForPassword, history, UserInv, Truthful, Ripe, TypeOK
<1>5. ASSUME NEW u \in Users, WritePassword(u) PROVE UserInv(v)'
  <2>0. UserInv(v)
    BY <1>5 DEF WritePassword, history, IInv
  <2>1. CASE v = u
    <3>1. PICK old \in changing[u] :
             /\ changing' = [changing EXCEPT ![u] = {}]
             /\ row'[u].left = row[u].left \/ row'[u].left = old.left
      BY <1>0, <1>5 DEF WritePassword, TypeOK
    <3>2. Truthful(u, row[u]) /\ Truthful(u, old)
      BY <2>0, <2>1, <3>1 DEF UserInv
    <3>3. Truthful(u, row[u])'
      BY <1>5, <3>1, <3>2 DEF Truthful, WritePassword, history
    <3> QED BY <1>0, <1>5, <2>0, <2>1, <3>1, <3>3 DEF WritePassword, history, UserInv, Ripe, TypeOK
  <2>2. CASE v # u
    BY <1>0, <1>5, <2>0, <2>2, Undisturbed DEF WritePassword, history, TypeOK
  <2> QED BY <2>1, <2>2
<1>6. ASSUME NEW u \in Users, NotifyOne(u) PROVE UserInv(v)'
  <2>0. UserInv(v)
    BY <1>6 DEF NotifyOne, IInv
  <2>1. row'[v].left = row[v].left
    BY <1>0, <1>6 DEF NotifyOne, TypeOK, Row
  <2> QED BY <1>0, <1>6, <2>0, <2>1 DEF NotifyOne, UserInv, Truthful, Ripe, TypeOK
<1>7. ASSUME NEW u \in Users, DeleteOne(u) PROVE UserInv(v)'
  <2>0. UserInv(v)
    BY <1>7 DEF DeleteOne, history, IInv
  <2>1. CASE v = u
    BY <1>0, <1>7, <2>0, <2>1, UntouchedRow DEF DeleteOne, history, UserInv, Truthful, Ripe, TypeOK
  <2>2. CASE v # u
    BY <1>0, <1>7, <2>0, <2>2, Undisturbed DEF DeleteOne, history, TypeOK
  <2> QED BY <2>1, <2>2
<1>8. CASE CleanUp
  BY <1>8, Undisturbed DEF CleanUp, history, IInv
<1>9. CASE ListScheduled
  BY <1>0, <1>9, Undisturbed DEF ListScheduled, history, IInv, TypeOK
<1>10. CASE ListDue
  <2>0. UserInv(v)
    BY <1>10 DEF ListDue, history, IInv
  <2>1. v \in listed'["delete"] => Ripe(v)
    BY <1>0, <1>10, <2>0 DEF ListDue, UserInv, Truthful, Ripe, TypeOK, Row
  <2> QED BY <1>0, <1>10, <2>0, <2>1 DEF ListDue, history, UserInv, Truthful, Ripe, TypeOK
<1>11. CASE DeleteFails
  BY <1>0, <1>11, Undisturbed DEF DeleteFails, history, IInv, TypeOK
<1>12. CASE Tick
  <2>0. UserInv(v)
    BY <1>12 DEF Tick, IInv
  <2>1. changing'[v] = {} /\ listed'["delete"] = {}
    BY <1>12 DEF Tick
  <2>2. asked[v] \in 0 .. Delay /\ asked'[v] = Least(asked[v] + 1, Delay)
    BY <1>0, <1>12 DEF Tick, TypeOK
  <2>3. asked'[v] = Delay \/ (asked[v] # Delay /\ asked'[v] = asked[v] + 1)
    BY <2>2 DEF Least
  <2>4. Truthful(v, row[v])'
    <3>1. row[v] \in Row /\ row'[v] = Older(row[v]) /\ wish'[v] = wish[v]
      BY <1>0, <1>12 DEF Tick, TypeOK
    <3>2. /\ row[v].left = NotScheduled => row'[v].left = NotScheduled
          /\ row[v].left # NotScheduled => row'[v].left >= row[v].left - 1
          /\ row[v].left \in Int /\ row'[v].left \in Int
      BY <3>1, OlderRow DEF Row
    <3> QED BY <2>0, <2>2, <2>3, <3>1, <3>2 DEF UserInv, Truthful
  <2>5. (v \in gone => Ripe(v))'
    BY <1>12, <2>0, <2>2, <2>3 DEF Tick, UserInv, Ripe
  <2> QED BY <2>1, <2>4, <2>5 DEF UserInv
<1>13. CASE UNCHANGED vars
  BY <1>13, Undisturbed DEF vars, IInv
<1> QED
  BY <1>1, <1>2, <1>3, <1>4, <1>5, <1>6, <1>7, <1>8, <1>9, <1>10, <1>11, <1>12, <1>13 DEF Next, JobStep

-----------------------------------------------------------------------------
(* Every variable keeps its type in every behaviour: no age and no date leaves *)
(* its range, whatever the jobs and the requests do to the columns.            *)
THEOREM TypeCorrect == Spec => []TypeOK
<1>1. Init => TypeOK
  BY InitInv DEF IInv
<1>2. TypeOK /\ [Next]_vars => TypeOK'
  BY NextType
<1> QED BY <1>1, <1>2, PTL DEF Spec

(* For any users and any length of an hour and a day, an account is deleted     *)
(* only if its user confirmed it three days before and has not cancelled since, *)
(* unless the row changed while somebody held an older copy of it.              *)
THEOREM NobodyDeletedUnasked == Spec => []DeletedAsAsked
<1>1. IInv => DeletedAsAsked
  BY DEF IInv, UserInv, Ripe, DeletedAsAsked, TypeOK
<1> QED BY <1>1, InitInv, NextInv, PTL DEF Spec

-----------------------------------------------------------------------------
(* The reminders come in time.  Of the moments since the confirmation and the   *)
(* moments to go until the next reminder at the latest, the sum does not grow,  *)
(* but for a day and an hour at each reminder: the first of them is sent before *)
(* two hours are over, and the third before two days and six hours.             *)

ReminderDue(u) == row[u].since >= Day
Elapsed(u) == Delay - row[u].left

(* The job starts at any moment of its hour, and what it lists is reminded *)
(* before the next moment.                                                 *)
UntilJob ==
    IF "notify" \in waiting THEN HourLen - 1 - moment ELSE 2 * HourLen - 1 - moment
UntilReminder(u) ==
    IF u \in listed["notify"] THEN 0
    ELSE IF ReminderDue(u) THEN UntilJob
    ELSE Day - row[u].since + 2 * HourLen - 2

(* When the reminder after k others is sent, at the latest. *)
Latest(k) ==
    IF k = 0 THEN 2 * HourLen - 1
    ELSE IF k = 1 THEN Day + 4 * HourLen - 3 ELSE 2 * Day + 6 * HourLen - 5

InTime(u) == wish[u] = "go" /\ told[u] # 3 => Elapsed(u) + UntilReminder(u) <= Latest(told[u])

WarnInv(u) ==
    /\ u \in listed["delete"] \union gone => told[u] = 3
    /\ u \notin gone =>
         /\ \A r \in changing[u] : r = row[u]
         /\ wish[u] = "stay" => row[u] = Untouched /\ u \notin listed["notify"]
         /\ wish[u] = "go" => row[u].left # NotScheduled
         /\ u \in listed["notify"] => ReminderDue(u)
         /\ InTime(u)

AllWarned == TypeOK /\ \A u \in Users \ overtaken : WarnInv(u)

LEMMA Times ==
    ASSUME TypeOK, NEW u \in Users
    PROVE  /\ row[u].left \in -MaxLate .. NotScheduled /\ row[u].since \in 0 .. NotReminded
           /\ UntilJob \in 0 .. 2 * HourLen - 1
           /\ Elapsed(u) \in Int
           /\ UntilReminder(u) \in Nat
BY ConstantsAssumption DEF TypeOK, Row, UntilJob, Elapsed, UntilReminder, ReminderDue

LEMMA WarnInit == Init => AllWarned
<1> SUFFICES ASSUME Init PROVE AllWarned
  OBVIOUS
<1>1. TypeOK
  BY InitInv DEF IInv
<1>2. \A u \in Users : WarnInv(u)
  BY DEF Init, WarnInv, InTime
<1> QED BY <1>1, <1>2 DEF AllWarned

(* A user whose row, wish and reminders stay is reminded in time, unless the *)
(* next reminder moves away.                                                 *)
LEMMA StaysInTime ==
    ASSUME TypeOK, TypeOK', NEW u \in Users, WarnInv(u),
           UNCHANGED <<row[u], wish[u], told[u]>>,
           u \in gone' <=> u \in gone,
           changing'[u] \subseteq changing[u] \union {row[u]},
           u \in listed'["delete"] => u \in listed["delete"],
           u \in listed'["notify"] /\ u \notin gone => wish[u] # "stay" /\ ReminderDue(u),
           wish[u] = "go" /\ u \notin gone => UntilReminder(u)' <= UntilReminder(u)
    PROVE  WarnInv(u)'
<1>1. Elapsed(u)' = Elapsed(u)
  BY DEF Elapsed
<1>2. u \notin gone => InTime(u)'
  <2>1. Elapsed(u) \in Int /\ UntilReminder(u) \in Nat
    BY Times
  <2>2. UntilReminder(u)' \in Int
    BY ConstantsAssumption DEF TypeOK, Row, UntilJob, UntilReminder, ReminderDue
  <2>3. Latest(told[u]) \in Int /\ Latest(told[u])' = Latest(told[u])
    BY ConstantsAssumption DEF Latest
  <2> QED BY <1>1, <2>1, <2>2, <2>3 DEF InTime, WarnInv
<1>3. ReminderDue(u)' = ReminderDue(u)
  BY DEF ReminderDue
<1> QED BY <1>2, <1>3 DEF WarnInv

(* The clock: who is not about to be reminded in this hour is so in the next, *)
(* and a moment that has passed is one less to wait.                          *)
LEMMA OneMomentLess ==
    ASSUME TypeOK, TypeOK', Tick, NEW u \in Users, row[u].left # NotScheduled
    PROVE  /\ row'[u].left # NotScheduled /\ Elapsed(u)' <= Elapsed(u) + 1
           /\ UntilReminder(u)' <= UntilReminder(u) - 1
<1> USE ConstantsAssumption
<1>1. row[u] \in Row /\ row'[u] = Older(row[u])
  BY DEF Tick, TypeOK
<1>2. /\ row[u].left \in -MaxLate .. Delay /\ row[u].since \in 0 .. NotReminded
      /\ row'[u].left = Most(row[u].left - 1, -MaxLate)
      /\ row'[u].since = IF row[u].since = NotReminded THEN NotReminded ELSE Least(row[u].since + 1, Day)
  BY <1>1 DEF Older, Row
<1>3. row'[u].left \in Int /\ row'[u].left # NotScheduled /\ row'[u].left >= row[u].left - 1
  BY <1>2 DEF Most
<1>4. /\ ReminderDue(u) => ReminderDue(u)'
      /\ ~ReminderDue(u) /\ ~ReminderDue(u)' => row'[u].since = row[u].since + 1
      /\ ~ReminderDue(u) => row[u].since <= Day - 1
  BY <1>2 DEF Least, ReminderDue
<1>5. u \notin listed["notify"] /\ u \notin listed'["notify"]
  BY DEF Tick
<1>6. moment \in 0 .. HourLen - 1 /\ moment' \in 0 .. HourLen - 1
  BY DEF TypeOK
<1>7. UntilJob' <= UntilJob - 1 /\ UntilJob' <= 2 * HourLen - 2
  <2>1. CASE moment + 1 = HourLen
    <3>1. moment' = 0 /\ "notify" \in waiting' /\ waiting = {}
      BY <2>1 DEF Tick
    <3> QED BY <2>1, <3>1, <1>6 DEF UntilJob
  <2>2. CASE moment + 1 # HourLen
    <3>1. moment' = moment + 1 /\ waiting' = waiting
      BY <2>2, <1>6 DEF Tick
    <3> QED BY <2>2, <3>1, <1>6 DEF UntilJob
  <2> QED BY <2>1, <2>2
<1>8. UntilJob' \in Int /\ UntilJob \in Int
  BY <1>6 DEF UntilJob
<1>9. row'[u].since \in Int
  BY <1>2 DEF Least
<1> QED
  <2>1. Elapsed(u)' <= Elapsed(u) + 1
    BY <1>2, <1>3 DEF Elapsed
  <2>2. /\ UntilReminder(u) = IF ReminderDue(u) THEN UntilJob ELSE Day - row[u].since + 2 * HourLen - 2
        /\ UntilReminder(u)' = IF ReminderDue(u)' THEN UntilJob' ELSE Day - row'[u].since + 2 * HourLen - 2
    BY <1>5 DEF UntilReminder
  <2>3. UntilReminder(u)' <= UntilReminder(u) - 1
    <3>1. row[u].since \in Int
      BY <1>2
    <3>2. CASE ReminderDue(u)
      BY <2>2, <3>2, <1>4, <1>7, <1>8
    <3>3. CASE ~ReminderDue(u) /\ ReminderDue(u)'
      BY <2>2, <3>1, <3>3, <1>4, <1>7, <1>8
    <3>4. CASE ~ReminderDue(u) /\ ~ReminderDue(u)'
      BY <2>2, <3>1, <3>4, <1>4
    <3> QED BY <3>2, <3>3, <3>4
  <2> QED BY <1>3, <2>1, <2>3

(* Who is reminded in time still is after a step that leaves the hour and the lists of the reminders. *)
LEMMA Unconcerned ==
    ASSUME TypeOK, TypeOK', NEW u \in Users, WarnInv(u),
           UNCHANGED <<row[u], wish[u], told[u], moment>>,
           u \in gone' <=> u \in gone,
           changing'[u] \subseteq changing[u] \union {row[u]},
           u \in listed'["delete"] => u \in listed["delete"],
           u \in listed'["notify"] <=> u \in listed["notify"],
           "notify" \in waiting' <=> "notify" \in waiting
    PROVE  WarnInv(u)'
<1>1. UntilReminder(u)' = UntilReminder(u)
  BY DEF UntilReminder, UntilJob, ReminderDue
<1>2. UntilReminder(u)' <= UntilReminder(u)
  BY <1>1, Times
<1> QED BY <1>2, StaysInTime DEF WarnInv

LEMMA WarnNext ==
    ASSUME Day >= 6 * HourLen - 5
    PROVE  AllWarned /\ [Next]_vars => AllWarned'
<1> SUFFICES ASSUME AllWarned, [Next]_vars PROVE AllWarned'
  OBVIOUS
<1>0. TypeOK /\ TypeOK'
  BY NextType DEF AllWarned
<1> SUFFICES ASSUME NEW v \in Users \ overtaken' PROVE WarnInv(v)'
  BY <1>0 DEF AllWarned
<1> USE ConstantsAssumption
<1>1. ASSUME NEW u \in Users, RequestDeletion(u) PROVE WarnInv(v)'
  BY <1>0, <1>1, Unconcerned DEF RequestDeletion, history, AllWarned
<1>2. ASSUME NEW u \in Users, CancelDeletion(u) PROVE WarnInv(v)'
  <2>1. CASE v = u
    <3>1. ~Held(v) /\ row'[v] = Untouched /\ wish'[v] = "stay"
      BY <1>0, <1>2, <2>1 DEF CancelDeletion, TypeOK
    <3>2. /\ changing'[v] = {} /\ v \notin listed'["notify"]
          /\ v \notin listed'["delete"] /\ v \notin gone'
      BY <1>2, <2>1, <3>1 DEF CancelDeletion, Held, HasRow
    <3> QED BY <3>1, <3>2 DEF WarnInv, InTime
  <2>2. CASE v # u
    BY <1>0, <1>2, <2>2, Unconcerned DEF CancelDeletion, AllWarned, TypeOK
  <2> QED BY <2>1, <2>2
<1>3. ASSUME NEW u \in Users, NEW tk \in tokens, ConfirmDeletion(u, tk) PROVE WarnInv(v)'
  <2>1. CASE v = u
    <3>1. WarnInv(v) /\ ~Held(v)
      BY <1>3, <2>1 DEF ConfirmDeletion, AllWarned
    <3>2. /\ changing'[v] = {} /\ v \notin listed'["notify"]
          /\ v \notin listed'["delete"] /\ v \notin gone /\ v \notin gone'
          /\ v \notin listed["notify"]
      BY <1>3, <2>1, <3>1 DEF ConfirmDeletion, Held, HasRow
    <3>3. /\ row'[v].left = Delay /\ row'[v].since = row[v].since
          /\ wish'[v] = "go" /\ told'[v] = IF wish[v] = "go" THEN told[v] ELSE 0
      BY <1>0, <1>3, <2>1 DEF ConfirmDeletion, TypeOK, Row
    <3>4. UntilReminder(v)' = UntilReminder(v) /\ Elapsed(v)' = 0
      BY <1>3, <3>2, <3>3 DEF ConfirmDeletion, UntilReminder, UntilJob, ReminderDue, Elapsed
    <3>5. CASE wish[v] = "go"
      <4>1. Elapsed(v) >= 0
        BY <1>0, <3>1, <3>2, <3>5, Times DEF WarnInv, Elapsed
      <4>2. Latest(told[v])' = Latest(told[v]) /\ Latest(told[v]) \in Int
        BY <3>3, <3>5 DEF Latest
      <4> QED BY <1>0, <3>1, <3>2, <3>3, <3>4, <3>5, <4>1, <4>2, Times DEF WarnInv, InTime
    <3>6. CASE wish[v] = "stay"
      <4>1. UntilReminder(v) = UntilJob
        BY <3>1, <3>2, <3>6 DEF WarnInv, UntilReminder, ReminderDue, Untouched
      <4>2. Latest(told[v])' = 2 * HourLen - 1
        BY <3>3, <3>6 DEF Latest
      <4>3. InTime(v)'
        BY <1>0, <3>4, <4>1, <4>2, Times DEF InTime
      <4> QED BY <3>2, <3>3, <4>3 DEF WarnInv
    <3> QED BY <1>0, <3>5, <3>6 DEF TypeOK
  <2>2. CASE v # u
    BY <1>0, <1>3, <2>2, Unconcerned DEF ConfirmDeletion, AllWarned, TypeOK
  <2> QED BY <2>1, <2>2
<1>4. ASSUME NEW u \in Users, ReadForPassword(u) PROVE WarnInv(v)'
  BY <1>0, <1>4, Unconcerned DEF ReadForPassword, history, AllWarned, TypeOK
<1>5. ASSUME NEW u \in Users, WritePassword(u) PROVE WarnInv(v)'
  <2>0. WarnInv(v)
    BY <1>5 DEF WritePassword, history, AllWarned
  <2>1. row'[v] = row[v]
    <3>1. CASE v = u /\ v \notin gone
      <4>1. PICK old \in changing[u] :
              row'[u] = [left |-> IF old.left = NotScheduled THEN row[u].left ELSE old.left,
                         since |-> IF old.since = NotReminded THEN row[u].since ELSE old.since]
        BY <1>0, <1>5, <3>1 DEF WritePassword, HasRow, TypeOK
      <4>2. old = row[u] /\ row[u] \in Row
        BY <1>0, <2>0, <3>1 DEF WarnInv, TypeOK
      <4>3. row'[u] = [left |-> row[u].left, since |-> row[u].since]
        BY <4>1, <4>2
      <4> QED BY <3>1, <4>2, <4>3 DEF Row
    <3>2. CASE ~(v = u /\ v \notin gone)
      BY <1>0, <1>5, <3>2 DEF WritePassword, HasRow, TypeOK
    <3> QED BY <3>1, <3>2
  <2> QED BY <1>0, <1>5, <2>0, <2>1, Unconcerned DEF WritePassword, history, TypeOK
<1>6. ASSUME NEW u \in Users, NotifyOne(u) PROVE WarnInv(v)'
  <2>0. WarnInv(v) /\ v \notin overtaken
    BY <1>6 DEF NotifyOne, AllWarned
  <2>1. CASE v = u /\ v \in gone
    <3>1. told[v] = 3 /\ told'[v] = 3
      BY <1>0, <1>6, <2>0, <2>1 DEF NotifyOne, TypeOK, WarnInv, Least
    <3> QED BY <1>6, <2>1, <3>1 DEF NotifyOne, WarnInv
  <2>2. CASE v = u /\ v \notin gone
    <3>1. /\ wish[v] = "go" /\ wish'[v] = "go"
          /\ v \in listed["notify"] /\ v \notin listed'["notify"]
          /\ changing'[v] = {} /\ v \notin listed'["delete"] /\ v \notin gone'
      BY <1>0, <1>6, <2>0, <2>2 DEF NotifyOne, TypeOK, WarnInv
    <3>2. /\ row'[v].left = row[v].left /\ row'[v].since = 0
          /\ told'[v] = Least(told[v] + 1, 3) /\ told[v] \in 0 .. 3
      BY <1>0, <1>6, <2>0, <2>2 DEF NotifyOne, HasRow, TypeOK, Row
    <3>3. /\ Elapsed(v)' = Elapsed(v) /\ UntilReminder(v) = 0
          /\ UntilReminder(v)' = Day + 2 * HourLen - 2
      BY <3>1, <3>2 DEF Elapsed, UntilReminder, ReminderDue
    <3>4. told'[v] # 3 => told[v] # 3 /\ Latest(told[v])' = Latest(told[v]) + Day + 2 * HourLen - 2
      BY <3>2 DEF Latest, Least
    <3>5. Latest(told[v]) \in Int
      BY DEF Latest
    <3>6. InTime(v)'
      BY <1>0, <2>0, <3>1, <3>3, <3>4, <3>5, Times DEF WarnInv, InTime
    <3>7. row'[v].left # NotScheduled
      BY <2>0, <2>2, <3>1, <3>2 DEF WarnInv
    <3> QED BY <3>1, <3>6, <3>7 DEF WarnInv
  <2>3. CASE v # u
    BY <1>0, <1>6, <2>0, <2>3, Unconcerned DEF NotifyOne, TypeOK
  <2> QED BY <2>1, <2>2, <2>3
<1>7. ASSUME NEW u \in Users, DeleteOne(u) PROVE WarnInv(v)'
  <2>0. WarnInv(v)
    BY <1>7 DEF DeleteOne, history, AllWarned
  <2>1. CASE v = u
    BY <1>7, <2>0, <2>1 DEF DeleteOne, history, WarnInv
  <2>2. CASE v # u
    BY <1>0, <1>7, <2>0, <2>2, Unconcerned DEF DeleteOne, history, TypeOK
  <2> QED BY <2>1, <2>2
<1>8. CASE CleanUp
  BY <1>0, <1>8, Unconcerned DEF CleanUp, history, AllWarned
<1>9. CASE ListScheduled
  <2>0. WarnInv(v)
    BY <1>9 DEF ListScheduled, history, AllWarned
  <2>1. UNCHANGED <<row[v], wish[v], told[v], changing[v], gone, moment>>
    BY <1>9 DEF ListScheduled, history
  <2>2. /\ v \in listed'["notify"] <=> v \notin gone /\ row[v].left # NotScheduled /\ ReminderDue(v)
        /\ listed'["delete"] = listed["delete"]
    BY <1>0, <1>9 DEF ListScheduled, TypeOK, ReminderDue
  <2>3. v \in listed'["notify"] /\ v \notin gone => wish[v] # "stay" /\ ReminderDue(v)
    BY <2>0, <2>2 DEF WarnInv, Untouched
  <2>4. wish[v] = "go" /\ v \notin gone => UntilReminder(v)' <= UntilReminder(v)
    <3>1. UntilReminder(v) \in Nat
      BY <1>0, Times
    <3>2. ReminderDue(v)' = ReminderDue(v)
      BY <2>1 DEF ReminderDue
    <3>4. wish[v] = "go" /\ v \notin gone /\ ReminderDue(v) => v \in listed'["notify"]
      BY <2>0, <2>2 DEF WarnInv
    <3>5. ~ReminderDue(v) /\ v \notin listed["notify"] => UntilReminder(v)' = UntilReminder(v)
      BY <2>1, <2>2, <3>2 DEF UntilReminder
    <3>6. v \in listed'["notify"] => UntilReminder(v)' = 0
      BY DEF UntilReminder
    <3>7. v \in listed["notify"] => UntilReminder(v) = 0
      BY DEF UntilReminder
    <3>8. CASE v \in listed["notify"] /\ v \notin listed'["notify"]
      BY <2>0, <2>2, <3>8 DEF WarnInv
    <3> QED BY <3>1, <3>4, <3>5, <3>6, <3>8
  <2> QED BY <1>0, <2>0, <2>1, <2>2, <2>3, <2>4, StaysInTime
<1>10. CASE ListDue
  <2>0. WarnInv(v)
    BY <1>10 DEF ListDue, history, AllWarned
  <2>1. CASE v \in listed'["delete"]
    <3>1. v \notin gone /\ row[v].left < 0
      BY <1>0, <1>10, <2>1 DEF ListDue, TypeOK
    <3>2. wish[v] = "go"
      BY <1>0, <2>0, <3>1 DEF WarnInv, Untouched, TypeOK
    <3>3. told[v] \in 0 .. 3 /\ (told[v] # 3 => Latest(told[v]) <= Delay)
      BY <1>0 DEF Latest, TypeOK
    <3>4. Latest(told[v]) \in Int
      BY DEF Latest
    <3>5. told[v] = 3
      BY <1>0, <2>0, <3>1, <3>2, <3>3, <3>4, Times DEF WarnInv, InTime, Elapsed
    <3> QED BY <1>0, <1>10, <2>0, <3>5 DEF ListDue, history, TypeOK, WarnInv, InTime, ReminderDue
  <2>2. CASE v \notin listed'["delete"]
    BY <1>0, <1>10, <2>0, <2>2, Unconcerned DEF ListDue, history, TypeOK
  <2> QED BY <2>1, <2>2
<1>11. CASE DeleteFails
  BY <1>0, <1>11, Unconcerned DEF DeleteFails, history, AllWarned, TypeOK
<1>12. CASE Tick
  <2>0. WarnInv(v)
    BY <1>12 DEF Tick, AllWarned
  <2>1. /\ UNCHANGED <<wish[v], told[v], gone>> /\ row'[v] = Older(row[v])
        /\ changing'[v] = {} /\ v \notin listed'["delete"] /\ v \notin listed'["notify"]
    BY <1>0, <1>12 DEF Tick, TypeOK
  <2>2. Older(Untouched) = Untouched
    BY DEF Older, Untouched
  <2>3. CASE v \in gone
    BY <2>0, <2>1, <2>3 DEF WarnInv
  <2>4. CASE v \notin gone /\ wish[v] = "stay"
    BY <2>0, <2>1, <2>2, <2>4 DEF WarnInv, InTime
  <2>5. CASE v \notin gone /\ wish[v] = "go"
    <3>1. row[v].left # NotScheduled /\ InTime(v)
      BY <2>0, <2>5 DEF WarnInv
    <3>2. /\ row'[v].left # NotScheduled /\ Elapsed(v)' <= Elapsed(v) + 1
          /\ UntilReminder(v)' <= UntilReminder(v) - 1
      BY <1>0, <1>12, <3>1, OneMomentLess
    <3>3. Elapsed(v)' \in Int /\ UntilReminder(v)' \in Int
      BY <1>0 DEF TypeOK, Row, UntilJob, Elapsed, UntilReminder, ReminderDue
    <3>4. Latest(told[v])' = Latest(told[v]) /\ Latest(told[v]) \in Int
      BY <2>1 DEF Latest
    <3>5. InTime(v)'
      BY <1>0, <2>1, <3>1, <3>2, <3>3, <3>4, Times DEF InTime
    <3> QED BY <2>1, <2>5, <3>2, <3>5 DEF WarnInv
  <2> QED BY <1>0, <2>3, <2>4, <2>5 DEF TypeOK
<1>13. CASE UNCHANGED vars
  BY <1>0, <1>13, Unconcerned DEF vars, AllWarned
<1> QED
  BY <1>1, <1>2, <1>3, <1>4, <1>5, <1>6, <1>7, <1>8, <1>9, <1>10, <1>11, <1>12, <1>13 DEF Next, JobStep

(* For any users, and whatever an hour and a day last as long as a day has six  *)
(* hours: nobody is deleted without the three reminders, unless the row changed *)
(* while somebody held an older copy of it.  The jobs start at any moment of    *)
(* their hour and may put a reminder off by almost two hours; the third still   *)
(* comes before the date, as two days and six hours are less than three days.   *)
THEOREM NobodyDeletedUnwarned ==
    ASSUME Day >= 6 * HourLen - 5
    PROVE  Spec => []WarnedThrice
<1>1. AllWarned => WarnedThrice
  BY DEF AllWarned, WarnInv, WarnedThrice, TypeOK
<1>2. AllWarned /\ [Next]_vars => AllWarned'
  BY WarnNext
<1> QED BY <1>1, <1>2, WarnInit, PTL DEF Spec

-----------------------------------------------------------------------------
(* Logins: what is known besides of the requests on their way and what they   *)
(* remember.                                                                  *)

HIDE DEF Scheduled, Reminded, Delay, NotScheduled, NotReminded, Jobs, Loops

(* No one counts failed passwords beside another: the counter stands at the *)
(* limit only while somebody is about to start it anew.                     *)
CountsAlone ==
    ~disturbed =>
        /\ pwFails <= WarnAt
        /\ pwFails = WarnAt => \E a \in Requests : req[a].pc \in Counting

(* What a request remembers: a secret it has seen a code of, and a row that *)
(* it read after the address was confirmed.                                 *)
Remembers ==
    \A a \in Requests :
        /\ At(a, "enableSecret") => req[a].code \in proven
        /\ At(a, "readRow") => Confirmed
        /\ At(a, "writeRow") => req[a].seen # "EmailConfirmationRequired"

LoginsInv == LoginsTypeOK /\ LockedAtLimit /\ CountsAlone /\ EnabledAsProven /\ Remembers

-----------------------------------------------------------------------------
LEMMA LoginsInitInv == LoginsInit => LoginsInv
<1> SUFFICES ASSUME LoginsInit PROVE LoginsInv
  OBVIOUS
<1>1. LoginsTypeOK
  <2>1. Idle \in Request
    BY LimitsAssumption DEF Idle, Request, Codes, NoCode, Steps, Statuses
  <2>2. totp \in Seq([secret : 1..MaxSecrets, enabled : BOOLEAN])
    BY DEF LoginsInit
  <2>3. req \in [Requests -> Request]
    BY <2>1 DEF LoginsInit
  <2>4. /\ nextSecret \in 1..(MaxSecrets + 1) /\ pwFails \in 0..MaxPwFails
        /\ totpFails \in 0..MaxTOTPFails
    BY LimitsAssumption DEF LoginsInit
  <2> QED BY <2>2, <2>3, <2>4 DEF LoginsInit, LoginsTypeOK
<1>2. LockedAtLimit /\ CountsAlone
  BY LimitsAssumption DEF LoginsInit, LockedAtLimit, CountsAlone
<1>3. EnabledAsProven /\ Remembers
  BY DEF LoginsInit, EnabledAsProven, Remembers, At, Idle
<1> QED BY <1>1, <1>2, <1>3 DEF LoginsInv

(* Moving on, and ending, keep the requests what they are. *)
LEMMA GoType ==
    ASSUME LoginsTypeOK, NEW a \in Requests, NEW pc \in Steps, Go(a, pc)
    PROVE  req' \in [Requests -> Request]
BY DEF LoginsTypeOK, Go, Request

LEMMA EndType ==
    ASSUME LoginsTypeOK, NEW a \in Requests, End(a)
    PROVE  req' \in [Requests -> Request]
BY LimitsAssumption DEF LoginsTypeOK, End, Request, Idle, Steps, Statuses, Codes, NoCode

LEMMA GoTo ==
    ASSUME LoginsTypeOK, NEW a \in Requests, NEW pc \in Steps, Go(a, pc)
    PROVE  req'[a].pc = pc /\ req'[a].code = req[a].code /\ req'[a].seen = req[a].seen
<1>1. req[a] \in Request
  BY DEF LoginsTypeOK
<1>2. req'[a] = [req[a] EXCEPT !.pc = pc]
  BY DEF LoginsTypeOK, Go
<1> QED BY <1>1, <1>2 DEF Request

LEMMA BeginType ==
    ASSUME LoginsTypeOK, NEW a \in Requests, Begin(a)
    PROVE  LoginsTypeOK'
<1>1. ASSUME NEW pc \in Steps, Start(a, pc), UNCHANGED <<account, counters>>
      PROVE LoginsTypeOK'
  BY <1>1, GoType DEF LoginsTypeOK, Start, account, counters
<1>2. ASSUME NEW code \in Codes, Login(a, code) PROVE LoginsTypeOK'
  BY <1>2 DEF LoginsTypeOK, Login, Request, Steps, Statuses, account, counters
<1>3. ASSUME NEW code \in Codes, EnableTOTP(a, code) PROVE LoginsTypeOK'
  <2>1. code \in 1..MaxSecrets
    <3>1. totp[1] \in [secret : 1..MaxSecrets, enabled : BOOLEAN]
      <4>1. totp # <<>> /\ totp \in Seq([secret : 1..MaxSecrets, enabled : BOOLEAN])
        BY <1>3 DEF EnableTOTP, LoginsTypeOK, Enrolled
      <4>2. Len(totp) \in Nat \ {0}
        BY <4>1, EmptySeq
      <4>3. 1 \in 1..Len(totp)
        BY <4>2
      <4> QED BY <4>1, <4>3, ElementOfSeq
    <3> QED BY <1>3, <3>1 DEF EnableTOTP
  <2>2. req' \in [Requests -> Request]
    BY <1>3 DEF EnableTOTP, LoginsTypeOK, Request, Steps, Statuses
  <2> QED BY <1>3, <2>1, <2>2 DEF LoginsTypeOK, EnableTOTP, counters
<1> QED
  BY <1>1, <1>2, <1>3
     DEF Begin, WrongPassword, ChangePassword, FindToken, EnrollTOTP, DisableTOTP, Steps

LEMMA ContinueType ==
    ASSUME LoginsTypeOK, NEW a \in Requests, Continue(a)
    PROVE  LoginsTypeOK'
<1> USE LimitsAssumption
<1>0. ASSUME req' \in [Requests -> Request], UNCHANGED <<account, counters>>
      PROVE LoginsTypeOK'
  BY <1>0 DEF LoginsTypeOK, account, counters
<1>1. CASE CountPassword(a)
  <2>1. req' \in [Requests -> Request]
    BY <1>1, GoType DEF CountPassword, Steps
  <2> QED BY <1>1, <2>1 DEF CountPassword, LoginsTypeOK, account
<1>2. CASE ReadPassword(a)
  <2>1. req' \in [Requests -> Request]
    BY <1>2, GoType, EndType DEF ReadPassword, Steps
  <2> QED BY <1>2, <2>1 DEF ReadPassword, LoginsTypeOK, account
<1>3. CASE ForgetWarned(a)
  <2>1. req' \in [Requests -> Request]
    BY <1>3, EndType DEF ForgetWarned
  <2>2. pwFails' \in 0..MaxPwFails
    BY <1>3 DEF ForgetWarned
  <2>3. disturbed' \in BOOLEAN
    BY <1>3, Zenon DEF ForgetWarned
  <2> QED BY <1>3, <2>1, <2>2, <2>3 DEF ForgetWarned, LoginsTypeOK, account
<1>4. CASE AskTOTP(a)
  BY <1>0, <1>4, GoType, EndType DEF AskTOTP, Steps
<1>5. CASE CheckTOTP(a)
  BY <1>0, <1>5, GoType, EndType DEF CheckTOTP, Steps
<1>6. CASE CountTOTP(a)
  <2>1. req' \in [Requests -> Request]
    BY <1>6, GoType DEF CountTOTP, Steps
  <2> QED BY <1>6, <2>1 DEF CountTOTP, LoginsTypeOK, account
<1>7. CASE ReadTOTP(a)
  BY <1>0, <1>7, GoType, EndType DEF ReadTOTP, Steps
<1>8. CASE SendToken(a)
  <2>1. req' \in [Requests -> Request]
    BY <1>8, GoType, EndType DEF SendToken, Steps
  <2> QED BY <1>8, <2>1 DEF SendToken, LoginsTypeOK
<1>9. CASE Disable(a)
  <2>1. req' \in [Requests -> Request]
    BY <1>9, EndType DEF Disable
  <2> QED BY <1>9, <2>1 DEF Disable, LoginsTypeOK, Statuses
<1>10. CASE ForgetTOTP(a)
  <2>1. req' \in [Requests -> Request]
    BY <1>10, GoType DEF ForgetTOTP, Steps
  <2> QED BY <1>10, <2>1 DEF ForgetTOTP, LoginsTypeOK, account
<1>11. CASE ForgetPassword(a)
  <2>1. req' \in [Requests -> Request]
    BY <1>11, EndType DEF ForgetPassword
  <2>2. pwFails' \in 0..MaxPwFails
    BY <1>11 DEF ForgetPassword
  <2>3. disturbed' \in BOOLEAN
    BY <1>11, Zenon DEF ForgetPassword
  <2> QED BY <1>11, <2>1, <2>2, <2>3 DEF ForgetPassword, LoginsTypeOK, account
<1>12. CASE ReadRow(a)
  <2>1. req' \in [Requests -> Request]
    BY <1>12 DEF ReadRow, LoginsTypeOK, Request, Steps, Codes, NoCode
  <2> QED BY <1>0, <1>12, <2>1 DEF ReadRow
<1>13. CASE WriteRow(a)
  <2>1. status' \in Statuses
    BY <1>13 DEF WriteRow, LoginsTypeOK, Request
  <2> QED BY <1>13, <2>1, EndType DEF WriteRow, LoginsTypeOK, counters
<1>14. CASE ResetPassword(a)
  BY <1>14, EndType DEF ResetPassword, LoginsTypeOK, Statuses
<1>15. CASE InsertSecret(a)
  <2>1. totp' \in Seq([secret : 1..MaxSecrets, enabled : BOOLEAN])
    BY <1>15 DEF InsertSecret, LoginsTypeOK
  <2> QED BY <1>15, <2>1, EndType DEF InsertSecret, LoginsTypeOK, counters
<1>16. CASE EnableSecret(a)
  <2> DEFINE R == [secret : 1..MaxSecrets, enabled : BOOLEAN]
  <2>1. totp \in Seq(R) /\ DOMAIN totp = 1..Len(totp) /\ Len(totp) \in Nat
    BY DEF LoginsTypeOK
  <2>2. \A i \in 1..Len(totp) : totp[i] \in R
    BY <2>1, ElementOfSeq
  <2>3. \A i \in 1..Len(totp) :
          [totp[i] EXCEPT !.enabled = @ \/ totp[i].secret = req[a].code] \in R
    BY <2>2, Zenon
  <2>4. totp' \in [1..Len(totp) -> R]
    BY <1>16, <2>1, <2>3, Zenon DEF EnableSecret
  <2>5. totp' \in Seq(R)
    BY <2>1, <2>4, IsASeq
  <2> QED BY <1>16, <2>5, EndType DEF EnableSecret, LoginsTypeOK, counters
<1>17. CASE DeleteSecrets(a)
  BY <1>17, EndType DEF DeleteSecrets, LoginsTypeOK, counters
<1> QED
  BY <1>1, <1>2, <1>3, <1>4, <1>5, <1>6, <1>7, <1>8, <1>9, <1>10, <1>11, <1>12,
     <1>13, <1>14, <1>15, <1>16, <1>17 DEF Continue

LEMMA LoginsNextType == LoginsTypeOK /\ [LoginsNext]_loginVars => LoginsTypeOK'
<1> SUFFICES ASSUME LoginsTypeOK, [LoginsNext]_loginVars PROVE LoginsTypeOK'
  OBVIOUS
<1>1. ASSUME NEW a \in Requests, Begin(a) \/ Continue(a) PROVE LoginsTypeOK'
  BY <1>1, BeginType, ContinueType
<1>2. CASE RequestToken
  BY <1>2 DEF RequestToken, LoginsTypeOK, counters
<1>3. CASE CleanUpTokens
  BY <1>3 DEF CleanUpTokens, LoginsTypeOK, counters
<1>4. CASE Restart
  <2>1. Idle \in Request
    BY LimitsAssumption DEF Idle, Request, Codes, NoCode, Steps, Statuses
  <2>2. req' \in [Requests -> Request]
    BY <1>4, <2>1 DEF Restart
  <2>3. pwFails' \in 0..MaxPwFails /\ totpFails' \in 0..MaxTOTPFails
    BY <1>4, LimitsAssumption DEF Restart
  <2> QED BY <1>4, <2>2, <2>3 DEF Restart, LoginsTypeOK, account
<1>5. CASE UNCHANGED loginVars
  BY <1>5 DEF LoginsTypeOK, loginVars
<1> QED BY <1>1, <1>2, <1>3, <1>4, <1>5 DEF LoginsNext

-----------------------------------------------------------------------------
(* What a request begins disturbs nothing: it only remembers what is so.    *)
LEMMA BeginKeeps ==
    ASSUME LoginsInv, NEW a \in Requests, Begin(a)
    PROVE  LockedAtLimit' /\ CountsAlone' /\ EnabledAsProven' /\ Remembers'
<1> USE DEF LoginsInv
<1>1. /\ At(a, "idle") /\ \A b \in Requests \ {a} : req'[b] = req[b]
      /\ UNCHANGED <<status, totp, counters>>
  BY DEF LoginsTypeOK, Begin, Start, Go, At, Login, EnableTOTP, WrongPassword, ChangePassword,
         FindToken, EnrollTOTP, DisableTOTP, account
<1>2. proven \subseteq proven'
  BY DEF Begin, Login, EnableTOTP, WrongPassword, ChangePassword, FindToken,
         EnrollTOTP, DisableTOTP, account
<1>3. LockedAtLimit'
  BY <1>1 DEF LockedAtLimit, At, counters
<1>4. CountsAlone'
  BY <1>1 DEF CountsAlone, At, Counting, counters
<1>5. EnabledAsProven'
  BY <1>1, <1>2 DEF EnabledAsProven
<1>6. Remembers'
  <2>1. ASSUME NEW b \in Requests, b # a
        PROVE  /\ At(b, "enableSecret")' => req'[b].code \in proven'
               /\ At(b, "readRow")' => Confirmed'
               /\ At(b, "writeRow")' => req'[b].seen # "EmailConfirmationRequired"
    BY <1>1, <1>2, <2>1 DEF Remembers, At, Confirmed
  <2>5. ASSUME NEW code \in Codes, Login(a, code)
        PROVE  req'[a].pc = "askTOTP"
    BY <2>5 DEF Login, LoginsTypeOK
  <2>6. ASSUME NEW code \in Codes, EnableTOTP(a, code)
        PROVE  req'[a].pc = "enableSecret" /\ req'[a].code \in proven'
    BY <2>6 DEF EnableTOTP, LoginsTypeOK
  <2>7. ASSUME NEW pc \in Steps, Start(a, pc)
        PROVE  req'[a].pc = pc
    BY <2>7, GoTo DEF Start
  <2>2. At(a, "enableSecret")' => req'[a].code \in proven'
    BY <2>5, <2>6, <2>7
       DEF At, Begin, WrongPassword, ChangePassword, FindToken, EnrollTOTP, DisableTOTP,
           Steps
  <2>3. At(a, "readRow")' => Confirmed'
    BY <1>1, <2>5, <2>6, <2>7
       DEF At, Begin, WrongPassword, ChangePassword, FindToken, EnrollTOTP, DisableTOTP,
           Steps, Confirmed
  <2>4. ~At(a, "writeRow")'
    BY <2>5, <2>6, <2>7
       DEF At, Begin, WrongPassword, ChangePassword, FindToken, EnrollTOTP, DisableTOTP,
           Steps
  <2> QED BY <2>1, <2>2, <2>3, <2>4 DEF Remembers
<1> QED BY <1>3, <1>4, <1>5, <1>6

(* A step of a request leaves the others where they are. *)
LEMMA ContinueOne ==
    ASSUME LoginsTypeOK, NEW a \in Requests, Continue(a)
    PROVE  \A b \in Requests \ {a} : req'[b] = req[b]
BY DEF LoginsTypeOK, Continue, Go, End, CountPassword, ReadPassword, ForgetWarned, AskTOTP,
       CheckTOTP, CountTOTP, ReadTOTP, SendToken, Disable, ForgetTOTP, ForgetPassword,
       ReadRow, WriteRow, ResetPassword, InsertSecret, EnableSecret, DeleteSecrets

LEMMA ContinueLocks ==
    ASSUME LoginsInv, NEW a \in Requests, Continue(a)
    PROVE  LockedAtLimit'
<1> USE LimitsAssumption DEF LoginsInv
<1> DEFINE Locking(b) == req[b].pc \in {"readTOTP", "sendToken", "disable"}
<1>1. \A b \in Requests \ {a} : req'[b] = req[b]
  BY ContinueOne
<1>2. \A b \in Requests : b # a /\ Locking(b) => Locking(b)'
  BY <1>1
<1>0. ASSUME ~Locking(a), totpFails' = totpFails, status' = status, excused' = excused
      PROVE LockedAtLimit'
  BY <1>0, <1>2 DEF LockedAtLimit
<1>3. CASE CountTOTP(a)
  BY <1>3 DEF CountTOTP, Go, LockedAtLimit, LoginsTypeOK
<1>4. CASE ReadTOTP(a)
  <2>1. CASE totpFails < LockAt
    BY <1>4, <2>1 DEF ReadTOTP, LockedAtLimit, LoginsTypeOK, counters
  <2>2. CASE ~(totpFails < LockAt)
    BY <1>4, <2>2, GoTo DEF ReadTOTP, LockedAtLimit, Steps, LoginsTypeOK
  <2> QED BY <2>1, <2>2
<1>5. CASE SendToken(a)
  BY <1>5, GoTo DEF SendToken, LockedAtLimit, Steps, LoginsTypeOK
<1>6. CASE Disable(a)
  BY <1>6 DEF Disable, LockedAtLimit, LoginsTypeOK
<1>7. CASE ForgetTOTP(a)
  BY <1>7 DEF ForgetTOTP, LockedAtLimit, LoginsTypeOK
<1>8. CASE WriteRow(a)
  <2>1. req[a].seen # "EmailConfirmationRequired" /\ req[a].seen \in Statuses
    BY <1>8 DEF WriteRow, Remembers, LoginsTypeOK, Request
  <2>2. status' = status \/ status' = "Disabled"
    BY <1>8, <2>1 DEF WriteRow, Statuses
  <2> QED BY <1>0, <1>8, <2>2 DEF WriteRow, At, counters, LockedAtLimit
<1>9. CASE ResetPassword(a)
  BY <1>9 DEF ResetPassword, LockedAtLimit
<1>10. CASE CountPassword(a)
  BY <1>0, <1>10 DEF CountPassword, At, account
<1>11. CASE ReadPassword(a)
  BY <1>0, <1>11 DEF ReadPassword, At, account
<1>12. CASE ForgetWarned(a)
  BY <1>0, <1>12 DEF ForgetWarned, At, account
<1>13. CASE AskTOTP(a) \/ CheckTOTP(a)
  BY <1>0, <1>13 DEF AskTOTP, CheckTOTP, At, account, counters
<1>14. CASE ForgetPassword(a)
  BY <1>0, <1>14 DEF ForgetPassword, At, account
<1>15. CASE ReadRow(a)
  BY <1>0, <1>15 DEF ReadRow, At, account, counters
<1>16. CASE InsertSecret(a) \/ EnableSecret(a) \/ DeleteSecrets(a)
  BY <1>0, <1>16 DEF InsertSecret, EnableSecret, DeleteSecrets, At, counters
<1> QED
  BY <1>3, <1>4, <1>5, <1>6, <1>7, <1>8, <1>9, <1>10, <1>11, <1>12, <1>13, <1>14,
     <1>15, <1>16 DEF Continue

LEMMA ContinueCounts ==
    ASSUME LoginsInv, NEW a \in Requests, Continue(a)
    PROVE  CountsAlone'
<1> USE LimitsAssumption DEF LoginsInv
<1>1. \A b \in Requests \ {a} : req'[b] = req[b]
  BY ContinueOne
<1>0. ASSUME req[a].pc \notin Counting, pwFails' = pwFails, disturbed' = disturbed
      PROVE CountsAlone'
  BY <1>0, <1>1 DEF CountsAlone
<1>2. CASE CountPassword(a)
  <2>1. req'[a].pc \in Counting
    BY <1>2, GoTo DEF CountPassword, Counting, Steps
  <2>2. ~disturbed' => pwFails < WarnAt /\ pwFails' = pwFails + 1
    <3>1. ~disturbed' => ~disturbed /\ \A b \in Requests : req[b].pc \notin Counting
      BY <1>2, Zenon DEF CountPassword
    <3>2. ~disturbed' => pwFails <= WarnAt /\ pwFails # WarnAt
      BY <3>1 DEF CountsAlone
    <3> QED BY <1>2, <3>2 DEF CountPassword, LoginsTypeOK
  <2> QED BY <2>1, <2>2 DEF CountsAlone, LoginsTypeOK
<1>3. CASE ReadPassword(a)
  <2>1. CASE pwFails = WarnAt /\ Go(a, "forgetWarned")
    BY <1>3, <2>1 DEF ReadPassword, Go, CountsAlone, Counting, LoginsTypeOK
  <2>2. CASE disturbed' = TRUE
    BY <2>2 DEF CountsAlone
  <2>3. CASE pwFails # WarnAt /\ UNCHANGED <<pwFails, disturbed>>
    BY <2>3 DEF CountsAlone
  <2> QED BY <1>3, <2>1, <2>2, <2>3 DEF ReadPassword
<1>4. CASE ForgetWarned(a) \/ ForgetPassword(a)
  BY <1>4 DEF ForgetWarned, ForgetPassword, CountsAlone
<1>5. CASE AskTOTP(a) \/ CheckTOTP(a) \/ ReadTOTP(a) \/ ReadRow(a)
  BY <1>0, <1>5 DEF AskTOTP, CheckTOTP, ReadTOTP, ReadRow, At, Counting, counters
<1>6. CASE CountTOTP(a) \/ ForgetTOTP(a)
  BY <1>0, <1>6 DEF CountTOTP, ForgetTOTP, At, Counting
<1>7. CASE SendToken(a) \/ Disable(a) \/ ResetPassword(a)
  BY <1>0, <1>7 DEF SendToken, Disable, ResetPassword, At, Counting
<1>8. CASE WriteRow(a) \/ InsertSecret(a) \/ EnableSecret(a) \/ DeleteSecrets(a)
  BY <1>0, <1>8 DEF WriteRow, InsertSecret, EnableSecret, DeleteSecrets, At, Counting,
                    counters
<1> QED
  BY <1>2, <1>3, <1>4, <1>5, <1>6, <1>7, <1>8 DEF Continue

LEMMA ContinueProves ==
    ASSUME LoginsInv, NEW a \in Requests, Continue(a)
    PROVE  EnabledAsProven'
<1> USE DEF LoginsInv
<1>0. ASSUME UNCHANGED <<totp, proven>> PROVE EnabledAsProven'
  BY <1>0 DEF EnabledAsProven
<1>1. CASE InsertSecret(a)
  <2>1. /\ totp \in Seq([secret : 1..MaxSecrets, enabled : BOOLEAN])
        /\ totp' = Append(totp, [secret |-> nextSecret, enabled |-> FALSE])
        /\ proven' = proven
    BY <1>1 DEF InsertSecret, LoginsTypeOK
  <2>2. ASSUME NEW i \in DOMAIN totp', totp'[i].enabled
        PROVE  i \in DOMAIN totp /\ totp'[i] = totp[i]
    BY <2>1, <2>2
  <2> QED BY <2>1, <2>2 DEF EnabledAsProven
<1>2. CASE EnableSecret(a)
  <2>1. DOMAIN totp' = DOMAIN totp /\ proven' = proven /\ req[a].code \in proven
    BY <1>2 DEF EnableSecret, Remembers
  <2>2. ASSUME NEW i \in DOMAIN totp
        PROVE  /\ totp'[i].secret = totp[i].secret
               /\ totp'[i].enabled => totp[i].enabled \/ totp[i].secret = req[a].code
    <3>1. totp[i] \in [secret : 1..MaxSecrets, enabled : BOOLEAN]
      <4>1. totp \in Seq([secret : 1..MaxSecrets, enabled : BOOLEAN])
        BY DEF LoginsTypeOK
      <4>2. i \in 1..Len(totp)
        BY <2>2, <4>1
      <4> QED BY <4>1, <4>2, ElementOfSeq
    <3>2. totp'[i] = [totp[i] EXCEPT !.enabled = @ \/ totp[i].secret = req[a].code]
      BY <1>2, <2>2, Zenon DEF EnableSecret
    <3> QED BY <3>1, <3>2
  <2> QED BY <2>1, <2>2 DEF EnabledAsProven
<1>3. CASE DeleteSecrets(a)
  BY <1>3 DEF DeleteSecrets, EnabledAsProven
<1>4. CASE CountPassword(a) \/ ReadPassword(a) \/ ForgetWarned(a)
  BY <1>0, <1>4 DEF CountPassword, ReadPassword, ForgetWarned, account
<1>5. CASE AskTOTP(a) \/ CheckTOTP(a) \/ CountTOTP(a) \/ ReadTOTP(a)
  BY <1>0, <1>5 DEF AskTOTP, CheckTOTP, CountTOTP, ReadTOTP, account
<1>6. CASE SendToken(a) \/ Disable(a) \/ ResetPassword(a) \/ WriteRow(a)
  BY <1>0, <1>6 DEF SendToken, Disable, ResetPassword, WriteRow
<1>7. CASE ForgetTOTP(a) \/ ForgetPassword(a) \/ ReadRow(a)
  BY <1>0, <1>7 DEF ForgetTOTP, ForgetPassword, ReadRow, account
<1> QED BY <1>1, <1>2, <1>3, <1>4, <1>5, <1>6, <1>7 DEF Continue

(* A status is only ever written that no request reads before the           *)
(* confirmation.                                                            *)
LEMMA ContinueConfirmed ==
    ASSUME LoginsInv, NEW a \in Requests, Continue(a)
    PROVE  Confirmed => Confirmed'
<1> USE DEF LoginsInv
<1>1. CASE WriteRow(a)
  BY <1>1 DEF WriteRow, Remembers, Confirmed
<1>2. CASE Disable(a) \/ ResetPassword(a)
  BY <1>2 DEF Disable, ResetPassword, Confirmed
<1>3. CASE UNCHANGED status
  BY <1>3 DEF Confirmed
<1> QED
  BY <1>1, <1>2, <1>3
     DEF Continue, CountPassword, ReadPassword, ForgetWarned, AskTOTP, CheckTOTP,
         CountTOTP, ReadTOTP, SendToken, ForgetTOTP, ForgetPassword, ReadRow,
         InsertSecret, EnableSecret, DeleteSecrets, account

LEMMA ContinueRemembers ==
    ASSUME LoginsInv, NEW a \in Requests, Continue(a)
    PROVE  Remembers'
<1> USE DEF LoginsInv
<1>1. \A b \in Requests \ {a} : req'[b] = req[b]
  BY ContinueOne
<1>2. UNCHANGED proven
  BY DEF Continue, CountPassword, ReadPassword, ForgetWarned, AskTOTP, CheckTOTP,
         CountTOTP, ReadTOTP, SendToken, Disable, ForgetTOTP, ForgetPassword, ReadRow,
         WriteRow, ResetPassword, InsertSecret, EnableSecret, DeleteSecrets, account
<1>3. Confirmed => Confirmed'
  BY ContinueConfirmed
<1>4. \/ req'[a] = Idle
      \/ req'[a].pc \notin {"enableSecret", "readRow", "writeRow"}
      \/ ReadRow(a)
  <2>1. ASSUME End(a) PROVE req'[a] = Idle
    BY <2>1 DEF End, LoginsTypeOK
  <2>2. ASSUME NEW pc \in Steps, Go(a, pc) PROVE req'[a].pc = pc
    BY <2>2, GoTo
  <2>3. CASE CountPassword(a) \/ ReadPassword(a) \/ ForgetWarned(a)
    BY <2>1, <2>2, <2>3 DEF CountPassword, ReadPassword, ForgetWarned, Steps
  <2>4. CASE AskTOTP(a) \/ CheckTOTP(a) \/ CountTOTP(a) \/ ReadTOTP(a)
    BY <2>1, <2>2, <2>4 DEF AskTOTP, CheckTOTP, CountTOTP, ReadTOTP, Steps
  <2>5. CASE SendToken(a) \/ ForgetTOTP(a)
    BY <2>1, <2>2, <2>5 DEF SendToken, ForgetTOTP, Steps
  <2>6. CASE Disable(a) \/ ForgetPassword(a) \/ WriteRow(a) \/ ResetPassword(a)
             \/ InsertSecret(a) \/ EnableSecret(a) \/ DeleteSecrets(a)
    BY <2>1, <2>6 DEF Disable, ForgetPassword, WriteRow, ResetPassword, InsertSecret,
                      EnableSecret, DeleteSecrets
  <2> QED BY <2>3, <2>4, <2>5, <2>6 DEF Continue
<1>5. ReadRow(a) => /\ req'[a].pc = "writeRow"
                    /\ req'[a].seen # "EmailConfirmationRequired"
  BY DEF ReadRow, LoginsTypeOK, Remembers, Confirmed
<1>6. ASSUME NEW b \in Requests, b # a
      PROVE  /\ At(b, "enableSecret")' => req'[b].code \in proven'
             /\ At(b, "readRow")' => Confirmed'
             /\ At(b, "writeRow")' => req'[b].seen # "EmailConfirmationRequired"
  BY <1>1, <1>2, <1>3, <1>6 DEF Remembers, At
<1>7. /\ At(a, "enableSecret")' => req'[a].code \in proven'
      /\ At(a, "readRow")' => Confirmed'
      /\ At(a, "writeRow")' => req'[a].seen # "EmailConfirmationRequired"
  BY <1>4, <1>5 DEF At, Idle
<1> QED BY <1>6, <1>7 DEF Remembers

LEMMA LoginsNextInv == LoginsInv /\ [LoginsNext]_loginVars => LoginsInv'
<1> SUFFICES ASSUME LoginsInv, [LoginsNext]_loginVars PROVE LoginsInv'
  OBVIOUS
<1>0. LoginsTypeOK'
  BY LoginsNextType DEF LoginsInv
<1>1. ASSUME NEW a \in Requests, Begin(a) PROVE LoginsInv'
  BY <1>0, <1>1, BeginKeeps DEF LoginsInv
<1>2. ASSUME NEW a \in Requests, Continue(a) PROVE LoginsInv'
  BY <1>0, <1>2, ContinueLocks, ContinueCounts, ContinueProves, ContinueRemembers DEF LoginsInv
<1>3. CASE RequestToken \/ CleanUpTokens \/ UNCHANGED loginVars
  <2>1. UNCHANGED <<status, totp, pwFails, totpFails, req, proven, excused, disturbed>>
    BY <1>3 DEF RequestToken, CleanUpTokens, loginVars, counters
  <2> QED BY <1>0, <2>1 DEF LoginsInv, LockedAtLimit, CountsAlone, EnabledAsProven, Remembers,
                            At, Confirmed
<1>4. CASE Restart
  <2>1. \A a \in Requests : req'[a] = Idle
    BY <1>4 DEF Restart
  <2>2. LockedAtLimit' /\ CountsAlone'
    BY <1>4, LimitsAssumption DEF Restart, LockedAtLimit, CountsAlone
  <2>3. EnabledAsProven'
    BY <1>4 DEF Restart, account, LoginsInv, EnabledAsProven
  <2>4. Remembers'
    BY <2>1 DEF Remembers, At, Idle
  <2> QED BY <1>0, <2>2, <2>3, <2>4 DEF LoginsInv
<1> QED BY <1>1, <1>2, <1>3, <1>4 DEF LoginsNext

LEMMA Invariant == LoginsSpec => []LoginsInv
<1>1. LoginsInit => LoginsInv
  BY LoginsInitInv
<1>2. LoginsInv /\ [LoginsNext]_loginVars => LoginsInv'
  BY LoginsNextInv
<1> QED BY <1>1, <1>2, PTL DEF LoginsSpec

-----------------------------------------------------------------------------
(* Every variable of the account, of the counters and of the requests keeps *)
(* its type (pkg/user, pkg/routes/api/v1/login.go).                         *)
THEOREM LoginsTypeCorrect == LoginsSpec => []LoginsTypeOK
<1>1. LoginsInv => LoginsTypeOK
  BY DEF LoginsInv
<1> QED BY <1>1, Invariant, PTL

(* However many requests run beside each other, an account whose failed     *)
(* passcodes reached the limit is locked, or about to be, unless the        *)
(* password was reset or the locking failed since (HandleFailedTOTPAuth).   *)
THEOREM LocksAtLimit == LoginsSpec => []LockedAtLimit
<1>1. LoginsInv => LockedAtLimit
  BY DEF LoginsInv
<1> QED BY <1>1, Invariant, PTL

(* The counter of failed passwords never rests at or over the limit of the  *)
(* warning without two failures counted side by side, or a warning that     *)
(* could not be sent (handleFailedPassword).                                *)
THEOREM WarnsInTime == LoginsSpec => []WarnedInTime
<1>1. LoginsInv => WarnedInTime
  BY LimitsAssumption DEF LoginsInv, CountsAlone, WarnedInTime, LoginsTypeOK
<1> QED BY <1>1, Invariant, PTL

(* No interleaving of enrolling, enabling and disabling enables a secret    *)
(* that no code was shown of (EnableTOTP).                                  *)
THEOREM EnablesAsProven == LoginsSpec => []EnabledAsProven
<1>1. LoginsInv => EnabledAsProven
  BY DEF LoginsInv
<1> QED BY <1>1, Invariant, PTL

(* The status that a change of the password writes back is never that of an *)
(* account that waits for its confirmation (UpdateUserPassword).            *)
THEOREM ConfirmedForGood == LoginsSpec => StaysConfirmed
<1>1. LoginsInv /\ [LoginsNext]_loginVars =>
          [status' = "EmailConfirmationRequired" => status = status']_loginVars
  <2> SUFFICES ASSUME LoginsInv, LoginsNext, status' = "EmailConfirmationRequired"
               PROVE  status = status'
    OBVIOUS
  <2>1. ASSUME NEW a \in Requests, Begin(a) PROVE status' = status
    BY <2>1 DEF Begin, Login, EnableTOTP, WrongPassword, ChangePassword, FindToken,
                EnrollTOTP, DisableTOTP, account
  <2>2. ASSUME NEW a \in Requests, Continue(a) PROVE Confirmed => Confirmed'
    BY <2>2, ContinueConfirmed
  <2>3. CASE RequestToken \/ CleanUpTokens \/ Restart
    BY <2>3 DEF RequestToken, CleanUpTokens, Restart, account
  <2> QED BY <2>1, <2>2, <2>3 DEF LoginsNext, Confirmed
<1> QED BY <1>1, Invariant, PTL DEF LoginsSpec, StaysConfirmed
=============================================================================
