--------------------------- MODULE MailJobs_proofs ---------------------------
(***************************************************************************)
(* Overdue tasks.  Nobody gets two mails within a day, for every length of *)
(* the day, every time of day and every pair of time zones: the minutes of *)
(* a user's mails are whole days apart.  And who lives on the server's     *)
(* date hears of an overdue task within a day: of any Day minutes one is   *)
(* the user's mail time.                                                   *)
(*                                                                         *)
(* Reminders.  What was sent lies before the minute that is to come, so no *)
(* run sends it again; and each run sends what lies in its minute, so      *)
(* nothing is left behind.                                                 *)
(***************************************************************************)
EXTENDS MailJobs, FiniteSetTheorems, TLAPS

(* A mail time is some number of whole days after the user's time of day. *)
OnTime(u, m) == \E k \in Int : m = k * Day + At[u] - Zone[u]

(* The last mail went out at the user's mail time, before the next run. *)
IInv ==
    /\ now \in Nat
    /\ last \in [Users -> Int]
    /\ \A u \in Users : last[u] # Never => OnTime(u, last[u]) /\ last[u] < now

(* Two mail times of a user that differ are at least a day apart. *)
LEMMA WholeDays ==
    ASSUME NEW u \in Users, NEW m \in Int, NEW n \in Int, OnTime(u, m), OnTime(u, n), m < n
    PROVE  n >= m + Day
<1>1. PICK j \in Int : m = j * Day + At[u] - Zone[u]
  BY DEF OnTime
<1>2. PICK k \in Int : n = k * Day + At[u] - Zone[u]
  BY DEF OnTime
<1>3. Day \in Int /\ Day > 0 /\ At[u] \in Int /\ Zone[u] \in Int
  BY ConstantsAssumption
<1>4. n - m = (k - j) * Day
  BY <1>1, <1>2, <1>3
<1>5. k - j >= 1
  <2>1. (k - j) * Day > 0
    BY <1>4
  <2> QED BY <1>3, <2>1
<1>6. (k - j) * Day >= Day
  BY <1>3, <1>5
<1> QED BY <1>3, <1>4, <1>6

(* A run at a user's mail time is on time. *)
LEMMA RunIsOnTime ==
    ASSUME NEW u \in Users, NEW m \in Nat, IsTimeForReminder(u, m)
    PROVE  OnTime(u, m)
<1>1. ServerDate(m) \in Int
  BY ConstantsAssumption DEF ServerDate
<1>2. OverdueMailTime(u, m) \in Int
  BY <1>1, ConstantsAssumption DEF OverdueMailTime
<1>3. m = OverdueMailTime(u, m)
  BY <1>2 DEF IsTimeForReminder
<1> QED BY <1>1, <1>3 DEF OnTime, OverdueMailTime

LEMMA InitIInv == Init => IInv
BY ConstantsAssumption DEF Init, IInv, Never

(* One run leaves a user's last mail alone or moves it to now, which is on time. *)
LEMMA RunEffect ==
    ASSUME IInv, NEW mailed \in SUBSET ToMail, RunOverdueCron(mailed), NEW u \in Users
    PROVE  last'[u] = last[u] \/ (last'[u] = now /\ OnTime(u, now))
BY RunIsOnTime DEF IInv, RunOverdueCron, ToMail

LEMMA NextKeepsIInv == IInv /\ [Next]_vars => IInv'
<1> SUFFICES ASSUME IInv, [Next]_vars PROVE IInv'
  OBVIOUS
<1>1. ASSUME NEW mailed \in SUBSET ToMail, RunOverdueCron(mailed)
      PROVE  IInv'
  <2>1. now' \in Nat /\ now' = now + 1 /\ last' \in [Users -> Int]
    BY <1>1 DEF IInv, RunOverdueCron
  <2>2. ASSUME NEW u \in Users, last'[u] # Never
        PROVE  OnTime(u, last'[u]) /\ last'[u] < now'
    BY <1>1, <2>1, <2>2, RunEffect DEF IInv
  <2> QED BY <2>1, <2>2 DEF IInv, OnTime
<1>2. CASE UNCHANGED <<now, last>>
  BY <1>2 DEF IInv, OnTime
<1> QED BY <1>1, <1>2 DEF Next, vars, SetDue, MarkDone

(* No user gets a second mail within a day. *)
THEOREM OneMailADay == Spec => MailOnceADay
<1>1. ASSUME IInv, [Next]_vars, NEW u \in Users, last'[u] # last[u], last[u] # Never
      PROVE  last'[u] >= last[u] + Day
  <2>1. PICK mailed \in SUBSET ToMail : RunOverdueCron(mailed)
    BY <1>1 DEF Next, vars, SetDue, MarkDone
  <2>2. last'[u] = now /\ OnTime(u, now)
    BY <1>1, <2>1, RunEffect
  <2>3. now \in Int /\ last[u] \in Int /\ OnTime(u, last[u]) /\ last[u] < now
    BY <1>1 DEF IInv
  <2> QED BY <2>2, <2>3, WholeDays
<1>2. IInv /\ [Next]_vars =>
         [\A u \in Users : last'[u] # last[u] /\ last[u] # Never => last'[u] >= last[u] + Day]_vars
  BY <1>1
<1> QED BY <1>2, InitIInv, NextKeepsIInv, PTL DEF Spec, MailOnceADay

-----------------------------------------------------------------------------
(* Of a division by the length of a day: the quotient and where it leads. *)
LEMMA WholePart ==
    ASSUME NEW k \in Int, NEW c \in 0 .. Day - 1
    PROVE  (k * Day + c) \div Day = k
BY ConstantsAssumption

LEMMA DayBefore ==
    ASSUME NEW x \in Int
    PROVE  \E k \in Int : k * Day <= x /\ x < k * Day + Day
<1> DEFINE k == x \div Day
<1>1. k \in Int /\ k * Day <= x /\ x < k * Day + Day
  BY ConstantsAssumption
<1> HIDE DEF k
<1> QED BY <1>1

(* Every mail time of a user on the server's date is one at which the job would *)
(* mail the user.                                                               *)
LEMMA OnServerDateIsTime ==
    ASSUME NEW u \in Users, NEW m \in Int, OnTime(u, m), OnServerDate(u)
    PROVE  OverdueMailTime(u, m) = m /\ IsTimeForReminder(u, m)
<1>1. PICK k \in Int : m = k * Day + At[u] - Zone[u]
  BY DEF OnTime
<1>2. Day \in Int /\ At[u] \in Int /\ Zone[u] \in Int /\ ServerZone \in Int
  BY ConstantsAssumption
<1>3. k * Day \in Int
  BY <1>2
<1>4. m + ServerZone = k * Day + (At[u] - Zone[u] + ServerZone)
  BY <1>1, <1>2, <1>3
<1>5. ServerDate(m) = k
  BY <1>4, WholePart DEF ServerDate, OnServerDate
<1>6. OverdueMailTime(u, m) = m
  BY <1>1, <1>5 DEF OverdueMailTime
<1> QED BY <1>6 DEF IsTimeForReminder

(* Of any Day minutes in a row one is the user's mail time. *)
LEMMA OneMailTimeADay ==
    ASSUME NEW u \in Users, NEW n \in Int
    PROVE  \E m \in Int : OnTime(u, m) /\ n - Day <= m /\ m < n
<1>1. Day \in Int /\ At[u] \in Int /\ Zone[u] \in Int
  BY ConstantsAssumption
<1> DEFINE first == At[u] - Zone[u]
<1>2. first \in Int /\ n - 1 - first \in Int
  BY <1>1
<1>3. PICK k \in Int : k * Day <= n - 1 - first /\ n - 1 - first < k * Day + Day
  BY <1>2, DayBefore
<1> DEFINE m == k * Day + At[u] - Zone[u]
<1>4. m \in Int /\ n - Day <= m /\ m < n
  BY <1>1, <1>3
<1>5. OnTime(u, m)
  BY DEF OnTime
<1> QED BY <1>4, <1>5

(* What a user was due to hear at a mail time that is over, and has not been put *)
(* off since: the task is still open, and no later run failed.                   *)
Heard(u, t) ==
    \A m \in Int :
        /\ OnTime(u, m) /\ Start <= m /\ m < now /\ failed < m
        /\ t \notin done /\ due[t] # NoDue /\ due[t] < m
        => last[u] >= m

HeardInv ==
    /\ IInv /\ due \in [Tasks -> Int] /\ failed \in Int
    /\ \A u \in Users, t \in Tasks : u \in Recipients[t] /\ OnServerDate(u) => Heard(u, t)

LEMMA InitHeard == Init => HeardInv
BY InitIInv, ConstantsAssumption DEF Init, HeardInv, Heard, NoDue, Never

LEMMA NextKeepsHeard == HeardInv /\ [Next]_vars => HeardInv'
<1> SUFFICES ASSUME HeardInv, [Next]_vars PROVE HeardInv'
  OBVIOUS
<1>0. IInv /\ IInv'
  BY NextKeepsIInv DEF HeardInv
<1>1. ASSUME NEW t \in Tasks, NEW d \in now .. Horizon, SetDue(t, d)
      PROVE  HeardInv'
  <2>1. due' \in [Tasks -> Int] /\ failed' \in Int
    BY <1>0, <1>1 DEF SetDue, HeardInv, IInv
  <2>2. ASSUME NEW u \in Users, NEW s \in Tasks, Heard(u, s)
        PROVE  Heard(u, s)'
    <3>1. CASE s = t
      BY <1>0, <1>1, <3>1 DEF SetDue, Heard, HeardInv, IInv
    <3>2. CASE s # t
      BY <1>1, <2>2, <3>2 DEF SetDue, Heard, HeardInv, OnTime
    <3> QED BY <3>1, <3>2
  <2> QED BY <1>0, <2>1, <2>2 DEF HeardInv, OnServerDate
<1>2. ASSUME NEW t \in Tasks, MarkDone(t)
      PROVE  HeardInv'
  BY <1>0, <1>2 DEF MarkDone, HeardInv, Heard, OnTime, OnServerDate
<1>3. ASSUME NEW mailed \in SUBSET ToMail, RunOverdueCron(mailed)
      PROVE  HeardInv'
  <2>1. /\ due' = due /\ done' = done /\ now' = now + 1 /\ now \in Nat
        /\ failed' = IF mailed = ToMail THEN failed ELSE now
        /\ failed \in Int
    BY <1>0, <1>3 DEF RunOverdueCron, HeardInv, IInv
  <2>2. ASSUME NEW u \in Users, NEW t \in Tasks, u \in Recipients[t], OnServerDate(u),
               Heard(u, t), NEW m \in Int, OnTime(u, m), Start <= m, m < now', failed' < m,
               t \notin done, due[t] # NoDue, due[t] < m
        PROVE  last'[u] >= m
    <3>1. mailed = ToMail /\ failed' = failed
      BY <2>1, <2>2
    <3>2. CASE m = now
      <4>1. OverdueMailTime(u, now) = now /\ IsTimeForReminder(u, now)
        BY <2>2, <3>2, OnServerDateIsTime
      <4>2. t \in OverdueTasks(u, now)
        BY <2>2, <3>2, <4>1 DEF OverdueTasks
      <4>3. u \in ToMail
        BY <4>1, <4>2 DEF ToMail
      <4>4. last'[u] = now
        BY <1>3, <3>1, <4>3 DEF RunOverdueCron
      <4> QED BY <3>2, <4>4
    <3>3. CASE m < now
      <4>1. last[u] >= m
        BY <2>2, <3>1, <3>3 DEF Heard
      <4>2. last'[u] = last[u] \/ last'[u] = now
        BY <1>3 DEF RunOverdueCron
      <4> QED BY <2>1, <3>3, <4>1, <4>2
    <3> QED BY <2>1, <2>2, <3>2, <3>3
  <2>3. ASSUME NEW u \in Users, NEW t \in Tasks, u \in Recipients[t], OnServerDate(u)
        PROVE  Heard(u, t)'
    <3>1. Heard(u, t)
      BY <2>3 DEF HeardInv
    <3> QED BY <2>1, <2>2, <2>3, <3>1 DEF Heard, OnTime
  <2> QED BY <1>0, <2>1, <2>3 DEF HeardInv, OnServerDate
<1>4. CASE UNCHANGED vars
  BY <1>0, <1>4 DEF vars, HeardInv, Heard, OnTime, OnServerDate
<1> QED BY <1>1, <1>2, <1>3, <1>4 DEF Next

(* For any days, times of day and zones: who lives where the time of day comes on *)
(* the server's date has had a mail within the last day, if a task has been       *)
(* overdue for longer and no run of that day failed.                              *)
THEOREM OverdueTasksAreMailed == Spec => []MailEveryDayOnServerDate
<1>1. ASSUME HeardInv, NEW t \in Tasks, LongOverdue(t), failed < now - Day,
             NEW u \in Recipients[t], OnServerDate(u)
      PROVE  last[u] >= now - Day
  <2>1. /\ now \in Int /\ Day \in Int /\ Start \in Int /\ u \in Users
        /\ due[t] \in Int /\ failed \in Int /\ last[u] \in Int
    BY <1>1, ConstantsAssumption DEF HeardInv, IInv
  <2>2. PICK m \in Int : OnTime(u, m) /\ now - Day <= m /\ m < now
    BY <2>1, OneMailTimeADay
  <2>3. Heard(u, t)
    BY <1>1, <2>1 DEF HeardInv
  <2>4. Start <= m /\ failed < m /\ t \notin done /\ due[t] # NoDue /\ due[t] < m
    BY <1>1, <2>1, <2>2 DEF LongOverdue
  <2>5. last[u] >= m
    BY <2>2, <2>3, <2>4 DEF Heard
  <2> QED BY <2>1, <2>2, <2>5
<1>2. HeardInv => MailEveryDayOnServerDate
  BY <1>1 DEF MailEveryDayOnServerDate
<1> QED BY <1>2, InitHeard, NextKeepsHeard, PTL DEF Spec

-----------------------------------------------------------------------------
(* The reminders.  They are sent once if no run is late (then the minutes of two *)
(* runs cannot overlap) and nobody is assigned a task they created (they would   *)
(* get a notification as either).                                                *)
TellsOnce == MaxDelay = 0 /\ \A t \in RemindedTasks : Creator[t] \notin Assignees[t]

(* And in time if the query, which compares UTC with the server's time of day, *)
(* looks at every reminder of the minute.                                       *)
SeesMinute == MaxDelay = 0 /\ ServerOffset <= Behind /\ ServerOffset + Ahead >= 0

Given(given, u, r) == {d \in given : d.user = u /\ d.reminder = r}

LEMMA MinuteTimes ==
    /\ MinuteLen \in Nat \ {0} /\ Minutes \in Nat \ {0} /\ ServerOffset \in Int
    /\ Behind \in Nat /\ Ahead \in Nat /\ MaxDelay \in Nat
    /\ Creator \in [RemindedTasks -> RemindedUsers] /\ Assignees \in [RemindedTasks -> SUBSET RemindedUsers]
BY RemindersAssumption

(* A user is the creator of a task or one it is assigned to. *)
LEMMA DeliveriesAre ==
    ASSUME NEW now_, NEW given, given \subseteq Deliveries(now_), NEW u, NEW r
    PROVE  Given(given, u, r) \subseteq {[user |-> u, reminder |-> r, as |-> a] : a \in {"creator", "assignee"}}
BY DEF Given, Deliveries

LEMMA GivenFinite ==
    ASSUME NEW now_, NEW given, given \subseteq Deliveries(now_), NEW u, NEW r
    PROVE  IsFiniteSet(Given(given, u, r)) /\ Cardinality(Given(given, u, r)) \in Nat
<1> DEFINE c == [user |-> u, reminder |-> r, as |-> "creator"]
           a == [user |-> u, reminder |-> r, as |-> "assignee"]
           g == Given(given, u, r)
<1>1. g \subseteq {c, a}
  BY DeliveriesAre
<1> HIDE DEF c, a, g
<1>2. IsFiniteSet({c})
  BY FS_Singleton
<1>3. IsFiniteSet({c} \union {a})
  BY <1>2, FS_AddElement
<1>4. g \subseteq {c} \union {a}
  BY <1>1
<1>5. IsFiniteSet(g) /\ Cardinality(g) \in Nat
  BY <1>3, <1>4, FS_Subset, FS_CardinalityType
<1> QED BY <1>5 DEF g

(* A run adds the notifications it sends to those that were sent before. *)
LEMMA RunAdds ==
    ASSUME RemindersTypeOK, NEW delay \in 0 .. MaxDelay,
           NEW given \in SUBSET Deliveries(minute * MinuteLen + delay),
           RunReminderCron(delay, given)
    PROVE  \A u \in RemindedUsers, r \in Reminder :
              /\ Cardinality(Given(given, u, r)) \in Nat /\ IsFiniteSet(Given(given, u, r))
              /\ sent[u][r] \in Nat
              /\ sent'[u][r] = sent[u][r] + Cardinality(Given(given, u, r))
<1> SUFFICES ASSUME NEW u \in RemindedUsers, NEW r \in Reminder
             PROVE  /\ Cardinality(Given(given, u, r)) \in Nat /\ IsFiniteSet(Given(given, u, r))
                    /\ sent[u][r] \in Nat
                    /\ sent'[u][r] = sent[u][r] + Cardinality(Given(given, u, r))
  OBVIOUS
<1>1. Cardinality(Given(given, u, r)) \in Nat /\ IsFiniteSet(Given(given, u, r))
  BY GivenFinite
<1>2. sent[u][r] \in Nat
  <2>1. sent \in [RemindedUsers -> [Reminder -> Nat]]
    BY DEF RemindersTypeOK
  <2> QED BY <2>1
<1>3. sent' = [v \in RemindedUsers |-> [q \in Reminder |-> sent[v][q] + Cardinality(Given(given, v, q))]]
  BY DEF RunReminderCron, Delivered, Given
<1>4. sent'[u][r] = sent[u][r] + Cardinality(Given(given, u, r))
  BY <1>3
<1> QED BY <1>1, <1>2, <1>4

LEMMA NextReminderType == ASSUME RemindersTypeOK, RemindersNext PROVE RemindersTypeOK'
<1>1. ASSUME NEW t \in RemindedTasks, NEW times \in SUBSET Seconds, UpdateReminders(t, times)
      PROVE  RemindersTypeOK'
  BY <1>1 DEF RemindersTypeOK, UpdateReminders, Reminder
<1>2. ASSUME NEW t \in RemindedTasks, MarkFinished(t) PROVE RemindersTypeOK'
  BY <1>2 DEF RemindersTypeOK, MarkFinished
<1>3. ASSUME NEW delay \in 0 .. MaxDelay, NEW given \in SUBSET Deliveries(minute * MinuteLen + delay),
             RunReminderCron(delay, given)
      PROVE  RemindersTypeOK'
  <2>1. sent' = [u \in RemindedUsers |-> [r \in Reminder |-> sent[u][r] + Cardinality(Given(given, u, r))]]
    BY <1>3 DEF RunReminderCron, Delivered, Given
  <2>2. sent' \in [RemindedUsers -> [Reminder -> Nat]]
    BY <1>3, <2>1, RunAdds
  <2>3. minute' \in 1 .. Minutes /\ ended' \subseteq 1 .. Minutes
    <3>1. minute \in 1 .. Minutes /\ minute' = minute + 1 /\ minute < Minutes /\ ended \subseteq 1 .. Minutes
      BY <1>3 DEF RemindersTypeOK, RunReminderCron
    <3>2. minute' \in 1 .. Minutes
      BY <3>1, MinuteTimes
    <3>3. ended' \subseteq ended \union {minute}
      BY <1>3 DEF RunReminderCron
    <3> QED BY <3>1, <3>2, <3>3
  <2> QED BY <1>3, <2>2, <2>3 DEF RemindersTypeOK, RunReminderCron
<1> QED BY <1>1, <1>2, <1>3 DEF RemindersNext

(* A reminder that was sent lies before the minute that is to come, so no later *)
(* run sends it again.                                                          *)
OnceInv ==
    \A u \in RemindedUsers, r \in Reminder :
       sent[u][r] <= 1 /\ (sent[u][r] > 0 => r.at < minute * MinuteLen)

LEMMA NextMinute ==
    ASSUME RemindersTypeOK
    PROVE  /\ minute \in Nat /\ minute * MinuteLen \in Nat
           /\ (minute + 1) * MinuteLen = minute * MinuteLen + MinuteLen
BY MinuteTimes DEF RemindersTypeOK

LEMMA NextOnce ==
    ASSUME TellsOnce, RemindersTypeOK, OnceInv, RemindersNext
    PROVE  OnceInv'
<1>1. ASSUME UNCHANGED <<minute, sent>> PROVE OnceInv'
  BY <1>1 DEF OnceInv
<1>2. ASSUME NEW delay \in 0 .. MaxDelay, NEW given \in SUBSET Deliveries(minute * MinuteLen + delay),
             RunReminderCron(delay, given)
      PROVE  OnceInv'
  <2> SUFFICES ASSUME NEW u \in RemindedUsers, NEW r \in Reminder
               PROVE  sent'[u][r] <= 1 /\ (sent'[u][r] > 0 => r.at < minute' * MinuteLen)
    BY DEF OnceInv
  <2> DEFINE g == Given(given, u, r)
             at == minute * MinuteLen
  <2>1. /\ Cardinality(g) \in Nat /\ IsFiniteSet(g) /\ sent[u][r] \in Nat
        /\ sent'[u][r] = sent[u][r] + Cardinality(g)
    BY <1>2, RunAdds
  <2>2. minute' = minute + 1 /\ at \in Nat /\ minute' * MinuteLen = at + MinuteLen /\ MinuteLen \in Nat /\ delay = 0
    BY <1>2, NextMinute, MinuteTimes DEF RunReminderCron, TellsOnce
  <2>3. r.at \in Int /\ r.task \in RemindedTasks
    BY DEF Reminder, Seconds
  <2>4. sent[u][r] <= 1 /\ (sent[u][r] > 0 => r.at < at)
    BY DEF OnceInv
  <2> HIDE DEF at
  <2>5. CASE g = {}
    <3>1. Cardinality(g) = 0
      BY <2>5, FS_EmptySet
    <3> QED BY <2>1, <2>2, <2>3, <2>4, <3>1
  <2>6. CASE g # {}
    <3>1. PICK d \in g : TRUE
      BY <2>6
    <3>2. given \subseteq Deliveries(at + delay) /\ at + delay = at
      BY <2>2 DEF at
    <3>3. DueWithin(r, at)
      BY <3>1, <3>2 DEF Given, Deliveries
    <3>4. at <= r.at /\ r.at < at + MinuteLen
      BY <3>3 DEF DueWithin
    <3>5. sent[u][r] = 0
      BY <2>1, <2>2, <2>3, <2>4, <3>4
    <3>6. Cardinality(g) <= 1
      <4> DEFINE as == IF u = Creator[r.task] THEN "creator" ELSE "assignee"
                 one == [user |-> u, reminder |-> r, as |-> as]
      <4>1. ASSUME NEW e \in g PROVE e = one
        <5>1. \/ e = [user |-> u, reminder |-> r, as |-> "creator"] /\ u = Creator[r.task]
              \/ e = [user |-> u, reminder |-> r, as |-> "assignee"] /\ u \in Assignees[r.task]
          BY <3>2 DEF Given, Deliveries
        <5>2. Creator[r.task] \notin Assignees[r.task]
          BY <2>3 DEF TellsOnce
        <5> QED BY <5>1, <5>2
      <4> HIDE DEF one
      <4>2. g \subseteq {one}
        BY <4>1
      <4>3. IsFiniteSet({one}) /\ Cardinality({one}) = 1
        BY FS_Singleton
      <4>4. Cardinality(g) <= Cardinality({one})
        BY <4>2, <4>3, FS_Subset
      <4> QED BY <4>3, <4>4
    <3> QED BY <2>1, <2>2, <3>4, <3>5, <3>6
  <2> QED BY <2>5, <2>6
<1>3. (\E t \in RemindedTasks, times \in SUBSET Seconds : UpdateReminders(t, times))
      \/ (\E t \in RemindedTasks : MarkFinished(t)) => UNCHANGED <<minute, sent>>
  BY DEF UpdateReminders, MarkFinished
<1> QED BY <1>1, <1>2, <1>3 DEF RemindersNext


(* The minute of a reminder is the one it lies in. *)
LEMMA MinuteAndSecond ==
    ASSUME NEW m \in Nat, NEW c \in 0 .. MinuteLen - 1
    PROVE  (m * MinuteLen + c) \div MinuteLen = m
BY MinuteTimes

LEMMA MinuteOf ==
    ASSUME NEW m \in Nat, NEW x \in Nat, m * MinuteLen <= x, x < m * MinuteLen + MinuteLen
    PROVE  x \div MinuteLen = m
<1> DEFINE c == x - m * MinuteLen
<1>1. c \in 0 .. MinuteLen - 1 /\ x = m * MinuteLen + c
  BY MinuteTimes
<1> HIDE DEF c
<1> QED BY <1>1, MinuteAndSecond

(* A run that does not end early sends what is due in its minute: the query sees *)
(* all of it, as SeesMinute says.                                                *)
LEMMA RunSendsWhatIsDue ==
    ASSUME SeesMinute, RemindersTypeOK, NEW delay \in 0 .. MaxDelay,
           NEW given \in SUBSET Deliveries(minute * MinuteLen + delay),
           RunReminderCron(delay, given), minute \notin ended',
           NEW r \in reminders, r.task \notin finished,
           minute * MinuteLen <= r.at, r.at < minute * MinuteLen + MinuteLen,
           NEW u \in {Creator[r.task]} \union Assignees[r.task]
    PROVE  sent'[u][r] > 0
<1> DEFINE at == minute * MinuteLen
<1>1. at \in Nat /\ delay = 0 /\ at + delay = at
  BY NextMinute DEF SeesMinute
<1>2. given = Deliveries(at)
  BY <1>1 DEF RunReminderCron, EndsEarly
<1>3. r \in Reminder /\ r.at \in Int /\ r.task \in RemindedTasks
  BY DEF RemindersTypeOK, Reminder, Seconds
<1>4. u \in RemindedUsers
  BY <1>3, MinuteTimes
<1>5. at <= r.at /\ r.at < at + MinuteLen
  OBVIOUS
<1> HIDE DEF at
<1>6. r \in Selected(at)
  <2>1. r.at >= at + ServerOffset - Behind /\ r.at < at + MinuteLen + ServerOffset + Ahead
    BY <1>1, <1>3, <1>5, MinuteTimes DEF SeesMinute
  <2> QED BY <2>1 DEF Selected
<1>7. DueWithin(r, at)
  BY <1>5 DEF DueWithin
<1>8. \E d \in given : d.user = u /\ d.reminder = r
  <2> DEFINE mine == {[user |-> Creator[r.task], reminder |-> r, as |-> "creator"]}
                       \union {[user |-> v, reminder |-> r, as |-> "assignee"] : v \in Assignees[r.task]}
  <2>1. \E d \in mine : d.user = u /\ d.reminder = r
    <3>1. CASE u = Creator[r.task]
      <4> DEFINE d == [user |-> u, reminder |-> r, as |-> "creator"]
      <4>1. d.user = u /\ d.reminder = r
        OBVIOUS
      <4>2. d \in mine
        BY <3>1
      <4> HIDE DEF d, mine
      <4> QED BY <4>1, <4>2
    <3>2. CASE u \in Assignees[r.task]
      <4> DEFINE d == [user |-> u, reminder |-> r, as |-> "assignee"]
      <4>1. d.user = u /\ d.reminder = r
        OBVIOUS
      <4>2. d \in mine
        BY <3>2
      <4> HIDE DEF d, mine
      <4> QED BY <4>1, <4>2
    <3> QED BY <3>1, <3>2
  <2>2. mine \subseteq given
    BY <1>2, <1>6, <1>7 DEF Deliveries
  <2> HIDE DEF mine
  <2> QED BY <2>1, <2>2
<1>9. Given(given, u, r) # {}
  BY <1>8 DEF Given
<1>10. /\ IsFiniteSet(Given(given, u, r)) /\ Cardinality(Given(given, u, r)) \in Nat
       /\ sent[u][r] \in Nat /\ sent'[u][r] = sent[u][r] + Cardinality(Given(given, u, r))
  BY <1>3, <1>4, RunAdds
<1>11. Cardinality(Given(given, u, r)) # 0
  BY <1>9, <1>10, FS_EmptySet
<1> QED BY <1>10, <1>11

LEMMA NextInTime ==
    ASSUME SeesMinute, RemindersTypeOK, SentInTime, RemindersNext
    PROVE  SentInTime'
<1>1. ASSUME NEW t \in RemindedTasks, NEW times \in SUBSET Seconds, UpdateReminders(t, times)
      PROVE  SentInTime'
  <2> SUFFICES ASSUME NEW r \in reminders', r.at < minute * MinuteLen, r.task \notin finished,
                      r.at \div MinuteLen \notin ended, NEW u \in {Creator[r.task]} \union Assignees[r.task]
               PROVE  sent[u][r] > 0
    BY <1>1 DEF SentInTime, UpdateReminders
  <2>1. r \in reminders
    <3>1. CASE \E s \in times : r = [task |-> t, at |-> s]
      <4>1. r.at \in times /\ r.at \in Int /\ r.at >= minute * MinuteLen
        BY <1>1, <3>1 DEF UpdateReminders, Seconds
      <4>2. minute * MinuteLen \in Int
        BY NextMinute
      <4> QED BY <4>1, <4>2
    <3> QED BY <1>1, <3>1 DEF UpdateReminders
  <2> QED BY <2>1 DEF SentInTime
<1>2. ASSUME NEW t \in RemindedTasks, MarkFinished(t) PROVE SentInTime'
  BY <1>2 DEF SentInTime, MarkFinished
<1>3. ASSUME NEW delay \in 0 .. MaxDelay, NEW given \in SUBSET Deliveries(minute * MinuteLen + delay),
             RunReminderCron(delay, given)
      PROVE  SentInTime'
  <2>1. /\ reminders' = reminders /\ finished' = finished /\ minute' = minute + 1
        /\ ended \subseteq ended'
    BY <1>3 DEF RunReminderCron
  <2> SUFFICES ASSUME NEW r \in reminders, r.at < (minute + 1) * MinuteLen, r.task \notin finished,
                      r.at \div MinuteLen \notin ended', NEW u \in {Creator[r.task]} \union Assignees[r.task]
               PROVE  sent'[u][r] > 0
    BY <2>1 DEF SentInTime
  <2>2. r \in Reminder /\ r.at \in Nat /\ r.task \in RemindedTasks
    BY DEF RemindersTypeOK, Reminder, Seconds
  <2>3. minute * MinuteLen \in Int /\ (minute + 1) * MinuteLen = minute * MinuteLen + MinuteLen /\ minute \in Nat
    BY NextMinute
  <2>4. CASE r.at < minute * MinuteLen
    <3>1. sent[u][r] > 0
      BY <2>1, <2>4 DEF SentInTime
    <3>2. u \in RemindedUsers
      BY <2>2, MinuteTimes
    <3>3. sent[u][r] \in Nat /\ Cardinality(Given(given, u, r)) \in Nat
          /\ sent'[u][r] = sent[u][r] + Cardinality(Given(given, u, r))
      BY <1>3, <2>2, <3>2, RunAdds
    <3> QED BY <3>1, <3>3
  <2>5. CASE minute * MinuteLen <= r.at
    <3>1. r.at < minute * MinuteLen + MinuteLen
      BY <2>3
    <3>2. r.at \div MinuteLen = minute
      BY <2>2, <2>3, <2>5, <3>1, MinuteOf
    <3> QED BY <1>3, <2>5, <3>1, <3>2, RunSendsWhatIsDue
  <2> QED BY <2>2, <2>3, <2>4, <2>5
<1> QED BY <1>1, <1>2, <1>3 DEF RemindersNext

LEMMA InitReminders == RemindersInit => RemindersTypeOK /\ OnceInv /\ SentInTime
<1> SUFFICES ASSUME RemindersInit PROVE RemindersTypeOK /\ OnceInv /\ SentInTime
  OBVIOUS
<1>1. RemindersTypeOK
  BY MinuteTimes DEF RemindersInit, RemindersTypeOK
<1>2. OnceInv
  BY DEF RemindersInit, OnceInv
<1>3. SentInTime
  BY DEF RemindersInit, SentInTime
<1> QED BY <1>1, <1>2, <1>3

(* For any users, tasks, length of a minute and zone: when no run is late, nobody *)
(* is assigned a task of their own and the query sees the whole minute, each      *)
(* reminder is sent exactly once, in its minute (RegisterReminderCron).           *)
THEOREM RemindersAreSentOnce ==
    ASSUME TellsOnce, SeesMinute
    PROVE  RemindersSpec => []SentExactlyOnce
<1>1. RemindersTypeOK /\ OnceInv /\ SentInTime /\ [RemindersNext]_reminderVars
      => (RemindersTypeOK /\ OnceInv /\ SentInTime)'
  <2> SUFFICES ASSUME RemindersTypeOK, OnceInv, SentInTime, [RemindersNext]_reminderVars
               PROVE  (RemindersTypeOK /\ OnceInv /\ SentInTime)'
    OBVIOUS
  <2>1. CASE RemindersNext
    BY <2>1, NextReminderType, NextOnce, NextInTime
  <2>2. CASE UNCHANGED reminderVars
    BY <2>2 DEF reminderVars, RemindersTypeOK, OnceInv, SentInTime
  <2> QED BY <2>1, <2>2
<1>2. RemindersTypeOK /\ OnceInv /\ SentInTime => SentExactlyOnce
  BY DEF SentExactlyOnce, SentOnce, OnceInv
<1> QED BY <1>1, <1>2, InitReminders, PTL DEF RemindersSpec

(* Whatever the delays and zones: a notification is of a reminder that is still    *)
(* there, of a task that is still open (getTasksWithRemindersDueAndTheirUsers).    *)
THEOREM NothingStaleIsSent == RemindersSpec => NothingStale
<1>1. ASSUME RemindersTypeOK, RemindersNext, NEW u \in RemindedUsers, NEW r \in Reminder, sent'[u][r] > sent[u][r]
      PROVE  r \in reminders /\ r.task \notin finished
  <2>1. CASE UNCHANGED sent
    <3>1. sent[u][r] \in Nat
      BY <1>1 DEF RemindersTypeOK
    <3> QED BY <1>1, <2>1, <3>1
  <2>2. ASSUME NEW delay \in 0 .. MaxDelay, NEW given \in SUBSET Deliveries(minute * MinuteLen + delay),
               RunReminderCron(delay, given)
        PROVE  r \in reminders /\ r.task \notin finished
    <3>1. /\ IsFiniteSet(Given(given, u, r)) /\ sent[u][r] \in Nat
          /\ sent'[u][r] = sent[u][r] + Cardinality(Given(given, u, r))
      BY <1>1, <2>2, RunAdds
    <3>2. Cardinality(Given(given, u, r)) # 0
      BY <1>1, <3>1
    <3>3. Given(given, u, r) # {}
      BY <3>2, FS_EmptySet
    <3>4. r \in Selected(minute * MinuteLen + delay)
      BY <3>3 DEF Given, Deliveries
    <3> QED BY <3>4 DEF Selected
  <2> QED BY <1>1, <2>1, <2>2 DEF RemindersNext, UpdateReminders, MarkFinished
<1>2. RemindersTypeOK /\ [RemindersNext]_reminderVars => RemindersTypeOK'
  <2> SUFFICES ASSUME RemindersTypeOK, [RemindersNext]_reminderVars PROVE RemindersTypeOK'
    OBVIOUS
  <2>1. CASE RemindersNext
    BY <2>1, NextReminderType
  <2>2. CASE UNCHANGED reminderVars
    BY <2>2 DEF reminderVars, RemindersTypeOK
  <2> QED BY <2>1, <2>2
<1>3. RemindersInit => RemindersTypeOK
  BY InitReminders
<1>4. RemindersTypeOK /\ [RemindersNext]_reminderVars
      => [\A u \in RemindedUsers, r \in Reminder :
            sent'[u][r] > sent[u][r] => r \in reminders /\ r.task \notin finished]_reminderVars
  BY <1>1
<1> QED BY <1>2, <1>3, <1>4, PTL DEF RemindersSpec, NothingStale

-----------------------------------------------------------------------------
(* Whichever job a behaviour of MailJobs.tla follows, it is one of the overdue *)
(* mails and one of the reminders: the theorems above hold of it.              *)
LEMMA JobsDoEither == JobsSpec => Spec /\ RemindersSpec
<1>1. JobsInit => Init /\ RemindersInit
  BY DEF JobsInit
<1>2. [JobsNext]_<<job, vars, reminderVars>> => [Next]_vars /\ [RemindersNext]_reminderVars
  BY DEF JobsNext
<1> QED BY <1>1, <1>2, PTL DEF JobsSpec, Spec, RemindersSpec
=============================================================================
