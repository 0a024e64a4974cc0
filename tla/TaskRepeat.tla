----------------------------- MODULE TaskRepeat -----------------------------
(***************************************************************************)
(* What becomes of the dates of a repeating task that is marked as done    *)
(* (updateDone and the three setTaskDates functions of                     *)
(* pkg/models/tasks.go), over its life and while the clock goes on.        *)
(*                                                                         *)
(* Dates and the clock are ticks; a duration is a signed number of ticks   *)
(* of a fixed width, and repeat_after counts seconds of SecondLen ticks.   *)
(* Clients send the dates as they have read them, in Vikunja's time zone.  *)
(***************************************************************************)
EXTENDS Integers, FiniteSets

CONSTANTS
    Dates,          \* the dates a task may have at first
    Afters,         \* the values of repeat_after
    SecondLen,      \* ticks of a second: 10^9 nanoseconds
    HalfWidth,      \* a duration lies in -HalfWidth .. HalfWidth - 1: 2^63
    Months,         \* months of a year
    MonthLen,       \* month of the year -> its ticks
    MaxReminders,   \* bound of the reminders
    MaxMarks,       \* bound of how often the task is marked as done
    Horizon         \* bound of the clock

ASSUME ConstantsAssumption ==
    /\ Dates \subseteq 0 .. 4 * HalfWidth - 1 /\ Afters \subseteq Nat
    /\ {SecondLen, HalfWidth, Months} \subseteq Nat \ {0}
    /\ {MaxReminders, MaxMarks, Horizon} \subseteq Nat
    /\ MonthLen \in [0 .. Months - 1 -> Nat \ {0}]

Modes == {"default", "month", "current"}
NoDate == -4 * HalfWidth     \* the zero time, as far from all others as they are from each other
Fields == {"due", "start", "end"}

VARIABLES
    now,        \* the clock
    task,       \* the row of the task with its reminders
    base,       \* the task as it was created
    marks,      \* how often it was marked as done
    spinning    \* a request is in a loop that never ends

vars == <<now, task, base, marks, spinning>>

Init ==
    /\ now = 0 /\ marks = 0 /\ spinning = FALSE
    /\ \E due, start, end \in Dates \union {NoDate}, reminders \in SUBSET Dates,
          after \in Afters, mode \in Modes :
          /\ Cardinality(reminders) <= MaxReminders
          /\ task = [due |-> due, start |-> start, end |-> end, reminders |-> reminders,
                     after |-> after, mode |-> mode, done |-> FALSE]
    /\ base = task

IsSet(f) == task[f] # NoDate
Least(S) == CHOOSE x \in S : \A y \in S : x <= y

-----------------------------------------------------------------------------
(* Durations are 64 bits wide, on this scale 2 * HalfWidth. *)
Duration(after) == ((after * SecondLen + HalfWidth) % (2 * HalfWidth)) - HalfWidth

(* Mutant of MovedOn: the first repeat is not added if the date lies ahead. *)
MovedOnIfPast(d, dur) ==
    LET add[x \in Int] == IF x > now THEN x ELSE add[x + dur] IN add[d]

(* "Always add one instance of the repeating interval", then more until the *)
(* date is in the future; which it never is if that leads backwards.        *)
MovedOn(d, dur) ==
    LET add[x \in Int] == IF x > now THEN x ELSE add[x + dur] IN add[d + dur]
LoopEnds(d, dur) == d + dur > now \/ dur > 0

(* The starts of the months from the first on, and time.Date of a day of the next *)
(* month: a day it does not have is one of the month after.                       *)
MonthStart[m \in Nat] == IF m = 0 THEN 0 ELSE MonthStart[m - 1] + MonthLen[(m - 1) % Months]
MonthOf(d) == CHOOSE m \in 0 .. d : MonthStart[m] <= d /\ d < MonthStart[m + 1]
DayOf(d) == d - MonthStart[MonthOf(d)]

AddOneMonth(d) == MonthStart[MonthOf(d) + 1] + DayOf(d)

(* updateReminders replaces the rows; two of the same second are one. *)
UpdateReminders(reminders) == reminders

MovedBy(Move(_)) ==
    [task EXCEPT !.due = IF IsSet("due") THEN Move(@) ELSE @,
                 !.start = IF IsSet("start") THEN Move(@) ELSE @,
                 !.end = IF IsSet("end") THEN Move(@) ELSE @,
                 !.reminders = UpdateReminders({Move(r) : r \in @})]

SetDatesDefault == MovedBy(LAMBDA d : MovedOn(d, Duration(task.after)))

SetDatesMonth ==
    LET moved == MovedBy(AddOneMonth)
    IN  IF IsSet("start") /\ IsSet("end")
        THEN [moved EXCEPT !.end = moved.start + task.end - task.start] ELSE moved

(* Mutant of CurrentDate: a task without a due date starts and ends now. *)
CurrentDateTogether(f, next) ==
    IF IsSet("due") THEN next + task[f] - task.due ELSE next

(* A date keeps its distance to the due date; without that, the end to the start. *)
CurrentDate(f, next) ==
    IF IsSet("due") THEN next + task[f] - task.due
    ELSE IF f = "end" /\ IsSet("start") THEN next + task.end - task.start ELSE next

SetDatesFromCurrent ==
    LET next == now + Duration(task.after)
        New(f) == IF IsSet(f) THEN CurrentDate(f, next) ELSE NoDate
    IN  [task EXCEPT !.due = New("due"), !.start = New("start"), !.end = New("end"),
                     !.reminders = UpdateReminders({next + r - Least(task.reminders) : r \in @})]

(* Mutant of Repeats: a task that repeats after no time does so, too. *)
RepeatsAfterAll == TRUE

Repeats == task.mode = "month" \/ task.after # 0

LoopsEnd ==
    \A d \in {task[f] : f \in {f \in Fields : IsSet(f)}} \union task.reminders :
        LoopEnds(d, Duration(task.after))

Mark ==
    /\ ~task.done /\ marks < MaxMarks /\ ~spinning
    /\ marks' = marks + 1
    /\ UNCHANGED <<now, base>>

MarkDone ==
    /\ Mark /\ UNCHANGED spinning
    /\ Repeats /\ task.mode = "default" => LoopsEnd
    /\ task' = IF ~Repeats THEN [task EXCEPT !.done = TRUE]
               ELSE CASE task.mode = "default" -> SetDatesDefault
                      [] task.mode = "month" -> SetDatesMonth
                      [] task.mode = "current" -> SetDatesFromCurrent

(* The request that marks it never returns, and the task stays as it is. *)
Spin ==
    /\ Mark /\ UNCHANGED task
    /\ Repeats /\ task.mode = "default" /\ ~LoopsEnd
    /\ spinning' = TRUE

MarkUndone ==
    /\ task.done
    /\ task' = [task EXCEPT !.done = FALSE]
    /\ UNCHANGED <<now, base, marks, spinning>>

Tick ==
    /\ now < Horizon
    /\ now' = now + 1
    /\ UNCHANGED <<task, base, marks, spinning>>

Next == MarkDone \/ Spin \/ MarkUndone \/ Tick

Spec == Init /\ [][Next]_vars

-----------------------------------------------------------------------------
(* The types; a repeat adds no reminder. *)
TypeOK ==
    /\ now \in 0 .. Horizon /\ marks \in 0 .. MaxMarks /\ spinning \in BOOLEAN
    /\ task \in [due : Int, start : Int, end : Int, reminders : SUBSET Int,
                 after : Afters, mode : Modes, done : BOOLEAN]
    /\ Cardinality(task.reminders) <= Cardinality(base.reminders)

InRange == task.after * SecondLen < HalfWidth

(* Marking a task as done only hangs if its repeat_after, which the API takes up to *)
(* 2^63 - 1 seconds, is more than a duration can hold; the code turns it into one   *)
(* that is zero or negative.                                                        *)
SpinsOnlyOnOverflow == spinning => ~InRange

RepeatEnds == TypeOK /\ SpinsOnlyOnOverflow

(* In the default mode a date goes to the first of its repeats that is in the future, *)
(* but always on by one: no repeat is skipped, and the task is not due at once again. *)
NextRepeat ==
    [][task.mode = "default" /\ Repeats /\ InRange /\ marks' > marks =>
         \A f \in Fields : IsSet(f) =>
            LET dur == Duration(task.after)
            IN  task'[f] = Least({x \in {task[f] + k * dur : k \in 1 .. Horizon + 1} : x > now})]_vars

(* Repeating from the current date, however often and late, keeps the distances to *)
(* the due date, or of the end to the start, and those between the reminders.      *)
DistancesKept ==
    base.mode = "current" /\ InRange =>
        /\ \A f \in Fields : base.due # NoDate /\ base[f] # NoDate =>
              task[f] - task.due = base[f] - base.due
        /\ base.start # NoDate /\ base.end # NoDate =>
              task.end - task.start = base.end - base.start
        /\ base.reminders # {} =>
              {r - Least(task.reminders) : r \in task.reminders}
                  = {r - Least(base.reminders) : r \in base.reminders}

(* A task that repeats each month on a day all months have is due on that day, as *)
(* many months later as it was marked; a later day is lost once a month is short. *)
DayOfMonthKept ==
    base.mode = "month" /\ base.due # NoDate =>
        \/ task.due = MonthStart[MonthOf(base.due) + marks] + DayOf(base.due)
        \/ \E m \in 0 .. Months - 1 : DayOf(base.due) >= MonthLen[m]

(* However often and late a task is marked as done, what is said above of the    *)
(* dates of the two modes stays true (setTaskDatesFromCurrentDateRepeat,          *)
(* setTaskDatesMonthRepeat).                                                      *)
DatesKept == DistancesKept /\ DayOfMonthKept
=============================================================================
