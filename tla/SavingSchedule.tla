--------------------------- MODULE SavingSchedule ---------------------------
(***************************************************************************)
(* A TimeBasedSaving and the dates it goes by: the day of the month it was *)
(* created with, the cron expression its job is registered with, and the   *)
(* nextScheduledDate its progress shows, which is computed when the saving *)
(* is created and again by every record of a run (recordSuccessfulSave of  *)
(* a trigger; both records of ProgressTrackingService).                    *)
(*                                                                         *)
(* A date is a month and a day, of a server that keeps the time of the     *)
(* cron expressions, UTC; of the hours of a day only 12:00 is told apart,  *)
(* when the monthly jobs run.  The months follow each other, a year is not *)
(* told apart.  The amounts of the progress are in Autoflow.  A run that   *)
(* fails saves the row unchanged.                                          *)
(***************************************************************************)
EXTENDS Integers

CONSTANTS
  LastMonth,   \* bound: the months are 1..LastMonth
  LengthOf,    \* LengthOf[m]: the days of month m
  LastDay      \* bound: the clock stops here, two months before the last

ASSUME CalendarAssumption ==
  /\ LastMonth \in Nat
  /\ LengthOf \in [1..LastMonth -> 28..31]
  /\ LastDay \in [month : 1..(LastMonth - 2), day : 1..31]
  /\ LastDay.day <= LengthOf[LastDay.month]

VARIABLES
  today,
  noon,       \* it is 12:00 of today, or later
  saving,     \* the saving, or NoSaving
  recorded,   \* history: the day its next date was last computed
  early,      \* history: and that was before 12:00
  missed      \* history: a day its job is due has passed without a record

scheduleVars == <<today, noon, saving, recorded, early, missed>>

Dates == [month : 1..LastMonth, day : 1..31]

Frequencies == {"every_n_minutes", "daily", "weekly", "monthly", "yearly"}

NoSaving == [frequency |-> "none"]

Savings ==
  [frequency : {"every_n_minutes", "monthly"}, dayOfMonth : 1..60,
   nextScheduledDate : Dates]

Min(a, b) == IF a <= b THEN a ELSE b

Date(m, d) == [month |-> m, day |-> d]

Earlier(a, b) ==
  \/ a.month < b.month
  \/ a.month = b.month /\ a.day < b.day

DayAfter(date) ==
  IF date.day < LengthOf[date.month]
  THEN Date(date.month, date.day + 1)
  ELSE Date(date.month + 1, 1)

ScheduleTypeOK ==
  /\ today \in Dates
  /\ saving \in Savings \cup {NoSaving}
  /\ recorded \in Dates
  /\ noon \in BOOLEAN /\ early \in BOOLEAN /\ missed \in BOOLEAN

ScheduleInit ==
  /\ today = Date(1, 1) /\ noon = FALSE
  /\ saving = NoSaving
  /\ recorded = today /\ early = FALSE
  /\ missed = FALSE

-----------------------------------------------------------------------------
\* validate: what the constructor accepts.
Accepted(f, n) ==
  \/ f = "monthly" /\ n \in 1..31
  \/ f = "every_n_minutes" /\ n \in 1..60

\* Mutant of MonthAfter: getMonth() + 2.
MonthAfterNext(date) == date.month + 2

\* setMonth(getMonth() + 1): a day that the next month does not have runs over
\* into the month after it.
MonthAfter(date) ==
  IF date.day <= LengthOf[date.month + 1]
  THEN date.month + 1
  ELSE date.month + 2

\* Mutant of DaysInMonth: the days of the month before.
DaysInMonthBefore(m) == LengthOf[m - 1]

DaysInMonth(m) == LengthOf[m]

\* calculateNextScheduledDate.  The frequencies that are not accepted have
\* dates of their own there.
NextScheduledDate(f, n, now) ==
  IF f = "monthly"
  THEN LET m == MonthAfter(now) IN Date(m, Min(n, DaysInMonth(m)))
  ELSE DayAfter(now)

\* getCronExpression: the days on which the job runs, every few minutes or at
\* 12:00.
RunsOn(s, date) ==
  \/ s.frequency = "every_n_minutes"
  \/ date.day = IF s.dayOfMonth > 28 THEN LengthOf[date.month]
                                     ELSE s.dayOfMonth

-----------------------------------------------------------------------------
\* POST /savings/autoflow.
CreateSaving(f, n) ==
  /\ saving = NoSaving
  /\ Accepted(f, n)
  /\ saving' = [frequency |-> f, dayOfMonth |-> n,
                nextScheduledDate |-> NextScheduledDate(f, n, today)]
  /\ recorded' = today /\ early' = ~noon
  /\ UNCHANGED <<today, noon, missed>>

\* recordSuccessfulSave or recordFailedSave, on whatever day the trigger comes,
\* and the row is saved.
Record ==
  /\ saving # NoSaving
  /\ saving' = [saving EXCEPT !.nextScheduledDate =
                  NextScheduledDate(saving.frequency, saving.dayOfMonth, today)]
  /\ recorded' = today /\ early' = ~noon
  /\ UNCHANGED <<today, noon, missed>>

\* 12:00 UTC, the hour of the monthly expressions.
Noon ==
  /\ ~noon
  /\ noon' = TRUE
  /\ UNCHANGED <<today, saving, recorded, early, missed>>

NextDay ==
  /\ noon /\ Earlier(today, LastDay)
  /\ today' = DayAfter(today) /\ noon' = FALSE
  /\ missed' = (missed \/ (/\ saving # NoSaving
                           /\ RunsOn(saving, today)
                           /\ recorded # today))
  /\ UNCHANGED <<saving, recorded, early>>

ScheduleNext ==
  \/ Noon \/ NextDay
  \/ Record
  \/ \E f \in Frequencies, n \in 1..60 : CreateSaving(f, n)

-----------------------------------------------------------------------------
\* A saving that has recorded every run of its job is not shown with a next date
\* that has passed.  Not so for the days 29 and 30, whose jobs run on the last
\* day of the month (getCronExpression, calculateNextScheduledDate).
OnTimeIsNotPast ==
  (saving # NoSaving /\ ~missed /\ saving.dayOfMonth \notin {29, 30}) =>
     ~Earlier(saving.nextScheduledDate, today)

\* The monthly job runs on that day after the next date was last computed.
RunsAfter(date) ==
  /\ RunsOn(saving, date)
  /\ Earlier(recorded, date) \/ (date = recorded /\ early)

\* A monthly saving that computed its next date after the run of its own day of
\* the month, or on a later day, up to the 28th, shows the day of the next run:
\* none comes before it.  Computed before, also on its own day before 12:00, it
\* skips the run of that month, and after the 28th it may run over the month
\* after (calculateNextScheduledDate, getCronExpression).
ShownIsNextRun ==
  (saving # NoSaving /\ saving.frequency = "monthly"
                     /\ recorded.day \in saving.dayOfMonth..28
                     /\ (recorded.day = saving.dayOfMonth => ~early)) =>
     /\ RunsAfter(saving.nextScheduledDate)
     /\ \A date \in Dates :
          RunsAfter(date) => ~Earlier(date, saving.nextScheduledDate)
=============================================================================
