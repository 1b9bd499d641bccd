--------------------------- MODULE EntitiesProofs ---------------------------
(* Theorems about the entities, for every calendar, clock and set of        *)
(* members.                                                                 *)
EXTENDS Entities, FiniteSetTheorems, TLAPS

-----------------------------------------------------------------------------
(* The schedule.                                                            *)

\* A date of the calendar with two months after it.
Real(date) ==
  /\ date \in [month : 1..(LastMonth - 2), day : 1..31]
  /\ date.day <= LengthOf[date.month]

NextOf(date) ==
  NextScheduledDate(saving.frequency, saving.dayOfMonth, date)

ScheduleInv ==
  /\ Real(today)
  /\ saving \in Savings \cup {NoSaving}
  /\ recorded \in Dates
  /\ noon \in BOOLEAN /\ early \in BOOLEAN /\ missed \in BOOLEAN
  /\ saving # NoSaving =>
       /\ Accepted(saving.frequency, saving.dayOfMonth)
       /\ Real(recorded)
       /\ ~Earlier(today, recorded)
       /\ saving.nextScheduledDate = NextOf(recorded)
  /\ OnTimeIsNotPast

\* The next date is a later day of the calendar (calculateNextScheduledDate).
LEMMA NextIsLater ==
  ASSUME NEW f \in {"every_n_minutes", "monthly"}, NEW n \in 1..60,
         Accepted(f, n), NEW date, Real(date)
  PROVE  LET next == NextScheduledDate(f, n, date) IN
         /\ next \in Dates
         /\ next.day <= LengthOf[next.month]
         /\ Earlier(date, next)
<1> DEFINE next == NextScheduledDate(f, n, date)
<1>1. /\ date.month \in 1..(LastMonth - 2)
      /\ date.day \in 1..31
      /\ date.day <= LengthOf[date.month]
      /\ LastMonth \in Nat
      /\ \A m \in 1..LastMonth : LengthOf[m] \in 28..31
  BY CalendarAssumption DEF Real
<1>2. CASE f = "monthly"
  <2>1. MonthAfter(date) \in {date.month + 1, date.month + 2}
    BY DEF MonthAfter
  <2>2. MonthAfter(date) \in 1..LastMonth
    BY <1>1, <2>1
  <2>3. n \in 1..31
    BY <1>2 DEF Accepted
  <2>4. Min(n, DaysInMonth(MonthAfter(date))) \in 1..31
    BY <1>1, <2>2, <2>3 DEF Min, DaysInMonth
  <2>5. Min(n, DaysInMonth(MonthAfter(date))) <= LengthOf[MonthAfter(date)]
    BY <1>1, <2>2, <2>3 DEF Min, DaysInMonth
  <2>6. next = [month |-> MonthAfter(date),
                day |-> Min(n, DaysInMonth(MonthAfter(date)))]
    BY <1>2 DEF NextScheduledDate, Date
  <2>7. next \in Dates /\ next.day <= LengthOf[next.month]
    BY <2>2, <2>4, <2>5, <2>6 DEF Dates
  <2>8. Earlier(date, next)
    BY <1>1, <2>1, <2>6 DEF Earlier
  <2> QED BY <2>7, <2>8
<1>3. CASE f = "every_n_minutes"
  <2>1. next = DayAfter(date)
    BY <1>3 DEF NextScheduledDate
  <2>2. CASE date.day < LengthOf[date.month]
    <3>1. next = [month |-> date.month, day |-> date.day + 1]
      BY <2>1, <2>2 DEF DayAfter, Date
    <3>2. LengthOf[date.month] \in 28..31
      BY <1>1
    <3> QED BY <1>1, <2>2, <3>1, <3>2 DEF Dates, Earlier
  <2>3. CASE ~(date.day < LengthOf[date.month])
    <3>1. next = [month |-> date.month + 1, day |-> 1]
      BY <2>1, <2>3 DEF DayAfter, Date
    <3>2. LengthOf[date.month + 1] \in 28..31
      BY <1>1
    <3> QED BY <1>1, <3>1, <3>2 DEF Dates, Earlier
  <2> QED BY <2>2, <2>3
<1> QED BY <1>2, <1>3

\* The next date is a day of the job, but for the days 29 and 30.
LEMMA NextIsRun ==
  ASSUME NEW s \in Savings, Accepted(s.frequency, s.dayOfMonth),
         s.dayOfMonth \notin {29, 30}, NEW date, Real(date),
         s.nextScheduledDate = NextScheduledDate(s.frequency, s.dayOfMonth, date)
  PROVE  RunsOn(s, s.nextScheduledDate)
<1>1. CASE s.frequency = "every_n_minutes"
  BY <1>1 DEF RunsOn
<1>2. CASE s.frequency = "monthly"
  <2> DEFINE m == MonthAfter(date)
             n == s.dayOfMonth
  <2>1. /\ date.month \in 1..(LastMonth - 2)
        /\ LastMonth \in Nat
    BY CalendarAssumption DEF Real
  <2>2. m \in 1..LastMonth
    BY <2>1 DEF MonthAfter
  <2>3. LengthOf[m] \in 28..31
    BY <2>2, CalendarAssumption
  <2>4. n \in (1..28) \cup {31}
    BY <1>2 DEF Accepted, Savings
  <2>5. Min(n, LengthOf[m]) = IF n > 28 THEN LengthOf[m] ELSE n
    BY <2>3, <2>4 DEF Min
  <2>6. s.nextScheduledDate = [month |-> m, day |-> Min(n, LengthOf[m])]
    BY <1>2 DEF NextScheduledDate, Date, DaysInMonth
  <2>7. s.nextScheduledDate.month = m /\ s.nextScheduledDate.day = Min(n, LengthOf[m])
    BY <2>6
  <2> HIDE DEF m
  <2> QED BY <2>5, <2>7 DEF RunsOn
<1> QED BY <1>1, <1>2 DEF Savings

\* No date lies between a day and the day after it.
LEMMA NoneBetween ==
  ASSUME NEW date, Real(date), NEW later \in Dates,
         later.day <= LengthOf[later.month], Earlier(date, later)
  PROVE  ~Earlier(later, DayAfter(date))
<1>1. /\ date.month \in 1..(LastMonth - 2)
      /\ date.day \in 1..31
      /\ date.day <= LengthOf[date.month]
      /\ later.month \in 1..LastMonth
      /\ later.day \in 1..31
      /\ LastMonth \in Nat
      /\ LengthOf[date.month] \in 28..31
  BY CalendarAssumption DEF Real, Dates
<1>2. CASE date.day < LengthOf[date.month]
  <2>1. DayAfter(date) = [month |-> date.month, day |-> date.day + 1]
    BY <1>2 DEF DayAfter, Date
  <2> QED BY <1>1, <2>1 DEF Earlier
<1>3. CASE ~(date.day < LengthOf[date.month])
  <2>1. DayAfter(date) = [month |-> date.month + 1, day |-> 1]
    BY <1>3 DEF DayAfter, Date
  <2>2. date.day = LengthOf[date.month]
    BY <1>1, <1>3
  <2>3. CASE later.month = date.month
    BY <1>1, <2>2, <2>3 DEF Earlier
  <2>4. CASE later.month # date.month
    BY <1>1, <2>1, <2>4 DEF Earlier
  <2> QED BY <2>3, <2>4
<1> QED BY <1>2, <1>3

\* The clock stays two months before the last.
LEMMA TomorrowIsReal ==
  ASSUME NEW date, Real(date), Earlier(date, LastDay)
  PROVE  Real(DayAfter(date))
<1>1. /\ date \in [month : 1..(LastMonth - 2), day : 1..31]
      /\ date.month \in 1..(LastMonth - 2)
      /\ date.day \in 1..31
      /\ date.day <= LengthOf[date.month]
      /\ LastDay.month \in 1..(LastMonth - 2)
      /\ LastDay.day \in 1..31
      /\ LastDay.day <= LengthOf[LastDay.month]
      /\ LastMonth \in Nat
      /\ \A m \in 1..LastMonth : LengthOf[m] \in 28..31
  BY CalendarAssumption DEF Real
<1>2. CASE date.day < LengthOf[date.month]
  <2>1. DayAfter(date) = [month |-> date.month, day |-> date.day + 1]
    BY <1>2 DEF DayAfter, Date
  <2>2. LengthOf[date.month] \in 28..31
    BY <1>1
  <2> QED BY <1>1, <1>2, <2>1, <2>2 DEF Real
<1>3. CASE ~(date.day < LengthOf[date.month])
  <2>1. DayAfter(date) = [month |-> date.month + 1, day |-> 1]
    BY <1>3 DEF DayAfter, Date
  <2>2. date.day = LengthOf[date.month]
    BY <1>1, <1>3
  <2>3. date.month + 1 <= LastMonth - 2
    BY <1>1, <2>2 DEF Earlier
  <2>4. LengthOf[date.month + 1] \in 28..31
    BY <1>1, <2>3
  <2> QED BY <1>1, <2>1, <2>3, <2>4 DEF Real
<1> QED BY <1>2, <1>3

\* Earlier is a strict order of dates.
LEMMA EarlierOrder ==
  ASSUME NEW a \in Dates, NEW b \in Dates
  PROVE  /\ ~Earlier(a, a)
         /\ Earlier(a, b) => ~Earlier(b, a)
         /\ ~Earlier(a, b) /\ ~Earlier(b, a) => a = b
<1>1. LastMonth \in Nat
  BY CalendarAssumption
<1>2. /\ a.month \in Int /\ a.day \in Int
      /\ b.month \in Int /\ b.day \in Int
  BY <1>1 DEF Dates
<1>3. a.month = b.month /\ a.day = b.day => a = b
  BY DEF Dates
<1> QED BY <1>2, <1>3 DEF Earlier

LEMMA RealIsDate ==
  ASSUME NEW date, Real(date)
  PROVE  date \in Dates
BY CalendarAssumption DEF Real, Dates

\* What a record computes.
LEMMA Recorded ==
  ASSUME ScheduleInv,
         NEW f \in {"every_n_minutes", "monthly"}, NEW n \in 1..60, Accepted(f, n),
         saving' = [frequency |-> f, dayOfMonth |-> n,
                    nextScheduledDate |-> NextScheduledDate(f, n, today)],
         recorded' = today, early' \in BOOLEAN, UNCHANGED <<today, noon, missed>>
  PROVE  ScheduleInv'
<1> USE DEF ScheduleInv
<1>1. Real(today)
  OBVIOUS
<1>2. /\ NextScheduledDate(f, n, today) \in Dates
      /\ Earlier(today, NextScheduledDate(f, n, today))
  BY <1>1, NextIsLater
<1>3. saving' \in Savings
  BY <1>2 DEF Savings
<1>4. today \in Dates
  BY <1>1, RealIsDate
<1>5. ~Earlier(NextScheduledDate(f, n, today), today) /\ ~Earlier(today, today)
  BY <1>2, <1>4, EarlierOrder
<1>6. Real(today)' /\ Real(recorded)'
  BY <1>1 DEF Real
<1>7. ~Earlier(today, recorded)'
  BY <1>5
<1>8. /\ Accepted(saving.frequency, saving.dayOfMonth)'
      /\ (saving.nextScheduledDate = NextOf(recorded))'
      /\ ~Earlier(saving.nextScheduledDate, today)'
  BY <1>5 DEF NextOf
<1> QED BY <1>3, <1>4, <1>6, <1>7, <1>8 DEF OnTimeIsNotPast

LEMMA ScheduleStep ==
  ASSUME ScheduleInv, ScheduleNext
  PROVE  ScheduleInv'
<1>1. CASE NextDay
  <2> USE <1>1 DEF NextDay
  <2>1. Real(today) /\ today \in Dates
    BY RealIsDate DEF ScheduleInv
  <2>2. Real(today)' /\ today' \in Dates
    <3>1. Real(DayAfter(today))
      BY <2>1, TomorrowIsReal
    <3> QED BY <3>1, RealIsDate DEF Real
  <2>3. today.month \in 1..LastMonth /\ LengthOf[today.month] \in 28..31
    BY <2>1, CalendarAssumption DEF Dates
  <2>4. ASSUME saving # NoSaving
        PROVE  /\ Real(recorded)' /\ ~Earlier(today, recorded)'
               /\ Accepted(saving.frequency, saving.dayOfMonth)'
               /\ (saving.nextScheduledDate = NextOf(recorded))'
    <3>1. Real(recorded) /\ recorded \in Dates /\ ~Earlier(today, recorded)
      BY <2>4, RealIsDate DEF ScheduleInv
    <3>2. Earlier(today, DayAfter(today))
      BY <2>1, <2>3 DEF Earlier, DayAfter, Date, Real
    <3>3. ~Earlier(DayAfter(today), recorded)
      <4>1. LastMonth \in Nat
        BY CalendarAssumption
      <4>2. /\ today.month \in Int /\ today.day \in Int
            /\ recorded.month \in Int /\ recorded.day \in Int
            /\ DayAfter(today).month \in Int /\ DayAfter(today).day \in Int
        BY <2>1, <2>2, <3>1, <4>1 DEF Dates
      <4> QED BY <3>1, <3>2, <4>2 DEF Earlier
    <3>4. /\ Accepted(saving.frequency, saving.dayOfMonth)
          /\ saving.nextScheduledDate = NextOf(recorded)
      BY <2>4 DEF ScheduleInv
    <3> QED BY <3>1, <3>3, <3>4 DEF Real, NextOf
  <2>5. OnTimeIsNotPast'
    <3> SUFFICES ASSUME saving # NoSaving, ~missed', saving.dayOfMonth \notin {29, 30}
                 PROVE  ~Earlier(saving.nextScheduledDate, DayAfter(today))
      BY DEF OnTimeIsNotPast
    <3> DEFINE next == saving.nextScheduledDate
    <3>1. ~missed /\ (RunsOn(saving, today) => recorded = today)
      OBVIOUS
    <3>2. /\ saving \in Savings
          /\ Accepted(saving.frequency, saving.dayOfMonth)
          /\ Real(recorded) /\ recorded \in Dates
          /\ next = NextOf(recorded)
          /\ ~Earlier(next, today)
      BY <3>1, RealIsDate DEF ScheduleInv, OnTimeIsNotPast
    <3>3. /\ saving.frequency \in {"every_n_minutes", "monthly"}
          /\ saving.dayOfMonth \in 1..60
      BY <3>2 DEF Savings
    <3>4. /\ next \in Dates
          /\ next.day <= LengthOf[next.month]
          /\ Earlier(recorded, next)
      BY <3>2, <3>3, NextIsLater DEF NextOf
    <3>5. next # today
      <4> SUFFICES ASSUME next = today PROVE FALSE
        OBVIOUS
      <4>1. RunsOn(saving, next)
        BY <3>2, NextIsRun DEF NextOf
      <4>2. recorded = next
        BY <3>1, <4>1
      <4> QED BY <3>2, <3>4, <4>2, EarlierOrder
    <3>6. Earlier(today, next)
      BY <2>1, <3>2, <3>4, <3>5, EarlierOrder
    <3> HIDE DEF next
    <3>7. ~Earlier(next, DayAfter(today))
      BY <2>1, <3>4, <3>6, NoneBetween
    <3> QED BY <3>7 DEF next
  <2>6. /\ saving' \in Savings \cup {NoSaving} /\ recorded' \in Dates
        /\ noon' \in BOOLEAN /\ early' \in BOOLEAN /\ missed' \in BOOLEAN
    BY DEF ScheduleInv
  <2> QED BY <2>2, <2>4, <2>5, <2>6 DEF ScheduleInv
<1>2. CASE Record
  <2>1. saving # NoSaving /\ saving \in Savings
    BY <1>2 DEF Record, ScheduleInv
  <2>2. /\ saving.frequency \in {"every_n_minutes", "monthly"}
        /\ saving.dayOfMonth \in 1..60
        /\ Accepted(saving.frequency, saving.dayOfMonth)
    BY <2>1 DEF Savings, ScheduleInv
  <2>3. saving' = [frequency |-> saving.frequency, dayOfMonth |-> saving.dayOfMonth,
                   nextScheduledDate |-> NextScheduledDate(saving.frequency,
                                           saving.dayOfMonth, today)]
    BY <1>2, <2>1 DEF Record, Savings
  <2>4. early' \in BOOLEAN
    BY <1>2 DEF Record
  <2> QED BY <1>2, <2>2, <2>3, <2>4, Recorded DEF Record
<1>3. ASSUME NEW f \in Frequencies, NEW n \in 1..60, CreateSaving(f, n)
      PROVE  ScheduleInv'
  <2>1. f \in {"every_n_minutes", "monthly"} /\ Accepted(f, n)
    BY <1>3 DEF CreateSaving, Accepted
  <2>2. early' \in BOOLEAN
    BY <1>3 DEF CreateSaving
  <2> QED BY <1>3, <2>1, <2>2, Recorded DEF CreateSaving
<1>4. CASE Noon
  BY <1>4 DEF Noon, ScheduleInv, Real, NextOf, OnTimeIsNotPast
<1> QED BY <1>1, <1>2, <1>3, <1>4 DEF ScheduleNext

\* What is computed after the run of the own day, up to the 28th.
LEMMA NextRunIsShown ==
  ASSUME ScheduleInv
  PROVE  ShownIsNextRun
<1> SUFFICES ASSUME saving # NoSaving, saving.frequency = "monthly",
                    recorded.day \in saving.dayOfMonth..28,
                    recorded.day = saving.dayOfMonth => ~early
             PROVE  /\ RunsAfter(saving.nextScheduledDate)
                    /\ \A date \in Dates : RunsAfter(date) =>
                         ~Earlier(date, saving.nextScheduledDate)
  BY DEF ShownIsNextRun
<1> DEFINE n == saving.dayOfMonth
           next == saving.nextScheduledDate
<1>1. /\ saving \in Savings
      /\ Accepted(saving.frequency, n)
      /\ Real(recorded)
      /\ next = NextOf(recorded)
  BY DEF ScheduleInv
<1>2. /\ recorded.month \in 1..(LastMonth - 2)
      /\ recorded.day \in 1..31
      /\ LastMonth \in Nat
  BY <1>1, CalendarAssumption DEF Real
<1>3. n \in 1..28
  BY <1>1, <1>2 DEF Accepted
<1>4. LengthOf[recorded.month + 1] \in 28..31
  BY <1>2, CalendarAssumption
<1>5. MonthAfter(recorded) = recorded.month + 1
  BY <1>2, <1>3, <1>4 DEF MonthAfter
<1>6. next = [month |-> recorded.month + 1, day |-> n]
  BY <1>1, <1>3, <1>4, <1>5 DEF NextOf, NextScheduledDate, Date, Min, DaysInMonth
<1>7. \A date : RunsOn(saving, date) <=> date.day = n
  BY <1>3 DEF RunsOn
<1>8. RunsAfter(next)
  BY <1>2, <1>6, <1>7 DEF RunsAfter, Earlier
<1>9. ASSUME NEW date \in Dates, RunsAfter(date)
      PROVE  ~Earlier(date, next)
  <2>1. date.month \in Int /\ date.day \in Int
    BY <1>2 DEF Dates
  <2>2. next.month = recorded.month + 1 /\ next.day = n
    BY <1>6
  <2> HIDE DEF next
  <2>3. date.day = n /\ Earlier(recorded, date)
    BY <1>7, <1>9 DEF RunsAfter
  <2> QED BY <1>2, <1>3, <2>1, <2>2, <2>3 DEF Earlier
<1> QED BY <1>8, <1>9

-----------------------------------------------------------------------------
(* The execution.                                                           *)

ExecutionInv ==
  /\ ExecutionTypeOK
  /\ execution = NoExecution => failures = 0 /\ ~ahead
  /\ execution # NoExecution =>
       /\ execution.retryCount = failures
       /\ execution.status = "pending" => execution.executedAt = NoDate /\ ~ahead
       /\ (~ahead /\ execution.executedAt # NoDate) =>
            execution.executedAt >= execution.scheduledDate

\* What is constructed, with as many failures as retries.
LEMMA Constructed ==
  ASSUME ExecutionInv, NEW status \in Statuses, NEW date \in Int,
         NEW at \in Int \cup {NoDate}, NEW n \in Nat,
         status = "pending" => at = NoDate,
         Construct(New(status, date, at, n)), failures' = n
  PROVE  ExecutionInv'
<1>1. /\ execution' = [status |-> status, scheduledDate |-> date,
                       executedAt |-> at, retryCount |-> n]
      /\ at # NoDate => at >= date
      /\ clock' = clock /\ ahead' = ahead /\ ~ahead
  BY DEF Construct, New, Valid, ExecutionInv
<1>2. execution' \in Executions
  BY <1>1 DEF Executions
<1>3. /\ execution'.status = status /\ execution'.scheduledDate = date
      /\ execution'.executedAt = at /\ execution'.retryCount = n
  BY <1>1
<1>4. execution' # NoExecution
  BY <1>3 DEF Statuses, NoExecution
<1>5. clock \in Nat /\ ahead' \in BOOLEAN
  BY <1>1 DEF ExecutionInv, ExecutionTypeOK
<1>6. ~ahead'
  BY <1>1
<1> QED BY <1>1, <1>2, <1>3, <1>4, <1>5, <1>6 DEF ExecutionInv, ExecutionTypeOK

\* What is marked, with as many failures as retries.
LEMMA Marked ==
  ASSUME ExecutionInv, NEW status \in {"success", "failed", "skipped"},
         NEW n \in Nat, Mark(status, n), failures' = n
  PROVE  ExecutionInv'
<1>1. /\ execution # NoExecution /\ execution \in Executions
      /\ clock \in Nat /\ clock \in Int /\ clock' = clock
  BY DEF Mark, ExecutionInv, ExecutionTypeOK
<1>2. execution' = [execution EXCEPT !.status = status, !.executedAt = clock,
                                     !.retryCount = n]
  BY DEF Mark
<1>3. execution.scheduledDate \in Int
  BY <1>1 DEF Executions
<1>4. /\ ahead' \in BOOLEAN
      /\ ~ahead' => clock >= execution.scheduledDate
  <2> DEFINE premature == clock < execution.scheduledDate
  <2>1. ahead' = premature
    BY DEF Mark
  <2>2. premature \in BOOLEAN
    OBVIOUS
  <2>3. ~premature => clock >= execution.scheduledDate
    BY <1>1, <1>3
  <2> HIDE DEF premature
  <2> QED BY <2>1, <2>2, <2>3
<1>5. /\ execution' \in Executions
      /\ execution'.status = status /\ execution'.executedAt = clock
      /\ execution'.retryCount = n
      /\ execution'.scheduledDate = execution.scheduledDate
  BY <1>1, <1>2 DEF Executions, Statuses
<1>6. execution' # NoExecution
  BY <1>5 DEF NoExecution
<1> QED BY <1>1, <1>4, <1>5, <1>6 DEF ExecutionInv, ExecutionTypeOK

LEMMA ExecutionStep ==
  ASSUME ExecutionInv, ExecutionNext
  PROVE  ExecutionInv'
<1>1. /\ clock \in Nat
      /\ clock \in Int
      /\ execution \in Executions \cup {NoExecution}
      /\ failures \in Nat
      /\ execution = NoExecution => failures = 0
      /\ NoDate \notin Int
  BY ExecutionAssumption DEF ExecutionInv, ExecutionTypeOK
<1>2. ASSUME NEW date \in 0..(MaxClock + 1)
      PROVE  date \in Int
  BY ExecutionAssumption
<1>3. ASSUME NEW date \in 0..(MaxClock + 1), CreatePending(date)
      PROVE  ExecutionInv'
  BY <1>1, <1>2, <1>3, Constructed DEF CreatePending, Construct, Statuses
<1>4. ASSUME NEW date \in 0..(MaxClock + 1), CreateFromSuccess(date)
      PROVE  ExecutionInv'
  BY <1>1, <1>2, <1>4, Constructed DEF CreateFromSuccess, Construct, Statuses
<1>5. ASSUME NEW date \in 0..(MaxClock + 1), CreateFromFailure(date)
      PROVE  ExecutionInv'
  BY <1>1, <1>2, <1>5, Constructed DEF CreateFromFailure, Construct, Statuses
<1>6. CASE RecordFailedExecution
  BY <1>1, <1>6, Constructed DEF RecordFailedExecution, Construct, Statuses
<1>7. CASE MarkAsSuccess \/ MarkAsFailed \/ MarkAsSkipped
  <2>1. execution # NoExecution
    BY <1>7 DEF MarkAsSuccess, MarkAsFailed, MarkAsSkipped, Mark
  <2>2. execution.retryCount = failures
    BY <2>1 DEF ExecutionInv
  <2>3. CASE MarkAsSuccess
    BY <2>3, Marked DEF MarkAsSuccess
  <2>4. CASE MarkAsFailed
    <3>1. failures + 1 \in Nat
      BY <1>1
    <3>2. Mark("failed", failures + 1) /\ failures' = failures + 1
      BY <2>2, <2>4 DEF MarkAsFailed
    <3> QED BY <3>1, <3>2, Marked
  <2>5. CASE MarkAsSkipped
    BY <1>1, <2>2, <2>5, Marked DEF MarkAsSkipped
  <2> QED BY <1>7, <2>3, <2>4, <2>5
<1>8. ASSUME NEW date \in Int, execution \in Executions,
             execution # NoExecution, Retry(date) \/ Reschedule(date)
      PROVE  ExecutionInv'
  <2>1. /\ execution' = [execution EXCEPT !.status = "pending",
                           !.scheduledDate = date, !.executedAt = NoDate]
        /\ ~ahead' /\ clock' = clock /\ failures' = failures
        /\ ahead' \in BOOLEAN
    <3>1. CASE Retry(date)
      BY <3>1 DEF Retry, Pending
    <3>2. CASE Reschedule(date)
      <4>1. /\ execution.status = "pending" /\ execution.executedAt = NoDate
            /\ ~ahead /\ ahead \in BOOLEAN
        BY <1>8, <3>2 DEF Reschedule, ExecutionInv, ExecutionTypeOK
      <4>2. /\ execution' = [execution EXCEPT !.scheduledDate = date]
            /\ UNCHANGED <<clock, failures, ahead>>
        BY <3>2 DEF Reschedule
      <4>3. execution' = [execution EXCEPT !.status = "pending",
                           !.scheduledDate = date, !.executedAt = NoDate]
        BY <1>8, <4>1, <4>2 DEF Executions
      <4> QED BY <4>1, <4>2, <4>3
    <3> QED BY <1>8, <3>1, <3>2
  <2>2. /\ execution' \in Executions
        /\ execution'.status = "pending" /\ execution'.executedAt = NoDate
        /\ execution'.retryCount = execution.retryCount
        /\ execution'.retryCount = failures
    <3>1. execution.retryCount = failures
      BY <1>8 DEF ExecutionInv
    <3> QED BY <1>8, <2>1, <3>1 DEF Executions, Statuses
  <2>3. execution' # NoExecution
    <3>1. execution'.status # "none"
      BY <2>2
    <3> QED BY <3>1 DEF NoExecution
  <2> QED BY <1>1, <1>8, <2>1, <2>2, <2>3 DEF ExecutionInv, ExecutionTypeOK
<1>9. CASE Passes
  BY <1>9, ExecutionAssumption DEF Passes, ExecutionInv, ExecutionTypeOK
<1>10. \A date : Retry(date) \/ Reschedule(date) => execution # NoExecution
  BY DEF Retry, Reschedule
<1> QED
  BY <1>1, <1>2, <1>3, <1>4, <1>5, <1>6, <1>7, <1>8, <1>9, <1>10
  DEF ExecutionNext

-----------------------------------------------------------------------------
(* The group.                                                               *)

GroupInv ==
  /\ GroupTypeOK
  /\ (group # NoGroup /\ ~emptied) => Loads(group)

LEMMA GroupStep ==
  ASSUME GroupInv, GroupNext
  PROVE  GroupInv'
<1> USE DEF GroupInv, GroupTypeOK, Groups
<1>1. ASSUME NEW ms \in SUBSET Members, NEW n \in 0..(Cardinality(Members) + 1),
             CreateGroup(ms, n)
      PROVE  GroupInv'
  BY <1>1 DEF CreateGroup
<1>2. IsFiniteSet(group.members) /\ Cardinality(group.members) \in Nat
  BY MembersAssumption, FS_Subset, FS_CardinalityType
<1>3. ASSUME NEW a \in Members, AddMember(a)
      PROVE  GroupInv'
  <2>1. Cardinality(group.members \cup {a}) = Cardinality(group.members) + 1
    BY <1>2, <1>3, FS_AddElement DEF AddMember
  <2>2. /\ group'.members = group.members \cup {a}
        /\ group'.approvalThreshold = group.approvalThreshold
        /\ group' \in Groups
        /\ emptied' = emptied
        /\ group # NoGroup
    BY <1>3 DEF AddMember
  <2>3. (group' # NoGroup /\ ~emptied') => Loads(group')
    BY <1>2, <2>1, <2>2 DEF Loads
  <2> QED BY <2>2, <2>3
<1>4. ASSUME NEW a \in Members, RemoveMember(a)
      PROVE  GroupInv'
  <2> DEFINE ms == group.members \ {a}
  <2>1. IsFiniteSet(ms) /\ Cardinality(ms) \in Nat
    BY <1>2, FS_Subset, FS_CardinalityType
  <2>2. ms # {} => Cardinality(ms) > 0
    BY <2>1, FS_EmptySet
  <2>3. /\ group'.members = ms
        /\ group'.approvalThreshold = Adjusted(group.approvalThreshold, ms)
        /\ emptied' = (emptied \/ ms = {})
        /\ group # NoGroup
    BY <1>4 DEF RemoveMember
  <2>4. Adjusted(group.approvalThreshold, ms) \in Int
    BY <2>1 DEF Adjusted
  <2>5. group' \in Groups
    BY <1>4, <2>4 DEF RemoveMember
  <2>6. ASSUME ~emptied'
        PROVE  Loads(group')
    <3>1. ms # {} /\ Loads(group)
      BY <2>3, <2>6
    <3>2. /\ group.approvalThreshold \in Nat
          /\ group.approvalThreshold >= 1
          /\ Cardinality(ms) >= 1
      BY <1>2, <2>1, <2>2, <3>1 DEF Loads
    <3>3. Adjusted(group.approvalThreshold, ms) \in 1..Cardinality(ms)
      BY <2>1, <3>2 DEF Adjusted
    <3> QED BY <2>3, <3>1, <3>3 DEF Loads
  <2> QED BY <2>3, <2>5, <2>6
<1>5. ASSUME NEW n \in 0..(Cardinality(Members) + 1), UpdateApprovalThreshold(n)
      PROVE  GroupInv'
  BY <1>2, <1>5 DEF UpdateApprovalThreshold, Loads
<1> QED BY <1>1, <1>3, <1>4, <1>5 DEF GroupNext

-----------------------------------------------------------------------------
(* The entities.                                                            *)

IInv ==
  /\ called \in {"saving", "execution", "group"}
  /\ ScheduleInv
  /\ ExecutionInv
  /\ GroupInv

LEMMA InitInv == Init => IInv
<1> SUFFICES ASSUME Init PROVE IInv
  OBVIOUS
<1>1. ScheduleInv
  <2>1. LastMonth \in Nat /\ LastMonth >= 3
    <3>1. LastMonth \in Nat /\ LastDay.month \in 1..(LastMonth - 2)
      BY CalendarAssumption
    <3> QED BY <3>1
  <2>2. LengthOf[1] \in 28..31
    BY <2>1, CalendarAssumption
  <2>3. /\ today = [month |-> 1, day |-> 1] /\ recorded = today
        /\ saving = NoSaving
        /\ noon = FALSE /\ early = FALSE /\ missed = FALSE
    BY DEF Init, ScheduleInit, Date
  <2>4. Real(today) /\ today \in Dates
    BY <2>1, <2>2, <2>3 DEF Real, Dates
  <2> QED BY <2>3, <2>4 DEF ScheduleInv, OnTimeIsNotPast
<1>2. ExecutionInv
  BY DEF Init, ExecutionInit, ExecutionInv, ExecutionTypeOK
<1>3. GroupInv
  <2>1. NoGroup \in Groups
    BY DEF NoGroup, Groups
  <2> QED BY <2>1 DEF Init, GroupInit, GroupInv, GroupTypeOK
<1> QED BY <1>1, <1>2, <1>3 DEF Init, IInv

LEMMA StepInv == IInv /\ [Next]_vars => IInv'
<1> SUFFICES ASSUME IInv, [Next]_vars PROVE IInv'
  OBVIOUS
<1> USE DEF IInv, scheduleVars, executionVars, groupVars
<1>1. ASSUME UNCHANGED scheduleVars PROVE ScheduleInv'
  BY <1>1 DEF ScheduleInv, Real, NextOf, OnTimeIsNotPast
<1>2. ASSUME UNCHANGED executionVars PROVE ExecutionInv'
  BY <1>2 DEF ExecutionInv, ExecutionTypeOK
<1>3. ASSUME UNCHANGED groupVars PROVE GroupInv'
  BY <1>3 DEF GroupInv, GroupTypeOK
<1>4. CASE CallSaving
  BY <1>2, <1>3, <1>4, ScheduleStep DEF CallSaving
<1>5. CASE CallExecution
  BY <1>1, <1>3, <1>5, ExecutionStep DEF CallExecution
<1>6. CASE CallGroup
  BY <1>1, <1>2, <1>6, GroupStep DEF CallGroup
<1>7. CASE UNCHANGED vars
  BY <1>1, <1>2, <1>3, <1>7 DEF vars
<1> QED BY <1>4, <1>5, <1>6, <1>7 DEF Next

\* The invariant of the three objects.
THEOREM Invariance == Spec => []IInv
BY InitInv, StepInv, PTL DEF Spec

\* Every variable keeps its type.
THEOREM TypeCorrect == Spec => []TypeOK
<1>1. IInv => TypeOK
  BY RealIsDate DEF IInv, TypeOK, ScheduleInv, ScheduleTypeOK, ExecutionInv, GroupInv
<1> QED BY <1>1, Invariance, PTL

\* A saving whose runs are all recorded shows no date that has passed.
THEOREM OnTimeStaysAhead == Spec => []OnTimeIsNotPast
<1>1. IInv => OnTimeIsNotPast
  BY DEF IInv, ScheduleInv
<1> QED BY <1>1, Invariance, PTL

\* A saving whose date was computed after the run of its own day, up to the
\* 28th, shows the day of the next run.
THEOREM NextRunShown == Spec => []ShownIsNextRun
<1>1. IInv => ShownIsNextRun
  BY NextRunIsShown DEF IInv
<1> QED BY <1>1, Invariance, PTL

\* An execution that may be retried has failed fewer than MaxRetries times.
THEOREM RetriesCounted == Spec => []RetriesAreCounted
<1>1. IInv => RetriesAreCounted
  BY DEF IInv, ExecutionInv, RetriesAreCounted, CanRetry
<1> QED BY <1>1, Invariance, PTL

\* An execution in time is accepted when it is cloned.
THEOREM ClonesAccepted == Spec => []CloneAccepts
<1>1. IInv => CloneAccepts
  BY DEF IInv, ExecutionInv, CloneAccepts, Valid
<1> QED BY <1>1, Invariance, PTL

\* A group that was never empty loads and is not approved by nobody.
THEOREM GroupsLoad == Spec => []GroupLoads
<1>1. IInv => GroupLoads
  <2>1. ASSUME IInv, group # NoGroup, ~emptied
        PROVE  Loads(group) /\ ~CanApprove(0)
    <3>1. Loads(group) /\ group.approvalThreshold \in Int
      BY <2>1 DEF IInv, GroupInv, GroupTypeOK, Groups
    <3> QED BY <3>1 DEF Loads, CanApprove
  <2> QED BY <2>1 DEF GroupLoads
<1> QED BY <1>1, Invariance, PTL
=============================================================================
