--------------------------- MODULE SavingExecution ---------------------------
(***************************************************************************)
(* A SavingExecution: how it is made, and the calls that change its        *)
(* status, its dates and the count of its retries.                         *)
(*                                                                         *)
(* The clock counts instants, time passes between a call and the next.     *)
(* The amount, the hash, the error message and the metadata are left out:  *)
(* a hash is a hash, an amount is positive.                                *)
(***************************************************************************)
EXTENDS Integers

CONSTANTS
  NoDate,       \* executedAt = null
  MaxRetries,   \* the default of canRetry
  MaxFailures,  \* bound: failures of one execution
  MaxClock      \* bound: the clock

ASSUME ExecutionAssumption ==
  /\ NoDate \notin Int
  /\ MaxRetries \in Nat \ {0}
  /\ MaxFailures \in Nat
  /\ MaxClock \in Nat

VARIABLES
  clock,
  execution,  \* the execution, or NoExecution
  failures,   \* history: failures since it was made or last succeeded
  ahead       \* history: it was marked before its scheduled date

executionVars == <<clock, execution, failures, ahead>>

Statuses == {"pending", "success", "failed", "skipped"}

NoExecution == [status |-> "none"]

Executions ==
  [status : Statuses, scheduledDate : Int, executedAt : Int \cup {NoDate},
   retryCount : Nat]

ExecutionTypeOK ==
  /\ clock \in Nat
  /\ execution \in Executions \cup {NoExecution}
  /\ failures \in Nat
  /\ ahead \in BOOLEAN

ExecutionInit ==
  /\ clock = 0
  /\ execution = NoExecution
  /\ failures = 0
  /\ ahead = FALSE

-----------------------------------------------------------------------------
\* isOverdue of the execution e.
Overdue(e) == e.status = "pending" /\ e.scheduledDate < clock

\* validate: what the constructor accepts.
Valid(e) ==
  /\ ~Overdue(e)
  /\ e.executedAt # NoDate => e.executedAt >= e.scheduledDate

CanRetry(e) == e.status = "failed" /\ e.retryCount < MaxRetries

New(status, scheduledDate, executedAt, retryCount) ==
  [status |-> status, scheduledDate |-> scheduledDate,
   executedAt |-> executedAt, retryCount |-> retryCount]

Construct(e) ==
  /\ execution = NoExecution
  /\ Valid(e)
  /\ execution' = e
  /\ UNCHANGED <<clock, ahead>>

CreatePending(date) ==
  /\ Construct(New("pending", date, NoDate, 0))
  /\ UNCHANGED failures

CreateFromSuccess(date) ==
  /\ Construct(New("success", date, clock, 0))
  /\ UNCHANGED failures

CreateFromFailure(date) ==
  /\ Construct(New("failed", date, clock, 1))
  /\ failures' = 1

\* ProgressTrackingService.recordFailedExecution counts from zero.
RecordFailedExecution ==
  /\ Construct(New("failed", clock, clock, 0))
  /\ UNCHANGED failures

-----------------------------------------------------------------------------
\* A mark sets the time of execution, without a look at the schedule.
Mark(status, retryCount) ==
  /\ execution # NoExecution
  /\ execution' = [execution EXCEPT !.status = status, !.executedAt = clock,
                                    !.retryCount = retryCount]
  /\ ahead' = (clock < execution.scheduledDate)
  /\ UNCHANGED clock

MarkAsSuccess ==
  /\ Mark("success", 0)
  /\ failures' = 0

MarkAsFailed ==
  /\ failures < MaxFailures
  /\ Mark("failed", execution.retryCount + 1)
  /\ failures' = failures + 1

MarkAsSkipped ==
  /\ Mark("skipped", execution.retryCount)
  /\ UNCHANGED failures

\* Mutant of Pending: the retry counts from zero.
PendingUncounted(date) ==
  [execution EXCEPT !.status = "pending", !.scheduledDate = date,
                    !.executedAt = NoDate, !.retryCount = 0]

\* Mutant of Pending: the time of the last attempt stays.
PendingExecuted(date) ==
  [execution EXCEPT !.status = "pending", !.scheduledDate = date]

\* What retry makes of the execution.
Pending(date) ==
  [execution EXCEPT !.status = "pending", !.scheduledDate = date,
                    !.executedAt = NoDate]

\* retry, from any status.
Retry(date) ==
  /\ execution # NoExecution
  /\ date > clock
  /\ execution' = Pending(date)
  /\ ahead' = FALSE
  /\ UNCHANGED <<clock, failures>>

Reschedule(date) ==
  /\ execution # NoExecution
  /\ date > clock
  /\ execution.status = "pending"
  /\ execution' = [execution EXCEPT !.scheduledDate = date]
  /\ UNCHANGED <<clock, failures, ahead>>

Passes ==
  /\ clock < MaxClock
  /\ clock' = clock + 1
  /\ UNCHANGED <<execution, failures, ahead>>

ExecutionNext ==
  \/ \E date \in 0..(MaxClock + 1) :
       \/ CreatePending(date)
       \/ CreateFromSuccess(date)
       \/ CreateFromFailure(date)
       \/ Retry(date)
       \/ Reschedule(date)
  \/ RecordFailedExecution
  \/ MarkAsSuccess
  \/ MarkAsFailed
  \/ MarkAsSkipped
  \/ Passes

-----------------------------------------------------------------------------
\* An execution that may be retried has failed fewer than MaxRetries times since
\* it was made or last succeeded, however often it was retried, skipped and
\* rescheduled in between (markAsFailed, retry, canRetry).  The failure that
\* ProgressTrackingService makes one for does not count.
RetriesAreCounted ==
  (execution # NoExecution /\ CanRetry(execution)) => failures < MaxRetries

\* clone, which validates, accepts an execution that is not overdue and was not
\* marked ahead of its schedule, whatever was called on it (retry, reschedule).
CloneAccepts ==
  (execution # NoExecution /\ ~Overdue(execution) /\ ~ahead) =>
     Valid(execution)
=============================================================================
