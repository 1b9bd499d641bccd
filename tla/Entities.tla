------------------------------ MODULE Entities ------------------------------
(***************************************************************************)
(* The entities of the domain that keep rules of their own, as objects     *)
(* that are called: a saving and its schedule, an execution, a group       *)
(* delegation.  They share nothing, so a behaviour calls one of them.      *)
(***************************************************************************)
EXTENDS SavingSchedule, SavingExecution, GroupWallet

VARIABLE called   \* the object the calls go to

vars == <<called, today, noon, saving, recorded, early, missed, clock, execution, failures,
          ahead, group, emptied>>

TypeOK ==
  /\ called \in {"saving", "execution", "group"}
  /\ ScheduleTypeOK
  /\ ExecutionTypeOK
  /\ GroupTypeOK

Init ==
  /\ called \in {"saving", "execution", "group"}
  /\ ScheduleInit
  /\ ExecutionInit
  /\ GroupInit

CallSaving ==
  /\ called = "saving"
  /\ ScheduleNext
  /\ UNCHANGED <<called, executionVars, groupVars>>

CallExecution ==
  /\ called = "execution"
  /\ ExecutionNext
  /\ UNCHANGED <<called, scheduleVars, groupVars>>

CallGroup ==
  /\ called = "group"
  /\ GroupNext
  /\ UNCHANGED <<called, scheduleVars, executionVars>>

Next == CallSaving \/ CallExecution \/ CallGroup

Spec == Init /\ [][Next]_vars
=============================================================================
