------------------------------ MODULE Autoflow ------------------------------
(***************************************************************************)
(* The autoflow savings core: the three requests that touch a saving plan, *)
(* POST /savings/autoflow (create), POST /savings/autoflow/trigger (the    *)
(* cron worker's webhook) and DELETE /savings/autoflow, each running step  *)
(* by step, from one await to the next, inside the READ COMMITTED          *)
(* transaction that TypeORMSessionManager opens around it, against the     *)
(* tables time_based_savings and saving_executions, the cron worker, the   *)
(* savings contract and the event bus.                                     *)
(*                                                                         *)
(* Every request is used once, so a retry is another request.  A saving is *)
(* named by the create request that inserts it: its BIGSERIAL id is drawn  *)
(* once and never drawn again.  A saving is always active: CreateSaving    *)
(* sets isActive and nothing in the code clears it.                        *)
(***************************************************************************)
EXTENDS Naturals, FiniteSets

CONSTANTS
  Triggers,   \* webhook deliveries of the cron worker
  Creates,    \* create requests, and the savings they insert
  Deletes,    \* delete requests
  Users,      \* owners of savings
  UserOf,     \* UserOf[c]: the user that sent create request c
  TargetOf,   \* TargetOf[t]: the savingsId that webhook t carries
  VictimOf,   \* VictimOf[d]: the id that delete request d names
  MaxActive   \* the limit of active savings per user (10 in the code)

ASSUME AutoflowAssumption ==
  /\ UserOf \in [Creates -> Users]
  /\ TargetOf \in [Triggers -> Creates]
  /\ VictimOf \in [Deletes -> Creates]
  /\ IsFiniteSet(Creates)
  /\ MaxActive \in Nat \ {0}

VARIABLES
  \* committed rows
  row,      \* time_based_savings: "absent", "live" or "deleted"
  saved,    \* the successful executions a saving's progress JSON counts
  dbExec,   \* saving_executions: the status of the row of trigger t; "erased"
            \* is no row, but remembers that a SUCCESS row was deleted
  \* the outside world
  jobs,     \* savings with a job at the cron worker
  goal,     \* the setSavingsGoal operation of a saving on chain
  chain,    \* the deposit operation of a trigger on chain
  \* the requests
  tpc, copy, plan, exec, wrote, aborted, outcome,
  cpc,
  dpc, holds,
  \* the process and its event bus
  srv, pending, note,
  \* history
  raced,      \* savings on which two executions overlapped
  racedUsers, \* users for whom two creations overlapped
  revived     \* deleted savings that the save of an execution inserted again

dbVars      == <<row, saved, dbExec>>
worldVars   == <<jobs, goal, chain>>
triggerVars == <<tpc, copy, plan, exec, wrote, aborted, outcome>>
deleteVars  == <<dpc, holds>>
serverVars  == <<srv, pending, note>>
history     == <<raced, racedUsers, revived>>
vars == <<row, saved, dbExec, jobs, goal, chain, tpc, copy, plan, exec, wrote,
          aborted, outcome, cpc, dpc, holds, srv, pending, note, raced,
          racedUsers, revived>>

-----------------------------------------------------------------------------
Ended == {"done", "failed", "crashed"}

TriggerPc == {"idle", "find", "prepare", "save1", "submit", "receipt",
              "save2", "save3", "emit", "commit"} \cup Ended
CreatePc  == {"idle", "count", "insert", "register", "goal", "commit"}
               \cup Ended
DeletePc  == {"idle", "find", "delete", "deregister", "commit"} \cup Ended
Plan      == {"keep", "update", "insert"}
Status    == {"none", "PENDING", "SUCCESS", "FAILED"}
Outcome   == {"none", "success", "failed"}
ChainOp   == {"none", "pending", "mined", "reverted"}

TypeOK ==
  /\ row \in [Creates -> {"absent", "live", "deleted"}]
  /\ saved \in [Creates -> SUBSET Triggers]
  /\ dbExec \in [Triggers -> Status \cup {"erased"}]
  /\ jobs \in SUBSET Creates
  /\ goal \in [Creates -> {"none", "mined", "reverted"}]
  /\ chain \in [Triggers -> ChainOp]
  /\ tpc \in [Triggers -> TriggerPc]
  /\ copy \in [Triggers -> SUBSET Triggers]
  /\ plan \in [Triggers -> Plan]
  /\ exec \in [Triggers -> Status]
  /\ wrote \in [Triggers -> BOOLEAN]
  /\ aborted \in [Triggers -> BOOLEAN]
  /\ outcome \in [Triggers -> Outcome]
  /\ cpc \in [Creates -> CreatePc]
  /\ dpc \in [Deletes -> DeletePc]
  /\ holds \in [Deletes -> BOOLEAN]
  /\ srv \in {"up", "stopping", "down"}
  /\ pending \in [Triggers -> Outcome]
  /\ note \in [Triggers -> Outcome]
  /\ raced \in SUBSET Creates
  /\ racedUsers \in SUBSET Users
  /\ revived \in SUBSET Creates

Init ==
  /\ row = [s \in Creates |-> "absent"]
  /\ saved = [s \in Creates |-> {}]
  /\ dbExec = [t \in Triggers |-> "none"]
  /\ jobs = {}
  /\ goal = [s \in Creates |-> "none"]
  /\ chain = [t \in Triggers |-> "none"]
  /\ tpc = [t \in Triggers |-> "idle"]
  /\ copy = [t \in Triggers |-> {}]
  /\ plan = [t \in Triggers |-> "keep"]
  /\ exec = [t \in Triggers |-> "none"]
  /\ wrote = [t \in Triggers |-> FALSE]
  /\ aborted = [t \in Triggers |-> FALSE]
  /\ outcome = [t \in Triggers |-> "none"]
  /\ cpc = [c \in Creates |-> "idle"]
  /\ dpc = [d \in Deletes |-> "idle"]
  /\ holds = [d \in Deletes |-> FALSE]
  /\ srv = "up"
  /\ pending = [t \in Triggers |-> "none"]
  /\ note = [t \in Triggers |-> "none"]
  /\ raced = {}
  /\ racedUsers = {}
  /\ revived = {}

-----------------------------------------------------------------------------
(* Row locks.  The INSERT of an execution takes FOR KEY SHARE on the saving *)
(* it references, an UPDATE of the saving takes FOR NO KEY UPDATE, a DELETE *)
(* takes FOR UPDATE; all are held until the transaction ends or aborts.     *)

TriggersOf(s) == {t \in Triggers : TargetOf[t] = s}

\* Mutant of BeingDeleted: an INSERT or UPDATE does not wait for a DELETE.
BeingDeletedUnlocked(s) == FALSE

\* A transaction deleted saving s and has not ended.
BeingDeleted(s) == \E d \in Deletes : VictimOf[d] = s /\ holds[d]

\* Another execution updated the saving of t and has not ended.
BeingUpdated(t) ==
  \E u \in TriggersOf(TargetOf[t]) \ {t} : wrote[u]

\* Mutant of BeingUsed: no foreign key, so an INSERT locks nothing.
BeingUsedUnreferenced(s) == \E t \in TriggersOf(s) : wrote[t]

\* An execution of saving s has inserted its row, or updated the saving.
BeingUsed(s) == \E t \in TriggersOf(s) : exec[t] # "none" \/ wrote[t]

\* The SUCCESS of t was committed, whatever became of its row since.
Booked(t) == dbExec[t] \in {"SUCCESS", "erased"}

\* What TypeORM's save() of the saving, an entity with an id, is going to do
\* after its SELECT: insert it when there is no such row, update it when the
\* entity differs from the row, else nothing.  A transaction that has written
\* the saving sees what it wrote.
Selected(t) ==
  LET s == TargetOf[t] IN
  CASE wrote[t]                                -> "keep"
    [] ~wrote[t] /\ row[s] # "live"            -> "insert"
    [] ~wrote[t] /\ row[s] = "live"            ->
         IF saved[s] = copy[t] THEN "keep" ELSE "update"

InTx(t) == tpc[t] \in {"prepare", "save1", "submit", "receipt", "save2",
                       "save3", "emit", "commit"}

-----------------------------------------------------------------------------
(* POST /savings/autoflow/trigger: ExecuteSavingUseCase.                    *)

Goto(t, label) == tpc' = [tpc EXCEPT ![t] = label]

\* The worker's cron job of a saving fires and delivers webhook t.
Fire(t) ==
  /\ srv = "up"
  /\ tpc[t] = "idle"
  /\ TargetOf[t] \in jobs
  /\ Goto(t, "find")
  /\ UNCHANGED <<dbVars, worldVars, copy, plan, exec, wrote, aborted,
                 outcome, cpc, deleteVars, serverVars, history>>

\* findById reads the committed row into the entity.
FindById(t) ==
  /\ tpc[t] = "find"
  /\ srv = "up"
  /\ row[TargetOf[t]] = "live"
  /\ copy' = [copy EXCEPT ![t] = saved[TargetOf[t]]]
  /\ raced' = IF \E u \in TriggersOf(TargetOf[t]) \ {t} : InTx(u)
                THEN raced \cup {TargetOf[t]} ELSE raced
  /\ Goto(t, "prepare")
  /\ UNCHANGED <<dbVars, worldVars, plan, exec, wrote, aborted, outcome, cpc,
                 deleteVars, serverVars, racedUsers, revived>>

\* findById throws, outside the try: rolled back, no event.
FindByIdThrows(t) ==
  /\ tpc[t] = "find"
  /\ row[TargetOf[t]] # "live" \/ srv # "up"
  /\ Goto(t, "failed")
  /\ UNCHANGED <<dbVars, worldVars, copy, plan, exec, wrote, aborted,
                 outcome, cpc, deleteVars, serverVars, history>>

\* The user is found and SavingExecution.createPending builds the execution.
CreatePending(t) ==
  /\ tpc[t] = "prepare"
  /\ plan' = [plan EXCEPT ![t] = Selected(t)]
  /\ Goto(t, "save1")
  /\ UNCHANGED <<dbVars, worldVars, copy, exec, wrote, aborted, outcome, cpc,
                 deleteVars, serverVars, history>>

\* The lookup fails, or the clock ticks between the scheduled date and the
\* entity's own "not in the past" validation: nothing written, failed event.
CreatePendingThrows(t) ==
  /\ tpc[t] = "prepare"
  /\ outcome' = [outcome EXCEPT ![t] = "failed"]
  /\ Goto(t, "emit")
  /\ UNCHANGED <<dbVars, worldVars, copy, plan, exec, wrote, aborted, cpc,
                 deleteVars, serverVars, history>>

\* First saveChanges: the saving as its SELECT has decided, and the PENDING
\* execution.  A saving that was deleted between findById and the SELECT is
\* inserted again, and the foreign key of the execution is satisfied.
SavePending(t) ==
  /\ tpc[t] = "save1"
  /\ ~aborted[t]
  /\ row[TargetOf[t]] = "live" <=> plan[t] # "insert"
  /\ ~BeingDeleted(TargetOf[t])
  /\ plan[t] # "keep" => ~BeingUpdated(t)
  /\ wrote' = [wrote EXCEPT ![t] = plan[t] # "keep"]
  /\ plan' = [plan EXCEPT ![t] = "keep"]
  /\ exec' = [exec EXCEPT ![t] = "PENDING"]
  /\ Goto(t, "submit")
  /\ UNCHANGED <<dbVars, worldVars, copy, aborted, outcome, cpc, deleteVars,
                 serverVars, history>>

\* PostgreSQL aborts the transaction at the first statement that fails, and
\* drops its locks; every later statement of it fails too.
AbortTo(t, label) ==
  /\ aborted' = [aborted EXCEPT ![t] = TRUE]
  /\ wrote' = [wrote EXCEPT ![t] = FALSE]
  /\ plan' = [plan EXCEPT ![t] = "keep"]
  /\ exec' = [exec EXCEPT ![t] = "none"]
  /\ Goto(t, label)
  /\ UNCHANGED <<dbVars, worldVars, copy, cpc, deleteVars, serverVars, history>>

\* The saving went after the SELECT, and the execution violates its foreign
\* key; or another execution inserted it meanwhile, and the key is a duplicate.
SavePendingRejected(t) ==
  /\ tpc[t] = "save1"
  /\ row[TargetOf[t]] = "live" <=> plan[t] = "insert"
  /\ ~BeingDeleted(TargetOf[t])
  /\ plan[t] = "insert" => ~BeingUpdated(t)
  /\ AbortTo(t, "emit")
  /\ outcome' = [outcome EXCEPT ![t] = "failed"]

\* Mutant: the error of the first save is logged and execution goes on.
SavePendingThrowsSwallowed(t) ==
  /\ tpc[t] = "save1"
  /\ AbortTo(t, "submit")
  /\ UNCHANGED outcome

\* Any other database error.
SavePendingThrows(t) ==
  /\ tpc[t] = "save1"
  /\ AbortTo(t, "emit")
  /\ outcome' = [outcome EXCEPT ![t] = "failed"]

\* sponsorTransaction hands the deposit to the bundler.
Submit(t) ==
  /\ tpc[t] = "submit"
  /\ chain' = [chain EXCEPT ![t] = "pending"]
  /\ Goto(t, "receipt")
  /\ UNCHANGED <<dbVars, jobs, goal, copy, plan, exec, wrote, aborted,
                 outcome, cpc, deleteVars, serverVars, history>>

\* Mutant: a failure before the submission is not saved as FAILED.
SubmitThrowsUnsaved(t) ==
  /\ tpc[t] = "submit"
  /\ outcome' = [outcome EXCEPT ![t] = "failed"]
  /\ Goto(t, "emit")
  /\ UNCHANGED <<dbVars, worldVars, copy, plan, exec, wrote, aborted, cpc,
                 deleteVars, serverVars, history>>

\* It throws before that: insufficient funds, deployment or RPC failure.
SubmitThrows(t) ==
  /\ tpc[t] = "submit"
  /\ plan' = [plan EXCEPT ![t] = Selected(t)]
  /\ Goto(t, "save3")
  /\ UNCHANGED <<dbVars, worldVars, copy, exec, wrote, aborted, outcome, cpc,
                 deleteVars, serverVars, history>>

\* The chain includes the operation, whoever still waits for it; the call
\* inside it may revert.
Mine(t) ==
  /\ chain[t] = "pending"
  /\ \E r \in {"mined", "reverted"} : chain' = [chain EXCEPT ![t] = r]
  /\ UNCHANGED <<dbVars, jobs, goal, triggerVars, cpc, deleteVars, serverVars,
                 history>>

\* Mutant of ReceiptArrives: the progress of the saving is not recorded.
ReceiptArrivesUncounted(t) ==
  /\ tpc[t] = "receipt"
  /\ chain[t] \in {"mined", "reverted"}
  /\ Goto(t, "save2")
  /\ UNCHANGED <<dbVars, worldVars, copy, plan, exec, wrote, aborted,
                 outcome, cpc, deleteVars, serverVars, history>>

\* A receipt arrives, of a success or of a revert alike: markAsSuccess and
\* recordSuccessfulSave on the entities in memory.
ReceiptArrives(t) ==
  /\ tpc[t] = "receipt"
  /\ chain[t] \in {"mined", "reverted"}
  /\ copy' = [copy EXCEPT ![t] = @ \cup {t}]
  /\ Goto(t, "save2")
  /\ UNCHANGED <<dbVars, worldVars, plan, exec, wrote, aborted, outcome, cpc,
                 deleteVars, serverVars, history>>

\* Mutant of ReceiptTimesOut: an operation that is not included is awaited
\* for ever.
ReceiptTimesOutIncluded(t) ==
  /\ tpc[t] = "receipt"
  /\ chain[t] \in {"mined", "reverted"}
  /\ plan' = [plan EXCEPT ![t] = Selected(t)]
  /\ Goto(t, "save3")
  /\ UNCHANGED <<dbVars, worldVars, copy, exec, wrote, aborted, outcome, cpc,
                 deleteVars, serverVars, history>>

\* waitForUserOperationReceipt gives up, mined or not.
ReceiptTimesOut(t) ==
  /\ tpc[t] = "receipt"
  /\ plan' = [plan EXCEPT ![t] = Selected(t)]
  /\ Goto(t, "save3")
  /\ UNCHANGED <<dbVars, worldVars, copy, exec, wrote, aborted, outcome, cpc,
                 deleteVars, serverVars, history>>

\* Second saveChanges: progress (it always differs) and SUCCESS.
SaveSuccess(t) ==
  /\ tpc[t] = "save2"
  /\ ~aborted[t]
  /\ ~BeingUpdated(t)
  /\ wrote' = [wrote EXCEPT ![t] = TRUE]
  /\ exec' = [exec EXCEPT ![t] = "SUCCESS"]
  /\ outcome' = [outcome EXCEPT ![t] = "success"]
  /\ Goto(t, "emit")
  /\ UNCHANGED <<dbVars, worldVars, copy, plan, aborted, cpc, deleteVars,
                 serverVars, history>>

\* Mutant: a save that fails after the deposit still counts as a success.
SaveSuccessThrowsSwallowed(t) ==
  /\ tpc[t] = "save2"
  /\ AbortTo(t, "emit")
  /\ outcome' = [outcome EXCEPT ![t] = "success"]

\* It throws after the deposit: the inner catch marks the execution FAILED
\* and saves again, in the transaction that is now aborted.
SaveSuccessThrows(t) ==
  /\ tpc[t] = "save2"
  /\ AbortTo(t, "save3")
  /\ UNCHANGED outcome

\* saveChanges of the inner catch: FAILED, and the saving as it was read if
\* another execution has changed it since.
SaveFailure(t) ==
  /\ tpc[t] = "save3"
  /\ ~aborted[t]
  /\ plan[t] # "keep" => ~BeingUpdated(t)
  /\ wrote' = [wrote EXCEPT ![t] = @ \/ plan[t] # "keep"]
  /\ plan' = [plan EXCEPT ![t] = "keep"]
  /\ exec' = [exec EXCEPT ![t] = "FAILED"]
  /\ outcome' = [outcome EXCEPT ![t] = "failed"]
  /\ Goto(t, "emit")
  /\ UNCHANGED <<dbVars, worldVars, copy, aborted, cpc, deleteVars,
                 serverVars, history>>

\* Mutant: the inner catch saves in a transaction of its own.
SaveFailureAnew(t) ==
  /\ tpc[t] = "save3"
  /\ aborted[t]
  /\ srv = "up"
  /\ row[TargetOf[t]] = "live"
  /\ ~BeingUpdated(t)
  /\ aborted' = [aborted EXCEPT ![t] = FALSE]
  /\ wrote' = [wrote EXCEPT ![t] = TRUE]
  /\ exec' = [exec EXCEPT ![t] = "FAILED"]
  /\ outcome' = [outcome EXCEPT ![t] = "failed"]
  /\ Goto(t, "emit")
  /\ UNCHANGED <<dbVars, worldVars, copy, plan, cpc, deleteVars, serverVars,
                 history>>

\* Nothing can be saved in an aborted transaction.
SaveFailureRejected(t) ==
  /\ tpc[t] = "save3"
  /\ aborted[t]
  /\ AbortTo(t, "emit")
  /\ outcome' = [outcome EXCEPT ![t] = "failed"]

SaveFailureThrows(t) ==
  /\ tpc[t] = "save3"
  /\ ~aborted[t]
  /\ AbortTo(t, "emit")
  /\ outcome' = [outcome EXCEPT ![t] = "failed"]

\* Mutant of EmitEvent: the event is always one of success.
EmitEventSuccess(t) ==
  /\ tpc[t] = "emit"
  /\ srv = "up"
  /\ pending' = [pending EXCEPT ![t] = "success"]
  /\ Goto(t, "commit")
  /\ UNCHANGED <<dbVars, worldVars, copy, plan, exec, wrote, aborted,
                 outcome, cpc, deleteVars, srv, note, history>>

\* emitEvent publishes without awaiting, before the transaction commits.
EmitEvent(t) ==
  /\ tpc[t] = "emit"
  /\ srv = "up"
  /\ pending' = [pending EXCEPT ![t] = outcome[t]]
  /\ Goto(t, "commit")
  /\ UNCHANGED <<dbVars, worldVars, copy, plan, exec, wrote, aborted,
                 outcome, cpc, deleteVars, srv, note, history>>

\* Mutant: the connection keeps its transaction open after the commit.
CommitKeepsLocks(t) ==
  /\ tpc[t] = "commit"
  /\ srv = "up"
  /\ dbExec' = IF exec[t] = "none" THEN dbExec
               ELSE [dbExec EXCEPT ![t] = exec[t]]
  /\ saved' = IF wrote[t] THEN [saved EXCEPT ![TargetOf[t]] = copy[t]]
              ELSE saved
  /\ row' = IF wrote[t] THEN [row EXCEPT ![TargetOf[t]] = "live"] ELSE row
  /\ Goto(t, "done")
  /\ UNCHANGED <<worldVars, copy, plan, exec, wrote, aborted,
                 outcome, cpc, deleteVars, serverVars, history>>

\* COMMIT publishes what was written, a saving that was inserted again too; of
\* an aborted transaction it is a ROLLBACK that reports no error.  The answer
\* follows: ok for "success".
Commit(t) ==
  LET s == TargetOf[t] IN
  /\ tpc[t] = "commit"
  /\ srv = "up"
  /\ dbExec' = IF exec[t] = "none" THEN dbExec
               ELSE [dbExec EXCEPT ![t] = exec[t]]
  /\ saved' = IF wrote[t] THEN [saved EXCEPT ![s] = copy[t]] ELSE saved
  /\ row' = IF wrote[t] THEN [row EXCEPT ![s] = "live"] ELSE row
  /\ revived' = IF wrote[t] /\ row[s] # "live" THEN revived \cup {s}
                ELSE revived
  /\ exec' = [exec EXCEPT ![t] = "none"]
  /\ wrote' = [wrote EXCEPT ![t] = FALSE]
  /\ Goto(t, "done")
  /\ UNCHANGED <<worldVars, copy, plan, aborted, outcome, cpc, deleteVars,
                 serverVars, raced, racedUsers>>

\* The COMMIT itself fails: rolled back, and the request answers an error.
CommitThrows(t) ==
  /\ tpc[t] = "commit"
  /\ exec' = [exec EXCEPT ![t] = "none"]
  /\ wrote' = [wrote EXCEPT ![t] = FALSE]
  /\ Goto(t, "failed")
  /\ UNCHANGED <<dbVars, worldVars, copy, plan, aborted, outcome, cpc,
                 deleteVars, serverVars, history>>

\* InAppNotificationHandler saves the notification on a connection of its own.
Notify(t) ==
  /\ srv = "up"
  /\ pending[t] # "none"
  /\ note' = [note EXCEPT ![t] = pending[t]]
  /\ pending' = [pending EXCEPT ![t] = "none"]
  /\ UNCHANGED <<dbVars, worldVars, triggerVars, cpc, deleteVars, srv,
                 history>>

\* The handler throws: the bus logs the error and the notification is lost.
NotifyThrows(t) ==
  /\ pending[t] # "none"
  /\ pending' = [pending EXCEPT ![t] = "none"]
  /\ UNCHANGED <<dbVars, worldVars, triggerVars, cpc, deleteVars, srv, note,
                 history>>

-----------------------------------------------------------------------------
(* POST /savings/autoflow: CreateSavingUseCase.                             *)

GotoC(c, label) == cpc' = [cpc EXCEPT ![c] = label]

ActiveOf(u) == {s \in Creates : UserOf[s] = u /\ row[s] = "live"}

\* Between the count of the active savings and the end of the transaction.
Creating(c) == cpc[c] \in {"insert", "register", "goal", "commit"}

ReceiveCreate(c) ==
  /\ srv = "up"
  /\ cpc[c] = "idle"
  /\ GotoC(c, "count")
  /\ UNCHANGED <<dbVars, worldVars, triggerVars, deleteVars, serverVars,
                 history>>

\* Mutant: the count may reach the limit and one more is let in.
CountActiveOffByOne(c) ==
  /\ cpc[c] = "count"
  /\ srv = "up"
  /\ Cardinality(ActiveOf(UserOf[c])) <= MaxActive
  /\ GotoC(c, "insert")
  /\ UNCHANGED <<dbVars, worldVars, triggerVars, deleteVars, serverVars,
                 history>>

\* findByUserIdAndActive counts committed rows; the request is refused at the
\* limit.
CountActive(c) ==
  /\ cpc[c] = "count"
  /\ srv = "up"
  /\ IF Cardinality(ActiveOf(UserOf[c])) >= MaxActive
       THEN /\ GotoC(c, "failed")
            /\ UNCHANGED racedUsers
       ELSE /\ GotoC(c, "insert")
            /\ racedUsers' =
                 IF \E b \in Creates \ {c} : UserOf[b] = UserOf[c] /\ Creating(b)
                   THEN racedUsers \cup {UserOf[c]} ELSE racedUsers
  /\ UNCHANGED <<dbVars, worldVars, triggerVars, deleteVars, serverVars,
                 raced, revived>>

\* TimeBasedSaving.validate or getCronExpression throws.
RefuseCreate(c) ==
  /\ cpc[c] = "count"
  /\ GotoC(c, "failed")
  /\ UNCHANGED <<dbVars, worldVars, triggerVars, deleteVars, serverVars,
                 history>>

\* savingRepository.save inserts the row, visible to this transaction only.
InsertSaving(c) ==
  /\ cpc[c] = "insert"
  /\ srv = "up"
  /\ GotoC(c, "register")
  /\ UNCHANGED <<dbVars, worldVars, triggerVars, deleteVars, serverVars,
                 history>>

\* worker.registerOperation: the job exists from here on, whatever follows.
RegisterOperation(c) ==
  /\ cpc[c] = "register"
  /\ jobs' = jobs \cup {c}
  /\ GotoC(c, "goal")
  /\ UNCHANGED <<dbVars, goal, chain, triggerVars, deleteVars, serverVars,
                 history>>

\* Mutant: the error of the worker is swallowed.
RegisterOperationThrowsSwallowed(c) ==
  /\ cpc[c] = "register"
  /\ jobs' \in {jobs, jobs \cup {c}}
  /\ GotoC(c, "goal")
  /\ UNCHANGED <<dbVars, goal, chain, triggerVars, deleteVars, serverVars,
                 history>>

\* The call fails, before or after the worker has stored the job.
RegisterOperationThrows(c) ==
  /\ cpc[c] = "register"
  /\ jobs' \in {jobs, jobs \cup {c}}
  /\ GotoC(c, "failed")
  /\ UNCHANGED <<dbVars, goal, chain, triggerVars, deleteVars, serverVars,
                 history>>

\* setSavingsGoal waits for a receipt and does not look at its success flag.
SetSavingsGoal(c) ==
  /\ cpc[c] = "goal"
  /\ \E r \in {"mined", "reverted"} : goal' = [goal EXCEPT ![c] = r]
  /\ GotoC(c, "commit")
  /\ UNCHANGED <<dbVars, jobs, chain, triggerVars, deleteVars, serverVars,
                 history>>

\* Mutant: the error of the blockchain service is swallowed.
SetSavingsGoalThrowsSwallowed(c) ==
  /\ cpc[c] = "goal"
  /\ \E r \in {"none", "mined", "reverted"} : goal' = [goal EXCEPT ![c] = r]
  /\ GotoC(c, "commit")
  /\ UNCHANGED <<dbVars, jobs, chain, triggerVars, deleteVars, serverVars,
                 history>>

\* It throws, before or after the operation is on chain: rolled back.
SetSavingsGoalThrows(c) ==
  /\ cpc[c] = "goal"
  /\ \E r \in {"none", "mined", "reverted"} : goal' = [goal EXCEPT ![c] = r]
  /\ GotoC(c, "failed")
  /\ UNCHANGED <<dbVars, jobs, chain, triggerVars, deleteVars, serverVars,
                 history>>

CommitCreate(c) ==
  /\ cpc[c] = "commit"
  /\ srv = "up"
  /\ row' = [row EXCEPT ![c] = "live"]
  /\ GotoC(c, "done")
  /\ UNCHANGED <<saved, dbExec, worldVars, triggerVars, deleteVars,
                 serverVars, history>>

\* The INSERT or the COMMIT fails: rolled back; the job, once registered, stays.
CreateDbThrows(c) ==
  /\ cpc[c] \in {"insert", "commit"}
  /\ GotoC(c, "failed")
  /\ UNCHANGED <<dbVars, worldVars, triggerVars, deleteVars, serverVars,
                 history>>

-----------------------------------------------------------------------------
(* DELETE /savings/autoflow: DeleteSavingUseCase.                           *)

GotoD(d, label) == dpc' = [dpc EXCEPT ![d] = label]

ReceiveDelete(d) ==
  /\ srv = "up"
  /\ dpc[d] = "idle"
  /\ GotoD(d, "find")
  /\ UNCHANGED <<dbVars, worldVars, triggerVars, cpc, holds, serverVars,
                 history>>

FindVictim(d) ==
  /\ dpc[d] = "find"
  /\ srv = "up"
  /\ GotoD(d, IF row[VictimOf[d]] = "live" THEN "delete" ELSE "failed")
  /\ UNCHANGED <<dbVars, worldVars, triggerVars, cpc, holds, serverVars,
                 history>>

\* DELETE waits for every transaction that uses the row; it does not see one
\* that an execution is about to insert again, and to affect no row, as after
\* the COMMIT of a concurrent delete, is no error.
DeleteRow(d) ==
  /\ dpc[d] = "delete"
  /\ srv = "up"
  /\ row[VictimOf[d]] = "live" =>
       ~BeingUsed(VictimOf[d]) /\ ~BeingDeleted(VictimOf[d])
  /\ holds' = [holds EXCEPT ![d] = row[VictimOf[d]] = "live"]
  /\ GotoD(d, "deregister")
  /\ UNCHANGED <<dbVars, worldVars, triggerVars, cpc, serverVars, history>>

DeregisterOperation(d) ==
  /\ dpc[d] = "deregister"
  /\ jobs' = jobs \ {VictimOf[d]}
  /\ GotoD(d, "commit")
  /\ UNCHANGED <<dbVars, goal, chain, triggerVars, cpc, holds, serverVars,
                 history>>

\* Mutant: the error of the worker is swallowed.
DeregisterOperationThrowsSwallowed(d) ==
  /\ dpc[d] = "deregister"
  /\ jobs' \in {jobs, jobs \ {VictimOf[d]}}
  /\ GotoD(d, "commit")
  /\ UNCHANGED <<dbVars, goal, chain, triggerVars, cpc, holds, serverVars,
                 history>>

\* The call fails, before or after the worker has dropped the job.
DeregisterOperationThrows(d) ==
  /\ dpc[d] = "deregister"
  /\ jobs' \in {jobs, jobs \ {VictimOf[d]}}
  /\ holds' = [holds EXCEPT ![d] = FALSE]
  /\ GotoD(d, "failed")
  /\ UNCHANGED <<dbVars, goal, chain, triggerVars, cpc, serverVars, history>>

\* The foreign key cascades: the executions of the saving go with it.
CommitDelete(d) ==
  /\ dpc[d] = "commit"
  /\ srv = "up"
  /\ IF holds[d]
       THEN /\ row' = [row EXCEPT ![VictimOf[d]] = "deleted"]
            /\ saved' = [saved EXCEPT ![VictimOf[d]] = {}]
            /\ dbExec' = [t \in Triggers |->
                 CASE t \notin TriggersOf(VictimOf[d]) -> dbExec[t]
                   [] t \in TriggersOf(VictimOf[d]) ->
                        IF Booked(t) THEN "erased" ELSE "none"]
       ELSE UNCHANGED dbVars
  /\ holds' = [holds EXCEPT ![d] = FALSE]
  /\ GotoD(d, "done")
  /\ UNCHANGED <<worldVars, triggerVars, cpc, serverVars, history>>

DeleteDbThrows(d) ==
  /\ dpc[d] \in {"find", "delete", "commit"}
  /\ holds' = [holds EXCEPT ![d] = FALSE]
  /\ GotoD(d, "failed")
  /\ UNCHANGED <<dbVars, worldVars, triggerVars, cpc, serverVars, history>>

-----------------------------------------------------------------------------
(* The process: main.ts.                                                    *)

\* The process exits: open transactions are rolled back, requests in flight
\* and events being handled are gone; the worker and the chain go on.
Die ==
  /\ srv' = "down"
  /\ tpc' = [t \in Triggers |->
       IF tpc[t] \in Ended \cup {"idle"} THEN tpc[t] ELSE "crashed"]
  /\ cpc' = [c \in Creates |->
       IF cpc[c] \in Ended \cup {"idle"} THEN cpc[c] ELSE "crashed"]
  /\ dpc' = [d \in Deletes |->
       IF dpc[d] \in Ended \cup {"idle"} THEN dpc[d] ELSE "crashed"]
  /\ exec' = [t \in Triggers |-> "none"]
  /\ wrote' = [t \in Triggers |-> FALSE]
  /\ holds' = [d \in Deletes |-> FALSE]
  /\ pending' = [t \in Triggers |-> "none"]
  /\ UNCHANGED <<dbVars, worldVars, copy, plan, aborted, outcome, note,
                 history>>

Crash == srv = "up" /\ Die

\* SIGTERM: close() stops the bus at once and destroys the data source, which
\* takes every open connection away from the request that uses it: its
\* transaction is rolled back and its next statement throws.
Shutdown ==
  /\ srv = "up"
  /\ srv' = "stopping"
  /\ aborted' = [t \in Triggers |-> aborted[t] \/ InTx(t)]
  /\ exec' = [t \in Triggers |-> "none"]
  /\ wrote' = [t \in Triggers |-> FALSE]
  /\ holds' = [d \in Deletes |-> FALSE]
  /\ UNCHANGED <<dbVars, worldVars, tpc, copy, plan, outcome, cpc, dpc, pending,
                 note, history>>

\* The pool has ended, or the five seconds are over: process.exit.
ShutdownEnds == srv = "stopping" /\ Die

\* publish throws on a stopped bus; nobody awaits it, and the process exits on
\* the unhandled rejection.
EmitOnStoppedBus(t) == tpc[t] = "emit" /\ srv = "stopping" /\ Die

Restart ==
  /\ srv = "down"
  /\ srv' = "up"
  /\ UNCHANGED <<dbVars, worldVars, triggerVars, cpc, deleteVars, pending,
                 note, history>>

-----------------------------------------------------------------------------
\* What the code does next when nothing it calls fails, and what it must do
\* when something has failed.
TriggerStep(t) ==
  \/ FindById(t) \/ FindByIdThrows(t)
  \/ CreatePending(t)
  \/ SavePending(t) \/ SavePendingRejected(t)
  \/ Submit(t)
  \/ ReceiptArrives(t) \/ ReceiptTimesOut(t)
  \/ SaveSuccess(t)
  \/ SaveFailure(t) \/ SaveFailureRejected(t)
  \/ EmitEvent(t) \/ EmitOnStoppedBus(t)
  \/ Commit(t)

\* A call fails.
TriggerFault(t) ==
  \/ CreatePendingThrows(t)
  \/ SavePendingThrows(t)
  \/ SubmitThrows(t)
  \/ SaveSuccessThrows(t)
  \/ SaveFailureThrows(t)
  \/ CommitThrows(t)

CreateStep(c) ==
  \/ CountActive(c)
  \/ InsertSaving(c)
  \/ RegisterOperation(c)
  \/ SetSavingsGoal(c)
  \/ CommitCreate(c)

CreateFault(c) ==
  \/ RefuseCreate(c)
  \/ RegisterOperationThrows(c)
  \/ SetSavingsGoalThrows(c)
  \/ CreateDbThrows(c)

DeleteStep(d) ==
  \/ FindVictim(d)
  \/ DeleteRow(d)
  \/ DeregisterOperation(d)
  \/ CommitDelete(d)

DeleteFault(d) == DeregisterOperationThrows(d) \/ DeleteDbThrows(d)

\* Every request has been used: nothing is left to do.
Quiet ==
  /\ \A t \in Triggers : tpc[t] \in Ended \cup {"idle"}
  /\ \A c \in Creates : cpc[c] \in Ended
  /\ \A d \in Deletes : dpc[d] \in Ended
  /\ UNCHANGED vars

Next ==
  \/ \E t \in Triggers :
       \/ Fire(t) \/ TriggerStep(t) \/ TriggerFault(t)
       \/ Mine(t) \/ Notify(t) \/ NotifyThrows(t)
  \/ \E c \in Creates : ReceiveCreate(c) \/ CreateStep(c) \/ CreateFault(c)
  \/ \E d \in Deletes : ReceiveDelete(d) \/ DeleteStep(d) \/ DeleteFault(d)
  \/ Crash \/ Shutdown \/ ShutdownEnds \/ Restart
  \/ Quiet

Spec == Init /\ [][Next]_vars

\* Node runs every continuation that is ready, PostgreSQL grants a lock once
\* it is free, and the calls a request awaits return (the wait for a receipt
\* times out); a shutdown is over after five seconds.  No failure is assumed
\* to happen: in particular a request that waits for a lock is never freed by
\* an error.
Fairness ==
  /\ \A t \in Triggers : WF_vars(TriggerStep(t))
  /\ \A c \in Creates : WF_vars(CreateStep(c))
  /\ \A d \in Deletes : WF_vars(DeleteStep(d))
  /\ WF_vars(ShutdownEnds)

FairSpec == Spec /\ Fairness
=============================================================================
