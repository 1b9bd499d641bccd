--------------------------- MODULE AutoflowProps ---------------------------
(* What the autoflow core promises, as properties of Autoflow's state.      *)
EXTENDS Autoflow

\* While a deposit can still be sent or recorded, there is a saving to record
\* it in: the live row, which the foreign key lock of the PENDING row keeps
\* from a concurrent DELETE for the whole blockchain call, or the row that
\* saveChanges has inserted again (ExecuteSavingUseCase.execute).
DepositTargetsLiveSaving ==
  \A t \in Triggers :
    srv = "up" /\ tpc[t] \in {"submit", "receipt", "save2"} =>
      row[TargetOf[t]] = "live" \/ wrote[t]

\* Money is only ever sent from a transaction that can still record it, until
\* a shutdown takes the connection away.
DepositIsRecordable ==
  \A t \in Triggers :
    srv = "up" /\ tpc[t] \in {"submit", "receipt", "save2"} =>
      ~aborted[t] /\ exec[t] = "PENDING"

\* The executions of a saving that succeeded, in the table or deleted with it.
Succeeded(s) == {t \in TriggersOf(s) : Booked(t)}

\* The progress of a saving counts only executions whose SUCCESS was committed:
\* the two are written by one transaction, and a stale copy can only take
\* executions away again.  Their rows are still there, unless the saving was
\* deleted and the save of an execution brought its progress back.
ProgressBackedByExecutions ==
  \A s \in Creates :
    /\ saved[s] \subseteq Succeeded(s)
    /\ s \notin revived => \A t \in saved[s] : dbExec[t] = "SUCCESS"

\* When no two executions of a saving overlapped, its progress counts every
\* successful execution, whatever failed in between, and even across a
\* deletion that an execution undoes.
SerialProgressExact ==
  \A s \in Creates \ raced : row[s] = "live" => saved[s] = Succeeded(s)

\* A committed execution is SUCCESS or FAILED: the PENDING row of the first
\* saveChanges never outlives its transaction, however that ends.
NoPendingCommitted == \A t \in Triggers : dbExec[t] # "PENDING"

\* A committed SUCCESS has a receipt behind it.
SuccessHasReceipt ==
  \A t \in Triggers :
    Booked(t) => chain[t] \in {"mined", "reverted"}

\* When the worker is answered ok, the SUCCESS row of the execution was
\* committed: it is there, or a delete that came after it took it along.
OkAnswerIsRecorded ==
  \A t \in Triggers :
    tpc[t] = "done" /\ outcome[t] = "success" => Booked(t)

\* A notification of failure is never about an execution that is, or will be,
\* recorded as a success; one of success is never about a FAILED one.
NoteMatchesRecord ==
  \A t \in Triggers :
    /\ note[t] = "failed" => ~Booked(t) /\ exec[t] # "SUCCESS"
    /\ note[t] = "success" =>
         /\ "FAILED" \notin {dbExec[t], exec[t]}
         /\ chain[t] \in {"mined", "reverted"}

\* A deleted saving has no job at the worker, and never gets one again: when an
\* execution brings the saving back nothing registers its job.
DeletedHasNoJob ==
  \A s \in Creates : row[s] = "deleted" \/ s \in revived => s \notin jobs

\* A live saving that no execution brought back has its job unless a delete of
\* it failed, died or is about to commit: the job goes before the COMMIT that
\* removes the row.
LiveHasJob ==
  \A s \in Creates \ revived :
    row[s] = "live" /\ s \notin jobs =>
      \E d \in Deletes :
        VictimOf[d] = s /\ dpc[d] \in {"commit", "failed", "crashed"}

\* No deposit is sent to a goal whose setSavingsGoal operation the chain has
\* not included.
DepositAfterGoal ==
  \A t \in Triggers : chain[t] # "none" => goal[TargetOf[t]] # "none"

\* A user whose creations never overlapped keeps to the limit, but for savings
\* that an execution brought back after they were deleted: no creation has
\* counted those.
SerialCreatesRespectLimit ==
  \A u \in Users \ racedUsers :
    Cardinality(ActiveOf(u) \ revived) <= MaxActive

\* Seen from its records alone, the system is the atomic ledger: deposits are
\* sent for savings that were opened, results are recorded once and for
\* settled deposits, the progress never counts what was not booked, and a
\* closed saving comes back only with the result of an execution.
Ledger == INSTANCE SavingsLedger
            WITH Savings <- Creates, plan <- row, credit <- saved,
                 book <- dbExec, deposit <- chain
ImplementsLedger == Ledger!Spec

\* The next statement of an execution waits for a lock, or for another
\* execution to end that has inserted the same saving.
ExecutionWaits(t) ==
  /\ ~aborted[t]
  /\ \/ /\ tpc[t] = "save1"
        /\ row[TargetOf[t]] = "live" \/ plan[t] = "insert"
        /\ \/ BeingDeleted(TargetOf[t])
           \/ plan[t] # "keep" /\ BeingUpdated(t)
     \/ tpc[t] = "save2" /\ BeingUpdated(t)
     \/ tpc[t] = "save3" /\ plan[t] # "keep" /\ BeingUpdated(t)

\* The next statement of a delete waits for a lock.
DeleteWaits(d) ==
  /\ dpc[d] = "delete"
  /\ row[VictimOf[d]] = "live"
  /\ BeingUsed(VictimOf[d]) \/ BeingDeleted(VictimOf[d])

\* No circle of waits: an execution waits for one that has updated the saving
\* or for a delete that has its row, and neither waits for anybody.  A delete
\* may wait for an execution that waits in turn, but nobody waits for it.
\* (saveChanges is called twice in a transaction that keeps its locks, and
\* the first call may or may not have updated the saving.)
HoldersGoOn ==
  /\ \A t \in Triggers : wrote[t] => ~ExecutionWaits(t)
  /\ \A d \in Deletes : holds[d] => ~DeleteWaits(d)

\* Every request that starts ends, answered or killed with the process: lock
\* waits, the wait for the chain and failures included.
TriggersEnd ==
  \A t \in Triggers : tpc[t] # "idle" ~> tpc[t] \in Ended
DeletesEnd ==
  \A d \in Deletes : dpc[d] # "idle" ~> dpc[d] \in Ended

-----------------------------------------------------------------------------
(* What the code's own words say and the code does not do.                  *)

\* CreateSavingUseCase: "Maximum number of active flows (10) reached".
ActiveWithinLimit == \A u \in Users : Cardinality(ActiveOf(u)) <= MaxActive

\* SavingsBlockchainService: "Deposit to goal ${goalId} completed
\* successfully." is logged for, and SUCCESS recorded of, a mined deposit.
SuccessMeansDeposited ==
  \A t \in Triggers : dbExec[t] = "SUCCESS" => chain[t] = "mined"

=============================================================================
