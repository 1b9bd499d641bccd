--------------------------- MODULE AutoflowProofs ---------------------------
(***************************************************************************)
(* For any number of savings, users, executions and deletes: the types and *)
(* the inductive invariant of Autoflow, the safety properties that follow  *)
(* from it, the waits for locks, and the refinement of SavingsLedger.  One *)
(* lemma per part of the invariant; in each, the actions that cannot       *)
(* disturb the part for a common reason share a step.                      *)
(***************************************************************************)
EXTENDS AutoflowInv, FiniteSetTheorems, TLAPS

CreateAct(c) == ReceiveCreate(c) \/ CreateStep(c) \/ CreateFault(c)
DeleteAct(d) == ReceiveDelete(d) \/ DeleteStep(d) \/ DeleteFault(d)
Observe(t)   == Notify(t) \/ NotifyThrows(t)

\* What a create request leaves alone.
LEMMA CreateFrame ==
  ASSUME NEW c \in Creates, CreateAct(c)
  PROVE  UNCHANGED <<saved, dbExec, chain, tpc, copy, plan, exec, wrote,
                     aborted, outcome, dpc, holds, srv, pending, note, raced,
                     revived>>
BY DEF CreateAct, CreateStep, CreateFault, ReceiveCreate, CountActive,
   RefuseCreate, InsertSaving, RegisterOperation, RegisterOperationThrows,
   SetSavingsGoal, SetSavingsGoalThrows, CommitCreate, CreateDbThrows,
   dbVars, worldVars, triggerVars, deleteVars, serverVars, history

\* What a delete request leaves alone.
LEMMA DeleteFrame ==
  ASSUME NEW d \in Deletes, DeleteAct(d)
  PROVE  UNCHANGED <<goal, chain, tpc, copy, plan, exec, wrote, aborted,
                     outcome, cpc, srv, pending, note, raced, racedUsers,
                     revived>>
BY DEF DeleteAct, DeleteStep, DeleteFault, ReceiveDelete, FindVictim,
   DeleteRow, DeregisterOperation, DeregisterOperationThrows, CommitDelete,
   DeleteDbThrows, dbVars, worldVars, triggerVars, deleteVars, serverVars,
   history

\* What the handling of an event leaves alone.
LEMMA ObserveFrame ==
  ASSUME NEW t \in Triggers, Observe(t)
  PROVE  UNCHANGED <<row, saved, dbExec, jobs, goal, chain, tpc, copy, plan,
                     exec, wrote, aborted, outcome, cpc, dpc, holds, srv,
                     raced, racedUsers, revived>>
BY DEF Observe, Notify, NotifyThrows, dbVars, worldVars, triggerVars,
   deleteVars, serverVars, history

-----------------------------------------------------------------------------
USE AutoflowAssumption DEF TypeOK, dbVars, worldVars, triggerVars, deleteVars,
      serverVars, history, Goto, GotoC, GotoD, AbortTo, Die, Ended


\* Every action keeps the types.
LEMMA TypeOKStep ==
  IInv /\ [Next]_vars => TypeOK'
<1> SUFFICES ASSUME TypeOK, [Next]_vars
             PROVE  TypeOK'
  BY DEF IInv
<1> USE DEF TriggerPc, CreatePc, DeletePc, Plan, Status, Outcome, ChainOp
<1>1. ASSUME NEW t \in Triggers, Fire(t) PROVE TypeOK'
  BY <1>1 DEF Fire
<1>2. ASSUME NEW t \in Triggers, FindById(t) PROVE TypeOK'
  BY <1>2 DEF FindById
<1>3. ASSUME NEW t \in Triggers, FindByIdThrows(t) PROVE TypeOK'
  BY <1>3 DEF FindByIdThrows
<1>4. ASSUME NEW t \in Triggers, CreatePending(t) PROVE TypeOK'
  BY <1>4 DEF CreatePending, Selected
<1>5. ASSUME NEW t \in Triggers, CreatePendingThrows(t) PROVE TypeOK'
  BY <1>5 DEF CreatePendingThrows
<1>6. ASSUME NEW t \in Triggers, SavePending(t) PROVE TypeOK'
  BY <1>6 DEF SavePending
<1>7. ASSUME NEW t \in Triggers, SavePendingRejected(t) PROVE TypeOK'
  BY <1>7 DEF SavePendingRejected
<1>8. ASSUME NEW t \in Triggers, SavePendingThrows(t) PROVE TypeOK'
  BY <1>8 DEF SavePendingThrows
<1>9. ASSUME NEW t \in Triggers, Submit(t) PROVE TypeOK'
  BY <1>9 DEF Submit
<1>10. ASSUME NEW t \in Triggers, SubmitThrows(t) PROVE TypeOK'
  BY <1>10 DEF SubmitThrows, Selected
<1>11. ASSUME NEW t \in Triggers, Mine(t) PROVE TypeOK'
  BY <1>11 DEF Mine
<1>12. ASSUME NEW t \in Triggers, ReceiptArrives(t) PROVE TypeOK'
  BY <1>12 DEF ReceiptArrives
<1>13. ASSUME NEW t \in Triggers, ReceiptTimesOut(t) PROVE TypeOK'
  BY <1>13 DEF ReceiptTimesOut, Selected
<1>14. ASSUME NEW t \in Triggers, SaveSuccess(t) PROVE TypeOK'
  BY <1>14 DEF SaveSuccess
<1>15. ASSUME NEW t \in Triggers, SaveSuccessThrows(t) PROVE TypeOK'
  BY <1>15 DEF SaveSuccessThrows
<1>16. ASSUME NEW t \in Triggers, SaveFailureRejected(t) PROVE TypeOK'
  BY <1>16 DEF SaveFailureRejected
<1>17. ASSUME NEW t \in Triggers, SaveFailureThrows(t) PROVE TypeOK'
  BY <1>17 DEF SaveFailureThrows
<1>18. ASSUME NEW t \in Triggers, SaveFailure(t) PROVE TypeOK'
  BY <1>18 DEF SaveFailure
<1>19. ASSUME NEW t \in Triggers, EmitEvent(t) PROVE TypeOK'
  BY <1>19 DEF EmitEvent
<1>20. ASSUME NEW t \in Triggers, CommitThrows(t) PROVE TypeOK'
  BY <1>20 DEF CommitThrows
<1>21. ASSUME NEW t \in Triggers, Commit(t) PROVE TypeOK'
  BY <1>21 DEF Commit
<1>22. ASSUME NEW t \in Triggers, Notify(t) PROVE TypeOK'
  BY <1>22 DEF Notify
<1>23. ASSUME NEW t \in Triggers, NotifyThrows(t) PROVE TypeOK'
  BY <1>23 DEF NotifyThrows
<1>24. ASSUME NEW c \in Creates, ReceiveCreate(c) PROVE TypeOK'
  BY <1>24 DEF ReceiveCreate
<1>25. ASSUME NEW c \in Creates, CountActive(c) PROVE TypeOK'
  <2>1. racedUsers' \in SUBSET Users /\ cpc' \in [Creates -> CreatePc]
    <3>1. /\ racedUsers' \in {racedUsers, racedUsers \cup {UserOf[c]}}
          /\ \E l \in {"failed", "insert"} : cpc' = [cpc EXCEPT ![c] = l]
      BY <1>25, ZenonT(20) DEF CountActive
    <3> QED BY <3>1
  <2>2. UNCHANGED <<dbVars, worldVars, triggerVars, deleteVars, serverVars,
                    raced, revived>>
    BY <1>25 DEF CountActive
  <2> QED BY <2>1, <2>2
<1>26. ASSUME NEW c \in Creates, RefuseCreate(c) PROVE TypeOK'
  BY <1>26 DEF RefuseCreate
<1>27. ASSUME NEW c \in Creates, InsertSaving(c) PROVE TypeOK'
  BY <1>27 DEF InsertSaving
<1>28. ASSUME NEW c \in Creates, RegisterOperation(c) PROVE TypeOK'
  BY <1>28 DEF RegisterOperation
<1>29. ASSUME NEW c \in Creates, RegisterOperationThrows(c) PROVE TypeOK'
  BY <1>29 DEF RegisterOperationThrows
<1>30. ASSUME NEW c \in Creates, SetSavingsGoal(c) PROVE TypeOK'
  BY <1>30 DEF SetSavingsGoal
<1>31. ASSUME NEW c \in Creates, SetSavingsGoalThrows(c) PROVE TypeOK'
  BY <1>31 DEF SetSavingsGoalThrows
<1>32. ASSUME NEW c \in Creates, CreateDbThrows(c) PROVE TypeOK'
  BY <1>32 DEF CreateDbThrows
<1>33. ASSUME NEW c \in Creates, CommitCreate(c) PROVE TypeOK'
  BY <1>33 DEF CommitCreate
<1>34. ASSUME NEW d \in Deletes, ReceiveDelete(d) PROVE TypeOK'
  BY <1>34 DEF ReceiveDelete
<1>35. ASSUME NEW d \in Deletes, FindVictim(d) PROVE TypeOK'
  BY <1>35 DEF FindVictim
<1>36. ASSUME NEW d \in Deletes, DeleteRow(d) PROVE TypeOK'
  BY <1>36 DEF DeleteRow
<1>37. ASSUME NEW d \in Deletes, DeregisterOperation(d) PROVE TypeOK'
  BY <1>37 DEF DeregisterOperation
<1>38. ASSUME NEW d \in Deletes, DeregisterOperationThrows(d) PROVE TypeOK'
  BY <1>38 DEF DeregisterOperationThrows
<1>39. ASSUME NEW d \in Deletes, DeleteDbThrows(d) PROVE TypeOK'
  BY <1>39 DEF DeleteDbThrows
<1>40. ASSUME NEW d \in Deletes, CommitDelete(d) PROVE TypeOK'
  <2>1. CASE holds[d]
    <3>1. row' \in [Creates -> {"absent", "live", "deleted"}]
      <4>1. row' = [row EXCEPT ![VictimOf[d]] = "deleted"]
        BY <1>40, <2>1 DEF CommitDelete
      <4> QED BY <4>1
    <3>2. saved' \in [Creates -> SUBSET Triggers]
      <4>1. saved' = [saved EXCEPT ![VictimOf[d]] = {}]
        BY <1>40, <2>1 DEF CommitDelete
      <4> QED BY <4>1
    <3>3. dbExec' \in [Triggers -> Status \cup {"erased"}]
      <4>1. dbExec' = [t \in Triggers |->
              CASE t \notin TriggersOf(VictimOf[d]) -> dbExec[t]
                [] t \in TriggersOf(VictimOf[d]) ->
                     IF Booked(t) THEN "erased" ELSE "none"]
        BY <1>40, <2>1 DEF CommitDelete
      <4> QED BY <4>1
    <3> QED BY <1>40, <3>1, <3>2, <3>3 DEF CommitDelete
  <2>2. CASE ~holds[d]
    BY <1>40, <2>2 DEF CommitDelete
  <2> QED BY <2>1, <2>2
<1>41. ASSUME Die PROVE TypeOK'
  BY <1>41 DEF Die
<1>42. ASSUME Shutdown PROVE TypeOK'
  BY <1>42 DEF Shutdown
<1>43. ASSUME Restart PROVE TypeOK'
  BY <1>43 DEF Restart
<1>44. ASSUME UNCHANGED vars PROVE TypeOK'
  BY <1>44, SMTT(30) DEF vars
<1> HIDE DEF TypeOK
<1> QED BY <1>1, <1>2, <1>3, <1>4, <1>5, <1>6, <1>7, <1>8, <1>9, <1>10, <1>11,
      <1>12, <1>13, <1>14, <1>15, <1>16, <1>17, <1>18, <1>19, <1>20, <1>21,
      <1>22, <1>23, <1>24, <1>25, <1>26, <1>27, <1>28, <1>29, <1>30, <1>31,
      <1>32, <1>33, <1>34, <1>35, <1>36, <1>37, <1>38, <1>39, <1>40, <1>41,
      <1>42, <1>43, <1>44 DEF Next, Quiet, vars, TriggerStep, TriggerFault,
      CreateStep, CreateFault, DeleteStep, DeleteFault, CreateAct, DeleteAct,
      Observe, EmitOnStoppedBus, Crash, ShutdownEnds

\* The control point of an execution tells the state of its transaction;
\* creates, deletes and notifications leave both alone.
LEMMA TxInvStep ==
  IInv /\ [Next]_vars => TxInv'
<1> SUFFICES ASSUME TypeOK, TxInv, [Next]_vars
             PROVE  TxInv'
  BY DEF IInv
<1> USE DEF TxInv, InTx
<1>1. ASSUME NEW t \in Triggers, Fire(t) \/ FindById(t) \/ FindByIdThrows(t)
              \/ CreatePending(t) \/ CreatePendingThrows(t)
     PROVE  TxInv'
  BY <1>1, SMTT(30) DEF Fire, FindById, FindByIdThrows, CreatePending,
     CreatePendingThrows
<1>2. ASSUME NEW t \in Triggers, SavePending(t) PROVE TxInv'
  BY <1>2 DEF SavePending
<1>3. ASSUME NEW t \in Triggers, SavePendingRejected(t) \/
              SavePendingThrows(t)
     PROVE  TxInv'
  BY <1>3 DEF SavePendingRejected, SavePendingThrows
<1>4. ASSUME NEW t \in Triggers, Submit(t) \/ SubmitThrows(t) \/ Mine(t) \/
              ReceiptArrives(t) \/ ReceiptTimesOut(t)
     PROVE  TxInv'
  BY <1>4 DEF Submit, SubmitThrows, Mine, ReceiptArrives, ReceiptTimesOut
<1>5. ASSUME NEW t \in Triggers, SaveSuccess(t) PROVE TxInv'
  BY <1>5 DEF SaveSuccess
<1>6. ASSUME NEW t \in Triggers, SaveSuccessThrows(t) \/
              SaveFailureRejected(t) \/ SaveFailureThrows(t)
     PROVE  TxInv'
  BY <1>6 DEF SaveSuccessThrows, SaveFailureRejected, SaveFailureThrows
<1>7. ASSUME NEW t \in Triggers, SaveFailure(t) PROVE TxInv'
  BY <1>7 DEF SaveFailure
<1>8. ASSUME NEW t \in Triggers, EmitEvent(t) PROVE TxInv'
  BY <1>8 DEF EmitEvent
<1>9. ASSUME NEW t \in Triggers, CommitThrows(t) PROVE TxInv'
  BY <1>9 DEF CommitThrows
<1>10. ASSUME NEW t \in Triggers, Commit(t) PROVE TxInv'
  BY <1>10 DEF Commit
<1>11. ASSUME NEW t \in Triggers, Observe(t) PROVE TxInv'
  BY <1>11, ObserveFrame
<1>12. ASSUME NEW c \in Creates, CreateAct(c) PROVE TxInv'
  BY <1>12, CreateFrame
<1>13. ASSUME NEW d \in Deletes, DeleteAct(d) PROVE TxInv'
  BY <1>13, DeleteFrame
<1>14. ASSUME Die PROVE TxInv'
  BY <1>14 DEF Die
<1>15. ASSUME Shutdown PROVE TxInv'
  BY <1>15 DEF Shutdown
<1>16. ASSUME Restart PROVE TxInv'
  BY <1>16 DEF Restart
<1>17. ASSUME UNCHANGED vars PROVE TxInv'
  BY <1>17, SMTT(30) DEF vars
<1> HIDE DEF TxInv
<1> QED BY <1>1, <1>2, <1>3, <1>4, <1>5, <1>6, <1>7, <1>8, <1>9, <1>10, <1>11,
      <1>12, <1>13, <1>14, <1>15, <1>16, <1>17 DEF Next, Quiet, vars,
      TriggerStep, TriggerFault, CreateStep, CreateFault, DeleteStep,
      DeleteFault, CreateAct, DeleteAct, Observe, EmitOnStoppedBus, Crash,
      ShutdownEnds

\* A deposit is sent after the first save, recorded after it has settled, and
\* the record is only ever erased with the saving.
LEMMA DepositInvStep ==
  IInv /\ [Next]_vars => DepositInv'
<1> SUFFICES ASSUME TypeOK, TxInv, DepositInv, [Next]_vars
             PROVE  DepositInv'
  BY DEF IInv
<1> USE DEF TxInv, DepositInv, Settled, TriggersOf, InTx, Booked
<1>1. ASSUME NEW t \in Triggers, Fire(t) \/ FindById(t) \/ FindByIdThrows(t)
              \/ CreatePending(t) \/ CreatePendingThrows(t)
     PROVE  DepositInv'
  BY <1>1, SMTT(30) DEF Fire, FindById, FindByIdThrows, CreatePending,
     CreatePendingThrows
<1>2. ASSUME NEW t \in Triggers, SavePending(t) PROVE DepositInv'
  BY <1>2 DEF SavePending
<1>3. ASSUME NEW t \in Triggers, SavePendingRejected(t) \/
              SavePendingThrows(t)
     PROVE  DepositInv'
  BY <1>3, SMTT(30) DEF SavePendingRejected, SavePendingThrows
<1>4. ASSUME NEW t \in Triggers, Submit(t) \/ SubmitThrows(t) \/ Mine(t) \/
              ReceiptArrives(t) \/ ReceiptTimesOut(t)
     PROVE  DepositInv'
  <2>1. CASE Submit(t)
    BY <2>1 DEF Submit
  <2>2. CASE SubmitThrows(t)
    BY <2>2 DEF SubmitThrows
  <2>3. CASE Mine(t)
    BY <2>3 DEF Mine
  <2>4. CASE ReceiptArrives(t)
    BY <2>4 DEF ReceiptArrives
  <2>5. CASE ReceiptTimesOut(t)
    BY <2>5 DEF ReceiptTimesOut
  <2> QED BY <1>4, <2>1, <2>2, <2>3, <2>4, <2>5
<1>5. ASSUME NEW t \in Triggers, SaveSuccess(t) PROVE DepositInv'
  BY <1>5 DEF SaveSuccess
<1>6. ASSUME NEW t \in Triggers, SaveSuccessThrows(t) \/
              SaveFailureRejected(t) \/ SaveFailureThrows(t)
     PROVE  DepositInv'
  BY <1>6 DEF SaveSuccessThrows, SaveFailureRejected, SaveFailureThrows
<1>7. ASSUME NEW t \in Triggers, SaveFailure(t) PROVE DepositInv'
  BY <1>7 DEF SaveFailure
<1>8. ASSUME NEW t \in Triggers, EmitEvent(t) \/ CommitThrows(t)
     PROVE  DepositInv'
  BY <1>8 DEF EmitEvent, CommitThrows
<1>9. ASSUME NEW t \in Triggers, Commit(t) PROVE DepositInv'
  <2>1. /\ tpc[t] = "commit" /\ srv = "up"
        /\ dbExec'[t] = IF exec[t] = "none" THEN dbExec[t] ELSE exec[t]
        /\ \A u \in Triggers \ {t} : dbExec'[u] = dbExec[u]
        /\ tpc' = [tpc EXCEPT ![t] = "done"]
        /\ exec' = [exec EXCEPT ![t] = "none"]
        /\ UNCHANGED <<chain, outcome, pending, note>>
    BY <1>9 DEF Commit
  <2>2. /\ dbExec[t] = "none" /\ exec[t] \in {"none", "SUCCESS", "FAILED"}
        /\ outcome[t] = "success" => exec[t] = "SUCCESS"
    BY <2>1 DEF Status
  <2> QED BY <2>1, <2>2
<1>10. ASSUME NEW t \in Triggers, Observe(t) PROVE DepositInv'
  BY <1>10, ObserveFrame
<1>11. ASSUME NEW c \in Creates, ReceiveCreate(c) \/ CountActive(c) \/
              RefuseCreate(c) \/ InsertSaving(c) \/ RegisterOperation(c) \/
              RegisterOperationThrows(c) \/ SetSavingsGoal(c) \/
              SetSavingsGoalThrows(c) \/ CreateDbThrows(c)
     PROVE  DepositInv'
  BY <1>11 DEF ReceiveCreate, CountActive, RefuseCreate, InsertSaving,
     RegisterOperation, RegisterOperationThrows, SetSavingsGoal,
     SetSavingsGoalThrows, CreateDbThrows
<1>12. ASSUME NEW c \in Creates, CommitCreate(c) PROVE DepositInv'
  BY <1>12 DEF CommitCreate
<1>13. ASSUME NEW d \in Deletes, ReceiveDelete(d) \/ FindVictim(d)
     PROVE  DepositInv'
  BY <1>13 DEF ReceiveDelete, FindVictim
<1>14. ASSUME NEW d \in Deletes, DeleteRow(d) PROVE DepositInv'
  BY <1>14 DEF DeleteRow
<1>15. ASSUME NEW d \in Deletes, DeregisterOperation(d) \/
              DeregisterOperationThrows(d) \/ DeleteDbThrows(d)
     PROVE  DepositInv'
  BY <1>15 DEF DeregisterOperation, DeregisterOperationThrows, DeleteDbThrows
<1>16. ASSUME NEW d \in Deletes, CommitDelete(d) PROVE DepositInv'
  BY <1>16 DEF CommitDelete
<1>17. ASSUME Die PROVE DepositInv'
  BY <1>17 DEF Die
<1>18. ASSUME Shutdown PROVE DepositInv'
  BY <1>18 DEF Shutdown
<1>19. ASSUME Restart PROVE DepositInv'
  BY <1>19 DEF Restart
<1>20. ASSUME UNCHANGED vars PROVE DepositInv'
  BY <1>20, SMTT(30) DEF vars
<1> HIDE DEF DepositInv
<1> QED BY <1>1, <1>2, <1>3, <1>4, <1>5, <1>6, <1>7, <1>8, <1>9, <1>10, <1>11,
      <1>12, <1>13, <1>14, <1>15, <1>16, <1>17, <1>18, <1>19, <1>20 DEF Next,
      Quiet, vars, TriggerStep, TriggerFault, CreateStep, CreateFault,
      DeleteStep, DeleteFault, CreateAct, DeleteAct, Observe,
      EmitOnStoppedBus, Crash, ShutdownEnds

\* A notification is the one for the outcome of its execution, and the outcome
\* is settled before it is published.
LEMMA NoteInvStep ==
  IInv /\ [Next]_vars => NoteInv'
<1> SUFFICES ASSUME TypeOK, TxInv, DepositInv, NoteInv, [Next]_vars
             PROVE  NoteInv'
  BY DEF IInv
<1> USE DEF TxInv, DepositInv, NoteInv, Settled, TriggersOf, InTx, Booked
<1>1. ASSUME NEW t \in Triggers, Fire(t) \/ FindById(t) \/ FindByIdThrows(t)
              \/ CreatePending(t) \/ CreatePendingThrows(t)
     PROVE  NoteInv'
  <2>1. CASE Fire(t)
    BY <2>1, SMTT(30) DEF Fire
  <2>2. CASE FindById(t) \/ FindByIdThrows(t)
    BY <2>2, SMTT(30) DEF FindById, FindByIdThrows
  <2>3. CASE CreatePending(t) \/ CreatePendingThrows(t)
    BY <2>3, SMTT(30) DEF CreatePending, CreatePendingThrows
  <2> QED BY <1>1, <2>1, <2>2, <2>3
<1>2. ASSUME NEW t \in Triggers, SavePending(t) PROVE NoteInv'
  BY <1>2 DEF SavePending
<1>3. ASSUME NEW t \in Triggers, SavePendingRejected(t) \/
              SavePendingThrows(t)
     PROVE  NoteInv'
  BY <1>3 DEF SavePendingRejected, SavePendingThrows
<1>4. ASSUME NEW t \in Triggers, Submit(t) \/ SubmitThrows(t) \/ Mine(t) \/
              ReceiptArrives(t) \/ ReceiptTimesOut(t)
     PROVE  NoteInv'
  <2>1. CASE Submit(t)
    BY <2>1 DEF Submit
  <2>2. CASE SubmitThrows(t)
    BY <2>2 DEF SubmitThrows
  <2>3. CASE Mine(t)
    BY <2>3 DEF Mine
  <2>4. CASE ReceiptArrives(t)
    BY <2>4 DEF ReceiptArrives
  <2>5. CASE ReceiptTimesOut(t)
    BY <2>5 DEF ReceiptTimesOut
  <2> QED BY <1>4, <2>1, <2>2, <2>3, <2>4, <2>5
<1>5. ASSUME NEW t \in Triggers, SaveSuccess(t) PROVE NoteInv'
  BY <1>5 DEF SaveSuccess
<1>6. ASSUME NEW t \in Triggers, SaveSuccessThrows(t) \/
              SaveFailureRejected(t) \/ SaveFailureThrows(t)
     PROVE  NoteInv'
  BY <1>6 DEF SaveSuccessThrows, SaveFailureRejected, SaveFailureThrows
<1>7. ASSUME NEW t \in Triggers, SaveFailure(t) PROVE NoteInv'
  BY <1>7 DEF SaveFailure
<1>8. ASSUME NEW t \in Triggers, EmitEvent(t) \/ CommitThrows(t)
     PROVE  NoteInv'
  BY <1>8 DEF EmitEvent, CommitThrows
<1>9. ASSUME NEW t \in Triggers, Commit(t) PROVE NoteInv'
  <2>1. /\ tpc[t] = "commit" /\ srv = "up"
        /\ dbExec'[t] = IF exec[t] = "none" THEN dbExec[t] ELSE exec[t]
        /\ \A u \in Triggers \ {t} : dbExec'[u] = dbExec[u]
        /\ tpc' = [tpc EXCEPT ![t] = "done"]
        /\ exec' = [exec EXCEPT ![t] = "none"]
        /\ UNCHANGED <<chain, outcome, pending, note>>
    BY <1>9 DEF Commit
  <2>2. /\ dbExec[t] = "none" /\ exec[t] \in {"none", "SUCCESS", "FAILED"}
        /\ outcome[t] = "success" => exec[t] = "SUCCESS"
    BY <2>1 DEF Status
  <2> QED BY <2>1, <2>2
<1>10. ASSUME NEW t \in Triggers, Notify(t) \/ NotifyThrows(t) PROVE NoteInv'
  BY <1>10 DEF Notify, NotifyThrows
<1>11. ASSUME NEW c \in Creates, CreateAct(c) PROVE NoteInv'
  BY <1>11, CreateFrame
<1>12. ASSUME NEW d \in Deletes, ReceiveDelete(d) \/ FindVictim(d)
     PROVE  NoteInv'
  BY <1>12 DEF ReceiveDelete, FindVictim
<1>13. ASSUME NEW d \in Deletes, DeleteRow(d) PROVE NoteInv'
  BY <1>13 DEF DeleteRow
<1>14. ASSUME NEW d \in Deletes, DeregisterOperation(d) \/
              DeregisterOperationThrows(d) \/ DeleteDbThrows(d)
     PROVE  NoteInv'
  BY <1>14 DEF DeregisterOperation, DeregisterOperationThrows, DeleteDbThrows
<1>15. ASSUME NEW d \in Deletes, CommitDelete(d) PROVE NoteInv'
  BY <1>15 DEF CommitDelete
<1>16. ASSUME Die PROVE NoteInv'
  BY <1>16 DEF Die
<1>17. ASSUME Shutdown PROVE NoteInv'
  BY <1>17 DEF Shutdown
<1>18. ASSUME Restart PROVE NoteInv'
  BY <1>18 DEF Restart
<1>19. ASSUME UNCHANGED vars PROVE NoteInv'
  BY <1>19, SMTT(30) DEF vars
<1> HIDE DEF NoteInv
<1> QED BY <1>1, <1>2, <1>3, <1>4, <1>5, <1>6, <1>7, <1>8, <1>9, <1>10, <1>11,
      <1>12, <1>13, <1>14, <1>15, <1>16, <1>17, <1>18, <1>19 DEF Next, Quiet,
      vars, TriggerStep, TriggerFault, CreateStep, CreateFault, DeleteStep,
      DeleteFault, CreateAct, DeleteAct, Observe, EmitOnStoppedBus, Crash,
      ShutdownEnds

\* No delete commits under an execution that has used the row.
LEMMA LockInvStep ==
  IInv /\ [Next]_vars => LockInv'
<1> SUFFICES ASSUME TypeOK, TxInv, DepositInv, LockInv, HoldInv, JobInv,
                    [Next]_vars
             PROVE  LockInv'
  BY DEF IInv
<1> USE DEF TxInv, DepositInv, LockInv, HoldInv, JobInv, TriggersOf, InTx
<1>1. ASSUME NEW t \in Triggers, Fire(t) \/ FindById(t) \/ FindByIdThrows(t)
              \/ CreatePending(t) \/ CreatePendingThrows(t)
     PROVE  LockInv'
  BY <1>1 DEF Fire, FindById, FindByIdThrows, CreatePending,
     CreatePendingThrows
<1>2. ASSUME NEW t \in Triggers, SavePending(t) PROVE LockInv'
  <2>1. /\ tpc[t] = "save1" /\ tpc' = [tpc EXCEPT ![t] = "submit"]
        /\ \A u \in Triggers \ {t} : exec'[u] = exec[u] /\ wrote'[u] = wrote[u]
        /\ UNCHANGED <<row, chain>>
    BY <1>2 DEF SavePending
  <2>2. row[TargetOf[t]] = "live" \/ wrote'[t]
    <3>1. /\ row[TargetOf[t]] = "live" <=> plan[t] # "insert"
          /\ wrote'[t] = (plan[t] # "keep")
      BY <1>2 DEF SavePending
    <3> QED BY <3>1
  <2> QED BY <2>1, <2>2
<1>3. ASSUME NEW t \in Triggers, SavePendingRejected(t) \/
              SavePendingThrows(t)
     PROVE  LockInv'
  BY <1>3 DEF SavePendingRejected, SavePendingThrows
<1>4. ASSUME NEW t \in Triggers, Submit(t) \/ SubmitThrows(t) \/ Mine(t) \/
              ReceiptArrives(t) \/ ReceiptTimesOut(t)
     PROVE  LockInv'
  BY <1>4 DEF Submit, SubmitThrows, Mine, ReceiptArrives, ReceiptTimesOut
<1>5. ASSUME NEW t \in Triggers, SaveSuccess(t) PROVE LockInv'
  BY <1>5 DEF SaveSuccess
<1>6. ASSUME NEW t \in Triggers, SaveSuccessThrows(t) \/
              SaveFailureRejected(t) \/ SaveFailureThrows(t)
     PROVE  LockInv'
  BY <1>6 DEF SaveSuccessThrows, SaveFailureRejected, SaveFailureThrows
<1>7. ASSUME NEW t \in Triggers, SaveFailure(t) PROVE LockInv'
  BY <1>7 DEF SaveFailure
<1>8. ASSUME NEW t \in Triggers, EmitEvent(t) \/ CommitThrows(t)
     PROVE  LockInv'
  BY <1>8 DEF EmitEvent, CommitThrows
<1>9. ASSUME NEW t \in Triggers, Commit(t) PROVE LockInv'
  BY <1>9 DEF Commit
<1>10. ASSUME NEW t \in Triggers, Observe(t) PROVE LockInv'
  BY <1>10, ObserveFrame
<1>11. ASSUME NEW c \in Creates, ReceiveCreate(c) \/ CountActive(c) \/
              RefuseCreate(c) \/ InsertSaving(c) \/ RegisterOperation(c) \/
              RegisterOperationThrows(c) \/ SetSavingsGoal(c) \/
              SetSavingsGoalThrows(c) \/ CreateDbThrows(c)
     PROVE  LockInv'
  BY <1>11 DEF ReceiveCreate, CountActive, RefuseCreate, InsertSaving,
     RegisterOperation, RegisterOperationThrows, SetSavingsGoal,
     SetSavingsGoalThrows, CreateDbThrows
<1>12. ASSUME NEW c \in Creates, CommitCreate(c) PROVE LockInv'
  BY <1>12 DEF CommitCreate
<1>13. ASSUME NEW d \in Deletes, ReceiveDelete(d) \/ FindVictim(d)
     PROVE  LockInv'
  BY <1>13 DEF ReceiveDelete, FindVictim
<1>14. ASSUME NEW d \in Deletes, DeleteRow(d) PROVE LockInv'
  BY <1>14 DEF DeleteRow
<1>15. ASSUME NEW d \in Deletes, DeregisterOperation(d) \/
              DeregisterOperationThrows(d) \/ DeleteDbThrows(d)
     PROVE  LockInv'
  BY <1>15 DEF DeregisterOperation, DeregisterOperationThrows, DeleteDbThrows
<1>16. ASSUME NEW d \in Deletes, CommitDelete(d) PROVE LockInv'
  BY <1>16 DEF CommitDelete
<1>17. ASSUME Die PROVE LockInv'
  BY <1>17 DEF Die
<1>18. ASSUME Shutdown PROVE LockInv'
  BY <1>18 DEF Shutdown
<1>19. ASSUME Restart PROVE LockInv'
  BY <1>19 DEF Restart
<1>20. ASSUME UNCHANGED vars PROVE LockInv'
  BY <1>20, SMTT(30) DEF vars
<1> HIDE DEF LockInv
<1> QED BY <1>1, <1>2, <1>3, <1>4, <1>5, <1>6, <1>7, <1>8, <1>9, <1>10, <1>11,
      <1>12, <1>13, <1>14, <1>15, <1>16, <1>17, <1>18, <1>19, <1>20 DEF Next,
      Quiet, vars, TriggerStep, TriggerFault, CreateStep, CreateFault,
      DeleteStep, DeleteFault, CreateAct, DeleteAct, Observe,
      EmitOnStoppedBus, Crash, ShutdownEnds

\* A delete gets the lock when nobody uses the row; DeleteRow is the only step
\* that can break exclusion, and its guard is what excludes.
LEMMA HoldInvStep ==
  IInv /\ [Next]_vars => HoldInv'
<1> SUFFICES ASSUME TypeOK, TxInv, DepositInv, LockInv, HoldInv, JobInv,
                    [Next]_vars
             PROVE  HoldInv'
  BY DEF IInv
<1> USE DEF TxInv, LockInv, HoldInv, JobInv, TriggersOf, BeingDeleted,
        BeingUsed, InTx
<1>1. ASSUME NEW t \in Triggers, Fire(t) \/ FindById(t) \/ FindByIdThrows(t)
              \/ CreatePending(t) \/ CreatePendingThrows(t)
     PROVE  HoldInv'
  BY <1>1 DEF Fire, FindById, FindByIdThrows, CreatePending,
     CreatePendingThrows
<1>2. ASSUME NEW t \in Triggers, SavePending(t) PROVE HoldInv'
  BY <1>2 DEF SavePending
<1>3. ASSUME NEW t \in Triggers, SavePendingRejected(t) \/
              SavePendingThrows(t)
     PROVE  HoldInv'
  BY <1>3 DEF SavePendingRejected, SavePendingThrows
<1>4. ASSUME NEW t \in Triggers, Submit(t) \/ SubmitThrows(t) \/ Mine(t) \/
              ReceiptArrives(t) \/ ReceiptTimesOut(t)
     PROVE  HoldInv'
  BY <1>4 DEF Submit, SubmitThrows, Mine, ReceiptArrives, ReceiptTimesOut
<1>5. ASSUME NEW t \in Triggers, SaveSuccess(t) PROVE HoldInv'
  BY <1>5 DEF SaveSuccess
<1>6. ASSUME NEW t \in Triggers, SaveSuccessThrows(t) \/
              SaveFailureRejected(t) \/ SaveFailureThrows(t)
     PROVE  HoldInv'
  BY <1>6 DEF SaveSuccessThrows, SaveFailureRejected, SaveFailureThrows
<1>7. ASSUME NEW t \in Triggers, SaveFailure(t) PROVE HoldInv'
  BY <1>7 DEF SaveFailure
<1>8. ASSUME NEW t \in Triggers, EmitEvent(t) \/ CommitThrows(t)
     PROVE  HoldInv'
  BY <1>8 DEF EmitEvent, CommitThrows
<1>9. ASSUME NEW t \in Triggers, Commit(t) PROVE HoldInv'
  <2>1. /\ \A s \in Creates : row'[s] = row[s] \/ row'[s] = "live"
        /\ \A s \in Creates :
             row'[s] = "live" => row[s] = "live" \/ s \in revived'
        /\ \A s \in Creates : s \in revived => s \in revived'
        /\ \A u \in Triggers : exec'[u] = exec[u] \/ exec'[u] = "none"
        /\ UNCHANGED <<dpc, holds, srv>>
    BY <1>9 DEF Commit
  <2> QED BY <2>1
<1>10. ASSUME NEW t \in Triggers, Observe(t) PROVE HoldInv'
  BY <1>10, ObserveFrame
<1>11. ASSUME NEW c \in Creates, ReceiveCreate(c) \/ CountActive(c) \/
              RefuseCreate(c) \/ InsertSaving(c) \/ RegisterOperation(c) \/
              RegisterOperationThrows(c) \/ SetSavingsGoal(c) \/
              SetSavingsGoalThrows(c) \/ CreateDbThrows(c)
     PROVE  HoldInv'
  BY <1>11 DEF ReceiveCreate, CountActive, RefuseCreate, InsertSaving,
     RegisterOperation, RegisterOperationThrows, SetSavingsGoal,
     SetSavingsGoalThrows, CreateDbThrows
<1>12. ASSUME NEW c \in Creates, CommitCreate(c) PROVE HoldInv'
  BY <1>12 DEF CommitCreate
<1>13. ASSUME NEW d \in Deletes, ReceiveDelete(d) \/ FindVictim(d)
     PROVE  HoldInv'
  BY <1>13 DEF ReceiveDelete, FindVictim
<1>14. ASSUME NEW d \in Deletes, DeleteRow(d) PROVE HoldInv'
  <2>1. /\ dpc'[d] = "deregister" /\ dpc[d] = "delete" /\ srv = "up"
        /\ UNCHANGED <<row, exec, srv, revived>>
        /\ \A e \in Deletes \ {d} : holds'[e] = holds[e] /\ dpc'[e] = dpc[e]
    BY <1>14 DEF DeleteRow
  <2>2. holds'[d] = (row[VictimOf[d]] = "live")
    BY <1>14 DEF DeleteRow
  <2>3. holds'[d] =>
          \A t \in Triggers : TargetOf[t] = VictimOf[d] => exec[t] = "none"
    BY <1>14, <2>2 DEF DeleteRow, BeingUsed
  <2>4. \A e \in Deletes : VictimOf[e] = VictimOf[d] => ~holds[e]
    <3>1. CASE row[VictimOf[d]] = "live"
      BY <1>14, <3>1 DEF DeleteRow, BeingDeleted
    <3>2. CASE row[VictimOf[d]] # "live"
      BY <3>2
    <3> QED BY <3>1, <3>2
  <2>5. row[VictimOf[d]] \in {"live", "deleted"}
    BY <2>1
  <2>6. holds'[d] => row[VictimOf[d]] = "live"
    BY <2>2
  <2>7. ~holds'[d] => row[VictimOf[d]] = "deleted"
    BY <2>2, <2>5
  <2>8. \A e \in Deletes \ {d} :
          /\ holds'[e] = holds[e] /\ dpc'[e] = dpc[e]
          /\ holds'[e] => VictimOf[e] # VictimOf[d]
    BY <2>1, <2>4
  <2>9. \A e, f \in Deletes :
          holds'[e] /\ holds'[f] /\ VictimOf[e] = VictimOf[f] => e = f
    <3> SUFFICES ASSUME NEW e \in Deletes, NEW f \in Deletes, holds'[e],
                        holds'[f], VictimOf[e] = VictimOf[f], e # f
                 PROVE  FALSE
      OBVIOUS
    <3>1. e # d /\ f # d
      BY <2>8
    <3> QED BY <2>8, <3>1
  <2>10. \A e \in Deletes, t \in Triggers :
           holds'[e] /\ VictimOf[e] = TargetOf[t] => exec[t] = "none"
    <3> SUFFICES ASSUME NEW e \in Deletes, NEW t \in Triggers, holds'[e],
                        VictimOf[e] = TargetOf[t]
                 PROVE  exec[t] = "none"
      OBVIOUS
    <3>1. CASE e = d
      BY <2>3, <3>1
    <3>2. CASE e # d
      BY <2>8, <3>2
    <3> QED BY <3>1, <3>2
  <2> QED BY <2>1, <2>6, <2>7, <2>8, <2>9, <2>10
<1>15. ASSUME NEW d \in Deletes, DeregisterOperation(d) \/
              DeregisterOperationThrows(d) \/ DeleteDbThrows(d)
     PROVE  HoldInv'
  BY <1>15 DEF DeregisterOperation, DeregisterOperationThrows, DeleteDbThrows
<1>16. ASSUME NEW d \in Deletes, CommitDelete(d) PROVE HoldInv'
  BY <1>16 DEF CommitDelete
<1>17. ASSUME Die PROVE HoldInv'
  BY <1>17 DEF Die
<1>18. ASSUME Shutdown PROVE HoldInv'
  BY <1>18 DEF Shutdown
<1>19. ASSUME Restart PROVE HoldInv'
  BY <1>19 DEF Restart
<1>20. ASSUME UNCHANGED vars PROVE HoldInv'
  BY <1>20, SMTT(30) DEF vars
<1> HIDE DEF HoldInv
<1> QED BY <1>1, <1>2, <1>3, <1>4, <1>5, <1>6, <1>7, <1>8, <1>9, <1>10, <1>11,
      <1>12, <1>13, <1>14, <1>15, <1>16, <1>17, <1>18, <1>19, <1>20 DEF Next,
      Quiet, vars, TriggerStep, TriggerFault, CreateStep, CreateFault,
      DeleteStep, DeleteFault, CreateAct, DeleteAct, Observe,
      EmitOnStoppedBus, Crash, ShutdownEnds

\* The job is registered before the row is committed and dropped before it goes.
LEMMA JobInvStep ==
  IInv /\ [Next]_vars => JobInv'
<1> SUFFICES ASSUME TypeOK, LockInv, HoldInv, JobInv, [Next]_vars
             PROVE  JobInv'
  BY DEF IInv
<1> USE DEF HoldInv, JobInv, DeletedHasNoJob
<1>1. ASSUME NEW t \in Triggers, Fire(t) \/ FindById(t) \/ FindByIdThrows(t)
              \/ CreatePending(t) \/ CreatePendingThrows(t)
     PROVE  JobInv'
  BY <1>1 DEF Fire, FindById, FindByIdThrows, CreatePending,
     CreatePendingThrows
<1>2. ASSUME NEW t \in Triggers, SavePending(t) PROVE JobInv'
  BY <1>2 DEF SavePending
<1>3. ASSUME NEW t \in Triggers, SavePendingRejected(t) \/
              SavePendingThrows(t)
     PROVE  JobInv'
  BY <1>3 DEF SavePendingRejected, SavePendingThrows
<1>4. ASSUME NEW t \in Triggers, Submit(t) \/ SubmitThrows(t) \/ Mine(t) \/
              ReceiptArrives(t) \/ ReceiptTimesOut(t)
     PROVE  JobInv'
  BY <1>4 DEF Submit, SubmitThrows, Mine, ReceiptArrives, ReceiptTimesOut
<1>5. ASSUME NEW t \in Triggers, SaveSuccess(t) PROVE JobInv'
  BY <1>5 DEF SaveSuccess
<1>6. ASSUME NEW t \in Triggers, SaveSuccessThrows(t) \/
              SaveFailureRejected(t) \/ SaveFailureThrows(t)
     PROVE  JobInv'
  BY <1>6 DEF SaveSuccessThrows, SaveFailureRejected, SaveFailureThrows
<1>7. ASSUME NEW t \in Triggers, SaveFailure(t) PROVE JobInv'
  BY <1>7 DEF SaveFailure
<1>8. ASSUME NEW t \in Triggers, EmitEvent(t) \/ CommitThrows(t) PROVE JobInv'
  BY <1>8 DEF EmitEvent, CommitThrows
<1>9. ASSUME NEW t \in Triggers, Commit(t) PROVE JobInv'
  <2> DEFINE s == TargetOf[t]
  <2>1. /\ s \in Creates /\ row[s] # "absent"
        /\ \A r \in Creates \ {s} : row'[r] = row[r]
        /\ row'[s] \in {row[s], "live"}
        /\ \A r \in Creates : r \in revived' =>
             r \in revived \/ (r = s /\ row[s] # "live" /\ row'[s] = "live")
        /\ UNCHANGED <<jobs, goal, cpc, dpc, srv>>
    BY <1>9 DEF Commit, LockInv, InTx
  <2>2. row[s] # "live" => s \notin jobs
    BY <2>1
  <2> HIDE DEF s
  <2> QED BY <2>1, <2>2
<1>10. ASSUME NEW t \in Triggers, Observe(t) PROVE JobInv'
  BY <1>10, ObserveFrame
<1>11. ASSUME NEW c \in Creates, ReceiveCreate(c) \/ CountActive(c) \/
              RefuseCreate(c) \/ InsertSaving(c) \/ RegisterOperation(c) \/
              RegisterOperationThrows(c) \/ SetSavingsGoal(c) \/
              SetSavingsGoalThrows(c) \/ CreateDbThrows(c)
     PROVE  JobInv'
  <2>1. CASE \/ ReceiveCreate(c) \/ CountActive(c) \/ RefuseCreate(c)
             \/ InsertSaving(c) \/ CreateDbThrows(c)
    BY <2>1 DEF ReceiveCreate, CountActive, RefuseCreate, InsertSaving,
       CreateDbThrows
  <2>2. CASE RegisterOperation(c) \/ RegisterOperationThrows(c)
    <3>1. /\ cpc[c] = "register" /\ jobs' \in {jobs, jobs \cup {c}}
          /\ cpc'[c] \in {"goal", "failed"}
          /\ cpc'[c] = "goal" => c \in jobs'
          /\ \A b \in Creates \ {c} : cpc'[b] = cpc[b]
          /\ UNCHANGED <<row, goal, dpc, srv, revived>>
      BY <2>2 DEF RegisterOperation, RegisterOperationThrows
    <3>2. row[c] = "absent" /\ c \notin revived
      BY <3>1
    <3>3. srv # "down" /\ \A d \in Deletes : dpc[d] = "commit" => VictimOf[d] # c
      BY <3>1, <3>2
    <3> QED BY <3>1, <3>2, <3>3
  <2>3. CASE SetSavingsGoal(c)
    BY <2>3 DEF SetSavingsGoal
  <2>4. CASE SetSavingsGoalThrows(c)
    BY <2>4 DEF SetSavingsGoalThrows
  <2> QED BY <1>11, <2>1, <2>2, <2>3, <2>4
<1>12. ASSUME NEW c \in Creates, CommitCreate(c) PROVE JobInv'
  BY <1>12 DEF CommitCreate
<1>13. ASSUME NEW d \in Deletes, ReceiveDelete(d) \/ FindVictim(d)
     PROVE  JobInv'
  BY <1>13 DEF ReceiveDelete, FindVictim
<1>14. ASSUME NEW d \in Deletes, DeleteRow(d) PROVE JobInv'
  BY <1>14 DEF DeleteRow
<1>15. ASSUME NEW d \in Deletes, DeregisterOperation(d) \/
              DeregisterOperationThrows(d) \/ DeleteDbThrows(d)
     PROVE  JobInv'
  BY <1>15 DEF DeregisterOperation, DeregisterOperationThrows, DeleteDbThrows
<1>16. ASSUME NEW d \in Deletes, CommitDelete(d) PROVE JobInv'
  BY <1>16 DEF CommitDelete
<1>17. ASSUME Die PROVE JobInv'
  BY <1>17 DEF Die
<1>18. ASSUME Shutdown PROVE JobInv'
  BY <1>18 DEF Shutdown
<1>19. ASSUME Restart PROVE JobInv'
  BY <1>19 DEF Restart
<1>20. ASSUME UNCHANGED vars PROVE JobInv'
  BY <1>20, SMTT(30) DEF vars
<1> HIDE DEF JobInv
<1> QED BY <1>1, <1>2, <1>3, <1>4, <1>5, <1>6, <1>7, <1>8, <1>9, <1>10, <1>11,
      <1>12, <1>13, <1>14, <1>15, <1>16, <1>17, <1>18, <1>19, <1>20 DEF Next,
      Quiet, vars, TriggerStep, TriggerFault, CreateStep, CreateFault,
      DeleteStep, DeleteFault, CreateAct, DeleteAct, Observe,
      EmitOnStoppedBus, Crash, ShutdownEnds

\* Only a delete drops a job, and it commits, fails or dies after that.
LEMMA LiveHasJobStep ==
  IInv /\ [Next]_vars => LiveHasJob'
<1> SUFFICES ASSUME TypeOK, HoldInv, JobInv, LiveHasJob, [Next]_vars
             PROVE  LiveHasJob'
  BY DEF IInv
<1> USE DEF HoldInv, JobInv, LiveHasJob
<1>1. ASSUME NEW t \in Triggers, Fire(t) \/ FindById(t) \/ FindByIdThrows(t)
              \/ CreatePending(t) \/ CreatePendingThrows(t)
     PROVE  LiveHasJob'
  BY <1>1 DEF Fire, FindById, FindByIdThrows, CreatePending,
     CreatePendingThrows
<1>2. ASSUME NEW t \in Triggers, SavePending(t) PROVE LiveHasJob'
  BY <1>2 DEF SavePending
<1>3. ASSUME NEW t \in Triggers, SavePendingRejected(t) \/
              SavePendingThrows(t)
     PROVE  LiveHasJob'
  BY <1>3 DEF SavePendingRejected, SavePendingThrows
<1>4. ASSUME NEW t \in Triggers, Submit(t) \/ SubmitThrows(t) \/ Mine(t) \/
              ReceiptArrives(t) \/ ReceiptTimesOut(t)
     PROVE  LiveHasJob'
  BY <1>4 DEF Submit, SubmitThrows, Mine, ReceiptArrives, ReceiptTimesOut
<1>5. ASSUME NEW t \in Triggers, SaveSuccess(t) PROVE LiveHasJob'
  BY <1>5 DEF SaveSuccess
<1>6. ASSUME NEW t \in Triggers, SaveSuccessThrows(t) \/
              SaveFailureRejected(t) \/ SaveFailureThrows(t)
     PROVE  LiveHasJob'
  BY <1>6 DEF SaveSuccessThrows, SaveFailureRejected, SaveFailureThrows
<1>7. ASSUME NEW t \in Triggers, SaveFailure(t) PROVE LiveHasJob'
  BY <1>7 DEF SaveFailure
<1>8. ASSUME NEW t \in Triggers, EmitEvent(t) \/ CommitThrows(t)
     PROVE  LiveHasJob'
  BY <1>8 DEF EmitEvent, CommitThrows
<1>9. ASSUME NEW t \in Triggers, Commit(t) PROVE LiveHasJob'
  <2>1. /\ \A s \in Creates \ revived' : row'[s] = row[s] /\ s \notin revived
        /\ UNCHANGED <<jobs, dpc>>
    BY <1>9 DEF Commit
  <2> QED BY <2>1
<1>10. ASSUME NEW t \in Triggers, Observe(t) PROVE LiveHasJob'
  BY <1>10, ObserveFrame
<1>11. ASSUME NEW c \in Creates, ReceiveCreate(c) \/ CountActive(c) \/
              RefuseCreate(c) \/ InsertSaving(c) \/ RegisterOperation(c) \/
              RegisterOperationThrows(c) \/ SetSavingsGoal(c) \/
              SetSavingsGoalThrows(c) \/ CreateDbThrows(c)
     PROVE  LiveHasJob'
  BY <1>11 DEF ReceiveCreate, CountActive, RefuseCreate, InsertSaving,
     RegisterOperation, RegisterOperationThrows, SetSavingsGoal,
     SetSavingsGoalThrows, CreateDbThrows
<1>12. ASSUME NEW c \in Creates, CommitCreate(c) PROVE LiveHasJob'
  BY <1>12 DEF CommitCreate
<1>13. ASSUME NEW d \in Deletes, ReceiveDelete(d) \/ FindVictim(d)
     PROVE  LiveHasJob'
  <2>1. /\ UNCHANGED <<row, jobs, revived>>
        /\ \A e \in Deletes : dpc[e] \in {"commit", "failed", "crashed"} =>
             dpc'[e] = dpc[e]
    BY <1>13 DEF ReceiveDelete, FindVictim
  <2> QED BY <2>1, SMTT(30) DEF LiveHasJob
<1>14. ASSUME NEW d \in Deletes, DeleteRow(d) PROVE LiveHasJob'
  <2>1. /\ UNCHANGED <<row, jobs, revived>>
        /\ \A e \in Deletes : dpc[e] \in {"commit", "failed", "crashed"} =>
             dpc'[e] = dpc[e]
    BY <1>14 DEF DeleteRow
  <2> QED BY <2>1, SMTT(30) DEF LiveHasJob
<1>15. ASSUME NEW d \in Deletes, DeregisterOperation(d) \/
              DeregisterOperationThrows(d) \/ DeleteDbThrows(d)
     PROVE  LiveHasJob'
  BY <1>15, SMTT(30) DEF DeregisterOperation, DeregisterOperationThrows, DeleteDbThrows
<1>16. ASSUME NEW d \in Deletes, CommitDelete(d) PROVE LiveHasJob'
  <2>1. /\ UNCHANGED <<jobs, revived>> /\ dpc' = [dpc EXCEPT ![d] = "done"]
        /\ \/ row' = row /\ ~holds[d]
           \/ row' = [row EXCEPT ![VictimOf[d]] = "deleted"]
    BY <1>16 DEF CommitDelete
  <2>2. dpc[d] = "commit" /\ srv = "up"
    BY <1>16 DEF CommitDelete
  <2>3. row'[VictimOf[d]] = "live" => VictimOf[d] \in revived
    BY <2>1, <2>2
  <2> QED BY <2>1, <2>2, <2>3
<1>17. ASSUME Die PROVE LiveHasJob'
  BY <1>17 DEF Die
<1>18. ASSUME Shutdown PROVE LiveHasJob'
  BY <1>18 DEF Shutdown
<1>19. ASSUME Restart PROVE LiveHasJob'
  BY <1>19 DEF Restart
<1>20. ASSUME UNCHANGED vars PROVE LiveHasJob'
  BY <1>20, SMTT(30) DEF vars
<1> HIDE DEF LiveHasJob
<1> QED BY <1>1, <1>2, <1>3, <1>4, <1>5, <1>6, <1>7, <1>8, <1>9, <1>10, <1>11,
      <1>12, <1>13, <1>14, <1>15, <1>16, <1>17, <1>18, <1>19, <1>20 DEF Next,
      Quiet, vars, TriggerStep, TriggerFault, CreateStep, CreateFault,
      DeleteStep, DeleteFault, CreateAct, DeleteAct, Observe,
      EmitOnStoppedBus, Crash, ShutdownEnds

\* What a COMMIT publishes.
LEMMA CommitFacts ==
  ASSUME TypeOK, TxInv, DepositInv, NEW t \in Triggers, Commit(t)
  PROVE  /\ tpc[t] = "commit" /\ dbExec[t] = "none"
         /\ TargetOf[t] \in Creates
         /\ exec[t] \in {"none", "SUCCESS", "FAILED"}
         /\ wrote[t] => exec[t] # "none"
         /\ exec[t] = "SUCCESS" => wrote[t]
         /\ tpc' = [tpc EXCEPT ![t] = "done"]
         /\ exec' = [exec EXCEPT ![t] = "none"]
         /\ dbExec' = [dbExec EXCEPT ![t] = exec[t]]
         /\ \A r \in Creates \ {TargetOf[t]} :
              row'[r] = row[r] /\ saved'[r] = saved[r]
         /\ wrote[t] => /\ row'[TargetOf[t]] = "live"
                        /\ saved'[TargetOf[t]] = copy[t]
         /\ ~wrote[t] => UNCHANGED <<row, saved, revived>>
         /\ revived \subseteq revived'
         /\ \A r \in Creates \ {TargetOf[t]} :
              r \in revived' => r \in revived
         /\ TargetOf[t] \notin revived' /\ wrote[t] => row[TargetOf[t]] = "live"
         /\ UNCHANGED <<copy, aborted, chain, jobs, goal, raced, racedUsers,
                        cpc, dpc, holds, srv>>
<1> USE DEF Commit
<1>1. /\ tpc[t] = "commit" /\ TargetOf[t] \in Creates
      /\ tpc' = [tpc EXCEPT ![t] = "done"]
      /\ exec' = [exec EXCEPT ![t] = "none"]
      /\ UNCHANGED <<copy, aborted, chain, jobs, goal, raced, racedUsers,
                     cpc, dpc, holds, srv>>
  OBVIOUS
<1>2. /\ dbExec[t] = "none"
      /\ exec[t] \in {"none", "SUCCESS", "FAILED"}
      /\ wrote[t] => exec[t] # "none"
      /\ exec[t] = "SUCCESS" => wrote[t]
  BY <1>1 DEF TxInv, DepositInv, Status
<1>3. dbExec' = [dbExec EXCEPT ![t] = exec[t]]
  BY <1>2
<1>4. /\ \A r \in Creates \ {TargetOf[t]} :
           row'[r] = row[r] /\ saved'[r] = saved[r]
      /\ wrote[t] => /\ row'[TargetOf[t]] = "live"
                     /\ saved'[TargetOf[t]] = copy[t]
      /\ ~wrote[t] => UNCHANGED <<row, saved, revived>>
      /\ revived \subseteq revived'
      /\ \A r \in Creates \ {TargetOf[t]} :
           r \in revived' => r \in revived
      /\ TargetOf[t] \notin revived' /\ wrote[t] => row[TargetOf[t]] = "live"
  BY <1>1
<1> QED BY <1>1, <1>2, <1>3, <1>4

\* The progress written by an execution counts itself, when it succeeds, and
\* executions that were committed successes when it read the row.
LEMMA ProgressInvStep ==
  IInv /\ [Next]_vars => ProgressInv'
<1> SUFFICES ASSUME TypeOK, TxInv, DepositInv, LockInv, HoldInv, JobInv,
                    ProgressInv, [Next]_vars
             PROVE  ProgressInv'
  BY DEF IInv
<1> USE DEF TxInv, DepositInv, LockInv, HoldInv, JobInv, ProgressInv,
        Succeeded, Booked, TriggersOf, ProgressBackedByExecutions, InTx
<1>1. ASSUME NEW t \in Triggers, Fire(t) PROVE ProgressInv'
  BY <1>1 DEF Fire
<1>2. ASSUME NEW t \in Triggers, FindById(t) PROVE ProgressInv'
  BY <1>2 DEF FindById
<1>3. ASSUME NEW t \in Triggers, FindByIdThrows(t) PROVE ProgressInv'
  BY <1>3 DEF FindByIdThrows
<1>4. ASSUME NEW t \in Triggers, CreatePending(t) PROVE ProgressInv'
  BY <1>4 DEF CreatePending
<1>5. ASSUME NEW t \in Triggers, CreatePendingThrows(t) PROVE ProgressInv'
  BY <1>5 DEF CreatePendingThrows
<1>6. ASSUME NEW t \in Triggers, SavePending(t) PROVE ProgressInv'
  BY <1>6 DEF SavePending
<1>7. ASSUME NEW t \in Triggers, SavePendingRejected(t) \/
              SavePendingThrows(t)
     PROVE  ProgressInv'
  BY <1>7, SMTT(30) DEF SavePendingRejected, SavePendingThrows
<1>8. ASSUME NEW t \in Triggers, Submit(t) PROVE ProgressInv'
  BY <1>8 DEF Submit
<1>9. ASSUME NEW t \in Triggers, SubmitThrows(t) PROVE ProgressInv'
  BY <1>9 DEF SubmitThrows
<1>10. ASSUME NEW t \in Triggers, Mine(t) PROVE ProgressInv'
  BY <1>10 DEF Mine
<1>11. ASSUME NEW t \in Triggers, ReceiptArrives(t) PROVE ProgressInv'
  BY <1>11 DEF ReceiptArrives
<1>12. ASSUME NEW t \in Triggers, ReceiptTimesOut(t) PROVE ProgressInv'
  BY <1>12 DEF ReceiptTimesOut
<1>13. ASSUME NEW t \in Triggers, SaveSuccess(t) PROVE ProgressInv'
  BY <1>13 DEF SaveSuccess
<1>14. ASSUME NEW t \in Triggers, SaveSuccessThrows(t) PROVE ProgressInv'
  BY <1>14 DEF SaveSuccessThrows
<1>15. ASSUME NEW t \in Triggers, SaveFailureRejected(t) PROVE ProgressInv'
  BY <1>15 DEF SaveFailureRejected
<1>16. ASSUME NEW t \in Triggers, SaveFailureThrows(t) PROVE ProgressInv'
  BY <1>16 DEF SaveFailureThrows
<1>17. ASSUME NEW t \in Triggers, SaveFailure(t) PROVE ProgressInv'
  BY <1>17 DEF SaveFailure
<1>18. ASSUME NEW t \in Triggers, EmitEvent(t) \/ CommitThrows(t)
     PROVE  ProgressInv'
  BY <1>18, SMTT(30) DEF EmitEvent, CommitThrows
<1>19. ASSUME NEW t \in Triggers, Commit(t) PROVE ProgressInv'
  <2> DEFINE s == TargetOf[t]
  <2>1. /\ tpc[t] = "commit" /\ dbExec[t] = "none" /\ s \in Creates
        /\ exec[t] \in {"none", "SUCCESS", "FAILED"}
        /\ exec[t] = "SUCCESS" => wrote[t]
        /\ tpc' = [tpc EXCEPT ![t] = "done"]
        /\ exec' = [exec EXCEPT ![t] = "none"]
        /\ dbExec' = [dbExec EXCEPT ![t] = exec[t]]
        /\ \A r \in Creates \ {s} :
             /\ row'[r] = row[r] /\ saved'[r] = saved[r]
             /\ r \in revived' => r \in revived
        /\ wrote[t] => row'[s] = "live" /\ saved'[s] = copy[t]
        /\ ~wrote[t] => UNCHANGED <<row, saved, revived>>
        /\ revived \subseteq revived'
        /\ s \notin revived' /\ wrote[t] => row[s] = "live"
        /\ UNCHANGED <<copy, aborted>>
        /\ wrote[t] => exec[t] # "none"
    BY <1>19, CommitFacts
  <2>2. /\ \A u \in Triggers : Booked(u) => Booked(u)'
        /\ \A u \in Triggers :
             dbExec[u] = "SUCCESS" => dbExec'[u] = "SUCCESS"
    BY <2>1
  <2>3. \A r \in Creates : Succeeded(r) \subseteq Succeeded(r)'
    BY <2>2
  <2>4. ASSUME wrote[t]
        PROVE  /\ copy[t] \subseteq Succeeded(s)'
               /\ s \notin revived' => \A u \in copy[t] : dbExec'[u] = "SUCCESS"
    <3>1. /\ copy[t] \ {t} \subseteq Succeeded(s)
          /\ s \notin revived' =>
               \A u \in copy[t] \ {t} : dbExec[u] = "SUCCESS"
      BY <2>1, <2>4
    <3>2. t \in copy[t] => dbExec'[t] = "SUCCESS"
      BY <2>1, <2>4
    <3> QED BY <2>2, <2>3, <3>1, <3>2
  <2>5. ProgressBackedByExecutions'
    <3>1. ASSUME NEW r \in Creates \ {s}
          PROVE  /\ saved'[r] \subseteq Succeeded(r)'
                 /\ r \notin revived' =>
                      \A u \in saved'[r] : dbExec'[u] = "SUCCESS"
      BY <2>1, <2>2, <2>3
    <3>2. /\ saved'[s] \subseteq Succeeded(s)'
          /\ s \notin revived' => \A u \in saved'[s] : dbExec'[u] = "SUCCESS"
      BY <2>1, <2>2, <2>3, <2>4
    <3> QED BY <3>1, <3>2, SMTT(30)
  <2>6. ASSUME NEW u \in Triggers, InTx(u)'
        PROVE  /\ copy[u] \ {u} \subseteq Succeeded(TargetOf[u])'
               /\ TargetOf[u] \notin revived' /\ row'[TargetOf[u]] = "live" =>
                    \A v \in copy[u] \ {u} : dbExec'[v] = "SUCCESS"
    <3>1. u # t /\ InTx(u) /\ TargetOf[u] \in Creates
      BY <2>1, <2>6
    <3>2. TargetOf[u] \notin revived' /\ row'[TargetOf[u]] = "live" =>
            TargetOf[u] \notin revived /\ row[TargetOf[u]] = "live"
      BY <2>1, <3>1
    <3> QED BY <2>2, <2>3, <3>1, <3>2
  <2>7. ASSUME NEW u \in Triggers
        PROVE  /\ u \in copy[u] =>
                    /\ tpc'[u] \in {"save2", "save3", "emit", "commit"} \cup Ended
                    /\ tpc'[u] = "save3" => aborted[u]
                    /\ exec'[u] # "FAILED"
               /\ exec'[u] = "SUCCESS" \/ tpc'[u] = "save2" => u \in copy[u]
    BY <2>1
  <2> HIDE DEF s, InTx, Succeeded, ProgressBackedByExecutions
  <2> QED BY <2>1, <2>5, <2>6, <2>7
<1>20. ASSUME NEW t \in Triggers, Observe(t) PROVE ProgressInv'
  BY <1>20, ObserveFrame
<1>21. ASSUME NEW c \in Creates, ReceiveCreate(c) \/ CountActive(c) \/
              RefuseCreate(c) \/ InsertSaving(c) \/ RegisterOperation(c) \/
              RegisterOperationThrows(c) \/ SetSavingsGoal(c) \/
              SetSavingsGoalThrows(c) \/ CreateDbThrows(c)
     PROVE  ProgressInv'
  BY <1>21 DEF ReceiveCreate, CountActive, RefuseCreate, InsertSaving,
     RegisterOperation, RegisterOperationThrows, SetSavingsGoal,
     SetSavingsGoalThrows, CreateDbThrows
<1>22. ASSUME NEW c \in Creates, CommitCreate(c) PROVE ProgressInv'
  BY <1>22 DEF CommitCreate
<1>23. ASSUME NEW d \in Deletes, ReceiveDelete(d) \/ FindVictim(d)
     PROVE  ProgressInv'
  BY <1>23 DEF ReceiveDelete, FindVictim
<1>24. ASSUME NEW d \in Deletes, DeleteRow(d) PROVE ProgressInv'
  BY <1>24 DEF DeleteRow
<1>25. ASSUME NEW d \in Deletes, DeregisterOperation(d) \/
              DeregisterOperationThrows(d) \/ DeleteDbThrows(d)
     PROVE  ProgressInv'
  BY <1>25 DEF DeregisterOperation, DeregisterOperationThrows, DeleteDbThrows
<1>26. ASSUME NEW d \in Deletes, CommitDelete(d) PROVE ProgressInv'
  <2>1. CASE ~holds[d]
    BY <1>26, <2>1 DEF CommitDelete
  <2>2. CASE holds[d]
    <3> DEFINE s == VictimOf[d]
    <3>1. /\ s \in Creates /\ row'[s] = "deleted" /\ saved'[s] = {}
          /\ \A r \in Creates \ {s} : row'[r] = row[r] /\ saved'[r] = saved[r]
          /\ \A t \in Triggers : TargetOf[t] # s => dbExec'[t] = dbExec[t]
      BY <1>26, <2>2 DEF CommitDelete
    <3>2. \A t \in Triggers : Booked(t)' <=> Booked(t)
      BY <1>26, <2>2 DEF CommitDelete
    <3>3. \A r \in Creates : Succeeded(r)' = Succeeded(r)
      BY <3>2
    <3>4. UNCHANGED <<tpc, copy, exec, aborted, revived>>
      BY <1>26 DEF CommitDelete
    <3>5. \A r \in Creates \ {s} : \A u \in Succeeded(r) :
            dbExec'[u] = dbExec[u]
      BY <3>1
    <3> HIDE DEF s
    <3>6. ProgressBackedByExecutions'
      BY <3>1, <3>3, <3>4, <3>5, SMTT(30)
    <3>7. \A t \in Triggers : InTx(t)' => TargetOf[t] \in Creates /\ InTx(t)
      BY <3>4
    <3>8. ASSUME NEW t \in Triggers, InTx(t)'
          PROVE  /\ copy[t] \ {t} \subseteq Succeeded(TargetOf[t])'
                 /\ TargetOf[t] \notin revived /\ row'[TargetOf[t]] = "live" =>
                      \A u \in copy[t] \ {t} : dbExec'[u] = "SUCCESS"
      <4>1. copy[t] \ {t} \subseteq Succeeded(TargetOf[t])
        BY <3>7, <3>8
      <4> QED BY <3>1, <3>3, <3>5, <3>7, <3>8, <4>1
    <3> HIDE DEF InTx, Succeeded, ProgressBackedByExecutions
    <3> QED BY <3>4, <3>6, <3>8
  <2> QED BY <2>1, <2>2
<1>27. ASSUME Die PROVE ProgressInv'
  BY <1>27 DEF Die
<1>28. ASSUME Shutdown PROVE ProgressInv'
  BY <1>28 DEF Shutdown
<1>29. ASSUME Restart PROVE ProgressInv'
  BY <1>29 DEF Restart
<1>30. ASSUME UNCHANGED vars PROVE ProgressInv'
  BY <1>30, SMTT(30) DEF vars
<1> HIDE DEF ProgressInv
<1> QED BY <1>1, <1>2, <1>3, <1>4, <1>5, <1>6, <1>7, <1>8, <1>9, <1>10, <1>11,
      <1>12, <1>13, <1>14, <1>15, <1>16, <1>17, <1>18, <1>19, <1>20, <1>21,
      <1>22, <1>23, <1>24, <1>25, <1>26, <1>27, <1>28, <1>29, <1>30 DEF Next,
      Quiet, vars, TriggerStep, TriggerFault, CreateStep, CreateFault,
      DeleteStep, DeleteFault, CreateAct, DeleteAct, Observe,
      EmitOnStoppedBus, Crash, ShutdownEnds

\* Without an overlap the copy of the execution at work is the table's progress.
LEMMA SerialInvStep ==
  IInv /\ [Next]_vars => SerialInv'
<1> SUFFICES ASSUME TypeOK, TxInv, DepositInv, LockInv, HoldInv, JobInv,
                    ProgressInv, SerialInv, [Next]_vars
             PROVE  SerialInv'
  BY DEF IInv
<1> USE DEF TxInv, DepositInv, LockInv, HoldInv, JobInv, ProgressInv,
        SerialInv, Succeeded, Booked, TriggersOf, InTx
<1>1. ASSUME NEW t \in Triggers, Fire(t) PROVE SerialInv'
  BY <1>1 DEF Fire
<1>2. ASSUME NEW t \in Triggers, FindById(t) PROVE SerialInv'
  BY <1>2 DEF FindById
<1>3. ASSUME NEW t \in Triggers, FindByIdThrows(t) PROVE SerialInv'
  BY <1>3 DEF FindByIdThrows
<1>4. ASSUME NEW t \in Triggers, CreatePending(t) PROVE SerialInv'
  BY <1>4 DEF CreatePending
<1>5. ASSUME NEW t \in Triggers, CreatePendingThrows(t) PROVE SerialInv'
  BY <1>5 DEF CreatePendingThrows
<1>6. ASSUME NEW t \in Triggers, SavePending(t) PROVE SerialInv'
  BY <1>6 DEF SavePending
<1>7. ASSUME NEW t \in Triggers, SavePendingRejected(t) PROVE SerialInv'
  BY <1>7 DEF SavePendingRejected
<1>8. ASSUME NEW t \in Triggers, SavePendingThrows(t) PROVE SerialInv'
  BY <1>8 DEF SavePendingThrows
<1>9. ASSUME NEW t \in Triggers, Submit(t) PROVE SerialInv'
  BY <1>9 DEF Submit
<1>10. ASSUME NEW t \in Triggers, SubmitThrows(t) PROVE SerialInv'
  BY <1>10 DEF SubmitThrows
<1>11. ASSUME NEW t \in Triggers, Mine(t) PROVE SerialInv'
  BY <1>11 DEF Mine
<1>12. ASSUME NEW t \in Triggers, ReceiptArrives(t) PROVE SerialInv'
  BY <1>12 DEF ReceiptArrives
<1>13. ASSUME NEW t \in Triggers, ReceiptTimesOut(t) PROVE SerialInv'
  BY <1>13 DEF ReceiptTimesOut
<1>14. ASSUME NEW t \in Triggers, SaveSuccess(t) PROVE SerialInv'
  BY <1>14 DEF SaveSuccess
<1>15. ASSUME NEW t \in Triggers, SaveSuccessThrows(t) PROVE SerialInv'
  BY <1>15 DEF SaveSuccessThrows
<1>16. ASSUME NEW t \in Triggers, SaveFailureRejected(t) PROVE SerialInv'
  BY <1>16 DEF SaveFailureRejected
<1>17. ASSUME NEW t \in Triggers, SaveFailureThrows(t) PROVE SerialInv'
  BY <1>17 DEF SaveFailureThrows
<1>18. ASSUME NEW t \in Triggers, SaveFailure(t) PROVE SerialInv'
  BY <1>18 DEF SaveFailure
<1>19. ASSUME NEW t \in Triggers, EmitEvent(t) PROVE SerialInv'
  BY <1>19 DEF EmitEvent
<1>20. ASSUME NEW t \in Triggers, CommitThrows(t) PROVE SerialInv'
  BY <1>20 DEF CommitThrows
<1>21. ASSUME NEW t \in Triggers, Commit(t) PROVE SerialInv'
  <2> DEFINE s == TargetOf[t]
  <2>1. /\ tpc[t] = "commit" /\ dbExec[t] = "none" /\ s \in Creates
        /\ exec[t] \in {"none", "SUCCESS", "FAILED"}
        /\ exec[t] = "SUCCESS" => wrote[t]
        /\ tpc' = [tpc EXCEPT ![t] = "done"]
        /\ dbExec' = [dbExec EXCEPT ![t] = exec[t]]
        /\ \A r \in Creates \ {s} : row'[r] = row[r] /\ saved'[r] = saved[r]
        /\ wrote[t] => row'[s] = "live" /\ saved'[s] = copy[t]
        /\ ~wrote[t] => UNCHANGED <<row, saved>>
        /\ UNCHANGED <<copy, raced>>
        /\ wrote[t] => exec[t] # "none"
    BY <1>21, CommitFacts
  <2>2. \A r \in Creates \ {s} : Succeeded(r)' = Succeeded(r)
    BY <2>1
  <2>3. Succeeded(s)' = IF exec[t] = "SUCCESS" THEN Succeeded(s) \cup {t}
                          ELSE Succeeded(s)
    BY <2>1
  <2>4. s \notin raced /\ row'[s] = "live" => saved'[s] = Succeeded(s)'
    <3>1. CASE exec[t] = "SUCCESS"
      <4>1. s \notin raced => copy[t] \ {t} = Succeeded(s) /\ t \in copy[t]
        BY <2>1, <3>1
      <4> QED BY <2>1, <2>3, <3>1, <4>1
    <3>2. CASE exec[t] # "SUCCESS"
      <4>1. s \notin raced => copy[t] \ {t} = Succeeded(s)
        BY <2>1
      <4>2. wrote[t] => t \notin copy[t]
        BY <2>1, <3>2
      <4> QED BY <2>1, <2>3, <3>2, <4>1, <4>2
    <3> QED BY <3>1, <3>2
  <2>5. \A u \in Triggers \ {t} : TargetOf[u] = s /\ s \notin raced => ~InTx(u)
    BY <2>1
  <2>6. ~InTx(t)' /\ \A u \in Triggers \ {t} : InTx(u)' <=> InTx(u)
    BY <2>1
  <2> HIDE DEF s, InTx, TxInv, DepositInv, LockInv, HoldInv, JobInv, ProgressInv
  <2>7. \A r \in Creates \ raced :
          row'[r] = "live" => saved'[r] = Succeeded(r)'
    BY <2>1, <2>2, <2>4, SMTT(30)
  <2>8. \A r \in Creates \ raced : \A u, v \in TriggersOf(r) :
          InTx(u)' /\ InTx(v)' => u = v
    BY <2>6
  <2>9. \A r \in Creates \ raced : \A u \in TriggersOf(r) :
          InTx(u)' => copy[u] \ {u} = Succeeded(r)'
    BY <2>2, <2>5, <2>6, SMTT(30)
  <2> HIDE DEF TriggersOf, Succeeded
  <2> QED BY <2>1, <2>7, <2>8, <2>9
<1>22. ASSUME NEW t \in Triggers, Observe(t) PROVE SerialInv'
  BY <1>22, ObserveFrame
<1>23. ASSUME NEW c \in Creates, ReceiveCreate(c) \/ CountActive(c) \/
              RefuseCreate(c) \/ InsertSaving(c) \/ RegisterOperation(c) \/
              RegisterOperationThrows(c) \/ SetSavingsGoal(c) \/
              SetSavingsGoalThrows(c) \/ CreateDbThrows(c)
     PROVE  SerialInv'
  BY <1>23 DEF ReceiveCreate, CountActive, RefuseCreate, InsertSaving,
     RegisterOperation, RegisterOperationThrows, SetSavingsGoal,
     SetSavingsGoalThrows, CreateDbThrows
<1>24. ASSUME NEW c \in Creates, CommitCreate(c) PROVE SerialInv'
  <2>1. /\ row' = [row EXCEPT ![c] = "live"] /\ row[c] = "absent"
        /\ UNCHANGED <<saved, dbExec, tpc, copy, raced>>
    BY <1>24 DEF CommitCreate
  <2>2. \A t \in TriggersOf(c) : ~InTx(t) /\ ~Booked(t)
    BY <2>1, SMTT(30) DEF Settled
  <2>3. saved[c] = {} /\ Succeeded(c) = {}
    BY <2>2 DEF ProgressBackedByExecutions
  <2> QED BY <2>1, <2>2, <2>3
<1>25. ASSUME NEW d \in Deletes, ReceiveDelete(d) \/ FindVictim(d)
     PROVE  SerialInv'
  BY <1>25 DEF ReceiveDelete, FindVictim
<1>26. ASSUME NEW d \in Deletes, DeleteRow(d) PROVE SerialInv'
  BY <1>26 DEF DeleteRow
<1>27. ASSUME NEW d \in Deletes, DeregisterOperation(d) \/
              DeregisterOperationThrows(d) \/ DeleteDbThrows(d)
     PROVE  SerialInv'
  BY <1>27 DEF DeregisterOperation, DeregisterOperationThrows, DeleteDbThrows
<1>28. ASSUME NEW d \in Deletes, CommitDelete(d) PROVE SerialInv'
  BY <1>28 DEF CommitDelete
<1>29. ASSUME Die PROVE SerialInv'
  BY <1>29 DEF Die
<1>30. ASSUME Shutdown PROVE SerialInv'
  BY <1>30 DEF Shutdown
<1>31. ASSUME Restart PROVE SerialInv'
  BY <1>31 DEF Restart
<1>32. ASSUME UNCHANGED vars PROVE SerialInv'
  BY <1>32, SMTT(30) DEF vars
<1> HIDE DEF SerialInv
<1> QED BY <1>1, <1>2, <1>3, <1>4, <1>5, <1>6, <1>7, <1>8, <1>9, <1>10, <1>11,
      <1>12, <1>13, <1>14, <1>15, <1>16, <1>17, <1>18, <1>19, <1>20, <1>21,
      <1>22, <1>23, <1>24, <1>25, <1>26, <1>27, <1>28, <1>29, <1>30, <1>31,
      <1>32 DEF Next, Quiet, vars, TriggerStep, TriggerFault, CreateStep,
      CreateFault, DeleteStep, DeleteFault, CreateAct, DeleteAct, Observe,
      EmitOnStoppedBus, Crash, ShutdownEnds

-----------------------------------------------------------------------------
\* The live savings of a user are finitely many.
LEMMA ActiveFinite ==
  ASSUME NEW u \in Users, NEW A \in SUBSET Counted(u)
  PROVE  /\ IsFiniteSet(A) /\ Cardinality(A) \in Nat
         /\ Cardinality(ActiveOf(u)) \in Nat
         /\ Cardinality(Counted(u)) \in Nat
         /\ Cardinality(A) <= Cardinality(Counted(u))
         /\ Cardinality(Counted(u)) <= Cardinality(ActiveOf(u))
<1>1. ActiveOf(u) \subseteq Creates /\ Counted(u) \subseteq ActiveOf(u)
  BY DEF ActiveOf, Counted
<1>2. IsFiniteSet(ActiveOf(u)) /\ IsFiniteSet(Counted(u))
  BY <1>1, FS_Subset
<1> QED BY <1>1, <1>2, FS_Subset, FS_CardinalityType

\* A step that starts no creation and commits none keeps users within limits.
LEMMA LimitKept ==
  ASSUME LimitInv,
         UNCHANGED racedUsers,
         \A s \in Creates : row'[s] = "live" /\ s \notin revived' =>
           row[s] = "live" /\ s \notin revived,
         \A c \in Creates : Creating(c)' => Creating(c)
  PROVE  LimitInv'
<1> SUFFICES ASSUME NEW u \in Users \ racedUsers
             PROVE  /\ Cardinality(Counted(u)') <= Cardinality(Counted(u))
                    /\ Cardinality(Counted(u)') \in Nat
                    /\ Cardinality(Counted(u)) \in Nat
  BY DEF LimitInv
<1>1. Counted(u)' \in SUBSET Counted(u)
  BY DEF ActiveOf, Counted
<1> QED BY <1>1, ActiveFinite

\* A create that is alone between its count and its commit takes its user to
\* the limit at most.
LEMMA LimitInvStep ==
  IInv /\ [Next]_vars => LimitInv'
<1> SUFFICES ASSUME TypeOK, JobInv, LimitInv, [Next]_vars
             PROVE  LimitInv'
  BY DEF IInv
<1>1. ASSUME UNCHANGED <<row, cpc, racedUsers, revived>> PROVE LimitInv'
  BY <1>1, LimitKept DEF Creating
<1>2. ASSUME NEW t \in Triggers,
             \/ Fire(t) \/ FindById(t) \/ FindByIdThrows(t)
             \/ CreatePending(t) \/ SavePending(t) \/ SavePendingRejected(t)
             \/ Submit(t) \/ ReceiptArrives(t) \/ ReceiptTimesOut(t)
             \/ SaveSuccess(t) \/ SaveFailure(t) \/ SaveFailureRejected(t)
             \/ EmitEvent(t)
             \/ TriggerFault(t) \/ Mine(t) \/ Observe(t)
      PROVE  LimitInv'
  BY <1>1, <1>2, ObserveFrame
     DEF Fire, FindById, FindByIdThrows, CreatePending, SavePending,
     SavePendingRejected, Submit, ReceiptArrives, ReceiptTimesOut,
     SaveSuccess, SaveFailure, SaveFailureRejected, EmitEvent,
     TriggerFault, CreatePendingThrows, SavePendingThrows, SubmitThrows,
     SaveSuccessThrows, SaveFailureThrows, CommitThrows, Mine
<1>3. ASSUME NEW t \in Triggers, Commit(t) PROVE LimitInv'
  <2>1. /\ UNCHANGED <<cpc, racedUsers>>
        /\ \A s \in Creates : row'[s] = "live" /\ s \notin revived' =>
             row[s] = "live" /\ s \notin revived
    BY <1>3 DEF Commit
  <2> QED BY <2>1, LimitKept DEF Creating
<1>4. ASSUME NEW c \in Creates,
             \/ ReceiveCreate(c) \/ InsertSaving(c) \/ RegisterOperation(c)
             \/ SetSavingsGoal(c) \/ CreateFault(c)
      PROVE  LimitInv'
  BY <1>4, LimitKept
     DEF Creating, ReceiveCreate, InsertSaving, RegisterOperation,
     SetSavingsGoal, CreateFault, RefuseCreate, RegisterOperationThrows,
     SetSavingsGoalThrows, CreateDbThrows
<1>5. ASSUME NEW c \in Creates, CountActive(c) PROVE LimitInv'
  <2> SUFFICES ASSUME NEW u \in Users \ racedUsers'
               PROVE  /\ Cardinality(Counted(u)) <= MaxActive
                      /\ \A b \in Creates : UserOf[b] = u /\ Creating(b)' =>
                           /\ Cardinality(Counted(u)) < MaxActive
                           /\ \A a \in Creates :
                                UserOf[a] = u /\ Creating(a)' => a = b
    <3>1. \A u \in Users : Counted(u)' = Counted(u)
      BY <1>5 DEF CountActive, ActiveOf, Counted
    <3> QED BY <3>1 DEF LimitInv
  <2>1. /\ u \in Users \ racedUsers
        /\ \A b \in Creates \ {c} : Creating(b)' <=> Creating(b)
    BY <1>5 DEF CountActive, Creating
  <2>2. /\ Cardinality(Counted(u)) <= MaxActive
        /\ \A b \in Creates :
             UserOf[b] = u /\ Creating(b) =>
               /\ Cardinality(Counted(u)) < MaxActive
               /\ \A a \in Creates : UserOf[a] = u /\ Creating(a) => a = b
    BY <2>1 DEF LimitInv
  <2>3. ASSUME UserOf[c] = u, Creating(c)'
        PROVE  /\ Cardinality(Counted(u)) < MaxActive
               /\ \A b \in Creates \ {c} : UserOf[b] = u => ~Creating(b)
    <3>1. /\ Cardinality(ActiveOf(u)) \in Nat
          /\ Cardinality(Counted(u)) \in Nat
          /\ Cardinality(Counted(u)) <= Cardinality(ActiveOf(u))
      BY ActiveFinite
    <3> QED BY <1>5, <2>3, <3>1 DEF CountActive, Creating
  <2> QED BY <2>1, <2>2, <2>3
<1>6. ASSUME NEW c \in Creates, CommitCreate(c) PROVE LimitInv'
  <2> SUFFICES ASSUME NEW u \in Users \ racedUsers
               PROVE  /\ Cardinality(Counted(u)') <= MaxActive
                      /\ \A b \in Creates : UserOf[b] = u /\ Creating(b)' =>
                           /\ Cardinality(Counted(u)') < MaxActive
                           /\ \A a \in Creates :
                                UserOf[a] = u /\ Creating(a)' => a = b
    BY <1>6 DEF CommitCreate, LimitInv
  <2>1. /\ Creating(c) /\ ~Creating(c)'
        /\ \A b \in Creates \ {c} : Creating(b)' <=> Creating(b)
        /\ row' = [row EXCEPT ![c] = "live"] /\ UNCHANGED revived
    BY <1>6 DEF CommitCreate, Creating
  <2>2. c \notin revived
    BY <1>6 DEF CommitCreate, JobInv
  <2>3. CASE UserOf[c] = u
    <3>1. Counted(u)' = Counted(u) \cup {c}
      BY <2>1, <2>2, <2>3 DEF ActiveOf, Counted
    <3>2. /\ IsFiniteSet(Counted(u)) /\ Cardinality(Counted(u)) \in Nat
          /\ Cardinality(Counted(u)) < MaxActive
      BY <2>1, <2>3, ActiveFinite DEF LimitInv
    <3>3. \A b \in Creates : UserOf[b] = u => ~Creating(b)'
      BY <2>1, <2>3 DEF LimitInv
    <3>4. Cardinality(Counted(u) \cup {c})
            = IF c \in Counted(u) THEN Cardinality(Counted(u))
              ELSE Cardinality(Counted(u)) + 1
      BY <3>2, FS_AddElement
    <3>5. Cardinality(Counted(u)') <= MaxActive
      BY <3>1, <3>2, <3>4
    <3> QED BY <3>3, <3>5
  <2>4. CASE UserOf[c] # u
    <3>1. Counted(u)' = Counted(u)
      BY <2>1, <2>4 DEF ActiveOf, Counted
    <3> QED BY <2>1, <2>4, <3>1 DEF LimitInv
  <2> QED BY <2>3, <2>4
<1>7. ASSUME NEW d \in Deletes, DeleteAct(d) PROVE LimitInv'
  <2>1. \A s \in Creates : row'[s] = "live" => row[s] = "live"
    BY <1>7 DEF DeleteAct, DeleteStep, DeleteFault, ReceiveDelete, FindVictim,
       DeleteRow, DeregisterOperation, DeregisterOperationThrows,
       CommitDelete, DeleteDbThrows
  <2> QED BY <1>7, <2>1, DeleteFrame, LimitKept DEF Creating
<1>8. ASSUME Die PROVE LimitInv'
  BY <1>8, LimitKept DEF Creating
<1>9. ASSUME Shutdown \/ Restart \/ UNCHANGED vars PROVE LimitInv'
  BY <1>1, <1>9 DEF Shutdown, Restart, vars
<1> QED
  BY <1>2, <1>4, <1>5, <1>6, <1>7, <1>8, <1>9, <1>3
     DEF Next, Quiet, TriggerStep, EmitOnStoppedBus, Observe, CreateStep,
     DeleteAct, Crash, ShutdownEnds
-----------------------------------------------------------------------------
\* The initial state satisfies every part of the invariant.
LEMMA InitIInv == Init => IInv
<1> SUFFICES ASSUME Init PROVE IInv
  OBVIOUS
<1> USE DEF Init
<1>1. TypeOK
  BY DEF TriggerPc, CreatePc, DeletePc, Plan, Status, Outcome, ChainOp
<1>2. TxInv /\ DepositInv /\ NoteInv
  BY DEF TxInv, DepositInv, NoteInv, InTx, Settled, Booked
<1>3. LockInv /\ HoldInv /\ JobInv /\ LiveHasJob
  BY DEF LockInv, HoldInv, JobInv, LiveHasJob, DeletedHasNoJob, InTx
<1>4. ProgressInv /\ SerialInv
  BY DEF ProgressInv, ProgressBackedByExecutions, SerialInv, Succeeded,
     Booked, TriggersOf, InTx
<1>5. LimitInv
  <2>1. \A u \in Users : Counted(u) = {}
    BY DEF ActiveOf, Counted
  <2>2. \A u \in Users : Cardinality(Counted(u)) = 0
    BY <2>1, FS_EmptySet
  <2> QED BY <2>2 DEF LimitInv, Creating
<1> QED BY <1>1, <1>2, <1>3, <1>4, <1>5 DEF IInv

\* The invariant is inductive.
LEMMA NextIInv == IInv /\ [Next]_vars => IInv'
BY TypeOKStep, TxInvStep, DepositInvStep, NoteInvStep, LockInvStep,
   HoldInvStep, JobInvStep, LiveHasJobStep, ProgressInvStep, SerialInvStep,
   LimitInvStep DEF IInv

\* The inductive invariant holds in every reachable state.
THEOREM Invariance == Spec => []IInv
BY InitIInv, NextIInv, PTL DEF Spec

\* Type correctness: no action of the three requests, of the bus or of the
\* process takes a variable out of its range.
THEOREM TypeCorrect == Spec => []TypeOK
<1>1. IInv => TypeOK
  BY DEF IInv
<1> QED BY <1>1, Invariance, PTL

\* Through the whole blockchain call an execution has a saving to record its
\* deposit in, however many deletes are waiting: the live one its PENDING row
\* locks, or the deleted one it has inserted again.
THEOREM DepositTargetsLive == Spec => []DepositTargetsLiveSaving
<1>1. IInv => DepositTargetsLiveSaving
  BY DEF IInv, TxInv, LockInv, DepositTargetsLiveSaving
<1> QED BY <1>1, Invariance, PTL

\* A deposit is only sent from a transaction that can still record it.
THEOREM DepositsRecordable == Spec => []DepositIsRecordable
<1>1. IInv => DepositIsRecordable
  BY DEF IInv, TxInv, DepositIsRecordable
<1> QED BY <1>1, Invariance, PTL

\* A lost update never makes progress out of nothing: what the progress JSON
\* counts was committed as a SUCCESS, under any interleaving and any failure, and
\* its row is still there unless the saving was deleted and brought back.
THEOREM ProgressIsBacked == Spec => []ProgressBackedByExecutions
<1>1. IInv => ProgressBackedByExecutions
  BY DEF IInv, ProgressInv
<1> QED BY <1>1, Invariance, PTL

\* Executions of a saving that never overlap keep its progress exact.
THEOREM SerialProgress == Spec => []SerialProgressExact
<1>1. IInv => SerialProgressExact
  BY DEF IInv, SerialInv, SerialProgressExact, Succeeded
<1> QED BY <1>1, Invariance, PTL

\* The PENDING row of the first save never outlives its transaction.
THEOREM PendingNeverCommitted == Spec => []NoPendingCommitted
<1>1. IInv => NoPendingCommitted
  BY DEF IInv, DepositInv, NoPendingCommitted
<1> QED BY <1>1, Invariance, PTL

\* A committed SUCCESS has a receipt behind it.
THEOREM SuccessIsReceipted == Spec => []SuccessHasReceipt
<1>1. IInv => SuccessHasReceipt
  BY DEF IInv, DepositInv, Settled, Booked, SuccessHasReceipt
<1> QED BY <1>1, Invariance, PTL

\* The worker is answered ok only when the execution is committed.
THEOREM OkIsRecorded == Spec => []OkAnswerIsRecorded
<1>1. IInv => OkAnswerIsRecorded
  BY DEF IInv, DepositInv, Booked, OkAnswerIsRecorded
<1> QED BY <1>1, Invariance, PTL

\* Notifications, published before the COMMIT, never contradict the record.
THEOREM NotesMatch == Spec => []NoteMatchesRecord
<1>1. IInv => NoteMatchesRecord
  BY SMTT(30) DEF IInv, TxInv, DepositInv, NoteInv, Settled, Booked,
     NoteMatchesRecord
<1> QED BY <1>1, Invariance, PTL

\* A deleted saving has no job left at the worker, even after an execution has
\* brought it back.
THEOREM DeletedIsUnscheduled == Spec => []DeletedHasNoJob
<1>1. IInv => DeletedHasNoJob
  BY DEF IInv, JobInv, DeletedHasNoJob
<1> QED BY <1>1, Invariance, PTL

\* A live saving lost its job only to a delete that did not commit, or to one
\* that an execution undid.
THEOREM LiveIsScheduled == Spec => []LiveHasJob
<1>1. IInv => LiveHasJob
  BY DEF IInv
<1> QED BY <1>1, Invariance, PTL

\* The goal is on chain before any deposit for it is sent.
THEOREM GoalBeforeDeposit == Spec => []DepositAfterGoal
<1>1. IInv => DepositAfterGoal
  BY DEF IInv, LockInv, JobInv, DepositAfterGoal
<1> QED BY <1>1, Invariance, PTL

\* The limit of active savings holds for users whose creations never overlap,
\* savings brought back by an execution aside.
THEOREM SerialLimit == Spec => []SerialCreatesRespectLimit
<1>1. IInv => SerialCreatesRespectLimit
  BY DEF IInv, LimitInv, Counted, SerialCreatesRespectLimit
<1> QED BY <1>1, Invariance, PTL

-----------------------------------------------------------------------------
(* The waits for locks.                                                     *)

\* Only the three saves let an execution have updated its saving.
LEMMA OtherStepsUpdateNothing ==
  ASSUME TypeOK, [Next]_vars,
         \A t \in Triggers : ~SavePending(t) /\ ~SaveSuccess(t) /\ ~SaveFailure(t)
  PROVE  \A u \in Triggers : wrote'[u] => wrote[u]
<1>1. ASSUME NEW t \in Triggers,
             Fire(t) \/ TriggerStep(t) \/ TriggerFault(t) \/ Mine(t)
      PROVE  (\A u \in Triggers : wrote'[u] => wrote[u])
  <2>1. CASE \/ Fire(t) \/ FindById(t) \/ FindByIdThrows(t)
             \/ CreatePending(t) \/ CreatePendingThrows(t) \/ Submit(t)
             \/ SubmitThrows(t) \/ Mine(t) \/ ReceiptArrives(t)
             \/ ReceiptTimesOut(t) \/ EmitEvent(t)
    BY <2>1 DEF Fire, FindById, FindByIdThrows, CreatePending,
       CreatePendingThrows, Submit, SubmitThrows, Mine, ReceiptArrives,
       ReceiptTimesOut, EmitEvent
  <2>2. CASE \/ SavePendingRejected(t) \/ SavePendingThrows(t)
             \/ SaveSuccessThrows(t) \/ SaveFailureRejected(t)
             \/ SaveFailureThrows(t)
    <3>1. wrote' = [wrote EXCEPT ![t] = FALSE]
      BY <2>2 DEF SavePendingRejected, SavePendingThrows, SaveSuccessThrows,
         SaveFailureRejected, SaveFailureThrows
    <3> QED BY <3>1
  <2>3. CASE Commit(t) \/ CommitThrows(t)
    BY <2>3, SMTT(30) DEF Commit, CommitThrows
  <2>4. CASE EmitOnStoppedBus(t)
    BY <2>4 DEF EmitOnStoppedBus
  <2> QED BY <1>1, <2>1, <2>2, <2>3, <2>4 DEF TriggerStep, TriggerFault
<1>2. ASSUME NEW t \in Triggers, Observe(t) PROVE UNCHANGED wrote
  BY <1>2, ObserveFrame
<1>3. ASSUME NEW c \in Creates, CreateAct(c) PROVE UNCHANGED wrote
  BY <1>3, CreateFrame
<1>4. ASSUME NEW d \in Deletes, DeleteAct(d) PROVE UNCHANGED wrote
  BY <1>4, DeleteFrame
<1>5. ASSUME Crash \/ Shutdown \/ ShutdownEnds
      PROVE  \A u \in Triggers : wrote'[u] => wrote[u]
  BY <1>5 DEF Crash, Shutdown, ShutdownEnds
<1>6. ASSUME Restart \/ UNCHANGED vars PROVE UNCHANGED wrote
  BY <1>6 DEF Restart, vars
<1> QED BY <1>1, <1>2, <1>3, <1>4, <1>5, <1>6 DEF Next, Quiet, CreateAct,
      DeleteAct, Observe

\* A save that updates the saving finds that no other execution has.
LEMMA OneUpdaterStep == TypeOK /\ OneUpdater /\ [Next]_vars => OneUpdater'
<1> SUFFICES ASSUME TypeOK, OneUpdater, [Next]_vars PROVE OneUpdater'
  OBVIOUS
<1>1. ASSUME NEW t \in Triggers,
             SavePending(t) \/ SaveSuccess(t) \/ SaveFailure(t)
      PROVE  OneUpdater'
  <2>1. \A u \in Triggers \ {t} : wrote'[u] = wrote[u]
    BY <1>1 DEF SavePending, SaveSuccess, SaveFailure
  <2>2. wrote'[t] =>
          \/ wrote[t]
          \/ \A u \in Triggers \ {t} : TargetOf[u] = TargetOf[t] => ~wrote[u]
    BY <1>1 DEF SavePending, SaveSuccess, SaveFailure, BeingUpdated,
       TriggersOf
  <2> QED BY <2>1, <2>2 DEF OneUpdater
<1>2. ASSUME \A t \in Triggers :
               ~SavePending(t) /\ ~SaveSuccess(t) /\ ~SaveFailure(t)
      PROVE  OneUpdater'
  <2>1. \A u \in Triggers : wrote'[u] => wrote[u]
    BY <1>2, OtherStepsUpdateNothing
  <2> QED BY <2>1 DEF OneUpdater
<1> QED BY <1>1, <1>2

\* The locks of a saving are never waited for in a circle, for any number of
\* executions and deletes: whoever has updated or deleted it goes on.
THEOREM NoLockCircle == Spec => []HoldersGoOn
<1>1. Init => OneUpdater
  BY DEF Init, OneUpdater
<1>2. IInv /\ OneUpdater => HoldersGoOn
  <2> SUFFICES ASSUME TypeOK, TxInv, HoldInv, OneUpdater PROVE HoldersGoOn
    BY DEF IInv
  <2>1. ASSUME NEW t \in Triggers, wrote[t] PROVE ~ExecutionWaits(t)
    <3>1. ~BeingUpdated(t)
      BY <2>1 DEF BeingUpdated, TriggersOf, OneUpdater
    <3>2. tpc[t] # "save1"
      BY <2>1 DEF TxInv
    <3> QED BY <3>1, <3>2 DEF ExecutionWaits
  <2>2. ASSUME NEW d \in Deletes, holds[d] PROVE ~DeleteWaits(d)
    BY <2>2 DEF HoldInv, DeleteWaits
  <2> QED BY <2>1, <2>2 DEF HoldersGoOn
<1>3. IInv => TypeOK
  BY DEF IInv
<1> QED BY <1>1, <1>2, <1>3, OneUpdaterStep, Invariance, PTL DEF Spec

-----------------------------------------------------------------------------
(* The refinement of SavingsLedger: the abstract step of each action.       *)

\* Actions that touch no record stutter in the ledger.
LEMMA LedgerStutters ==
  ASSUME UNCHANGED <<row, saved, dbExec, chain>>
  PROVE  UNCHANGED Ledger!vars
BY DEF Ledger!vars

\* Sending a deposit: the saving has been opened, and the deposit is the first
\* of its execution.
LEMMA SubmitSends ==
  ASSUME NEW t \in Triggers, IInv, Submit(t)
  PROVE  Ledger!Send(t)
BY DEF Submit, Ledger!Send, IInv, LockInv, DepositInv, InTx

\* The chain settles it.
LEMMA MineSettles ==
  ASSUME NEW t \in Triggers, IInv, Mine(t)
  PROVE  Ledger!Settle(t)
BY DEF Mine, Ledger!Settle

\* A COMMIT records the result, or nothing when the transaction was aborted.
LEMMA CommitRecords ==
  ASSUME NEW t \in Triggers, IInv, Commit(t)
  PROVE  Ledger!Record(t) \/ UNCHANGED Ledger!vars
<1> DEFINE s == TargetOf[t]
<1>1. /\ dbExec[t] = "none" /\ s \in Creates
      /\ exec[t] \in {"none", "SUCCESS", "FAILED"}
      /\ wrote[t] => exec[t] # "none"
      /\ exec[t] = "SUCCESS" => wrote[t]
      /\ dbExec' = [dbExec EXCEPT ![t] = exec[t]]
      /\ \A r \in Creates \ {s} : row'[r] = row[r] /\ saved'[r] = saved[r]
      /\ wrote[t] => row'[s] = "live" /\ saved'[s] = copy[t]
      /\ ~wrote[t] => UNCHANGED <<row, saved>>
      /\ UNCHANGED chain
  BY CommitFacts DEF IInv
<1>2. CASE exec[t] = "none"
  BY <1>1, <1>2, LedgerStutters DEF IInv
<1>3. CASE exec[t] # "none"
  <2>1. /\ row[s] # "absent"
        /\ row[s] = "live" \/ wrote[t]
        /\ exec[t] = "SUCCESS" => Settled(t) /\ t \in copy[t]
    BY <1>3 DEF IInv, DepositInv, LockInv, ProgressInv, InTx, Commit
  <2>2. row' = [row EXCEPT ![s] = "live"]
    BY <1>1, <2>1 DEF IInv, Commit
  <2>3. saved'[s] \subseteq Ledger!Successes(s)'
    <3>1. saved'[s] \subseteq Succeeded(s)'
      <4>1. Next
        BY DEF Next, TriggerStep
      <4> QED BY <1>1, <4>1, ProgressInvStep
              DEF ProgressInv, ProgressBackedByExecutions
    <3> QED BY <3>1 DEF Succeeded, Booked, TriggersOf, Ledger!Successes,
            Ledger!Of
  <2>4. saved' = [saved EXCEPT ![s] = saved'[s]]
    BY <1>1 DEF IInv, Commit
  <2>5. dbExec'[t] = exec[t]
    BY <1>1 DEF IInv
  <2>6. exec[t] = "SUCCESS" => t \in saved'[s]
    BY <1>1, <2>1
  <2>7. /\ row[s] # "absent" /\ dbExec[t] = "none"
        /\ row' = [row EXCEPT ![s] = "live"]
        /\ \E r \in {"SUCCESS", "FAILED"} :
             /\ r = "SUCCESS" => chain[t] \in {"mined", "reverted"}
             /\ dbExec' = [dbExec EXCEPT ![t] = r]
        /\ dbExec'[t] = "SUCCESS" => t \in saved'[s]
    <3>1. exec[t] \in {"SUCCESS", "FAILED"}
      BY <1>1, <1>3
    <3>2. exec[t] = "SUCCESS" => chain[t] \in {"mined", "reverted"}
      BY <2>1 DEF Settled
    <3> HIDE DEF s
    <3> QED BY <1>1, <2>1, <2>2, <2>5, <2>6, <3>1, <3>2, Zenon
  <2> HIDE DEF Ledger!Successes
  <2> QED BY <1>1, <2>3, <2>4, <2>7, Zenon DEF Ledger!Record
<1> QED BY <1>2, <1>3

\* A create opens the saving it inserted.
LEMMA CommitCreateOpens ==
  ASSUME NEW c \in Creates, IInv, CommitCreate(c)
  PROVE  Ledger!Open(c)
BY DEF CommitCreate, Ledger!Open, IInv, JobInv

\* A delete closes it, once: the one that came second stutters.
LEMMA CommitDeleteCloses ==
  ASSUME NEW d \in Deletes, IInv, CommitDelete(d)
  PROVE  Ledger!Close(VictimOf[d]) \/ UNCHANGED Ledger!vars
<1>1. CASE holds[d]
  <2>1. /\ row[VictimOf[d]] = "live" /\ UNCHANGED chain
        /\ row' = [row EXCEPT ![VictimOf[d]] = "deleted"]
        /\ saved' = [saved EXCEPT ![VictimOf[d]] = {}]
    BY <1>1 DEF CommitDelete, IInv, HoldInv
  <2>2. dbExec' = [t \in Triggers |->
          CASE t \notin Ledger!Of(VictimOf[d]) -> dbExec[t]
            [] t \in Ledger!Successes(VictimOf[d]) -> "erased"
            [] /\ t \in Ledger!Of(VictimOf[d])
               /\ t \notin Ledger!Successes(VictimOf[d]) -> "none"]
    BY <1>1 DEF CommitDelete, Ledger!Of, Ledger!Successes, Booked, TriggersOf
  <2> QED BY <2>1, <2>2 DEF Ledger!Close
<1>2. CASE ~holds[d]
  BY <1>2, LedgerStutters DEF CommitDelete
<1> QED BY <1>1, <1>2

\* Every step of Autoflow is a step of the ledger or leaves it alone.
LEMMA LedgerStep ==
  IInv /\ [Next]_vars => [Ledger!Next]_(Ledger!vars)
<1> SUFFICES ASSUME IInv, [Next]_vars
             PROVE  Ledger!Next \/ UNCHANGED Ledger!vars
  OBVIOUS
<1> USE DEF Ledger!Next
<1>1. ASSUME NEW t \in Triggers, Submit(t) \/ Mine(t) \/ Commit(t)
      PROVE  Ledger!Next \/ UNCHANGED Ledger!vars
  BY <1>1, SubmitSends, MineSettles, CommitRecords
<1>2. ASSUME NEW c \in Creates, CommitCreate(c)
      PROVE  Ledger!Next \/ UNCHANGED Ledger!vars
  BY <1>2, CommitCreateOpens
<1>3. ASSUME NEW d \in Deletes, CommitDelete(d)
      PROVE  Ledger!Next \/ UNCHANGED Ledger!vars
  <2>1. VictimOf[d] \in Creates
    OBVIOUS
  <2> QED BY <1>3, <2>1, CommitDeleteCloses
<1>4. ASSUME NEW t \in Triggers,
             \/ Fire(t) \/ FindById(t) \/ FindByIdThrows(t)
             \/ CreatePending(t) \/ SavePending(t) \/ SavePendingRejected(t)
             \/ ReceiptArrives(t) \/ ReceiptTimesOut(t)
             \/ SaveSuccess(t) \/ SaveFailure(t) \/ SaveFailureRejected(t)
             \/ EmitEvent(t) \/ TriggerFault(t) \/ Observe(t)
      PROVE  UNCHANGED <<row, saved, dbExec, chain>>
  BY <1>4, ObserveFrame
     DEF Fire, FindById, FindByIdThrows, CreatePending, SavePending,
     SavePendingRejected, ReceiptArrives, ReceiptTimesOut, SaveSuccess,
     SaveFailure, SaveFailureRejected, EmitEvent, TriggerFault,
     CreatePendingThrows, SavePendingThrows, SubmitThrows,
     SaveSuccessThrows, SaveFailureThrows, CommitThrows
<1>5. ASSUME NEW c \in Creates,
             \/ ReceiveCreate(c) \/ CountActive(c) \/ InsertSaving(c)
             \/ RegisterOperation(c) \/ SetSavingsGoal(c) \/ CreateFault(c)
      PROVE  UNCHANGED <<row, saved, dbExec, chain>>
  BY <1>5
     DEF ReceiveCreate, CountActive, InsertSaving, RegisterOperation,
     SetSavingsGoal, CreateFault, RefuseCreate, RegisterOperationThrows,
     SetSavingsGoalThrows, CreateDbThrows
<1>6. ASSUME NEW d \in Deletes,
             \/ ReceiveDelete(d) \/ FindVictim(d) \/ DeleteRow(d)
             \/ DeregisterOperation(d) \/ DeleteFault(d)
      PROVE  UNCHANGED <<row, saved, dbExec, chain>>
  BY <1>6
     DEF ReceiveDelete, FindVictim, DeleteRow, DeregisterOperation,
     DeleteFault, DeregisterOperationThrows, DeleteDbThrows
<1>7. ASSUME Die \/ Shutdown \/ Restart \/ UNCHANGED vars
      PROVE  UNCHANGED <<row, saved, dbExec, chain>>
  BY <1>7 DEF Shutdown, Restart, vars
<1> QED
  BY <1>1, <1>2, <1>3, <1>4, <1>5, <1>6, <1>7, LedgerStutters
     DEF Next, Quiet, TriggerStep, EmitOnStoppedBus, Observe, CreateStep,
     DeleteStep, Crash, ShutdownEnds

\* Read from its records alone, the autoflow core is the atomic ledger, for
\* any number of concurrent requests, failures, crashes and shutdowns.
THEOREM Refinement == Spec => ImplementsLedger
<1>1. Init => Ledger!Init
  BY DEF Init, Ledger!Init
<1> QED BY <1>1, LedgerStep, Invariance, PTL
        DEF Spec, ImplementsLedger, Ledger!Spec
=============================================================================
