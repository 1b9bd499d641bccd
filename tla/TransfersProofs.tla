-------------------------- MODULE TransfersProofs --------------------------
(***************************************************************************)
(* For any number of requests, wallets and connections, any amounts, limits *)
(* and start dates: the inductive invariant of Transfers, and with it that *)
(* every trace of a transfer has a receipt behind it, that no 24 hours see *)
(* an allowance overdrawn, that only overlapping spendings run short, and  *)
(* that no wallet is used before it has code.                              *)
(***************************************************************************)
EXTENDS TransfersProps, TLAPS

LEMMA RequestSets ==
  /\ \A r \in Requests : r \in Payments \/ r \in Grants
  /\ \A r \in Payments :
       r \in Requests /\ r \notin Grants /\ (r \in Sends \/ r \in Quotes)
  /\ \A r \in Sends : r \in Payments /\ r \notin Quotes
  /\ \A r \in Quotes : r \in Payments
  /\ \A r \in Grants : r \in Requests
BY TransfersAssumption DEF Payments, Requests

\* Whose money a payment moves.
LEMMA PayerIsWallet == ASSUME NEW r \in Payments PROVE PayerOf(r) \in Wallets
BY TransfersAssumption, RequestSets DEF PayerOf

\* Whole days, and what is left over.
LEMMA Division ==
  ASSUME NEW d \in Nat \ {0}, NEW i \in Nat
  PROVE  /\ i \div d \in Nat
         /\ i \div d <= i
         /\ i \div d <= (i + 1) \div d
         /\ i - (i % d) \in Nat
         /\ i % d \in Nat
<1>1. i \div d \in Nat
  OBVIOUS
<1>2. i \div d <= i
  OBVIOUS
<1>3. i \div d <= (i + 1) \div d
  OBVIOUS
<1>4. i - (i % d) \in Nat
  OBVIOUS
<1>5. i % d \in Nat
  OBVIOUS
<1> QED
  BY <1>1, <1>2, <1>3, <1>4, <1>5

\* A row's startDate is a tick of the clock.
LEMMA FirstIsTick == ASSUME NEW g \in Grants PROVE First(g) \in Nat
<1>1. StartOf[g] \in Nat /\ Day \in Nat \ {0} /\ Minute \in Nat \ {0}
  BY TransfersAssumption
<1>2. StartOf[g] - (StartOf[g] % Day) \in Nat /\ StartOf[g] % Minute \in Nat
  BY <1>1, Division
<1> QED
  BY <1>2 DEF First

\* The 24 hours that run are among those of which draws are kept.
LEMMA ElapsedIsPeriod ==
  ASSUME TypeOK, NEW g \in Grants, now >= First(g)
  PROVE  Elapsed(g) \in 0..MaxTime
<1>1. First(g) \in Nat /\ now \in Nat /\ now <= MaxTime /\ MaxTime \in Nat
  BY FirstIsTick, TransfersAssumption DEF TypeOK
<1>2. now - First(g) \in Nat /\ now - First(g) <= MaxTime
  BY <1>1
<1>3. Elapsed(g) \in Nat /\ Elapsed(g) <= now - First(g)
  BY <1>2, Division, TransfersAssumption DEF Elapsed
<1> QED
  BY <1>1, <1>2, <1>3

\* The count of 24 hours never goes back.
LEMMA ElapsedGrows ==
  ASSUME NEW g \in Grants, now \in Nat, now' = now + 1, now >= First(g)
  PROVE  /\ Elapsed(g) \in Nat /\ Elapsed(g)' \in Nat
         /\ Elapsed(g) <= Elapsed(g)'
         /\ Elapsed(g)' = (now + 1 - First(g)) \div Day
<1> DEFINE i == now - First(g)
<1>1. i \in Nat /\ now' - First(g) = i + 1 /\ Day \in Nat \ {0}
  BY FirstIsTick, TransfersAssumption
<1>2. Elapsed(g) = i \div Day /\ Elapsed(g)' = (i + 1) \div Day
  BY <1>1 DEF Elapsed
<1>a. now + 1 - First(g) = i + 1
  BY FirstIsTick
<1> HIDE DEF i
<1>3. i + 1 \in Nat
  BY <1>1
<1>4. /\ Elapsed(g) \in Nat /\ Elapsed(g)' \in Nat
      /\ Elapsed(g) <= Elapsed(g)'
  BY <1>1, <1>2, <1>3, Division
<1>5. Elapsed(g)' = (now + 1 - First(g)) \div Day
  BY <1>2, <1>a
<1> QED
  BY <1>4, <1>5

\* The periods of a committed delegation are those of its row.
LEMMA PeriodIsElapsed ==
  ASSUME IInv, NEW t \in Sends, GrantOf[t] # NoGrant, op[t] # "none"
  PROVE  /\ GrantOf[t] \in Grants
         /\ GrantOf[t] \in granted
         /\ scope[GrantOf[t]].start = First(GrantOf[t])
         /\ scope[GrantOf[t]].limit = LimitOf[GrantOf[t]]
         /\ scope[GrantOf[t]].period = Day
         /\ PeriodAt(GrantOf[t], now) = Elapsed(GrantOf[t])
<1> DEFINE g == GrantOf[t]
<1>1. g \in Grants /\ g \in granted /\ pc[g] = "done"
  BY TransfersAssumption, RequestSets DEF IInv, GrantInv
<1>2. scope[g] = Signed(g)
  BY <1>1 DEF IInv, GrantInv
<1> QED
  BY <1>1, <1>2 DEF PeriodAt, Signed, Elapsed

\* Drawing more keeps the accounts of what was drawn well typed.
LEMMA DrawnMore ==
  ASSUME NEW S, NEW f \in [Grants -> [S -> Nat]], NEW g \in Grants, NEW k,
         NEW n \in Nat
  PROVE  [f EXCEPT ![g][k] = @ + n] \in [Grants -> [S -> Nat]]
<1>1. f[g] \in [S -> Nat]
  OBVIOUS
<1>2. [f[g] EXCEPT ![k] = f[g][k] + n] \in [S -> Nat]
  <2>1. CASE k \in S
    <3>1. f[g][k] + n \in Nat
      BY <1>1, <2>1
    <3> QED
      BY <1>1, <2>1, <3>1
  <2>2. CASE k \notin S
    BY <1>1, <2>2
  <2> QED
    BY <2>1, <2>2
<1> QED
  BY <1>2
-----------------------------------------------------------------------------
\* Every action keeps the types.
LEMMA TypeOKStep == IInv /\ [Next]_vars => TypeOK'
<1> SUFFICES ASSUME IInv, [Next]_vars PROVE TypeOK'
  OBVIOUS
<1> USE TransfersAssumption, RequestSets DEF IInv, TypeOK, PcInv, Pc, Open, Ended, Account, Awaiting, Included, Goto, rowVars, noteVars, chainVars, procVars, poolVars
<1>1. ASSUME NEW r \in Requests, Begin(r) PROVE TypeOK'
  <2>1. raced' \in SUBSET Wallets
    <3>1. CASE r \in Sends
      BY <1>1, <3>1, PayerIsWallet DEF Begin, Overlap
    <3>2. CASE r \notin Sends
      BY <1>1, <3>2 DEF Begin
    <3> QED
      BY <3>1, <3>2
  <2>2. pc' \in [Requests -> Pc] /\ conns' \in SUBSET Requests
    BY <1>1 DEF Begin, Overlap
  <2> QED
    BY <1>1, <2>1, <2>2 DEF Begin
<1>2. ASSUME NEW r \in Requests, BeginTimesOut(r) PROVE TypeOK'
  BY <1>2 DEF BeginTimesOut
<1>2a. ASSUME NEW r \in Requests, BeginThrows(r) PROVE TypeOK'
  BY <1>2a DEF BeginThrows
<1>3. ASSUME NEW r \in Requests, Lookup(r) PROVE TypeOK'
  BY <1>3 DEF Lookup
<1>4. ASSUME NEW r \in Requests, LookupThrows(r) PROVE TypeOK'
  BY <1>4 DEF LookupThrows, Close
<1>5. ASSUME NEW r \in Requests, GetSmartAccount(r) PROVE TypeOK'
  BY <1>5 DEF GetSmartAccount, AfterAccount
<1>6. ASSUME NEW r \in Requests, DeployWallet(r) PROVE TypeOK'
  <2>1. Target(r) \in Wallets
    BY <1>6 DEF DeployWallet, Target
  <2> QED
    BY <1>6, <2>1 DEF DeployWallet
<1>7. ASSUME NEW r \in Requests, DeployReceipt(r) PROVE TypeOK'
  BY <1>7 DEF DeployReceipt, AfterAccount
<1>8. ASSUME NEW r \in Requests, Commit(r) PROVE TypeOK'
  <2>1. pc' \in [Requests -> Pc] /\ conns' \in SUBSET Requests
    BY <1>8 DEF Commit, Close
  <2>2. records' \in SUBSET Sends /\ granted' \in SUBSET Grants
    BY <1>8 DEF Commit
  <2>3. UNCHANGED <<lost, noteVars, now, scope, chainVars, raced>>
    BY <1>8 DEF Commit, Close
  <2> QED
    BY <2>1, <2>2, <2>3
<1>9. ASSUME NEW r \in Requests, CommitThrows(r) PROVE TypeOK'
  BY <1>9 DEF CommitThrows, Close
<1>10. ASSUME NEW r \in Requests, Throws(r) PROVE TypeOK'
  <2>1. CASE r \in Quotes
    <3>1. /\ pc[r] \in Open \ {"lookup", "commit"}
          /\ pc' = [pc EXCEPT ![r] = "commit"] /\ UNCHANGED poolVars
          /\ UNCHANGED <<rowVars, noteVars, now, scope, chainVars, raced>>
      BY <1>10, <2>1 DEF Throws
    <3>2. r \notin Sends /\ r \notin Grants
      BY <2>1
    <3> QED
      BY <3>1, <3>2
  <2>2. CASE r \notin Quotes
    <3>1. /\ pc[r] \in Open \ {"lookup", "commit"}
          /\ pc' = [pc EXCEPT ![r] = "failed"] /\ conns' = conns \ {r} /\ UNCHANGED lost
          /\ UNCHANGED <<rowVars, noteVars, now, scope, chainVars, raced>>
      BY <1>10, <2>2 DEF Throws, Close
    <3> QED
      BY <3>1
  <2> QED
    BY <2>1, <2>2
<1>11. ASSUME NEW r \in Requests, DeployIncluded(r) PROVE TypeOK'
  <2>1. dep' \in [Requests -> Wallets \cup {NoWallet}]
    BY <1>11 DEF DeployIncluded
  <2>2. deployed' \in SUBSET Wallets
    BY <1>11 DEF DeployIncluded
  <2>3. UNCHANGED <<procVars, rowVars, noteVars, now, balance, op, scope, drawn,
                    drawnOn, raced>>
    BY <1>11 DEF DeployIncluded
  <2> QED
    BY <2>1, <2>2, <2>3
<1>12. ASSUME NEW r \in Payments, Estimate(r) PROVE TypeOK'
  BY <1>12 DEF Estimate
<1>13. ASSUME NEW t \in Sends, Submit(t) PROVE TypeOK'
  BY <1>13 DEF Submit
<1>14. ASSUME NEW t \in Sends, Receipt(t) PROVE TypeOK'
  BY <1>14 DEF Receipt
<1>15. ASSUME NEW t \in Sends, SaveTxn(t) PROVE TypeOK'
  BY <1>15 DEF SaveTxn
<1>16. ASSUME NEW t \in Sends, Mine(t) PROVE TypeOK'
  <2>1. PayerOf(t) \in Wallets /\ AmountOf[t] \in Nat
    BY PayerIsWallet
  <2>2. balance' \in [Wallets -> Nat]
    BY <1>16, <2>1 DEF Mine, Covered
  <2>3. op' \in [Sends -> {"none", "pending"} \cup Included]
    BY <1>16 DEF Mine
  <2>4. /\ drawn' \in [Grants -> [0..MaxTime -> Nat]]
        /\ drawnOn' \in [Grants -> [0..MaxTime -> Nat]]
    <3>1. CASE GrantOf[t] = NoGrant
      BY <1>16, <3>1 DEF Mine
    <3>2. CASE GrantOf[t] # NoGrant
      <4>1. GrantOf[t] \in Grants
        BY <3>2
      <4>2. /\ drawn' = [drawn EXCEPT ![GrantOf[t]][PeriodAt(GrantOf[t], now)]
                            = @ + AmountOf[t]]
            /\ drawnOn' = [drawnOn EXCEPT ![GrantOf[t]][Elapsed(GrantOf[t])]
                              = @ + AmountOf[t]]
        BY <1>16, <3>2 DEF Mine
      <4>3. drawn' \in [Grants -> [0..MaxTime -> Nat]]
        BY <2>1, <4>1, <4>2, DrawnMore
      <4>4. drawnOn' \in [Grants -> [0..MaxTime -> Nat]]
        BY <2>1, <4>1, <4>2, DrawnMore
      <4> QED
        BY <4>3, <4>4
    <3> QED
      BY <3>1, <3>2
  <2> QED
    BY <1>16, <2>2, <2>3, <2>4 DEF Mine
<1>17. ASSUME NEW t \in Sends, MineReverted(t) PROVE TypeOK'
  BY <1>17 DEF MineReverted
<1>17a. ASSUME NEW t \in Sends, NotifyConnect(t) PROVE TypeOK'
  BY <1>17a DEF NotifyConnect
<1>18. ASSUME NEW t \in Sends, Notify(t) PROVE TypeOK'
  BY <1>18 DEF Notify
<1>19. ASSUME NEW t \in Sends, NotifyThrows(t) PROVE TypeOK'
  BY <1>19 DEF NotifyThrows
<1>19a. ASSUME NEW w \in Wallets, AutoflowDeposit(w) PROVE TypeOK'
  <2>1. PICK n \in SavingsOf[w] :
          n <= balance[w] /\ balance' = [balance EXCEPT ![w] = @ - n]
    BY <1>19a DEF AutoflowDeposit
  <2>2. n \in Nat /\ balance[w] \in Nat
    BY <2>1
  <2>3. balance' \in [Wallets -> Nat]
    BY <2>1, <2>2
  <2>4. raced' \in SUBSET Wallets
    BY <1>19a DEF AutoflowDeposit, Overlap
  <2> QED
    BY <1>19a, <2>3, <2>4 DEF AutoflowDeposit
<1>20. ASSUME NEW g \in Grants, Sign(g) PROVE TypeOK'
  <2>1. StartOf[g] \in Nat /\ LimitOf[g] \in Nat
    OBVIOUS
  <2>2. First(g) \in Nat /\ Day \in Nat \ {0}
    BY FirstIsTick
  <2>3. scope' \in [Grants -> Scope]
    BY <1>20, <2>1, <2>2 DEF Sign, Scope
  <2> QED
    BY <1>20, <2>3 DEF Sign
<1>21. ASSUME NEW g \in Grants, SaveDelegation(g) PROVE TypeOK'
  BY <1>21 DEF SaveDelegation
<1>22. ASSUME Tick PROVE TypeOK'
  <2>1. /\ UNCHANGED <<procVars, rowVars, noteVars, scope, chainVars, raced>>
        /\ now' = now + 1 /\ now < MaxTime
    BY <1>22 DEF Tick
  <2>2. now' \in 0..MaxTime
    BY <2>1
  <2> HIDE TransfersAssumption, RequestSets DEF Pc, Open, PcInv, Goto
  <2> QED
    BY <2>1, <2>2
<1>22a. ASSUME Restart PROVE TypeOK'
  BY <1>22a DEF Restart
<1>23. CASE UNCHANGED vars
  BY <1>23 DEF vars
<1>24. QED
  BY <1>1, <1>2, <1>2a, <1>3, <1>4, <1>5, <1>6, <1>7, <1>8, <1>9, <1>10, <1>11, <1>12, <1>13, <1>14, <1>15, <1>16, <1>17, <1>17a, <1>18, <1>19, <1>19a, <1>20, <1>21, <1>22, <1>22a, <1>23 DEF Next, Step, Pay, Delegate, Quiet

-----------------------------------------------------------------------------
\* Requests stay on the paths of their kind.
LEMMA PcStep == IInv /\ [Next]_vars => PcInv'
<1> SUFFICES ASSUME IInv, [Next]_vars PROVE PcInv'
  OBVIOUS
<1>a. /\ PcInv /\ pc \in [Requests -> Pc] /\ lost \in SUBSET Requests
      /\ handling \in SUBSET Sends /\ events \in SUBSET Sends
  BY DEF IInv, TypeOK
<1> USE <1>a, RequestSets DEF PcInv, InTx, Pc, Open, Ended, Account, Awaiting, Goto, rowVars, noteVars, chainVars, procVars, poolVars
<1>1. ASSUME NEW r \in Requests, Begin(r) PROVE PcInv'
  BY <1>1 DEF Begin, Overlap
<1>2. ASSUME NEW r \in Requests, BeginTimesOut(r) PROVE PcInv'
  BY <1>2 DEF BeginTimesOut
<1>2a. ASSUME NEW r \in Requests, BeginThrows(r) PROVE PcInv'
  BY <1>2a DEF BeginThrows
<1>3. ASSUME NEW r \in Requests, Lookup(r) PROVE PcInv'
  BY <1>3 DEF Lookup
<1>4. ASSUME NEW r \in Requests, LookupThrows(r) PROVE PcInv'
  BY <1>4 DEF LookupThrows, Close
<1>5. ASSUME NEW r \in Requests, GetSmartAccount(r) PROVE PcInv'
  BY <1>5 DEF GetSmartAccount, AfterAccount
<1>6. ASSUME NEW r \in Requests, DeployWallet(r) PROVE PcInv'
  BY <1>6 DEF DeployWallet
<1>7. ASSUME NEW r \in Requests, DeployReceipt(r) PROVE PcInv'
  BY <1>7 DEF DeployReceipt, AfterAccount
<1>8. ASSUME NEW r \in Requests, Commit(r) PROVE PcInv'
  BY <1>8 DEF Commit, Close
<1>9. ASSUME NEW r \in Requests, CommitThrows(r) PROVE PcInv'
  BY <1>9 DEF CommitThrows, Close
<1>10. ASSUME NEW r \in Requests, Throws(r) PROVE PcInv'
  <2>1. CASE r \in Quotes
    <3>1. /\ pc[r] \in Open \ {"lookup", "commit"}
          /\ pc' = [pc EXCEPT ![r] = "commit"] /\ UNCHANGED poolVars
          /\ UNCHANGED <<rowVars, noteVars, now, scope, chainVars, raced>>
      BY <1>10, <2>1 DEF Throws
    <3>2. r \notin Sends /\ r \notin Grants
      BY <2>1
    <3> QED
      BY <3>1, <3>2
  <2>2. CASE r \notin Quotes
    <3>1. /\ pc[r] \in Open \ {"lookup", "commit"}
          /\ pc' = [pc EXCEPT ![r] = "failed"] /\ conns' = conns \ {r} /\ UNCHANGED lost
          /\ UNCHANGED <<rowVars, noteVars, now, scope, chainVars, raced>>
      BY <1>10, <2>2 DEF Throws, Close
    <3> QED
      BY <3>1
  <2> QED
    BY <2>1, <2>2
<1>11. ASSUME NEW r \in Requests, DeployIncluded(r) PROVE PcInv'
  BY <1>11 DEF DeployIncluded
<1>12. ASSUME NEW r \in Payments, Estimate(r) PROVE PcInv'
  BY <1>12 DEF Estimate
<1>13. ASSUME NEW t \in Sends, Submit(t) PROVE PcInv'
  BY <1>13 DEF Submit
<1>14. ASSUME NEW t \in Sends, Receipt(t) PROVE PcInv'
  BY <1>14 DEF Receipt
<1>15. ASSUME NEW t \in Sends, SaveTxn(t) PROVE PcInv'
  BY <1>15 DEF SaveTxn
<1>16. ASSUME NEW t \in Sends, Mine(t) PROVE PcInv'
  BY <1>16 DEF Mine
<1>17. ASSUME NEW t \in Sends, MineReverted(t) PROVE PcInv'
  BY <1>17 DEF MineReverted
<1>17a. ASSUME NEW t \in Sends, NotifyConnect(t) PROVE PcInv'
  BY <1>17a DEF NotifyConnect
<1>18. ASSUME NEW t \in Sends, Notify(t) PROVE PcInv'
  BY <1>18 DEF Notify
<1>19. ASSUME NEW t \in Sends, NotifyThrows(t) PROVE PcInv'
  BY <1>19 DEF NotifyThrows
<1>19a. ASSUME NEW w \in Wallets, AutoflowDeposit(w) PROVE PcInv'
  BY <1>19a DEF AutoflowDeposit
<1>20. ASSUME NEW g \in Grants, Sign(g) PROVE PcInv'
  BY <1>20 DEF Sign
<1>21. ASSUME NEW g \in Grants, SaveDelegation(g) PROVE PcInv'
  BY <1>21 DEF SaveDelegation
<1>22. ASSUME Tick PROVE PcInv'
  BY <1>22 DEF Tick
<1>22a. ASSUME Restart PROVE PcInv'
  BY <1>22a DEF Restart
<1>23. CASE UNCHANGED vars
  BY <1>23 DEF vars
<1>24. QED
  BY <1>1, <1>2, <1>2a, <1>3, <1>4, <1>5, <1>6, <1>7, <1>8, <1>9, <1>10, <1>11, <1>12, <1>13, <1>14, <1>15, <1>16, <1>17, <1>17a, <1>18, <1>19, <1>19a, <1>20, <1>21, <1>22, <1>22a, <1>23 DEF Next, Step, Pay, Delegate, Quiet

-----------------------------------------------------------------------------
\* A trace needs a receipt, and a row a COMMIT.
LEMMA SendStep == IInv /\ [Next]_vars => SendInv'
<1> SUFFICES ASSUME IInv, [Next]_vars PROVE SendInv'
  OBVIOUS
<1>a. /\ SendInv /\ pc \in [Requests -> Pc]
      /\ op \in [Sends -> {"none", "pending"} \cup Included]
      /\ events \in SUBSET Sends /\ notes \in SUBSET Sends /\ records \in SUBSET Sends
      /\ handling \subseteq events
      /\ \A r \in Payments : pc[r] \notin {"account2", "deploying2", "sign", "save"}
  BY DEF IInv, TypeOK, PcInv
<1> USE <1>a, RequestSets DEF Open, Ended, Account, Awaiting, Goto, rowVars, noteVars, chainVars, procVars, poolVars, SendInv, DoneIsRecorded, Included
<1>1. ASSUME NEW r \in Requests, Begin(r) PROVE SendInv'
  BY <1>1 DEF Begin, Overlap
<1>2. ASSUME NEW r \in Requests, BeginTimesOut(r) PROVE SendInv'
  BY <1>2 DEF BeginTimesOut
<1>2a. ASSUME NEW r \in Requests, BeginThrows(r) PROVE SendInv'
  BY <1>2a DEF BeginThrows
<1>3. ASSUME NEW r \in Requests, Lookup(r) PROVE SendInv'
  BY <1>3 DEF Lookup
<1>4. ASSUME NEW r \in Requests, LookupThrows(r) PROVE SendInv'
  BY <1>4 DEF LookupThrows, Close
<1>5. ASSUME NEW r \in Requests, GetSmartAccount(r) PROVE SendInv'
  BY <1>5 DEF GetSmartAccount, AfterAccount
<1>6. ASSUME NEW r \in Requests, DeployWallet(r) PROVE SendInv'
  BY <1>6 DEF DeployWallet
<1>7. ASSUME NEW r \in Requests, DeployReceipt(r) PROVE SendInv'
  BY <1>7 DEF DeployReceipt, AfterAccount
<1>8. ASSUME NEW r \in Requests, Commit(r) PROVE SendInv'
  BY <1>8 DEF Commit, Close
<1>9. ASSUME NEW r \in Requests, CommitThrows(r) PROVE SendInv'
  BY <1>9 DEF CommitThrows, Close
<1>10. ASSUME NEW r \in Requests, Throws(r) PROVE SendInv'
  <2>1. CASE r \in Quotes
    <3>1. /\ pc[r] \in Open \ {"lookup", "commit"}
          /\ pc' = [pc EXCEPT ![r] = "commit"] /\ UNCHANGED poolVars
          /\ UNCHANGED <<rowVars, noteVars, now, scope, chainVars, raced>>
      BY <1>10, <2>1 DEF Throws
    <3>2. r \notin Sends /\ r \notin Grants
      BY <2>1
    <3> QED
      BY <3>1, <3>2
  <2>2. CASE r \notin Quotes
    <3>1. /\ pc[r] \in Open \ {"lookup", "commit"}
          /\ pc' = [pc EXCEPT ![r] = "failed"] /\ conns' = conns \ {r} /\ UNCHANGED lost
          /\ UNCHANGED <<rowVars, noteVars, now, scope, chainVars, raced>>
      BY <1>10, <2>2 DEF Throws, Close
    <3> QED
      BY <3>1
  <2> QED
    BY <2>1, <2>2
<1>11. ASSUME NEW r \in Requests, DeployIncluded(r) PROVE SendInv'
  BY <1>11 DEF DeployIncluded
<1>12. ASSUME NEW r \in Payments, Estimate(r) PROVE SendInv'
  BY <1>12 DEF Estimate
<1>13. ASSUME NEW t \in Sends, Submit(t) PROVE SendInv'
  BY <1>13 DEF Submit
<1>14. ASSUME NEW t \in Sends, Receipt(t) PROVE SendInv'
  BY <1>14 DEF Receipt
<1>15. ASSUME NEW t \in Sends, SaveTxn(t) PROVE SendInv'
  BY <1>15 DEF SaveTxn
<1>16. ASSUME NEW t \in Sends, Mine(t) PROVE SendInv'
  BY <1>16 DEF Mine
<1>17. ASSUME NEW t \in Sends, MineReverted(t) PROVE SendInv'
  BY <1>17 DEF MineReverted
<1>17a. ASSUME NEW t \in Sends, NotifyConnect(t) PROVE SendInv'
  BY <1>17a DEF NotifyConnect
<1>18. ASSUME NEW t \in Sends, Notify(t) PROVE SendInv'
  BY <1>18 DEF Notify
<1>19. ASSUME NEW t \in Sends, NotifyThrows(t) PROVE SendInv'
  BY <1>19 DEF NotifyThrows
<1>19a. ASSUME NEW w \in Wallets, AutoflowDeposit(w) PROVE SendInv'
  BY <1>19a DEF AutoflowDeposit
<1>20. ASSUME NEW g \in Grants, Sign(g) PROVE SendInv'
  BY <1>20 DEF Sign
<1>21. ASSUME NEW g \in Grants, SaveDelegation(g) PROVE SendInv'
  BY <1>21 DEF SaveDelegation
<1>22. ASSUME Tick PROVE SendInv'
  BY <1>22 DEF Tick
<1>22a. ASSUME Restart PROVE SendInv'
  BY <1>22a DEF Restart
<1>23. CASE UNCHANGED vars
  BY <1>23 DEF vars
<1>24. QED
  BY <1>1, <1>2, <1>2a, <1>3, <1>4, <1>5, <1>6, <1>7, <1>8, <1>9, <1>10, <1>11, <1>12, <1>13, <1>14, <1>15, <1>16, <1>17, <1>17a, <1>18, <1>19, <1>19a, <1>20, <1>21, <1>22, <1>22a, <1>23 DEF Next, Step, Pay, Delegate, Quiet

-----------------------------------------------------------------------------
\* A delegation is committed as signed.
LEMMA GrantStep == IInv /\ [Next]_vars => GrantInv'
<1> SUFFICES ASSUME IInv, [Next]_vars PROVE GrantInv'
  OBVIOUS
<1>a. /\ GrantInv /\ pc \in [Requests -> Pc] /\ scope \in [Grants -> Scope]
      /\ op \in [Sends -> {"none", "pending"} \cup Included]
      /\ \A r \in Payments : pc[r] \notin {"account2", "deploying2", "sign", "save"}
      /\ \A r \in Grants : pc[r] # "estimate"
  BY DEF IInv, TypeOK, PcInv
<1>b. \A r \in Payments : GrantOf[r] \in Grants \cup {NoGrant}
  BY TransfersAssumption
<1> USE <1>a, <1>b, RequestSets DEF Open, Ended, Account, Awaiting, Included, Goto, rowVars, noteVars, chainVars, procVars, poolVars, GrantInv, Signed
<1>1. ASSUME NEW r \in Requests, Begin(r) PROVE GrantInv'
  BY <1>1 DEF Begin, Overlap
<1>2. ASSUME NEW r \in Requests, BeginTimesOut(r) PROVE GrantInv'
  BY <1>2 DEF BeginTimesOut
<1>2a. ASSUME NEW r \in Requests, BeginThrows(r) PROVE GrantInv'
  BY <1>2a DEF BeginThrows
<1>3. ASSUME NEW r \in Requests, Lookup(r) PROVE GrantInv'
  BY <1>3 DEF Lookup
<1>4. ASSUME NEW r \in Requests, LookupThrows(r) PROVE GrantInv'
  BY <1>4 DEF LookupThrows, Close
<1>5. ASSUME NEW r \in Requests, GetSmartAccount(r) PROVE GrantInv'
  BY <1>5 DEF GetSmartAccount, AfterAccount
<1>6. ASSUME NEW r \in Requests, DeployWallet(r) PROVE GrantInv'
  BY <1>6 DEF DeployWallet
<1>7. ASSUME NEW r \in Requests, DeployReceipt(r) PROVE GrantInv'
  BY <1>7 DEF DeployReceipt, AfterAccount
<1>8. ASSUME NEW r \in Requests, Commit(r) PROVE GrantInv'
  BY <1>8 DEF Commit, Close
<1>9. ASSUME NEW r \in Requests, CommitThrows(r) PROVE GrantInv'
  BY <1>9 DEF CommitThrows, Close
<1>10. ASSUME NEW r \in Requests, Throws(r) PROVE GrantInv'
  <2>1. CASE r \in Quotes
    <3>1. /\ pc[r] \in Open \ {"lookup", "commit"}
          /\ pc' = [pc EXCEPT ![r] = "commit"] /\ UNCHANGED poolVars
          /\ UNCHANGED <<rowVars, noteVars, now, scope, chainVars, raced>>
      BY <1>10, <2>1 DEF Throws
    <3>2. r \notin Sends /\ r \notin Grants
      BY <2>1
    <3> QED
      BY <3>1, <3>2
  <2>2. CASE r \notin Quotes
    <3>1. /\ pc[r] \in Open \ {"lookup", "commit"}
          /\ pc' = [pc EXCEPT ![r] = "failed"] /\ conns' = conns \ {r} /\ UNCHANGED lost
          /\ UNCHANGED <<rowVars, noteVars, now, scope, chainVars, raced>>
      BY <1>10, <2>2 DEF Throws, Close
    <3> QED
      BY <3>1
  <2> QED
    BY <2>1, <2>2
<1>11. ASSUME NEW r \in Requests, DeployIncluded(r) PROVE GrantInv'
  BY <1>11 DEF DeployIncluded
<1>12. ASSUME NEW r \in Payments, Estimate(r) PROVE GrantInv'
  BY <1>12 DEF Estimate
<1>13. ASSUME NEW t \in Sends, Submit(t) PROVE GrantInv'
  BY <1>13 DEF Submit
<1>14. ASSUME NEW t \in Sends, Receipt(t) PROVE GrantInv'
  BY <1>14 DEF Receipt
<1>15. ASSUME NEW t \in Sends, SaveTxn(t) PROVE GrantInv'
  BY <1>15 DEF SaveTxn
<1>16. ASSUME NEW t \in Sends, Mine(t) PROVE GrantInv'
  BY <1>16 DEF Mine
<1>17. ASSUME NEW t \in Sends, MineReverted(t) PROVE GrantInv'
  BY <1>17 DEF MineReverted
<1>17a. ASSUME NEW t \in Sends, NotifyConnect(t) PROVE GrantInv'
  BY <1>17a DEF NotifyConnect
<1>18. ASSUME NEW t \in Sends, Notify(t) PROVE GrantInv'
  BY <1>18 DEF Notify
<1>19. ASSUME NEW t \in Sends, NotifyThrows(t) PROVE GrantInv'
  BY <1>19 DEF NotifyThrows
<1>19a. ASSUME NEW w \in Wallets, AutoflowDeposit(w) PROVE GrantInv'
  BY <1>19a DEF AutoflowDeposit
<1>20. ASSUME NEW g \in Grants, Sign(g) PROVE GrantInv'
  BY <1>20 DEF Sign
<1>21. ASSUME NEW g \in Grants, SaveDelegation(g) PROVE GrantInv'
  BY <1>21 DEF SaveDelegation
<1>22. ASSUME Tick PROVE GrantInv'
  BY <1>22 DEF Tick
<1>22a. ASSUME Restart PROVE GrantInv'
  BY <1>22a DEF Restart
<1>23. CASE UNCHANGED vars
  BY <1>23 DEF vars
<1>24. QED
  BY <1>1, <1>2, <1>2a, <1>3, <1>4, <1>5, <1>6, <1>7, <1>8, <1>9, <1>10, <1>11, <1>12, <1>13, <1>14, <1>15, <1>16, <1>17, <1>17a, <1>18, <1>19, <1>19a, <1>20, <1>21, <1>22, <1>22a, <1>23 DEF Next, Step, Pay, Delegate, Quiet

-----------------------------------------------------------------------------
\* A wallet is used once it has code.
LEMMA DeployStep == IInv /\ [Next]_vars => DeployInv'
<1> SUFFICES ASSUME IInv, [Next]_vars PROVE DeployInv'
  OBVIOUS
<1>a. /\ DeployInv /\ pc \in [Requests -> Pc] /\ deployed \in SUBSET Wallets
      /\ dep \in [Requests -> Wallets \cup {NoWallet}]
      /\ op \in [Sends -> {"none", "pending"} \cup Included]
      /\ \A r \in Payments : pc[r] \notin {"account2", "deploying2", "sign", "save"}
      /\ \A r \in Requests \ Sends : pc[r] \notin {"submit", "receipt", "record"}
      /\ \A r \in Grants : pc[r] # "estimate"
  BY DEF IInv, TypeOK, PcInv
<1>b. /\ NoWallet \notin Wallets /\ WalletOf \in [Requests -> Wallets]
      /\ DelegateeOf \in [Grants -> Wallets]
  BY TransfersAssumption
<1> USE <1>a, <1>b, RequestSets DEF Open, Ended, Account, Awaiting, Included, Goto, rowVars, noteVars, chainVars, procVars, poolVars, DeployInv, Target
<1>1. ASSUME NEW r \in Requests, Begin(r) PROVE DeployInv'
  BY <1>1 DEF Begin, Overlap
<1>2. ASSUME NEW r \in Requests, BeginTimesOut(r) PROVE DeployInv'
  BY <1>2 DEF BeginTimesOut
<1>2a. ASSUME NEW r \in Requests, BeginThrows(r) PROVE DeployInv'
  BY <1>2a DEF BeginThrows
<1>3. ASSUME NEW r \in Requests, Lookup(r) PROVE DeployInv'
  BY <1>3 DEF Lookup
<1>4. ASSUME NEW r \in Requests, LookupThrows(r) PROVE DeployInv'
  BY <1>4 DEF LookupThrows, Close
<1>5. ASSUME NEW r \in Requests, GetSmartAccount(r) PROVE DeployInv'
  BY <1>5 DEF GetSmartAccount, AfterAccount
<1>6. ASSUME NEW r \in Requests, DeployWallet(r) PROVE DeployInv'
  BY <1>6 DEF DeployWallet
<1>7. ASSUME NEW r \in Requests, DeployReceipt(r) PROVE DeployInv'
  BY <1>7 DEF DeployReceipt, AfterAccount
<1>8. ASSUME NEW r \in Requests, Commit(r) PROVE DeployInv'
  BY <1>8 DEF Commit, Close
<1>9. ASSUME NEW r \in Requests, CommitThrows(r) PROVE DeployInv'
  BY <1>9 DEF CommitThrows, Close
<1>10. ASSUME NEW r \in Requests, Throws(r) PROVE DeployInv'
  <2>1. CASE r \in Quotes
    <3>1. /\ pc[r] \in Open \ {"lookup", "commit"}
          /\ pc' = [pc EXCEPT ![r] = "commit"] /\ UNCHANGED poolVars
          /\ UNCHANGED <<rowVars, noteVars, now, scope, chainVars, raced>>
      BY <1>10, <2>1 DEF Throws
    <3>2. r \notin Sends /\ r \notin Grants
      BY <2>1
    <3> QED
      BY <3>1, <3>2
  <2>2. CASE r \notin Quotes
    <3>1. /\ pc[r] \in Open \ {"lookup", "commit"}
          /\ pc' = [pc EXCEPT ![r] = "failed"] /\ conns' = conns \ {r} /\ UNCHANGED lost
          /\ UNCHANGED <<rowVars, noteVars, now, scope, chainVars, raced>>
      BY <1>10, <2>2 DEF Throws, Close
    <3> QED
      BY <3>1
  <2> QED
    BY <2>1, <2>2
<1>11. ASSUME NEW r \in Requests, DeployIncluded(r) PROVE DeployInv'
  BY <1>11 DEF DeployIncluded
<1>12. ASSUME NEW r \in Payments, Estimate(r) PROVE DeployInv'
  BY <1>12 DEF Estimate
<1>13. ASSUME NEW t \in Sends, Submit(t) PROVE DeployInv'
  BY <1>13 DEF Submit
<1>14. ASSUME NEW t \in Sends, Receipt(t) PROVE DeployInv'
  BY <1>14 DEF Receipt
<1>15. ASSUME NEW t \in Sends, SaveTxn(t) PROVE DeployInv'
  BY <1>15 DEF SaveTxn
<1>16. ASSUME NEW t \in Sends, Mine(t) PROVE DeployInv'
  BY <1>16 DEF Mine
<1>17. ASSUME NEW t \in Sends, MineReverted(t) PROVE DeployInv'
  BY <1>17 DEF MineReverted
<1>17a. ASSUME NEW t \in Sends, NotifyConnect(t) PROVE DeployInv'
  BY <1>17a DEF NotifyConnect
<1>18. ASSUME NEW t \in Sends, Notify(t) PROVE DeployInv'
  BY <1>18 DEF Notify
<1>19. ASSUME NEW t \in Sends, NotifyThrows(t) PROVE DeployInv'
  BY <1>19 DEF NotifyThrows
<1>19a. ASSUME NEW w \in Wallets, AutoflowDeposit(w) PROVE DeployInv'
  BY <1>19a DEF AutoflowDeposit
<1>20. ASSUME NEW g \in Grants, Sign(g) PROVE DeployInv'
  BY <1>20 DEF Sign
<1>21. ASSUME NEW g \in Grants, SaveDelegation(g) PROVE DeployInv'
  BY <1>21 DEF SaveDelegation
<1>22. ASSUME Tick PROVE DeployInv'
  BY <1>22 DEF Tick
<1>22a. ASSUME Restart PROVE DeployInv'
  BY <1>22a DEF Restart
<1>23. CASE UNCHANGED vars
  BY <1>23 DEF vars
<1>24. QED
  BY <1>1, <1>2, <1>2a, <1>3, <1>4, <1>5, <1>6, <1>7, <1>8, <1>9, <1>10, <1>11, <1>12, <1>13, <1>14, <1>15, <1>16, <1>17, <1>17a, <1>18, <1>19, <1>19a, <1>20, <1>21, <1>22, <1>22a, <1>23 DEF Next, Step, Pay, Delegate, Quiet

-----------------------------------------------------------------------------
\* No draw and no tick: the accounts of the draws stay right.
LEMMA DrawKept ==
  ASSUME IInv, UNCHANGED <<drawn, drawnOn, now>>,
         \A t \in Sends : op'[t] = "mined" => op[t] = "mined"
  PROVE  DrawInv'
BY DEF IInv, DrawInv, Elapsed

\* What is drawn in a signed period is drawn in one of the row's.
LEMMA DrawStep == IInv /\ [Next]_vars => DrawInv'
<1> SUFFICES ASSUME IInv, [Next]_vars PROVE DrawInv'
  OBVIOUS
<1>a. DrawInv /\ TypeOK
  BY DEF IInv
<1>b. /\ MaxTime \in Nat /\ now \in 0..MaxTime
      /\ drawn \in [Grants -> [0..MaxTime -> Nat]]
      /\ op \in [Sends -> {"none", "pending"} \cup Included]
  BY <1>a, TransfersAssumption DEF TypeOK
<1>1. ASSUME NEW r \in Requests, Begin(r) PROVE DrawInv'
  BY <1>1, DrawKept DEF Begin, chainVars
<1>2. ASSUME NEW r \in Requests, BeginTimesOut(r) PROVE DrawInv'
  BY <1>2, DrawKept DEF BeginTimesOut, chainVars
<1>2a. ASSUME NEW r \in Requests, BeginThrows(r) PROVE DrawInv'
  BY <1>2a, DrawKept DEF BeginThrows, chainVars
<1>3. ASSUME NEW r \in Requests, Lookup(r) PROVE DrawInv'
  BY <1>3, DrawKept DEF Lookup, chainVars
<1>4. ASSUME NEW r \in Requests, LookupThrows(r) PROVE DrawInv'
  BY <1>4, DrawKept DEF LookupThrows, chainVars
<1>5. ASSUME NEW r \in Requests, GetSmartAccount(r) PROVE DrawInv'
  BY <1>5, DrawKept DEF GetSmartAccount, chainVars
<1>6. ASSUME NEW r \in Requests, DeployWallet(r) PROVE DrawInv'
  BY <1>6, DrawKept DEF DeployWallet, chainVars
<1>7. ASSUME NEW r \in Requests, DeployReceipt(r) PROVE DrawInv'
  BY <1>7, DrawKept DEF DeployReceipt, chainVars
<1>8. ASSUME NEW r \in Requests, Commit(r) PROVE DrawInv'
  BY <1>8, DrawKept DEF Commit, chainVars
<1>9. ASSUME NEW r \in Requests, CommitThrows(r) PROVE DrawInv'
  BY <1>9, DrawKept DEF CommitThrows, chainVars
<1>10. ASSUME NEW r \in Requests, Throws(r) PROVE DrawInv'
  BY <1>10, DrawKept DEF Throws, chainVars
<1>11. ASSUME NEW r \in Requests, DeployIncluded(r) PROVE DrawInv'
  BY <1>11, DrawKept DEF DeployIncluded, chainVars
<1>12. ASSUME NEW r \in Payments, Estimate(r) PROVE DrawInv'
  BY <1>12, DrawKept DEF Estimate, chainVars
<1>13. ASSUME NEW t \in Sends, Submit(t) PROVE DrawInv'
  <2>1. \A u \in Sends : op'[u] = "mined" => op[u] = "mined"
    BY <1>13, <1>b DEF Submit
  <2> QED
    BY <1>13, <2>1, DrawKept DEF Submit
<1>14. ASSUME NEW t \in Sends, Receipt(t) PROVE DrawInv'
  BY <1>14, DrawKept DEF Receipt, chainVars
<1>15. ASSUME NEW t \in Sends, SaveTxn(t) PROVE DrawInv'
  BY <1>15, DrawKept DEF SaveTxn, chainVars
<1>16. ASSUME NEW t \in Sends, Mine(t) PROVE DrawInv'
  <2>1. UNCHANGED now /\ op' = [op EXCEPT ![t] = "mined"] /\ op[t] = "pending"
    BY <1>16 DEF Mine
  <2>2. \A u \in Sends : u # t => op'[u] = op[u]
    BY <1>b, <2>1
  <2>3. CASE GrantOf[t] = NoGrant
    <3>1. UNCHANGED <<drawn, drawnOn>>
      BY <1>16, <2>3 DEF Mine
    <3> QED
      BY <1>a, <2>1, <2>2, <2>3, <3>1 DEF DrawInv, Elapsed
  <2>4. CASE GrantOf[t] # NoGrant
    <3> DEFINE g == GrantOf[t]
               e == Elapsed(g)
    <3>1. /\ g \in Grants /\ PeriodAt(g, now) = e
          /\ scope[g].start = First(g) /\ scope[g].limit = LimitOf[g]
      BY <2>1, <2>4, PeriodIsElapsed
    <3>2. MayDraw(g, WalletOf[t], AmountOf[t])
      BY <1>16, <2>4 DEF Mine, Covered
    <3>3. now >= First(g) /\ drawn[g][e] + AmountOf[t] <= LimitOf[g]
      BY <3>1, <3>2 DEF MayDraw
    <3>4. e \in 0..MaxTime
      BY <1>a, <3>1, <3>3, ElapsedIsPeriod
    <3>5. /\ drawn' = [drawn EXCEPT ![g][e] = @ + AmountOf[t]]
          /\ drawnOn' = [drawnOn EXCEPT ![g][e] = @ + AmountOf[t]]
      BY <1>16, <2>4, <3>1 DEF Mine
    <3>6. drawnOn' = drawn'
      BY <1>a, <3>5 DEF DrawInv
    <3>7. ASSUME NEW h \in Grants, NEW k \in 0..MaxTime
          PROVE  /\ drawn'[h][k] <= LimitOf[h]
                 /\ (now < First(h) \/ k > Elapsed(h)) => drawn'[h][k] = 0
      <4>1. /\ drawn[h][k] <= LimitOf[h]
            /\ (now < First(h) \/ k > Elapsed(h)) => drawn[h][k] = 0
        BY <1>a DEF DrawInv
      <4>2. CASE h = g /\ k = e
        <5>1. drawn'[h][k] = drawn[g][e] + AmountOf[t]
          BY <1>b, <3>1, <3>4, <3>5, <4>2
        <5>2. ~(now < First(h)) /\ ~(k > Elapsed(h))
          <6>1. First(h) \in Nat /\ now \in Nat /\ k \in Nat
            BY <1>b, FirstIsTick
          <6> QED
            BY <3>3, <4>2, <6>1
        <5> QED
          BY <3>3, <4>2, <5>1, <5>2
      <4>3. CASE ~(h = g /\ k = e)
        <5>1. drawn'[h][k] = drawn[h][k]
          BY <1>b, <3>1, <3>4, <3>5, <4>3
        <5> QED
          BY <4>1, <5>1
      <4> QED
        BY <4>2, <4>3
    <3>8. ASSUME NEW u \in Sends, GrantOf[u] # NoGrant, op'[u] = "mined"
          PROVE  now >= First(GrantOf[u])
      BY <1>a, <2>2, <3>3, <3>8 DEF DrawInv
    <3> QED
      BY <2>1, <3>6, <3>7, <3>8 DEF DrawInv, Elapsed
  <2> QED
    BY <2>3, <2>4
<1>17. ASSUME NEW t \in Sends, MineReverted(t) PROVE DrawInv'
  <2>1. \A u \in Sends : op'[u] = "mined" => op[u] = "mined"
    BY <1>17, <1>b DEF MineReverted
  <2> QED
    BY <1>17, <2>1, DrawKept DEF MineReverted
<1>17a. ASSUME NEW t \in Sends, NotifyConnect(t) PROVE DrawInv'
  BY <1>17a, DrawKept DEF NotifyConnect, chainVars
<1>18. ASSUME NEW t \in Sends, Notify(t) PROVE DrawInv'
  BY <1>18, DrawKept DEF Notify, chainVars
<1>19. ASSUME NEW t \in Sends, NotifyThrows(t) PROVE DrawInv'
  BY <1>19, DrawKept DEF NotifyThrows, chainVars
<1>19a. ASSUME NEW w \in Wallets, AutoflowDeposit(w) PROVE DrawInv'
  BY <1>19a, DrawKept DEF AutoflowDeposit, chainVars
<1>20. ASSUME NEW g \in Grants, Sign(g) PROVE DrawInv'
  BY <1>20, DrawKept DEF Sign, chainVars
<1>21. ASSUME NEW g \in Grants, SaveDelegation(g) PROVE DrawInv'
  BY <1>21, DrawKept DEF SaveDelegation, chainVars
<1>22. ASSUME Tick PROVE DrawInv'
  <2>1. now \in Nat /\ now' = now + 1 /\ UNCHANGED <<drawn, drawnOn, op>>
    BY <1>22, <1>b DEF Tick, chainVars
  <2>2. ASSUME NEW h \in Grants, NEW k \in 0..MaxTime,
               now' < First(h) \/ k > Elapsed(h)'
        PROVE  drawn[h][k] = 0
    <3>1. First(h) \in Nat /\ k \in Nat
      BY FirstIsTick, <1>b
    <3>2. CASE now < First(h)
      BY <1>a, <3>2 DEF DrawInv
    <3>3. CASE now >= First(h)
      <4>1. Elapsed(h) \in Nat /\ Elapsed(h)' \in Nat /\ Elapsed(h) <= Elapsed(h)'
        BY <2>1, <3>1, <3>3, ElapsedGrows
      <4>2. k > Elapsed(h)
        BY <2>1, <2>2, <3>1, <3>3, <4>1
      <4> QED
        BY <1>a, <4>2 DEF DrawInv
    <3> QED
      BY <2>1, <3>1, <3>2, <3>3
  <2>3. ASSUME NEW u \in Sends, GrantOf[u] # NoGrant, op[u] = "mined"
        PROVE  now' >= First(GrantOf[u])
    <3>1. now >= First(GrantOf[u]) /\ First(GrantOf[u]) \in Nat
      BY <1>a, <2>3, FirstIsTick, TransfersAssumption, RequestSets DEF DrawInv
    <3> QED
      BY <2>1, <3>1
  <2>4. /\ drawnOn' = drawn'
        /\ \A h \in Grants : \A k \in 0..MaxTime : drawn'[h][k] <= LimitOf[h]
    BY <1>a, <2>1 DEF DrawInv
  <2> QED
    BY <2>1, <2>2, <2>3, <2>4 DEF DrawInv
<1>22a. ASSUME Restart PROVE DrawInv'
  BY <1>22a, DrawKept DEF Restart, chainVars
<1>23. CASE UNCHANGED vars
  BY <1>23, DrawKept DEF vars
<1>24. QED
  BY <1>1, <1>2, <1>2a, <1>3, <1>4, <1>5, <1>6, <1>7, <1>8, <1>9, <1>10, <1>11, <1>12, <1>13, <1>14, <1>15, <1>16, <1>17, <1>17a, <1>18, <1>19, <1>19a, <1>20, <1>21, <1>22, <1>22a, <1>23 DEF Next, Step, Pay, Delegate, Quiet

-----------------------------------------------------------------------------
\* A draw that the clock overtakes is covered by the next 24 hours' allowance.
LEMMA CoveredTomorrow ==
  ASSUME IInv, NEW t \in Sends, GrantOf[t] # NoGrant, op[t] # "none",
         MayDraw(GrantOf[t], WalletOf[t], AmountOf[t]),
         now' = now + 1, now < MaxTime, UNCHANGED <<drawn, scope>>
  PROVE  MayDraw(GrantOf[t], WalletOf[t], AmountOf[t])'
<1> DEFINE g == GrantOf[t]
           e == Elapsed(g)
           f == (now + 1 - First(g)) \div Day
<1>1. /\ g \in Grants /\ PeriodAt(g, now) = e
      /\ scope[g].start = First(g) /\ scope[g].limit = LimitOf[g]
      /\ scope[g].period = Day
  BY PeriodIsElapsed
<1>2. /\ now \in Nat /\ now + 1 <= MaxTime /\ MaxTime \in Nat
      /\ First(g) \in Nat /\ AmountOf[t] \in Nat /\ LimitOf[g] \in Nat
  BY <1>1, FirstIsTick, TransfersAssumption, RequestSets DEF IInv, TypeOK
<1>3. /\ now >= First(g) /\ WalletOf[t] = DelegateeOf[g]
      /\ drawn[g][e] + AmountOf[t] <= LimitOf[g]
  BY <1>1 DEF MayDraw
<1>4. e \in Nat /\ f \in Nat /\ e <= f
  BY <1>1, <1>2, <1>3, ElapsedGrows
<1>5. f \in 0..MaxTime
  <2>1. now + 1 - First(g) \in Nat /\ now + 1 - First(g) <= MaxTime
    BY <1>2, <1>3
  <2>2. f <= now + 1 - First(g)
    BY <2>1, Division, TransfersAssumption
  <2> QED
    BY <1>2, <1>4, <2>1, <2>2
<1>6. drawn[g][f] + AmountOf[t] <= LimitOf[g]
  <2> DEFINE x == drawn[g][f]
  <2>1. CASE f = e
    BY <1>3, <2>1
  <2>2. CASE f # e
    <3>1. f > e
      BY <1>4, <2>2
    <3>2. x = 0
      BY <1>1, <1>5, <3>1 DEF IInv, DrawInv
    <3>3. AmountOf[t] <= LimitOf[g]
      <4>1. drawn[g][e] \in Nat
        BY <1>1, <1>3, ElapsedIsPeriod DEF IInv, TypeOK
      <4> QED
        BY <1>2, <1>3, <4>1
    <3> QED
      BY <1>2, <3>2, <3>3
  <2> QED
    BY <2>1, <2>2
<1>7. /\ WalletOf[t] = DelegateeOf[g] /\ now' >= scope'[g].start
      /\ drawn'[g][(now' - scope'[g].start) \div scope'[g].period]
           + AmountOf[t] <= scope'[g].limit
  <2>1. /\ scope'[g].start = First(g) /\ scope'[g].period = Day
        /\ scope'[g].limit = LimitOf[g]
    BY <1>1
  <2>2. now' >= scope'[g].start
    BY <1>1, <1>2, <1>3
  <2>3. Day \in Nat \ {0} /\ now' = now + 1 /\ drawn' = drawn
    BY TransfersAssumption
  <2>4. (now' - scope'[g].start) \div scope'[g].period = f
    BY <1>2, <2>1, <2>3
  <2> HIDE DEF f, g
  <2> QED
    BY <1>3, <1>6, <2>1, <2>2, <2>3, <2>4
<1> QED
  BY <1>7 DEF MayDraw, PeriodAt

\* What SerialInv reads is untouched, and no transfer becomes unsettled.
LEMMA SerialKept ==
  ASSUME IInv, UNCHANGED <<op, balance, drawn, scope, now, raced>>,
         \A t \in Sends : Unsettled(t)' => Unsettled(t)
  PROVE  SerialInv'
<1>1. \A t \in Sends : Covered(t) => Covered(t)'
  BY DEF Covered, MayDraw, PeriodAt
<1>2. SerialInv
  BY DEF IInv
<1>3. \A t \in Sends : PayerOf(t)' = PayerOf(t)
  BY DEF PayerOf
<1>4. \A t, u \in Sends :
        PayerOf(t)' = PayerOf(u)' /\ Unsettled(t)' /\ Unsettled(u)'
          => t = u \/ PayerOf(t)' \in raced'
  BY <1>2, <1>3 DEF SerialInv
<1>5. \A t \in Sends :
        op'[t] = "pending" /\ PayerOf(t)' \notin raced' => Covered(t)'
  BY <1>1, <1>2, <1>3 DEF SerialInv
<1>6. SerialNotShort'
  BY <1>2, <1>3 DEF SerialInv, SerialNotShort
<1> QED
  BY <1>4, <1>5, <1>6 DEF SerialInv

\* The same for the step of a transfer on chain.
LEMMA SerialNext ==
  ASSUME IInv, raced \subseteq raced',
         \A t, u \in Sends :
           PayerOf(t) = PayerOf(u) /\ Unsettled(t)' /\ Unsettled(u)'
             => t = u \/ PayerOf(t) \in raced',
         \A t \in Sends :
           op'[t] = "pending" /\ PayerOf(t) \notin raced' => Covered(t)',
         \A t \in Sends : op'[t] = "short" => op[t] = "short" \/ PayerOf(t) \in raced
  PROVE  SerialInv'
<1>1. \A t \in Sends : PayerOf(t)' = PayerOf(t)
  BY DEF PayerOf
<1>2. SerialNotShort
  BY DEF IInv, SerialInv
<1> QED
  BY <1>1, <1>2 DEF SerialInv, SerialNotShort

\* Only overlapping transfers can run short.
LEMMA SerialStep == IInv /\ [Next]_vars => SerialInv'
<1> SUFFICES ASSUME IInv, [Next]_vars PROVE SerialInv'
  OBVIOUS
<1> USE DEF procVars, poolVars
<1>a. SerialInv /\ GrantInv /\ SendInv
  BY DEF IInv
<1>b. /\ pc \in [Requests -> Pc]
      /\ op \in [Sends -> {"none", "pending"} \cup Included]
      /\ scope \in [Grants -> Scope] /\ balance \in [Wallets -> Nat]
      /\ drawn \in [Grants -> [0..MaxTime -> Nat]]
      /\ Sends \subseteq Requests /\ Grants \subseteq Requests
      /\ Sends \cap Grants = {}
  BY RequestSets DEF IInv, TypeOK
<1>1. ASSUME NEW r \in Requests, Begin(r) PROVE SerialInv'
  <2>1. /\ UNCHANGED <<op, balance, drawn, scope, now>> /\ raced \subseteq raced'
        /\ pc' = [pc EXCEPT ![r] = "lookup"]
    BY <1>1 DEF Begin, Overlap, chainVars, Goto
  <2>2. \A t \in Sends : t # r /\ Unsettled(t)' => Unsettled(t)
    BY <1>b, <2>1 DEF Unsettled, InTx
  <2>3. ASSUME NEW t \in Sends, t # r, r \in Sends,
               PayerOf(t) = PayerOf(r), Unsettled(t)
        PROVE  PayerOf(r) \in raced'
    BY <1>1, <2>3 DEF Begin, Overlap
  <2>4. ASSUME NEW t \in Sends, NEW u \in Sends, PayerOf(t) = PayerOf(u),
               Unsettled(t)', Unsettled(u)', t # u
        PROVE  PayerOf(t) \in raced'
    <3>1. CASE t = r
      BY <2>2, <2>3, <2>4, <3>1
    <3>2. CASE u = r
      BY <2>2, <2>3, <2>4, <3>2
    <3>3. CASE t # r /\ u # r
      BY <1>a, <2>1, <2>2, <2>4, <3>3 DEF SerialInv
    <3> QED
      BY <3>1, <3>2, <3>3
  <2>5. \A t \in Sends : Covered(t) => Covered(t)'
    BY <2>1 DEF Covered, MayDraw, PeriodAt, PayerOf
  <2>6. \A t \in Sends :
          op'[t] = "pending" /\ PayerOf(t) \notin raced' => Covered(t)'
    BY <1>a, <2>1, <2>5 DEF SerialInv
  <2> QED
    BY <2>1, <2>4, <2>6, SerialNext
<1>2. ASSUME NEW r \in Requests, BeginTimesOut(r) PROVE SerialInv'
  <2>1. UNCHANGED <<op, balance, drawn, scope, now, raced>>
    BY <1>2 DEF BeginTimesOut, chainVars
  <2>2. \A t \in Sends : Unsettled(t)' => Unsettled(t)
    BY <1>2, <1>b DEF BeginTimesOut, Unsettled, chainVars, InTx, Open, Ended, Account, Awaiting, Goto, procVars, poolVars
  <2> QED
    BY <2>1, <2>2, SerialKept
<1>2a. ASSUME NEW r \in Requests, BeginThrows(r) PROVE SerialInv'
  <2>1. UNCHANGED <<op, balance, drawn, scope, now, raced>>
    BY <1>2a DEF BeginThrows, chainVars
  <2>2. \A u \in Sends : Unsettled(u)' => Unsettled(u)
    BY <1>2a, <1>b DEF BeginThrows, Unsettled, chainVars, InTx, Open, Ended, Account, Awaiting, Goto, procVars, poolVars
  <2> QED
    BY <2>1, <2>2, SerialKept
<1>3. ASSUME NEW r \in Requests, Lookup(r) PROVE SerialInv'
  <2>1. UNCHANGED <<op, balance, drawn, scope, now, raced>>
    BY <1>3 DEF Lookup, chainVars
  <2>2. \A t \in Sends : Unsettled(t)' => Unsettled(t)
    BY <1>3, <1>b DEF Lookup, Unsettled, chainVars, InTx, Open, Ended, Account, Awaiting, Goto, procVars, poolVars
  <2> QED
    BY <2>1, <2>2, SerialKept
<1>4. ASSUME NEW r \in Requests, LookupThrows(r) PROVE SerialInv'
  <2>1. UNCHANGED <<op, balance, drawn, scope, now, raced>>
    BY <1>4 DEF LookupThrows, chainVars
  <2>2. \A t \in Sends : Unsettled(t)' => Unsettled(t)
    BY <1>4, <1>b DEF LookupThrows, Unsettled, chainVars, InTx, Open, Ended, Account, Awaiting, Goto, procVars, poolVars, Close
  <2> QED
    BY <2>1, <2>2, SerialKept
<1>5. ASSUME NEW r \in Requests, GetSmartAccount(r) PROVE SerialInv'
  <2>1. UNCHANGED <<op, balance, drawn, scope, now, raced>>
    BY <1>5 DEF GetSmartAccount, chainVars
  <2>2. \A t \in Sends : Unsettled(t)' => Unsettled(t)
    BY <1>5, <1>b DEF GetSmartAccount, Unsettled, chainVars, InTx, Open, Ended, Account, Awaiting, Goto, procVars, poolVars
  <2> QED
    BY <2>1, <2>2, SerialKept
<1>6. ASSUME NEW r \in Requests, DeployWallet(r) PROVE SerialInv'
  <2>1. UNCHANGED <<op, balance, drawn, scope, now, raced>>
    BY <1>6 DEF DeployWallet, chainVars
  <2>2. \A t \in Sends : Unsettled(t)' => Unsettled(t)
    BY <1>6, <1>b DEF DeployWallet, Unsettled, chainVars, InTx, Open, Ended, Account, Awaiting, Goto, procVars, poolVars
  <2> QED
    BY <2>1, <2>2, SerialKept
<1>7. ASSUME NEW r \in Requests, DeployReceipt(r) PROVE SerialInv'
  <2>1. UNCHANGED <<op, balance, drawn, scope, now, raced>>
    BY <1>7 DEF DeployReceipt, chainVars
  <2>2. \A t \in Sends : Unsettled(t)' => Unsettled(t)
    BY <1>7, <1>b DEF DeployReceipt, Unsettled, chainVars, InTx, Open, Ended, Account, Awaiting, Goto, procVars, poolVars
  <2> QED
    BY <2>1, <2>2, SerialKept
<1>8. ASSUME NEW r \in Requests, Commit(r) PROVE SerialInv'
  <2>1. UNCHANGED <<op, balance, drawn, scope, now, raced>>
    BY <1>8 DEF Commit, chainVars
  <2>2. \A t \in Sends : Unsettled(t)' => Unsettled(t)
    BY <1>8, <1>b DEF Commit, Unsettled, chainVars, InTx, Open, Ended, Account, Awaiting, Goto, procVars, poolVars, Close
  <2> QED
    BY <2>1, <2>2, SerialKept
<1>9. ASSUME NEW r \in Requests, CommitThrows(r) PROVE SerialInv'
  <2>1. UNCHANGED <<op, balance, drawn, scope, now, raced>>
    BY <1>9 DEF CommitThrows, chainVars
  <2>2. \A t \in Sends : Unsettled(t)' => Unsettled(t)
    BY <1>9, <1>b DEF CommitThrows, Unsettled, chainVars, InTx, Open, Ended, Account, Awaiting, Goto, procVars, poolVars, Close
  <2> QED
    BY <2>1, <2>2, SerialKept
<1>10. ASSUME NEW r \in Requests, Throws(r) PROVE SerialInv'
  <2>1. UNCHANGED <<op, balance, drawn, scope, now, raced>>
    BY <1>10 DEF Throws, chainVars
  <2>2. InTx(r)
    BY <1>10 DEF Throws, InTx
  <2>3. \A t \in Sends : t # r => pc'[t] = pc[t]
    BY <1>10, <1>b DEF Throws, Close, Goto
  <2>4. \A t \in Sends : Unsettled(t)' => Unsettled(t)
    BY <2>1, <2>2, <2>3 DEF Unsettled, InTx
  <2> QED
    BY <2>1, <2>4, SerialKept
<1>11. ASSUME NEW r \in Requests, DeployIncluded(r) PROVE SerialInv'
  <2>1. UNCHANGED <<op, balance, drawn, scope, now, raced>>
    BY <1>11 DEF DeployIncluded, chainVars
  <2>2. \A t \in Sends : Unsettled(t)' => Unsettled(t)
    BY <1>11, <1>b DEF DeployIncluded, Unsettled, chainVars, InTx, Open, Ended, Account, Awaiting, Goto, procVars, poolVars
  <2> QED
    BY <2>1, <2>2, SerialKept
<1>12. ASSUME NEW r \in Payments, Estimate(r) PROVE SerialInv'
  <2>1. UNCHANGED <<op, balance, drawn, scope, now, raced>>
    BY <1>12 DEF Estimate, chainVars
  <2>2. \A t \in Sends : Unsettled(t)' => Unsettled(t)
    BY <1>12, <1>b DEF Estimate, Unsettled, chainVars, InTx, Open, Ended, Account, Awaiting, Goto, procVars, poolVars
  <2> QED
    BY <2>1, <2>2, SerialKept
<1>13. ASSUME NEW t \in Sends, Submit(t) PROVE SerialInv'
  <2>1. /\ UNCHANGED <<balance, drawn, scope, now, raced>> /\ Affordable(t)
        /\ op' = [op EXCEPT ![t] = "pending"] /\ InTx(t)
        /\ pc' = [pc EXCEPT ![t] = "receipt"]
    BY <1>13 DEF Submit, InTx, Goto, Open
  <2>2. \A u \in Sends : Unsettled(u)' => Unsettled(u)
    BY <1>b, <2>1 DEF Unsettled, InTx
  <2>3. \A u, v \in Sends :
          PayerOf(u) = PayerOf(v) /\ Unsettled(u)' /\ Unsettled(v)'
            => u = v \/ PayerOf(u) \in raced'
    BY <1>a, <2>1, <2>2 DEF SerialInv
  <2>4. \A u \in Sends : Covered(u) => Covered(u)'
    BY <2>1 DEF Covered, MayDraw, PeriodAt, PayerOf
  <2>5. Covered(t)
    BY <2>1 DEF Affordable
  <2>6. \A u \in Sends :
          op'[u] = "pending" /\ PayerOf(u) \notin raced' => Covered(u)'
    BY <1>a, <1>b, <2>1, <2>4, <2>5 DEF SerialInv
  <2>7. \A u \in Sends : op'[u] = "short" => op[u] = "short"
    BY <1>b, <2>1
  <2> QED
    BY <2>1, <2>3, <2>6, <2>7, SerialNext
<1>14. ASSUME NEW t \in Sends, Receipt(t) PROVE SerialInv'
  <2>1. UNCHANGED <<op, balance, drawn, scope, now, raced>>
    BY <1>14 DEF Receipt, chainVars
  <2>2. \A u \in Sends : Unsettled(u)' => Unsettled(u)
    BY <1>14, <1>b DEF Receipt, Unsettled, chainVars, InTx, Open, Ended, Account, Awaiting, Goto, procVars, poolVars
  <2> QED
    BY <2>1, <2>2, SerialKept
<1>15. ASSUME NEW t \in Sends, SaveTxn(t) PROVE SerialInv'
  <2>1. UNCHANGED <<op, balance, drawn, scope, now, raced>>
    BY <1>15 DEF SaveTxn, chainVars
  <2>2. \A u \in Sends : Unsettled(u)' => Unsettled(u)
    BY <1>15, <1>b DEF SaveTxn, Unsettled, chainVars, InTx, Open, Ended, Account, Awaiting, Goto, procVars, poolVars
  <2> QED
    BY <2>1, <2>2, SerialKept
<1>16. ASSUME NEW t \in Sends, Mine(t) PROVE SerialInv'
  <2>1. /\ UNCHANGED <<pc, scope, now, raced>> /\ op[t] = "pending"
        /\ op' = [op EXCEPT ![t] = "mined"]
    BY <1>16 DEF Mine, procVars, poolVars
  <2>2. \A u \in Sends : u # t => op'[u] = op[u]
    BY <1>b, <2>1
  <2>3. op'[t] = "mined"
    BY <1>b, <2>1
  <2>4. \A u \in Sends : Unsettled(u)' => Unsettled(u)
    BY <2>1, <2>2, <2>3 DEF Unsettled, InTx
  <2>5. \A u, v \in Sends :
          PayerOf(u) = PayerOf(v) /\ Unsettled(u)' /\ Unsettled(v)'
            => u = v \/ PayerOf(u) \in raced'
    BY <1>a, <2>1, <2>4 DEF SerialInv
  <2>6. ASSUME NEW u \in Sends, op'[u] = "pending", PayerOf(u) \notin raced'
        PROVE  Covered(u)'
    <3>1. u # t /\ op[u] = "pending" /\ Covered(u)
      BY <1>a, <2>1, <2>2, <2>3, <2>6 DEF SerialInv
    <3>2. PayerOf(u) # PayerOf(t)
      BY <1>a, <2>1, <2>6, <3>1 DEF SerialInv, Unsettled
    <3>3. /\ PayerOf(u) \in Wallets /\ AmountOf[u] \in Nat /\ AmountOf[t] \in Nat
          /\ balance[PayerOf(u)] \in Nat
      BY <1>b, PayerIsWallet, TransfersAssumption, RequestSets
    <3>4. balance'[PayerOf(u)] = balance[PayerOf(u)]
            + (IF PayerOf(u) = PayeeOf[t] THEN AmountOf[t] ELSE 0)
      <4> DEFINE w == PayerOf(u)
      <4>1. balance'[w] = balance[w] - (IF w = PayerOf(t) THEN AmountOf[t] ELSE 0)
                            + (IF w = PayeeOf[t] THEN AmountOf[t] ELSE 0)
        BY <1>16, <3>3 DEF Mine
      <4> QED
        BY <3>2, <3>3, <4>1
    <3>5. AmountOf[u] <= balance'[PayerOf(u)]
      BY <3>1, <3>3, <3>4 DEF Covered
    <3>6. ASSUME GrantOf[u] # NoGrant
          PROVE  GrantOf[u] # GrantOf[t] /\ drawn'[GrantOf[u]] = drawn[GrantOf[u]]
      <4>1. GrantOf[u] # GrantOf[t] /\ GrantOf[u] \in Grants
        BY <3>2, <3>6, TransfersAssumption, RequestSets DEF PayerOf
      <4> QED
        BY <1>16, <1>b, <4>1 DEF Mine
    <3>7. GrantOf[u] # NoGrant => MayDraw(GrantOf[u], WalletOf[u], AmountOf[u])'
      BY <2>1, <3>1, <3>6 DEF Covered, MayDraw, PeriodAt
    <3> QED
      BY <3>5, <3>7 DEF Covered, PayerOf
  <2>7. \A u \in Sends : op'[u] = "short" => op[u] = "short"
    BY <2>2, <2>3
  <2> QED
    BY <2>1, <2>5, <2>6, <2>7, SerialNext
<1>17. ASSUME NEW t \in Sends, MineReverted(t) PROVE SerialInv'
  <2>1. /\ UNCHANGED <<pc, balance, drawn, scope, now, raced>>
        /\ op[t] = "pending"
        /\ op' = [op EXCEPT ![t] = IF Covered(t) THEN "reverted" ELSE "short"]
    BY <1>17 DEF MineReverted, procVars, poolVars
  <2>2. \A u \in Sends : u # t => op'[u] = op[u]
    BY <1>b, <2>1
  <2>3. op'[t] # "pending" /\ (op'[t] = "short" => ~Covered(t))
    BY <1>b, <2>1
  <2>4. \A u \in Sends : Unsettled(u)' => Unsettled(u)
    BY <2>1, <2>2, <2>3 DEF Unsettled, InTx
  <2>5. \A u, v \in Sends :
          PayerOf(u) = PayerOf(v) /\ Unsettled(u)' /\ Unsettled(v)'
            => u = v \/ PayerOf(u) \in raced'
    BY <1>a, <2>1, <2>4 DEF SerialInv
  <2>6. \A u \in Sends : Covered(u) => Covered(u)'
    BY <2>1 DEF Covered, MayDraw, PeriodAt, PayerOf
  <2>7. \A u \in Sends :
          op'[u] = "pending" /\ PayerOf(u) \notin raced' => Covered(u)'
    BY <1>a, <2>1, <2>2, <2>3, <2>6 DEF SerialInv
  <2>8. \A u \in Sends : op'[u] = "short" => op[u] = "short" \/ PayerOf(u) \in raced
    BY <1>a, <2>1, <2>2, <2>3 DEF SerialInv
  <2> QED
    BY <2>1, <2>5, <2>7, <2>8, SerialNext
<1>17a. ASSUME NEW t \in Sends, NotifyConnect(t) PROVE SerialInv'
  <2>1. UNCHANGED <<op, balance, drawn, scope, now, raced>>
    BY <1>17a DEF NotifyConnect, chainVars
  <2>2. \A u \in Sends : Unsettled(u)' => Unsettled(u)
    BY <1>17a, <1>b DEF NotifyConnect, Unsettled, chainVars, InTx, Open, Ended, Account, Awaiting, Goto, procVars, poolVars
  <2> QED
    BY <2>1, <2>2, SerialKept
<1>18. ASSUME NEW t \in Sends, Notify(t) PROVE SerialInv'
  <2>1. UNCHANGED <<op, balance, drawn, scope, now, raced>>
    BY <1>18 DEF Notify, chainVars
  <2>2. \A u \in Sends : Unsettled(u)' => Unsettled(u)
    BY <1>18, <1>b DEF Notify, Unsettled, chainVars, InTx, Open, Ended, Account, Awaiting, Goto, procVars, poolVars
  <2> QED
    BY <2>1, <2>2, SerialKept
<1>19. ASSUME NEW t \in Sends, NotifyThrows(t) PROVE SerialInv'
  <2>1. UNCHANGED <<op, balance, drawn, scope, now, raced>>
    BY <1>19 DEF NotifyThrows, chainVars
  <2>2. \A u \in Sends : Unsettled(u)' => Unsettled(u)
    BY <1>19, <1>b DEF NotifyThrows, Unsettled, chainVars, InTx, Open, Ended, Account, Awaiting, Goto, procVars, poolVars
  <2> QED
    BY <2>1, <2>2, SerialKept
<1>19a. ASSUME NEW w \in Wallets, AutoflowDeposit(w) PROVE SerialInv'
  <2>1. /\ UNCHANGED <<pc, op, drawn, scope, now>> /\ raced \subseteq raced'
        /\ \A v \in Wallets : v # w => balance'[v] = balance[v]
    BY <1>19a, <1>b DEF AutoflowDeposit, Overlap, procVars
  <2>2. \A u \in Sends : Unsettled(u)' => Unsettled(u)
    BY <2>1 DEF Unsettled, InTx
  <2>3. \A u, v \in Sends :
          PayerOf(u) = PayerOf(v) /\ Unsettled(u)' /\ Unsettled(v)'
            => u = v \/ PayerOf(u) \in raced'
    BY <1>a, <2>1, <2>2 DEF SerialInv
  <2>4. ASSUME NEW u \in Sends, op'[u] = "pending", PayerOf(u) \notin raced'
        PROVE  Covered(u)'
    <3>1. op[u] = "pending" /\ Covered(u)
      BY <1>a, <2>1, <2>4 DEF SerialInv
    <3>2. PayerOf(u) # w
      BY <1>19a, <2>4, <3>1 DEF AutoflowDeposit, Overlap, Unsettled
    <3>3. balance'[PayerOf(u)] = balance[PayerOf(u)]
      BY <2>1, <3>2, PayerIsWallet, RequestSets
    <3> QED
      BY <2>1, <3>1, <3>3 DEF Covered, MayDraw, PeriodAt, PayerOf
  <2> QED
    BY <2>1, <2>3, <2>4, SerialNext
<1>20. ASSUME NEW g \in Grants, Sign(g) PROVE SerialInv'
  <2>1. /\ UNCHANGED <<op, balance, drawn, now, raced>> /\ InTx(g)
        /\ pc[g] = "sign" /\ pc' = [pc EXCEPT ![g] = "save"]
        /\ \A h \in Grants : h # g => scope'[h] = scope[h]
    BY <1>20, <1>b DEF Sign, InTx, Goto, Open, chainVars
  <2>2. \A u \in Sends : Unsettled(u)' => Unsettled(u)
    BY <1>b, <2>1 DEF Unsettled, InTx
  <2>3. \A u, v \in Sends :
          PayerOf(u) = PayerOf(v) /\ Unsettled(u)' /\ Unsettled(v)'
            => u = v \/ PayerOf(u) \in raced'
    BY <1>a, <2>1, <2>2 DEF SerialInv
  <2>4. ASSUME NEW u \in Sends, op'[u] = "pending", PayerOf(u) \notin raced'
        PROVE  Covered(u)'
    <3>1. Covered(u) /\ op[u] = "pending"
      BY <1>a, <2>1, <2>4 DEF SerialInv
    <3>2. GrantOf[u] # NoGrant => GrantOf[u] \in Grants /\ GrantOf[u] # g
      BY <1>a, <2>1, <3>1, TransfersAssumption, RequestSets DEF GrantInv
    <3> QED
      BY <2>1, <3>1, <3>2 DEF Covered, MayDraw, PeriodAt, PayerOf
  <2> QED
    BY <2>1, <2>3, <2>4, SerialNext
<1>21. ASSUME NEW g \in Grants, SaveDelegation(g) PROVE SerialInv'
  <2>1. UNCHANGED <<op, balance, drawn, scope, now, raced>>
    BY <1>21 DEF SaveDelegation, chainVars
  <2>2. \A t \in Sends : Unsettled(t)' => Unsettled(t)
    BY <1>21, <1>b DEF SaveDelegation, Unsettled, chainVars, InTx, Open, Ended, Account, Awaiting, Goto, procVars, poolVars
  <2> QED
    BY <2>1, <2>2, SerialKept
<1>22. ASSUME Tick PROVE SerialInv'
  <2>1. /\ UNCHANGED <<pc, op, balance, drawn, scope, raced>> /\ now' = now + 1
        /\ now < MaxTime
    BY <1>22 DEF Tick, procVars, poolVars, chainVars
  <2>2. \A u \in Sends : Unsettled(u)' => Unsettled(u)
    BY <2>1 DEF Unsettled, InTx
  <2>3. \A u, v \in Sends :
          PayerOf(u) = PayerOf(v) /\ Unsettled(u)' /\ Unsettled(v)'
            => u = v \/ PayerOf(u) \in raced'
    BY <1>a, <2>1, <2>2 DEF SerialInv
  <2>4. ASSUME NEW u \in Sends, op'[u] = "pending", PayerOf(u) \notin raced'
        PROVE  Covered(u)'
    <3>1. Covered(u) /\ op[u] # "none"
      BY <1>a, <2>1, <2>4 DEF SerialInv
    <3>2. CASE GrantOf[u] = NoGrant
      BY <2>1, <3>1, <3>2 DEF Covered, PayerOf
    <3>3. CASE GrantOf[u] # NoGrant
      <4>1. MayDraw(GrantOf[u], WalletOf[u], AmountOf[u])'
        BY <2>1, <3>1, <3>3, CoveredTomorrow DEF Covered
      <4> QED
        BY <2>1, <3>1, <4>1 DEF Covered, PayerOf
    <3> QED
      BY <3>2, <3>3
  <2> QED
    BY <2>1, <2>3, <2>4, SerialNext
<1>22a. ASSUME Restart PROVE SerialInv'
  <2>1. UNCHANGED <<op, balance, drawn, scope, now, raced>>
    BY <1>22a DEF Restart, chainVars
  <2>2. \A u \in Sends : Unsettled(u)' => Unsettled(u)
    BY <1>22a, <1>b DEF Restart, Unsettled, chainVars, InTx, Open, Ended, Account, Awaiting, Goto, procVars, poolVars
  <2> QED
    BY <2>1, <2>2, SerialKept
<1>23. CASE UNCHANGED vars
  <2>1. UNCHANGED <<op, balance, drawn, scope, now, raced>> /\ pc' = pc
    BY <1>23 DEF vars
  <2>2. \A t \in Sends : Unsettled(t)' => Unsettled(t)
    BY <2>1 DEF Unsettled, InTx
  <2> QED
    BY <2>1, <2>2, SerialKept
<1>24. QED
  BY <1>1, <1>2, <1>2a, <1>3, <1>4, <1>5, <1>6, <1>7, <1>8, <1>9, <1>10, <1>11, <1>12, <1>13, <1>14, <1>15, <1>16, <1>17, <1>17a, <1>18, <1>19, <1>19a, <1>20, <1>21, <1>22, <1>22a, <1>23 DEF Next, Step, Pay, Delegate, Quiet
-----------------------------------------------------------------------------
LEMMA InitIInv == Init => IInv
<1> SUFFICES ASSUME Init PROVE IInv
  OBVIOUS
<1> USE TransfersAssumption, RequestSets DEF Init
<1>1. TypeOK
  <2>1. 0 \in 0..MaxTime /\ Day \in Nat \ {0}
    OBVIOUS
  <2>2. scope \in [Grants -> Scope]
    BY <2>1 DEF Scope, NoScope
  <2> QED
    BY <2>1, <2>2 DEF TypeOK, Pc, Included
<1>2. PcInv
  BY DEF PcInv, InTx, Open, Account, Awaiting
<1>3. SendInv
  BY DEF SendInv, DoneIsRecorded
<1>4. GrantInv
  BY DEF GrantInv, Open, Account, Awaiting
<1>5. DeployInv
  BY DEF DeployInv, Account, Awaiting
<1>6. DrawInv
  BY DEF DrawInv
<1>7. SerialInv
  BY DEF SerialInv, SerialNotShort, Unsettled, InTx, Open, Account, Awaiting
<1> QED
  BY <1>1, <1>2, <1>3, <1>4, <1>5, <1>6, <1>7 DEF IInv

LEMMA NextIInv == IInv /\ [Next]_vars => IInv'
BY TypeOKStep, PcStep, SendStep, GrantStep, DeployStep, DrawStep, SerialStep
DEF IInv

\* The whole inductive invariant holds of every behaviour.
THEOREM Invariance == Spec => []IInv
<1>1. Init => IInv
  BY InitIInv
<1>2. IInv /\ [Next]_vars => IInv'
  BY NextIInv
<1> QED
  BY <1>1, <1>2, PTL DEF Spec

\* Every variable keeps its type.
THEOREM TypeCorrect == Spec => []TypeOK
<1>1. IInv => TypeOK
  BY DEF IInv
<1> QED
  BY <1>1, Invariance, PTL

\* InitiateTransferUseCase: no row, event, note or answer 200 without a
\* receipt.
THEOREM TracesHaveReceipts == Spec => []TraceHasReceipt
<1>1. IInv => TraceHasReceipt
  BY DEF IInv, TypeOK, SendInv, DoneIsRecorded, TraceHasReceipt
<1> QED
  BY <1>1, Invariance, PTL

\* InitiateTransferUseCase: a transfer that ended well has its row, and only
\* such a transfer does.
THEOREM DoneHasRow == Spec => []DoneIsRecorded
<1>1. IInv => DoneIsRecorded
  BY DEF IInv, SendInv
<1> QED
  BY <1>1, Invariance, PTL

\* The check of a balance and the simulation of an operation, at two moments
\* before its inclusion, suffice for a wallet whose transfers do not overlap.
THEOREM SerialTransfersArePaid == Spec => []SerialNotShort
<1>1. IInv => SerialNotShort
  BY DEF IInv, SerialInv
<1> QED
  BY <1>1, Invariance, PTL

\* createNewDelegation: the signed periods are those of the row, and so the
\* limit is one for each 24 hours from its startDate on.
THEOREM AllowancesAreKept == Spec => []AllowanceKept
<1>1. IInv => AllowanceKept
  BY DEF IInv, DrawInv, AllowanceKept
<1> QED
  BY <1>1, Invariance, PTL

\* isActive and the signed scope agree: what is offered can be drawn, but for
\* what rounding adds to it.
THEOREM OffersAreDrawable == Spec => []OfferedMayDraw
<1>1. IInv => OfferedMayDraw
  <2> SUFFICES ASSUME IInv, NEW w \in Wallets, NEW g \in ListForSend(w),
                      NEW n \in 0..Shown(g),
                      drawnOn[g][Elapsed(g)] + n <= LimitOf[g]
               PROVE  MayDraw(g, w, n)
    BY DEF OfferedMayDraw
  <2>1. /\ g \in Grants /\ g \in granted /\ DelegateeOf[g] = w
        /\ First(g) <= now
    BY DEF ListForSend, Active, IInv, TypeOK
  <2>2. scope[g] = Signed(g)
    BY <2>1 DEF IInv, GrantInv
  <2>3. /\ now >= scope[g].start /\ PeriodAt(g, now) = Elapsed(g)
        /\ scope[g].limit = LimitOf[g]
    <3>1. First(g) \in Nat /\ now \in Nat
      BY <2>1, FirstIsTick, TransfersAssumption DEF IInv, TypeOK
    <3> QED
      BY <2>1, <2>2, <3>1 DEF Signed, PeriodAt, Elapsed
  <2>4. drawn = drawnOn
    BY DEF IInv, DrawInv
  <2> QED
    BY <2>1, <2>3, <2>4 DEF MayDraw
<1> QED
  BY <1>1, Invariance, PTL

\* getSmartAccount: whichever deployment the chain takes, no wallet is used
\* without code.
THEOREM UsedAccountsAreDeployed == Spec => []AccountsDeployed
<1>1. IInv => AccountsDeployed
  BY DEF IInv, TypeOK, DeployInv, GrantInv, AccountsDeployed
<1> QED
  BY <1>1, Invariance, PTL

\* Only a request that finds no connection is refused.
LEMMA RefusalStep ==
  ASSUME TypeOK, [Next]_vars, NEW r \in Requests,
         pc[r] = "idle", pc'[r] = "refused"
  PROVE  Busy >= PoolSize
<1>a. pc \in [Requests -> Pc]
  BY DEF TypeOK
<1> USE <1>a, RequestSets DEF Goto, Open, Account, Awaiting, procVars, poolVars
<1>1. ASSUME NEW q \in Requests, Begin(q) \/ BeginThrows(q) PROVE FALSE
  BY <1>1 DEF Begin, BeginThrows
<1>2. ASSUME NEW q \in Requests, BeginTimesOut(q) PROVE Busy >= PoolSize
  BY <1>2 DEF BeginTimesOut
<1>3. ASSUME NEW q \in Requests,
             \/ Lookup(q) \/ LookupThrows(q) \/ GetSmartAccount(q)
             \/ DeployWallet(q) \/ DeployReceipt(q)
      PROVE  FALSE
  BY <1>3 DEF Lookup, LookupThrows, GetSmartAccount, AfterAccount, DeployWallet,
              DeployReceipt, Close
<1>4. ASSUME NEW q \in Requests,
             Estimate(q) \/ Submit(q) \/ Receipt(q) \/ SaveTxn(q)
      PROVE  FALSE
  BY <1>4 DEF Estimate, Submit, Receipt, SaveTxn
<1>5. ASSUME NEW q \in Requests,
             \/ Sign(q) \/ SaveDelegation(q) \/ Commit(q) \/ CommitThrows(q)
             \/ Throws(q)
      PROVE  FALSE
  BY <1>5 DEF Sign, SaveDelegation, Commit, CommitThrows, Throws, Close
<1>6. ASSUME \/ \E q \in Requests : DeployIncluded(q)
             \/ \E t \in Sends : \/ Mine(t) \/ MineReverted(t) \/ Notify(t)
                                 \/ NotifyConnect(t) \/ NotifyThrows(t)
             \/ \E w \in Wallets : AutoflowDeposit(w)
             \/ Restart \/ Tick \/ UNCHANGED vars
      PROVE  FALSE
  BY <1>6 DEF DeployIncluded, Mine, MineReverted, Notify, NotifyConnect,
              NotifyThrows, AutoflowDeposit, Restart, Tick, vars
<1> QED
  BY <1>1, <1>2, <1>3, <1>4, <1>5, <1>6
  DEF Next, Step, Pay, Delegate, Quiet

\* executeInTransaction: whatever becomes of a request, the connection it held
\* can be had again unless its START TRANSACTION failed, and so the pool
\* refuses only when it is really in use or has been lost that way.
THEOREM RefusalsAreJustified == Spec => RefusedOnlyWhenBusy
<1> DEFINE Justified == \A r \in Requests :
             pc[r] = "idle" /\ pc'[r] = "refused"
               => Cardinality({q \in Requests : InTx(q)} \cup lost)
                    + Cardinality(handling) >= PoolSize
<1>1. IInv /\ [Next]_vars => Justified
  BY RefusalStep DEF IInv, PcInv, Busy
<1>2. IInv /\ [Next]_vars => [Justified]_vars
  BY <1>1
<1> QED
  BY <1>2, Invariance, PTL DEF Spec, RefusedOnlyWhenBusy

-----------------------------------------------------------------------------
(* The refinement of AllowanceLedger: the abstract step of each action.     *)

\* What is drawn in the 24 hours that are running.
Spent ==
  [g \in Grants |-> IF now >= First(g) THEN drawnOn[g][Elapsed(g)] ELSE 0]

\* Actions that touch neither grants, draws nor the clock stutter.
LEMMA AllowanceStutters ==
  ASSUME UNCHANGED <<granted, drawnOn, now>>
  PROVE  UNCHANGED Allowances!vars
BY DEF Allowances!vars, Elapsed

\* A COMMIT grants the delegation it stores, and nothing else.
LEMMA CommitGrants ==
  ASSUME IInv, NEW r \in Requests, Commit(r)
  PROVE  (r \in Grants /\ Allowances!Grant(r)) \/ UNCHANGED Allowances!vars
<1>1. UNCHANGED <<drawnOn, now>>
  BY DEF Commit, chainVars
<1>2. CASE r \in Grants
  <2>1. r \notin granted
    BY <1>2 DEF Commit, IInv, GrantInv
  <2>2. granted' = granted \cup {r}
    BY <1>2 DEF Commit
  <2> QED
    BY <1>1, <1>2, <2>1, <2>2 DEF Allowances!Grant, Elapsed
<1>3. CASE r \notin Grants
  <2>1. granted' = granted
    BY <1>3 DEF Commit
  <2> QED
    BY <1>1, <2>1, AllowanceStutters
<1> QED
  BY <1>2, <1>3

\* An operation that is included draws on the running 24 hours, within their
\* limit: they are the signed period that is running.
LEMMA MineDraws ==
  ASSUME IInv, NEW t \in Sends, Mine(t)
  PROVE  \/ UNCHANGED Allowances!vars
         \/ /\ GrantOf[t] \in Grants
            /\ \E n \in 0..LimitOf[GrantOf[t]] : Allowances!Draw(GrantOf[t], n)
<1> DEFINE g == GrantOf[t]
           n == AmountOf[t]
           e == Elapsed(g)
<1>1. UNCHANGED <<granted, now>> /\ op[t] # "none"
  BY DEF Mine, rowVars
<1>2. CASE g = NoGrant
  <2>1. UNCHANGED drawnOn
    BY <1>2 DEF Mine
  <2> QED
    BY <1>1, <2>1, AllowanceStutters
<1>3. CASE g # NoGrant
  <2>1. /\ g \in Grants /\ g \in granted /\ PeriodAt(g, now) = e
        /\ scope[g].start = First(g) /\ scope[g].limit = LimitOf[g]
    BY <1>1, <1>3, PeriodIsElapsed
  <2>2. MayDraw(g, WalletOf[t], n)
    BY <1>3 DEF Mine, Covered
  <2>3. now >= First(g) /\ drawnOn[g][e] + n <= LimitOf[g]
    BY <2>1, <2>2 DEF MayDraw, IInv, DrawInv
  <2>4. e \in 0..MaxTime /\ drawnOn \in [Grants -> [0..MaxTime -> Nat]]
    BY <2>1, <2>3, ElapsedIsPeriod DEF IInv, TypeOK
  <2>5. drawnOn[g][e] \in Nat /\ n \in Nat /\ LimitOf[g] \in Nat
    BY <2>1, <2>4, TransfersAssumption, RequestSets
  <2>6. Spent[g] = drawnOn[g][e] /\ n \in 0..LimitOf[g]
    BY <2>1, <2>3, <2>5 DEF Spent
  <2>7. Spent' = [Spent EXCEPT ![g] = @ + n]
    <3>1. drawnOn' = [drawnOn EXCEPT ![g][e] = @ + n]
      BY <1>3 DEF Mine
    <3>2. ASSUME NEW h \in Grants, h # g PROVE drawnOn'[h] = drawnOn[h]
      BY <2>4, <3>1, <3>2
    <3>3. drawnOn'[g][e] = drawnOn[g][e] + n
      BY <2>1, <2>4, <3>1
    <3>4. \A h \in Grants : Elapsed(h)' = Elapsed(h)
      BY <1>1 DEF Elapsed
    <3> HIDE DEF n, g, e
    <3>5. Spent' = [h \in Grants |->
                     IF now >= First(h) THEN drawnOn'[h][Elapsed(h)] ELSE 0]
      BY <1>1, <3>4 DEF Spent
    <3>6. \A h \in Grants : h # g => Spent'[h] = Spent[h]
      BY <3>2, <3>5 DEF Spent
    <3>7. Spent'[g] = Spent[g] + n
      BY <2>1, <2>3, <2>6, <3>3, <3>5 DEF e
    <3> QED
      BY <2>1, <3>5, <3>6, <3>7 DEF Spent
  <2>8. now >= [h \in Grants |-> First(h)][g]
    BY <2>1, <2>3
  <2>9. Spent[g] + n <= LimitOf[g]
    BY <2>3, <2>6
  <2> HIDE DEF n, g, e
  <2>10. Allowances!Draw(g, n)
    BY <1>1, <2>1, <2>7, <2>8, <2>9 DEF Allowances!Draw, Spent
  <2> QED
    BY <2>1, <2>6, <2>10 DEF g, n
<1> QED
  BY <1>2, <1>3

\* The clock goes on within the 24 hours of an allowance, or into others, in
\* which nothing is drawn.
LEMMA TickRenews == ASSUME IInv, Tick PROVE Allowances!Tick
<1>1. /\ now \in Nat /\ now < MaxTime /\ now' = now + 1 /\ MaxTime \in Nat
      /\ UNCHANGED <<granted, drawnOn>>
  BY TransfersAssumption DEF Tick, IInv, TypeOK, rowVars, chainVars
<1> DEFINE Renewed(g) == Elapsed(g)' # Elapsed(g)
<1>2. ASSUME NEW g \in Grants
      PROVE  Spent'[g] = IF Renewed(g) THEN 0 ELSE Spent[g]
  <2>1. First(g) \in Nat
    BY FirstIsTick
  <2>2. /\ Spent[g] = IF now >= First(g) THEN drawnOn[g][Elapsed(g)] ELSE 0
        /\ Spent'[g] = IF now' >= First(g) THEN drawnOn[g][Elapsed(g)'] ELSE 0
    BY <1>1 DEF Spent
  <2>3. ASSUME now' >= First(g) PROVE Elapsed(g)' \in 0..MaxTime
    <3>1. now' - First(g) \in Nat /\ now' - First(g) <= MaxTime
      BY <1>1, <2>1, <2>3
    <3>2. Elapsed(g)' \in Nat /\ Elapsed(g)' <= now' - First(g)
      BY <3>1, Division, TransfersAssumption DEF Elapsed
    <3> QED
      BY <1>1, <3>1, <3>2
  <2>4. CASE now' < First(g)
    BY <1>1, <2>1, <2>2, <2>4
  <2>5. CASE now < First(g) /\ now' >= First(g)
    <3>1. drawnOn[g][Elapsed(g)'] = 0
      BY <2>3, <2>5 DEF IInv, DrawInv
    <3> QED
      BY <1>1, <2>1, <2>2, <2>5, <3>1
  <2>6. CASE now >= First(g)
    <3>1. /\ Elapsed(g) \in Nat /\ Elapsed(g)' \in Nat /\ now' >= First(g)
          /\ Elapsed(g) <= Elapsed(g)'
      BY <1>1, <2>1, <2>6, ElapsedGrows
    <3>2. CASE Renewed(g)
      <4>1. Elapsed(g)' > Elapsed(g)
        BY <3>1, <3>2
      <4>2. drawnOn[g][Elapsed(g)'] = 0
        BY <2>3, <3>1, <4>1 DEF IInv, DrawInv
      <4> QED
        BY <2>2, <3>1, <3>2, <4>2
    <3>3. CASE ~Renewed(g)
      BY <2>2, <2>6, <3>1, <3>3
    <3> QED
      BY <3>2, <3>3
  <2> QED
    BY <1>1, <2>1, <2>4, <2>5, <2>6
<1>3. ASSUME NEW g \in Grants
      PROVE  Allowances!Renewed(g, now + 1) <=> Renewed(g)
  BY <1>1, <1>3, FirstIsTick DEF Allowances!Renewed, Elapsed
<1>4. Spent' = [g \in Grants |-> IF Allowances!Renewed(g, now + 1)
                                   THEN 0 ELSE Spent[g]]
  BY <1>2, <1>3 DEF Spent
<1> QED
  BY <1>1, <1>4 DEF Allowances!Tick, Spent

\* Every step of Transfers is a step of the ledger or leaves it alone.
LEMMA AllowanceStep ==
  IInv /\ [Next]_vars => [Allowances!Next]_(Allowances!vars)
<1> SUFFICES ASSUME IInv, [Next]_vars
             PROVE  Allowances!Next \/ UNCHANGED Allowances!vars
  OBVIOUS
<1>1. ASSUME NEW r \in Requests, Commit(r)
      PROVE  Allowances!Next \/ UNCHANGED Allowances!vars
  BY <1>1, CommitGrants DEF Allowances!Next
<1>2. ASSUME NEW t \in Sends, Mine(t)
      PROVE  Allowances!Next \/ UNCHANGED Allowances!vars
  BY <1>2, MineDraws DEF Allowances!Next
<1>3. ASSUME Tick
      PROVE  Allowances!Next \/ UNCHANGED Allowances!vars
  BY <1>3, TickRenews DEF Allowances!Next
<1>4. ASSUME NEW r \in Requests,
             \/ Begin(r) \/ BeginTimesOut(r) \/ BeginThrows(r) \/ Lookup(r) \/ LookupThrows(r)
             \/ GetSmartAccount(r) \/ DeployWallet(r) \/ DeployReceipt(r)
             \/ DeployIncluded(r) \/ Estimate(r) \/ Submit(r) \/ Receipt(r)
      PROVE  UNCHANGED <<granted, drawnOn, now>>
  BY <1>4 DEF Begin, BeginTimesOut, BeginThrows, Lookup, LookupThrows, GetSmartAccount,
              DeployWallet, DeployReceipt, DeployIncluded, Estimate, Submit,
              Receipt, rowVars, chainVars
<1>5. ASSUME NEW r \in Requests,
             \/ SaveTxn(r) \/ Sign(r) \/ SaveDelegation(r) \/ CommitThrows(r)
             \/ Throws(r) \/ MineReverted(r) \/ NotifyConnect(r) \/ Notify(r)
             \/ NotifyThrows(r)
      PROVE  UNCHANGED <<granted, drawnOn, now>>
  BY <1>5 DEF SaveTxn, Sign, SaveDelegation, CommitThrows, Throws,
              MineReverted, NotifyConnect, Notify, NotifyThrows,
              rowVars, chainVars
<1>6. ASSUME \/ \E w \in Wallets : AutoflowDeposit(w)
             \/ Restart \/ UNCHANGED vars
      PROVE  UNCHANGED <<granted, drawnOn, now>>
  BY <1>6 DEF AutoflowDeposit, Restart, vars, rowVars, chainVars
<1> QED
  BY <1>1, <1>2, <1>3, <1>4, <1>5, <1>6, AllowanceStutters, RequestSets
  DEF Next, Step, Pay, Delegate, Quiet

\* Whatever requests, operations and signed periods do, an allowance is used
\* day by day as it was granted (createNewDelegation).
THEOREM RefinesAllowances == Spec => ImplementsAllowances
<1>1. Init => Allowances!Init
  <2> SUFFICES ASSUME Init PROVE Allowances!Init
    OBVIOUS
  <2>1. now = 0 /\ granted = {}
    BY DEF Init
  <2>2. ASSUME NEW g \in Grants
        PROVE  (IF now >= First(g) THEN drawnOn[g][Elapsed(g)] ELSE 0) = 0
    <3>1. TypeOK
      BY InitIInv DEF IInv
    <3>2. now >= First(g) => Elapsed(g) \in 0..MaxTime
      BY <3>1, ElapsedIsPeriod
    <3> QED
      BY <3>2 DEF Init
  <2> QED
    BY <2>1, <2>2 DEF Allowances!Init
<1> QED
  BY <1>1, AllowanceStep, Invariance, PTL
  DEF Spec, ImplementsAllowances, Allowances!Spec
=============================================================================
