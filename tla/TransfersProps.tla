-------------------------- MODULE TransfersProps --------------------------
(* What transfers and allowances promise together.                          *)
EXTENDS Transfers

\* Whatever fails or is answered late, a transfer leaves a trace (its row in
\* transactions, the event and the note of a withdrawal, the answer 200) only
\* of an operation the chain has included (InitiateTransferUseCase.execute).
TraceHasReceipt ==
  \A t \in Sends :
    (\/ t \in records \cup events \cup notes
     \/ pc[t] \in {"record", "commit", "done", "unsaved"})
    => op[t] \in Included

\* A transfer has its row exactly when it ended well: an operation that is on
\* chain without one was answered an error, or its COMMIT failed.
DoneIsRecorded == \A t \in Sends : pc[t] = "done" <=> t \in records

\* A transfer of a wallet of which it alone spends, from its arrival to its
\* inclusion, is not reverted for want of money or of allowance, whatever the
\* requests of others and the clock do meanwhile: neither another transfer nor
\* an autoflow deposit overlaps (confirmBalance, prepareUserOperation).
SerialNotShort ==
  \A t \in Sends : op[t] = "short" => PayerOf(t) \in raced

\* No 24 hours, counted from the startDate in the row, see more drawn on an
\* allowance than its limit, and nothing is drawn before that date, however
\* requests and the clock interleave (createNewDelegation).
AllowanceKept ==
  /\ \A g \in Grants : \A d \in 0..MaxTime : drawnOn[g][d] <= LimitOf[g]
  /\ \A t \in Sends :
       GrantOf[t] # NoGrant /\ op[t] = "mined" => now >= First(GrantOf[t])

\* What GET /delegations/send offers a wallet, its owner's signature allows:
\* any amount up to the limit shown that is within what the owner's limit
\* leaves of the running 24 hours; only what the row's rounding adds to the
\* limit is not (isActive against the signed scope).
OfferedMayDraw ==
  \A w \in Wallets : \A g \in ListForSend(w) : \A n \in 0..Shown(g) :
    drawnOn[g][Elapsed(g)] + n <= LimitOf[g] => MayDraw(g, w, n)

\* Whoever deploys a wallet, and whichever of two deployments the chain
\* takes, no operation leaves a wallet without code, and nothing is granted
\* from one or to one.
AccountsDeployed ==
  /\ \A t \in Sends : op[t] # "none" => WalletOf[t] \in deployed
  /\ \A g \in granted : {WalletOf[g], DelegateeOf[g]} \subseteq deployed

\* Drawn on by requests, operations and signed periods as it may be, an
\* allowance is used as its owner granted it: from its COMMIT and its start on,
\* each draw within what is left of the running 24 hours, and every 24 hours
\* anew (createNewDelegation, findById and the enforced scope).
Allowances == INSTANCE AllowanceLedger WITH
  StartOf <- [g \in Grants |-> First(g)],
  Period <- Day,
  spent <- [g \in Grants |-> IF now >= First(g) THEN drawnOn[g][Elapsed(g)] ELSE 0]

ImplementsAllowances == Allowances!Spec

\* However requests and handlers end, a request is refused for want of a
\* connection only while as many as the pool has are in a transaction, with a
\* handler, or lost in a START TRANSACTION that failed: nothing else keeps one
\* (TypeORMSessionManager.executeInTransaction, poolSize).
RefusedOnlyWhenBusy ==
  [][\A r \in Requests :
       pc[r] = "idle" /\ pc'[r] = "refused"
         => Cardinality({q \in Requests : InTx(q)} \cup lost)
              + Cardinality(handling) >= PoolSize]_vars
-----------------------------------------------------------------------------
(* An inductive invariant.                                                  *)

\* Where each kind of request can be, and who holds a connection.
PcInv ==
  /\ conns = {r \in Requests : InTx(r)} \cup lost
  /\ \A r \in lost : pc[r] = "failed"
  /\ handling \subseteq events
  /\ \A r \in Payments :
       pc[r] \notin {"account2", "deploying2", "sign", "save"}
  /\ \A r \in Requests \ Sends : pc[r] \notin {"submit", "receipt", "record"}
  /\ \A r \in Grants : pc[r] # "estimate"

\* What a transfer has done on chain and left in the database so far.
SendInv ==
  /\ DoneIsRecorded
  /\ \A t \in events \cup notes : pc[t] \in {"commit", "done", "unsaved"}
  /\ \A t \in Sends :
       /\ pc[t] \in {"record", "commit", "done", "unsaved"} => op[t] \in Included
       /\ op[t] # "none" =>
            pc[t] \in {"receipt", "record", "commit"} \cup Ended

\* The delegation a payment uses is committed as its owner signed it.
Signed(g) ==
  [start |-> First(g), limit |-> LimitOf[g], period |-> Day]

GrantInv ==
  /\ \A g \in Grants :
       /\ g \in granted <=> pc[g] = "done"
       /\ pc[g] \in {"save", "commit", "done"} => scope[g] = Signed(g)
  /\ \A r \in Payments :
       GrantOf[r] # NoGrant /\ pc[r] \in Open \ {"lookup"}
         => GrantOf[r] \in granted
  /\ \A t \in Sends :
       GrantOf[t] # NoGrant /\ op[t] # "none" => GrantOf[t] \in granted

\* A wallet whose deployment is no longer awaited has code.
DeployInv ==
  /\ \A r \in Requests :
       /\ pc[r] \in {"idle", "lookup"} \cup Account => dep[r] = NoWallet
       /\ pc[r] \in Awaiting /\ dep[r] # NoWallet => dep[r] = Target(r)
       /\ pc[r] \in Awaiting /\ dep[r] = NoWallet => Target(r) \in deployed
  /\ \A t \in Sends :
       /\ pc[t] \in {"estimate", "submit"} => WalletOf[t] \in deployed
       /\ op[t] # "none" => WalletOf[t] \in deployed
  /\ \A g \in Grants :
       /\ pc[g] \in {"account2", "deploying2", "sign", "save", "commit", "done"}
            => WalletOf[g] \in deployed
       /\ pc[g] \in {"sign", "save", "commit", "done"}
            => DelegateeOf[g] \in deployed

\* The periods of a delegation are its row's, none is overdrawn, and none is
\* drawn on before it comes.
DrawInv ==
  /\ drawnOn = drawn
  /\ \A g \in Grants : \A k \in 0..MaxTime :
       /\ drawn[g][k] <= LimitOf[g]
       /\ now < First(g) \/ k > Elapsed(g) => drawn[g][k] = 0
  /\ \A t \in Sends :
       GrantOf[t] # NoGrant /\ op[t] = "mined" => now >= First(GrantOf[t])

\* Only a wallet of which two spendings overlap has two transfers unsettled,
\* or one pending that it cannot pay.
SerialInv ==
  /\ \A t, u \in Sends :
       PayerOf(t) = PayerOf(u) /\ Unsettled(t) /\ Unsettled(u)
         => t = u \/ PayerOf(t) \in raced
  /\ \A t \in Sends :
       op[t] = "pending" /\ PayerOf(t) \notin raced => Covered(t)
  /\ SerialNotShort

IInv ==
  /\ TypeOK
  /\ PcInv
  /\ SendInv
  /\ GrantInv
  /\ DeployInv
  /\ DrawInv
  /\ SerialInv
=============================================================================
