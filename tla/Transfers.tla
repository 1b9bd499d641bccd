----------------------------- MODULE Transfers -----------------------------
(***************************************************************************)
(* Native transfers, the allowances they may draw on, and the quotes for   *)
(* them: POST /transfers, POST /delegations and GET /transfers/gas.  Each  *)
(* request holds one connection of the pool, with a transaction open on    *)
(* it, while it waits for the chain.  The chain holds the balances, the    *)
(* code of the wallets, the operations and what was drawn of an allowance. *)
(*                                                                         *)
(* A delegation is named by the request that creates it.  Every request is *)
(* used once.  A crash of the process is the failure of every request in   *)
(* flight, the loss of every event not yet handled, and a new pool.        *)
(***************************************************************************)
EXTENDS Integers, FiniteSets

CONSTANTS
  Sends,        \* transfer requests, and their operations on chain
  Quotes,       \* gas estimates
  Grants,       \* create-delegation requests, and their delegations
  Wallets,
  WalletOf,     \* WalletOf[r]: the wallet of the user that sent r
  AmountOf,     \* AmountOf[r]: what transfer or quote r is to move
  PayeeOf,      \* PayeeOf[t]: the wallet transfer t pays
  GrantOf,      \* GrantOf[r]: the delegation named in r, or NoGrant
  NoGrant,
  NoWallet,
  DelegateeOf,  \* DelegateeOf[g]: the wallet that may draw on g
  LimitOf,      \* LimitOf[g]: the amountLimit, per day
  StartOf,      \* StartOf[g]: the startDate asked for, a tick of the clock
  Day, Minute,  \* their ticks; tick 0 is a midnight of the server's time zone
  SavingsOf,    \* SavingsOf[w]: the amounts that autoflows of w deposit
  Funds,        \* Funds[w]: what wallet w has at first
  Deployed0,    \* wallets with code at first
  PoolSize,     \* connections of the pool (10 in the code)
  MaxTime       \* bound: the clock stops there

Payments == Sends \cup Quotes
Requests == Payments \cup Grants

Unit == 2       \* the least amount the column amountLimit can hold

ASSUME TransfersAssumption ==
  /\ Sends \cap Quotes = {}
  /\ Payments \cap Grants = {}
  /\ IsFiniteSet(Requests)
  /\ NoGrant \notin Grants
  /\ NoWallet \notin Wallets
  /\ WalletOf \in [Requests -> Wallets]
  /\ AmountOf \in [Payments -> Nat]
  /\ PayeeOf \in [Sends -> Wallets]
  /\ GrantOf \in [Payments -> Grants \cup {NoGrant}]
  /\ DelegateeOf \in [Grants -> Wallets]
  /\ LimitOf \in [Grants -> Nat]
  /\ StartOf \in [Grants -> Nat]
  /\ Day \in Nat \ {0} /\ Minute \in Nat \ {0}
  /\ SavingsOf \in [Wallets -> SUBSET (Nat \ {0})]
  /\ Funds \in [Wallets -> Nat]
  /\ Deployed0 \subseteq Wallets
  /\ PoolSize \in Nat \ {0}
  /\ MaxTime \in Nat

VARIABLES
  \* the process
  pc,
  conns,     \* requests whose connection is out of the pool
  lost,      \* those that will not give theirs back
  events,    \* AllowanceWithdrawn events being handled
  handling,  \* events whose handler has a connection
  \* committed rows
  records,   \* transactions
  granted,   \* delegations
  notes,     \* notifications of a withdrawal
  \* the chain
  now, balance, deployed,
  dep,       \* the wallet that a request's pending operation deploys
  op,        \* the operation of a transfer
  scope,     \* what the owner of a delegation signed
  drawn,     \* drawn[g][k]: drawn on g in its period k
  \* history
  drawnOn,   \* drawnOn[g][d]: drawn on g in the d-th 24 hours of its row
  raced      \* wallets of which two spendings overlapped

poolVars  == <<conns, lost>>
procVars  == <<pc, poolVars>>
rowVars   == <<records, granted>>
noteVars  == <<events, handling, notes>>
chainVars == <<balance, deployed, dep, op, drawn, drawnOn>>
vars == <<pc, conns, lost, events, handling, records, granted, notes, now,
          balance, deployed, dep, op, scope, drawn, drawnOn, raced>>

-----------------------------------------------------------------------------
Ended    == {"done", "failed", "refused", "unsaved"}
Account  == {"account", "account2"}
Awaiting == {"deploying", "deploying2"}
Open     == {"lookup", "estimate", "submit", "receipt", "record", "sign",
             "save", "commit"} \cup Account \cup Awaiting
Pc       == {"idle"} \cup Open \cup Ended
Included == {"mined", "short", "reverted"}

Scope   == [start : Nat, limit : Nat, period : Nat \ {0}]
NoScope == [start |-> 0, limit |-> 0, period |-> Day]

InTx(r) == pc[r] \in Open

TypeOK ==
  /\ pc \in [Requests -> Pc]
  /\ conns \in SUBSET Requests
  /\ lost \in SUBSET Requests
  /\ events \in SUBSET Sends
  /\ handling \in SUBSET Sends
  /\ records \in SUBSET Sends
  /\ granted \in SUBSET Grants
  /\ notes \in SUBSET Sends
  /\ now \in 0..MaxTime
  /\ balance \in [Wallets -> Nat]
  /\ deployed \in SUBSET Wallets
  /\ dep \in [Requests -> Wallets \cup {NoWallet}]
  /\ op \in [Sends -> {"none", "pending"} \cup Included]
  /\ scope \in [Grants -> Scope]
  /\ drawn \in [Grants -> [0..MaxTime -> Nat]]
  /\ drawnOn \in [Grants -> [0..MaxTime -> Nat]]
  /\ raced \in SUBSET Wallets

Init ==
  /\ pc = [r \in Requests |-> "idle"]
  /\ conns = {}
  /\ lost = {}
  /\ events = {}
  /\ handling = {}
  /\ records = {}
  /\ granted = {}
  /\ notes = {}
  /\ now = 0
  /\ balance = Funds
  /\ deployed = Deployed0
  /\ dep = [r \in Requests |-> NoWallet]
  /\ op = [t \in Sends |-> "none"]
  /\ scope = [g \in Grants |-> NoScope]
  /\ drawn = [g \in Grants |-> [k \in 0..MaxTime |-> 0]]
  /\ drawnOn = [g \in Grants |-> [d \in 0..MaxTime |-> 0]]
  /\ raced = {}

-----------------------------------------------------------------------------
(* TypeORMSessionManager and the connection pool.                           *)

Goto(r, label) == pc' = [pc EXCEPT ![r] = label]

\* The connections that are out: requests' and handlers'.
Busy == Cardinality(conns) + Cardinality(handling)

\* Mutant of Close: an error leaves the connection checked out.
CloseOnSuccess(r, label) ==
  /\ Goto(r, label)
  /\ conns' = IF label = "failed" THEN conns ELSE conns \ {r}
  /\ UNCHANGED lost

\* The transaction of r ends, and the connection goes back.
Close(r, label) ==
  /\ Goto(r, label)
  /\ conns' = conns \ {r}
  /\ UNCHANGED lost

\* The wallet a payment is drawn on: the sender's, or the delegator's.
PayerOf(r) == IF GrantOf[r] = NoGrant THEN WalletOf[r] ELSE WalletOf[GrantOf[r]]

\* Transfer t may still move money.
Unsettled(t) == InTx(t) \/ op[t] = "pending"

\* Money of wallet w is to be spent: does one of the transfers ts overlap?
Overlap(w, ts) ==
  raced' = IF \E t \in ts : PayerOf(t) = w /\ Unsettled(t)
             THEN raced \cup {w} ELSE raced

\* A request arrives, gets a connection and opens its transaction on it.
Begin(r) ==
  /\ pc[r] = "idle"
  /\ Busy < PoolSize
  /\ conns' = conns \cup {r}
  /\ Goto(r, "lookup")
  /\ IF r \in Sends THEN Overlap(PayerOf(r), Sends \ {r}) ELSE UNCHANGED raced
  /\ UNCHANGED <<lost, rowVars, noteVars, now, scope, chainVars>>

\* No connection is free for connectionTimeoutMillis: the request is refused.
BeginTimesOut(r) ==
  /\ pc[r] = "idle"
  /\ Busy >= PoolSize
  /\ Goto(r, "refused")
  /\ UNCHANGED <<poolVars, rowVars, noteVars, now, scope, chainVars, raced>>

\* connect or START TRANSACTION fails, outside the try.  A connection that is
\* broken goes back by its error event; one that is not stays checked out.
BeginThrows(r) ==
  /\ pc[r] = "idle"
  /\ Busy < PoolSize
  /\ Goto(r, "failed")
  /\ \E leak \in SUBSET {r} : conns' = conns \cup leak /\ lost' = lost \cup leak
  /\ UNCHANGED <<rowVars, noteVars, now, scope, chainVars, raced>>

\* The process starts again, with a new pool.
Restart ==
  /\ conns = lost /\ events = {}
  /\ conns' = {} /\ lost' = {}
  /\ UNCHANGED <<pc, rowVars, noteVars, now, scope, chainVars, raced>>

-----------------------------------------------------------------------------
(* The use cases, up to the chain.                                          *)

\* Mutant of Lookup: the delegation is found before it is committed.
LookupUncommitted(r) ==
  /\ pc[r] = "lookup"
  /\ r \in Payments /\ GrantOf[r] # NoGrant
       => pc[GrantOf[r]] \in {"save", "commit", "done"}
  /\ Goto(r, "account")
  /\ UNCHANGED <<poolVars, rowVars, noteVars, now, scope, chainVars, raced>>

\* The users are found; a transfer has the right PIN, or none and a low risk;
\* the delegation it names is found, with the data its owner signed.
Lookup(r) ==
  /\ pc[r] = "lookup"
  /\ r \in Payments /\ GrantOf[r] # NoGrant => GrantOf[r] \in granted
  /\ Goto(r, "account")
  /\ UNCHANGED <<poolVars, rowVars, noteVars, now, scope, chainVars, raced>>

\* One of them fails.  A risk check that is not answered counts as a risk.
LookupThrows(r) ==
  /\ pc[r] = "lookup"
  /\ Close(r, "failed")
  /\ UNCHANGED <<rowVars, noteVars, now, scope, chainVars, raced>>

\* The wallet getSmartAccount is called for: a delegation needs its owner's
\* and then its delegatee's.
Target(r) ==
  IF pc[r] \in {"account2", "deploying2"} THEN DelegateeOf[r] ELSE WalletOf[r]

AfterAccount(r) ==
  IF pc[r] \in {"account2", "deploying2"} THEN "sign"
  ELSE IF r \in Grants THEN "account2" ELSE "estimate"

\* getSmartAccount finds the code of the wallet.
GetSmartAccount(r) ==
  /\ pc[r] \in Account
  /\ Target(r) \in deployed
  /\ Goto(r, AfterAccount(r))
  /\ UNCHANGED <<poolVars, rowVars, noteVars, now, scope, chainVars, raced>>

\* It finds none, or cannot tell: deployWallet sends an operation from the
\* wallet, which deploys it if it still has no code.
DeployWallet(r) ==
  /\ pc[r] \in Account
  /\ Goto(r, IF pc[r] = "account" THEN "deploying" ELSE "deploying2")
  /\ dep' = IF Target(r) \in deployed THEN dep
            ELSE [dep EXCEPT ![r] = Target(r)]
  /\ UNCHANGED <<poolVars, rowVars, noteVars, now, balance, deployed, op, scope,
                 drawn, drawnOn, raced>>

\* The chain includes it.  Once the wallet has code, an operation that would
\* deploy it is never included.
DeployIncluded(r) ==
  /\ dep[r] # NoWallet
  /\ dep[r] \notin deployed
  /\ deployed' = deployed \cup {dep[r]}
  /\ dep' = [dep EXCEPT ![r] = NoWallet]
  /\ UNCHANGED <<procVars, rowVars, noteVars, now, balance, op, scope, drawn,
                 drawnOn, raced>>

\* Mutant of DeployReceipt: the receipt is not awaited.
DeployReceiptEarly(r) ==
  /\ pc[r] \in Awaiting
  /\ Goto(r, AfterAccount(r))
  /\ UNCHANGED <<poolVars, rowVars, noteVars, now, scope, chainVars, raced>>

DeployReceipt(r) ==
  /\ pc[r] \in Awaiting
  /\ dep[r] = NoWallet
  /\ Goto(r, AfterAccount(r))
  /\ UNCHANGED <<poolVars, rowVars, noteVars, now, scope, chainVars, raced>>

-----------------------------------------------------------------------------
(* Payments.                                                                *)

\* The startDate in the row: setHours(0) and setMinutes(0) move it to the
\* midnight before, but for its seconds.
First(g) == StartOf[g] - (StartOf[g] % Day) + (StartOf[g] % Minute)

\* How many times 24 hours have gone by since.
Elapsed(g) == (now - First(g)) \div Day

\* The period of delegation g, as signed, in which tick i falls.
PeriodAt(g, i) == (i - scope[g].start) \div scope[g].period

\* What the enforcer of g's scope lets delegatee w draw now.
MayDraw(g, w, amount) ==
  /\ w = DelegateeOf[g]
  /\ now >= scope[g].start
  /\ drawn[g][PeriodAt(g, now)] + amount <= scope[g].limit

\* The call of payment r would succeed now.
Covered(r) ==
  /\ AmountOf[r] <= balance[PayerOf(r)]
  /\ GrantOf[r] # NoGrant => MayDraw(GrantOf[r], WalletOf[r], AmountOf[r])

\* Mutant of Affordable: gas limits are given, and nothing is simulated.
AffordableUnsimulated(r) ==
  GrantOf[r] = NoGrant => AmountOf[r] <= balance[WalletOf[r]]

\* confirmBalance, for the sender's own money, and the simulation of the call
\* with which the operation's gas is estimated.
Affordable(r) ==
  /\ GrantOf[r] = NoGrant => AmountOf[r] <= balance[WalletOf[r]]
  /\ Covered(r)

\* estimateSponsoredGas returns.
Estimate(r) ==
  /\ pc[r] = "estimate"
  /\ Affordable(r)
  /\ Goto(r, IF r \in Quotes THEN "commit" ELSE "submit")
  /\ UNCHANGED <<poolVars, rowVars, noteVars, now, scope, chainVars, raced>>

\* sponsorTransaction confirms the balance and hands the operation to the
\* bundler.  The account it gets again in between has its code by now; if the
\* node cannot tell, the operation that is sent and awaited deploys nothing.
Submit(t) ==
  /\ pc[t] = "submit"
  /\ Affordable(t)
  /\ op' = [op EXCEPT ![t] = "pending"]
  /\ Goto(t, "receipt")
  /\ UNCHANGED <<poolVars, rowVars, noteVars, now, balance, deployed, dep, scope,
                 drawn, drawnOn, raced>>

\* The chain includes the operation and the call in it succeeds.
Mine(t) ==
  LET g == GrantOf[t]  k == PeriodAt(g, now)  d == Elapsed(g) IN
  /\ op[t] = "pending"
  /\ Covered(t)
  /\ op' = [op EXCEPT ![t] = "mined"]
  /\ balance' = [w \in Wallets |->
       balance[w] - (IF w = PayerOf(t) THEN AmountOf[t] ELSE 0)
                  + (IF w = PayeeOf[t] THEN AmountOf[t] ELSE 0)]
  /\ IF g = NoGrant THEN UNCHANGED <<drawn, drawnOn>>
     ELSE /\ drawn' = [drawn EXCEPT ![g][k] = @ + AmountOf[t]]
          /\ drawnOn' = [drawnOn EXCEPT ![g][d] = @ + AmountOf[t]]
  /\ UNCHANGED <<procVars, rowVars, noteVars, now, deployed, dep, scope, raced>>

\* The call reverts: it is no longer covered, or the payee refuses it.
MineReverted(t) ==
  /\ op[t] = "pending"
  /\ op' = [op EXCEPT ![t] = IF Covered(t) THEN "reverted" ELSE "short"]
  /\ UNCHANGED <<procVars, rowVars, noteVars, now, balance, deployed, dep,
                 scope, drawn, drawnOn, raced>>

\* Mutant of Receipt: the hash of the operation is taken for its receipt.
ReceiptEarly(t) ==
  /\ pc[t] = "receipt"
  /\ Goto(t, "record")
  /\ UNCHANGED <<poolVars, rowVars, noteVars, now, scope, chainVars, raced>>

\* A receipt arrives, of a success or of a revert alike.
Receipt(t) ==
  /\ pc[t] = "receipt"
  /\ op[t] \in Included
  /\ Goto(t, "record")
  /\ UNCHANGED <<poolVars, rowVars, noteVars, now, scope, chainVars, raced>>

\* saveTxn, the event of a withdrawal, and the answer to the caller.
SaveTxn(t) ==
  /\ pc[t] = "record"
  /\ events' = IF GrantOf[t] = NoGrant THEN events ELSE events \cup {t}
  /\ Goto(t, "commit")
  /\ UNCHANGED <<poolVars, rowVars, handling, notes, now, scope, chainVars, raced>>

-----------------------------------------------------------------------------
(* Delegations.                                                             *)

\* Mutants of Sign: the period is half a day; the start is not moved back.
SignHalfDay(g) ==
  /\ pc[g] = "sign"
  /\ scope' = [scope EXCEPT ![g] =
       [start |-> First(g), limit |-> LimitOf[g], period |-> Day \div 2]]
  /\ Goto(g, "save")
  /\ UNCHANGED <<poolVars, rowVars, noteVars, now, chainVars, raced>>

SignFromNoon(g) ==
  /\ pc[g] = "sign"
  /\ scope' = [scope EXCEPT ![g] =
       [start |-> StartOf[g], limit |-> LimitOf[g], period |-> Day]]
  /\ Goto(g, "save")
  /\ UNCHANGED <<poolVars, rowVars, noteVars, now, chainVars, raced>>

\* createNewDelegation signs the owner's limit for every 24 hours from the
\* startDate that the row gets on.
Sign(g) ==
  /\ pc[g] = "sign"
  /\ scope' = [scope EXCEPT ![g] =
       [start |-> First(g), limit |-> LimitOf[g], period |-> Day]]
  /\ Goto(g, "save")
  /\ UNCHANGED <<poolVars, rowVars, noteVars, now, chainVars, raced>>

\* The row is written, and the caller is answered.
SaveDelegation(g) ==
  /\ pc[g] = "save"
  /\ Goto(g, "commit")
  /\ UNCHANGED <<poolVars, rowVars, noteVars, now, scope, chainVars, raced>>

\* isActive, by the startDate in the row.
Active(g) == First(g) <= now

\* listDelegationsForSendOperation: the allowances offered to wallet w.
ListForSend(w) == {g \in granted : DelegateeOf[g] = w /\ Active(g)}

\* The limit shown with an allowance, and checked by getDelegationForSend: the
\* row's, which is rounded to what its column can hold.
Shown(g) == Unit * ((LimitOf[g] + (Unit \div 2)) \div Unit)

-----------------------------------------------------------------------------
(* The ends of a request.                                                   *)

Commit(r) ==
  /\ pc[r] = "commit"
  /\ Close(r, "done")
  /\ records' = IF r \in Sends THEN records \cup {r} ELSE records
  /\ granted' = IF r \in Grants THEN granted \cup {r} ELSE granted
  /\ UNCHANGED <<noteVars, now, scope, chainVars, raced>>

\* The COMMIT fails after the answer.
CommitThrows(r) ==
  /\ pc[r] = "commit"
  /\ Close(r, "unsaved")
  /\ UNCHANGED <<rowVars, noteVars, now, scope, chainVars, raced>>

\* A call fails or times out, the wait for a receipt included, or what it
\* checks does not hold.  A quote is answered with zeros.
Throws(r) ==
  /\ pc[r] \in Open \ {"lookup", "commit"}
  /\ IF r \in Quotes THEN Goto(r, "commit") /\ UNCHANGED poolVars
     ELSE Close(r, "failed")
  /\ UNCHANGED <<rowVars, noteVars, now, scope, chainVars, raced>>

\* onAllowanceWithdrawn gets a connection of its own,
NotifyConnect(t) ==
  /\ t \in events \ handling
  /\ Busy < PoolSize
  /\ handling' = handling \cup {t}
  /\ UNCHANGED <<procVars, events, notes, rowVars, now, scope, chainVars, raced>>

\* stores the notification on it, and gives it back.
Notify(t) ==
  /\ t \in handling
  /\ events' = events \ {t}
  /\ handling' = handling \ {t}
  /\ notes' = notes \cup {t}
  /\ UNCHANGED <<procVars, rowVars, now, scope, chainVars, raced>>

\* It gets none in time, or fails: the bus logs the error.
NotifyThrows(t) ==
  /\ t \in events
  /\ events' = events \ {t}
  /\ handling' = handling \ {t}
  /\ UNCHANGED <<procVars, rowVars, notes, now, scope, chainVars, raced>>

\* An autoflow execution deposits money of wallet w into the contract.
AutoflowDeposit(w) ==
  /\ \E n \in SavingsOf[w] :
       n <= balance[w] /\ balance' = [balance EXCEPT ![w] = @ - n]
  /\ Overlap(w, Sends)
  /\ UNCHANGED <<procVars, rowVars, noteVars, now, deployed, dep, op, scope,
                 drawn, drawnOn>>

Tick ==
  /\ now < MaxTime
  /\ now' = now + 1
  /\ UNCHANGED <<procVars, rowVars, noteVars, scope, chainVars, raced>>

-----------------------------------------------------------------------------
Pay(t)      == Submit(t) \/ Receipt(t) \/ SaveTxn(t)
Delegate(g) == Sign(g) \/ SaveDelegation(g)

Step(r) ==
  \/ Lookup(r) \/ LookupThrows(r)
  \/ GetSmartAccount(r) \/ DeployWallet(r) \/ DeployReceipt(r)
  \/ r \in Payments /\ Estimate(r)
  \/ r \in Sends /\ Pay(r)
  \/ r \in Grants /\ Delegate(r)
  \/ Commit(r) \/ CommitThrows(r) \/ Throws(r)

\* Every request is over, and nothing is left to happen.
Quiet ==
  /\ \A r \in Requests : pc[r] \in Ended
  /\ UNCHANGED vars

Next ==
  \/ \E r \in Requests :
       \/ Begin(r) \/ BeginTimesOut(r) \/ BeginThrows(r)
       \/ Step(r) \/ DeployIncluded(r)
  \/ \E t \in Sends :
       \/ Mine(t) \/ MineReverted(t)
       \/ NotifyConnect(t) \/ Notify(t) \/ NotifyThrows(t)
  \/ \E w \in Wallets : AutoflowDeposit(w)
  \/ Restart \/ Tick
  \/ Quiet

Spec == Init /\ [][Next]_vars
=============================================================================
