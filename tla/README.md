# Vero-Api in TLA+

Vero-Api is the HTTP backend of a savings wallet: users sign up with a code
sent to their email, get a smart account on the Monad chain, set a PIN, send
money, delegate allowances, and keep *autoflow* savings that an external cron
worker executes. It is a single Node process on PostgreSQL (TypeORM), and
nearly every request is one database transaction held open across several
awaits: password hashing, the chain, the worker. What goes wrong in it goes
wrong between two awaits, so each module below models requests await by await.

Paths in this file are relative to `src/src/`.

## 1. Inventory

| Component | State | Operations | Status |
|---|---|---|---|
| Autoflow savings: `CreateSavingUseCase`, `ExecuteSavingsUseCase`, `DeleteSavingUseCase`, `SavingsController`, their repositories, `SavingsBlockchainService`, `OlamideWorkerServer` | tables `time_based_savings` (with the progress JSON) and `saving_executions`, the worker's jobs, goals and deposits on chain | create, trigger (the worker's webhook), delete | `Autoflow` |
| Process: `main.ts`, `config/factory.ts` | up, stopping, down | crash, SIGTERM, restart | in `Autoflow` |
| Event bus and handlers: `domain-event-bus/in-mem.ts`, `InAppNotificationHandler`, `EmailNotificationHandler` | subscriptions, handlers running, notifications | publish, subscribe, start, stop | `SavingExecutionEvent` in `Autoflow`, `AllowanceWithdrawnEvent` in `Transfers`, `SendVerifyOtpEvent` and the subscriptions in `SignIn` |
| Sign-up and login: `SetupEmailSignup`, `VerifyEmailSignup`, `Login`, `VerifyLogin`, `OtpEntity`, `OtpRepository` | tables `otps` and `users` | ask for a code, verify it, expire | `SignIn` |
| Profile and PIN: `SetupPin`, `UpdateUserProfile`, `GetUserById`, `UserRepository` | a row of `users` | set the PIN, update the profile, read it (and store a QR code) | `UserProfile` |
| Transfers: `InitiateTransferUseCase`, `GetTransferGasUseCase`, `transfer-service.ts`, risk checker, `TransferController` | table `transactions`; balances, deployed wallets and operations on chain | gas quote, sponsored transfer, redemption of an allowance, record, event | `Transfers` |
| Delegations: `CreateDelegationUseCase`, `ListDelegationUseCase`, `delegation-service.ts`, `delegate.ts` | table `delegations`, what was drawn on chain | grant of an allowance, lists; members and threshold of a group | allowances in `Transfers`, the group entity in `GroupWallet` |
| Saving and execution entities: `time-based-saving.entity.ts`, `savings-execution.entity.ts` | fields of the entities | constructors, records, marks, retry, reschedule, next date, cron expression | `SavingSchedule`, `SavingExecution` |
| Transfer monitor: `monad-transfer-detector.ts` | rate limiter, watches, last balances, processed transactions | start, stop, add a wallet, poll, the handlers of a block | `RateLimiter`, `BalanceListener`, `TransactionMonitor`; the factory builds the detector and does not start it |
| Connection pool: `typeorm/data-source.ts` | ten connections | connect, time out, release | in `Transfers` |
| `progress-tracking-service.ts` | none wired in | records a run | what it calls is in `SavingSchedule` and `SavingExecution` |
| Portfolio, prices, balances, QR codes, lists | none | reads | not modelled: no state to be wrong |
| HTTP, validation, logging, configuration, migrations | none | routing, schemas | not modelled |

How they interact. A controller opens a transaction with
`TypeORMSessionManager.executeInTransaction`, builds the use case on its entity
manager, and answers *inside* the transaction; the COMMIT comes after the
answer and may still fail. Use cases talk to the worker over HTTP, to the chain
through a bundler, and publish events on the in-memory bus without awaiting
them. Event handlers write with connections of their own, before the
publisher commits.

What is hard in this code:

* *Long transactions.* A transaction keeps its row locks while it waits for the
  chain, and reads before the wait what it writes after it.
* *Whole-row saves.* `save(entity)` selects the row again and writes every
  column in which the entity differs from it. A stale entity writes back what
  it read, and one whose row is gone is inserted again.
* *Effects outside the transaction.* Deposits, worker jobs, mails and
  notifications do not roll back with it.
* *Failure after failure.* In PostgreSQL a transaction in which a statement
  failed accepts nothing but a rollback; the code's inner `catch` saves again.
* *Handlers that nobody waits for.* `watchBlocks` hands over a block while the
  handler of the one before is still asking the node.
* *Two clocks.* The dates of an entity, the days of its cron job and the periods
  of a signed allowance are computed by different rules.
* *The end of the process.* SIGTERM stops the bus and destroys the data source
  under requests in flight; publishing on a stopped bus is an unhandled
  rejection that ends the process.

What makes each part correct: records, progress, notifications and deposits
agree (savings), and where they cannot (a saving that is deleted while it is
executed comes back) what remains is stated; the worker has a job for the savings that live
and for no deleted one;
usernames are unique and a change that was answered stays (profile); an
account is made once, by a code that was sent, and its token is spent with it
(sign-in); what was recorded or told of a transfer was included by the chain,
an allowance never gives more than its limit in the 24 hours that it counts, and
nothing leaves a wallet that is not deployed (transfers); no more gains are
reported than there were and the node is asked no faster than allowed (monitor); an entity accepts again what its own
methods made of it (entities). `PROJECT.json` lists every hazard at its line with the properties
that would catch it.

## 2. Modules

| Module | Contents |
|---|---|
| `Autoflow` | the savings core: state, one action per await, locks, faults, process, fairness |
| `SavingsLedger` | the abstract specification: savings, executions and deposits with one atomic step per event |
| `AutoflowProps`, `AutoflowInv` | properties; the inductive invariant |
| `AutoflowProofs` | theorems about `Autoflow` |
| `UserProfile`, `UserProfileProps`, `UserProfileProofs` | profile requests, their properties and invariant, theorems |
| `SignIn`, `SignInProps`, `SignInProofs` | sign-up and login, the same way |
| `AccountRegistry` | the abstract specification of sign-up: codes that are sent, accounts that each spend one |
| `Transfers`, `TransfersProps`, `TransfersProofs` | transfers, quotes and allowances on the pool, the chain and a clock |
| `AllowanceLedger` | the abstract specification of allowances: granted once, drawn on within the limit of a period that starts with it |
| `RateLimiter`, `RateLimiterProofs` | the limiter of the transfer monitor, with its property |
| `TransactionMonitor`, `TransactionMonitorProps`, `TransactionMonitorProofs` | the block handlers of the monitor, composed with `RateLimiter` |
| `BalanceListener`, `BalanceListenerProps`, `BalanceListenerProofs` | start, stop and the balance checks of the listener |
| `SavingSchedule`, `SavingExecution`, `GroupWallet` | the entities with rules of their own, each with its properties |
| `Entities`, `EntitiesProofs` | the three side by side, theorems |
| `MC...` | instances for TLC |

### Autoflow

`row`, `saved` and `dbExec` are the committed rows: a saving's life, the set of
executions that its progress JSON counts, the status of the execution of
webhook `t`. `jobs`, `goal` and `chain` are the worker and the chain. Each
webhook `t` has its control point `tpc[t]`, the entity in memory `copy[t]`, its
uncommitted execution row `exec[t]`, what its `save` of the saving is going to do
after its SELECT (`plan[t]`: keep, update, insert), whether it has written the
saving (`wrote[t]`), whether PostgreSQL has aborted its transaction (`aborted[t]`) and
its `outcome[t]`. Creates and deletes have `cpc`, `dpc` and `holds`.

| Action | Code |
|---|---|
| `Fire`, `FindById`, `CreatePending`, `SavePending` | `triggerSavings` up to the first `saveChanges`: the saving as its SELECT has decided, and the PENDING row |
| `Submit`, `Mine`, `ReceiptArrives`, `ReceiptTimesOut` | `sponsorTransaction`: send, inclusion (or revert) by the chain, `waitForUserOperationReceipt` |
| `SaveSuccess`, `SaveFailure`, `EmitEvent`, `Commit` | the second `saveChanges`, the catch with its third one, the event, the COMMIT |
| `...Throws`, `...Rejected` | the same call failing, or refused by a constraint or by the aborted transaction |
| `CountActive` ... `CommitCreate` | `CreateSavingUseCase`: count, INSERT, worker job, goal on chain, COMMIT |
| `FindVictim` ... `CommitDelete` | `DeleteSavingUseCase`: find, DELETE, drop the job, COMMIT |
| `Crash`, `Shutdown`, `ShutdownEnds`, `EmitOnStoppedBus`, `Restart` | the end of the process in its three ways, and its return |

Locks are those PostgreSQL takes: the INSERT of an execution takes
FOR KEY SHARE on its saving through the foreign key, an UPDATE takes
FOR NO KEY UPDATE, a DELETE takes FOR UPDATE.

`saveChanges` saves the saving, an entity with an id, before the execution.
TypeORM selects its row first (`Selected`, at the end of the step before), and
then inserts it if there was none. So an execution whose saving was deleted
after `findById` puts it back, with the progress it had read, and deposits for it;
`revived` remembers these savings. They are live, have no job, and their older
executions went with the row: a status of `erased` is no row in the table, but
remembers a SUCCESS that was. Only if the delete commits between the
SELECT and the INSERT of the execution does the foreign key reject it
(`SavePendingRejected`), and so does the primary key when two executions put the
same saving back. Amounts are left out: a progress
is the *set* of executions it counts, which is what a lost update changes. The
saving's `isActive` never changes in the code, so a saving is live or not.

### UserProfile

`row[u]` is the committed row, `copy[r]` the entity of request `r`, `diff[r]`
the columns its UPDATE writes, `holds` the requests whose UPDATE has been
issued. `FindById` reads, `Change` changes the entity after the await that
precedes it (`hashPassword`, the QR generator), `SelectForSave` is TypeORM's
second read and comparison, `Update` and `UpdateRejected` wait for the row and
for the unique index on `username`, `Commit` merges the columns. The entity
always gets a new `updatedAt`; its value is left out, so a save without any
other change may or may not issue an UPDATE.

### SignIn

`users[e]` is the account of an email, `otp[a]` the row of a token, `mailed`
the codes that were sent, `expired` the tokens whose time is over. `Ask`,
`SaveOtp`, `SendCode`, `CommitAsk` are the two requests for a code. They differ
in `SendCode`: a sign-up sends the mail itself, a login publishes
`SendVerifyOtpEvent`, which reaches a handler only if one subscribed to its
name (`Handled`). `FindOtp` to `CommitVerify` are the two verifications.
`DeleteOtp` and `InsertUser` wait for the row lock and for the unique email.
The delete of a login token names the other type, as the code does, and deletes
nothing. `AccountRegistry` has none of this: the mails, the tokens that are
spent and the accounts, with one step that opens an account and spends its
token.

### Transfers

A request `r` (a transfer, a quote, the grant of an allowance) is at `pc[r]` and
holds a connection from `Begin` to `Close`. `records`, `granted` and `notes` are
committed rows, `events` the withdrawals that a handler is to store, `handling`
those whose handler has its connection, `lost` the connections that nobody gives
back. The chain has
`balance`, `deployed`, the pending deployment `dep[r]`, the operation `op[t]` and
`drawn`, what was drawn on an allowance in each period that its owner signed
(`scope`). `now` counts ticks, of which `Day` are 24 hours and `Minute` the least
that `setMinutes` can set; tick 0 is a midnight where the server is.
`CreateDelegationUseCase` sets the hour and the minute of a start date to 0 and
leaves its seconds (`First`), the row and the signature get that date, and the
enforcer counts 86400 seconds again and again from it (`PeriodAt`, `Elapsed`).
These periods are not the days of a calendar: they begin up to a minute after
midnight and shift by an hour with daylight saving, so a calendar day may see
draws of two of them. The chain's time is that of the block, which `now` is for
both sides.

| Action | Code |
|---|---|
| `Begin`, `BeginTimesOut`, `BeginThrows` | a connection of the pool and its START TRANSACTION; none in time; an error of either, which may leave the connection checked out |
| `Lookup`, `LookupThrows` | user, PIN or risk score, delegation |
| `GetSmartAccount`, `DeployWallet`, `DeployIncluded`, `DeployReceipt` | `getSmartAccount`, which deploys a wallet it finds no code for |
| `Estimate`, `Submit`, `Mine`, `MineReverted`, `Receipt` | `estimateSponsoredGas` and `sponsorTransaction`, against the chain |
| `SaveTxn`, `NotifyConnect`, `Notify`, `Commit` | the record, the event, its handler's connection and note, the COMMIT |
| `Sign`, `SaveDelegation` | `createNewDelegation` and the row |
| `Throws`, `CommitThrows`, `NotifyThrows` | the same calls failing or timing out |
| `AutoflowDeposit` | a deposit of a saving, which spends native money of the wallet |
| `Restart`, `Tick` | a new process with a new pool; the clock |

`Covered` is what the bundler simulates and the chain checks; `MayDraw` is the
enforcer of the signed scope (external, modelled from the scope that
`delegation-service.ts` builds). A failed quote is answered with zeros. A crash
is the failure of every request in flight and the loss of every event, and
`Restart` then gives a new pool. The transactions table says `pending` for ever, since nothing calls `complete`, so
the status of a record is left out. `raced` marks the wallets of which two
spendings overlapped, transfers or an autoflow deposit and a transfer.

`AllowanceLedger` says what the grantor of an allowance relies on: the clock, the
allowances granted, and what each gave in its running period, which starts with
`StartOf` and is renewed every `Period`. `TransfersProps` maps these to the date in
the row, to 24 hours, to the committed delegations and to what operations drew in
those 24 hours.

### The transfer monitor

`RateLimiter` keeps the log of all slots and which of them are remembered;
`TransactionMonitor` extends it, its callers being the handlers of a watch and
a block. A handler is at an await (`slot`, `block`, `receiptSlot`, `receipt`,
`add`) or in the loop. `BalanceListener` leaves the limiter out (a wait for a
slot is part of the step that follows it) and has the balances instead:
`balance[w][b]`, the balance compared with, and what was reported since it was
read. `addWallet` has no guard: a wallet may be added while it is monitored, gets a
new object with a last balance of 0, and a check that was at the old object
(`renewed`) then updates what nobody reads. `forgotten` adds up the balances that
were dropped like this. In the transaction monitor `Lower` are the wallets whose
address is held in lower case, as the node writes `tx.to`: only these are found by
`HasWallet`. Both have starts, stops and polls that hand over the newest block only.

### The entities

A unit of time is half a day in `SavingSchedule`, an instant in `SavingExecution`.
`NextScheduledDate` includes the overflow of `setMonth`; `RunsOn` is the cron
expression read as the set of days it names, and `Noon` its hour, 12:00 UTC; the
server is taken to keep UTC too. `recorded`, `early` and `missed` are history: the
day when the date was last computed, whether that was before 12:00, and whether
a run passed without a record.
`Record` may come on any day, as the worker's webhook may. `GroupWallet` is the
entity of `delegate.ts`; the API refuses groups today, the repository loads them.

## 3. Runs

| Run | Instance | Checks |
|---|---|---|
| `autoflow` | one saving, two executions, one create, one delete; webhooks symmetric | all safety properties, refinement of `SavingsLedger`; 1.1 million states |
| `autoflow_limit` | two savings of one user, a limit of one, an execution and a delete | the limit of active savings for creations that do not overlap; `TriggersEnd`, `DeletesEnd` |
| `user_profile` | six requests of two users who want the same name | safety and `RequestsEnd` |
| `sign_in` | two sign-ups and a login for one email, five verifications | safety, refinement of `AccountRegistry`, `VerificationsEnd` |
| `transfers` | two wallets of which one has no code, a transfer, two draws on one allowance, its grant, autoflow deposits, two connections, a first day and the first tick of the allowance's second 24 hours | safety, refinement of `AllowanceLedger`, `RefusedOnlyWhenBusy`; 0.4 million states |
| `balance_listener` | a wallet that is added at some times, two starts, a stop, two blocks, balances up to 2 | `OneWatch`, `ReportsBacked`, `CaughtUp`; 0.6 million states |
| `transaction_monitor` | two starts, a stop, a block of two transactions and one of one, one of them remembered, a wallet not held in lower case, two slots per window | `WindowKept`, `NotifiedOnce`, `PaymentsNotified`; 2.7 million states |
| `entities` | a saving from February to the end of March with any day of the month, an execution, a group of three | the five properties of the entities; 0.7 million states |

Four runs show where the program does what its own words deny; TLC prints the
behaviour.

| Run | Property | What happens |
|---|---|---|
| `over_limit` | `ActiveWithinLimit` | overlapping creations both count nine (here: none) and both insert |
| `reverted` | `SuccessMeansDeposited` | the receipt of a reverted operation is recorded as SUCCESS: its success flag is never read |
| `pin_lost` | `PinIsKept` | a profile update that read the row before the PIN was stored writes NULL back, and the PIN can be set again |
| `login_code` | `LoginCodeIsSent` | the handler subscribes to the class name, the bus dispatches by `eventName`: no login code is ever mailed |

A login code is called a "one-time verification code" by the mail that would carry
it, and may be used again until it expires, since `VerifyLoginUseCase` deletes a
token of the other type; no run states that, and
`SignUpTokenSpentIffAccount` is about sign-up tokens only. Two more disagreements of the savings core follow from its models and have no
run: a receipt that times out tells the user of a failure although the deposit
is included later, and SIGTERM takes the connection from a request whose
deposit is on its way. With two overlapping setups of a PIN and another stale save, a row with a PIN
and `pinSetup = false` is reachable too, the same defect as `pin_lost`.

The properties that hold although the code looks as if they should not:

* `DepositTargetsLiveSaving`: the foreign key lock of the uncommitted PENDING
  row makes a delete wait for the whole blockchain call, and a delete that came
  before it is undone. Without the foreign key it fails.
* `ProgressBackedByExecutions`, `SerialProgressExact`: concurrent executions
  lose updates of the progress, but it never counts an execution that is not
  recorded, and is exact for savings whose executions never overlapped, even
  when one of them puts a deleted saving back. The executions it counts are still
  in the table unless that happened.
* `NoPendingCommitted`, `OkAnswerIsRecorded`, `NoteMatchesRecord`: whatever save fails, the inner catch cannot commit a
  PENDING row, nor report a result that is not the recorded one.
* `LiveHasJob`, `DeletedHasNoJob`, `DepositAfterGoal`: the orders of the calls
  to the worker, the chain and the table. A saving that an execution puts back
  is excluded from the first: it is live and has no job, and by the second gets
  none.
* `SerialCreatesRespectLimit`: the count and the INSERT of a creation are
  apart, and hold for users whose creations do not overlap. Savings that were put
  back are not counted, as no creation has counted them.
* `ImplementsLedger`: in the ledger the result of an execution may bring a
  closed saving back; nothing else does.
* `SignUpTokenSpentIffAccount`, `SignUpIsForGood`: with overlapping verifications of
  one token and of two tokens for one email, one account results; the loser's
  token is given back.
* `ImplementsRegistry`: the code leaves by mail before its token is committed,
  the token is deleted before the user is inserted, and both may roll back; yet
  an account and the loss of its token appear together, for a code that was
  sent.
* `SerialNotShort`: between the check of a balance and the inclusion of the
  operation only another transfer of the same wallet, or a deposit of one of its
  autoflows, can take the money.
* `AllowanceKept`, `OfferedMayDraw`: the date in the row is the date that is
  signed, so the 24 hours of the one are the periods of the other, and what is
  offered may be drawn. They are stated of the 24 hours counted from that date,
  seconds included, not of calendar days, of which one may see up to twice the
  limit. `decimal(18,8)` may round the limit up, and then more is shown than
  signed: what the rounding adds may not be drawn, everything else may.
* `ImplementsAllowances`: a redemption looks its allowance up in one transaction
  and draws on it in a block much later, while other draws and the end of the
  24 hours pass; yet nothing is drawn on an allowance that is not granted, nor
  beyond what is left of them at the time of the draw.
* `AccountsDeployed`: both of two requests may deploy a wallet; the loser waits
  for a receipt that never comes and fails, but signs nothing.
* `RefusedOnlyWhenBusy`: however a request or a handler ends, its connection
  goes back before the next request can be refused for want of one. Only a START
  TRANSACTION that fails keeps it: it is awaited outside the `try`. Such
  connections are counted as `lost`, until the process starts again.
* `OneWatch`: `isRunning` is set before the first await. A stop that overtakes a
  start stops nothing and the watch begins after it; that case is excluded.
* `ReportsBacked`: what is reported of a wallet is covered by what blocks have
  added to it, and by what `addWallet` has dropped of its last balance; a wallet
  that is added once more is reported its whole balance. Checks that overlap may
  report a gain twice, so that case is excluded.
* `NotifiedOnce`, `PaymentsNotified`: the second holds through every overlap of
  handlers, the first without one and for blocks that fit into what is
  remembered: of a larger block, a watch that is begun anew may notify a payment
  again. Only wallets held in lower case are found at all.
* `WindowKept`: sleepers that wake together look at the window again, one after
  the other.
* `OnTimeIsNotPast`, `ShownIsNextRun`: the dates agree with the days of the job
  only under the conditions they state. A saving created before its day of the
  month, or on it before 12:00, shows a date that skips this month's run; days 29 and 30 run on the
  last day of the month, although the comment speaks of day 31 only; after the
  28th `setMonth` may run over the next month.
* `GroupLoads`: an emptied group has a threshold of 0, approves without any
  approval and cannot be loaded; nothing else leads there.

### Bounds

In the modules of requests nothing is bounded but the sets of requests, and in
`Transfers` the clock (`MaxTime`): each request is used once and a retry is
another request, so every behaviour is finite. One saving and two
executions are enough for every conflict that the code can have, since
executions of different savings share no row; the third party is the delete,
which meets them in every order, that which `saveChanges` undoes included.
Two savings are needed for the limit only, and one suffices as a limit. The
`autoflow` run declares the two webhooks symmetric, which is sound there: it
checks safety only and both target the same saving. For the profile, conflicts
are between two requests on one row and between two rows for one name. The two
users cover two setups, a setup and an update, a setup and a read, and an update
and a first read that stores the QR code; the pairs left out (two updates or two
first reads of one user) differ from these only in the column they change. In
`sign_in` the conflicts are two verifications of one token, and two tokens for
one email. `Restart` needs no bound, as a request that a crash has ended is not
resumed.

For `transfers` the conflicts are two payments from one wallet, two draws on one
allowance, two deployments of one wallet, and more requests than connections;
wallet `b` has no code and takes part in each, and an autoflow deposits from `a`. A
day has four ticks, an allowance starts late on the first day, and its row a tick
after midnight; the clock reaches the first tick of its second 24 hours, which is
not the first of the second day. The limit is odd and its column holds even
ones, so it is rounded. Quotes are proved about but not in the instance: a quote
takes the steps of a transfer up to its submission. The monitor is
bounded by `MaxBlock`, `MaxBalance` and, in the limiter, `MaxTime`: two blocks make
overlapping handlers and a skipped block; `MaxRequests` = 2 makes a caller
that comes third sleep; `Keep` = 1 makes a block of two transactions larger than
what is remembered. A wallet is added while a block is still to come, so
that its balance is read again. The calendar has a February of 28 days and the
three months after it, and ends for the clock with March, since a date
may lie two months ahead. Executions fail at most `MaxFailures` = 4 times, one
more than may be retried. The entities share nothing, so a behaviour calls one
of them only. The clocks end: `balance_listener` and `transaction_monitor` may
stop there and are run without a check for deadlock.

### Fairness

`FairSpec` assumes weak fairness of the steps of a request that is running
(`TriggerStep`, `CreateStep`, `DeleteStep`, `Step`, `AskStep`, `VerifyStep`) and
of `ShutdownEnds`. Node runs a continuation once it is ready, PostgreSQL grants
a lock once it is free, every awaited call returns or times out (the receipt
wait has a timeout, so `ReceiptTimesOut` is one of the steps), and a shutdown
is cut off after five seconds. Nothing is assumed of arrivals, of the chain's
inclusion of an operation, of restarts, nor of any fault: a request that waits
for a lock is never freed by an assumed error. Of the profile it is assumed only
that some request goes on while one can. `RequestsEnd` is stated as
"infinitely often nothing is in flight"; because each request is used once this
says that each of them ends.

No liveness is checked of `Transfers`: with a failure at every await and a timeout
of every wait, a request ends by itself; what could keep others waiting for ever
is a connection that is not given back, and that is `RefusedOnlyWhenBusy`.
`BalanceListener` assumes that the chain goes on, polls come, and calls to the
node return or fail; `CaughtUp` says nothing of a watch that ends, overlaps or
meets an error.

## 4. Proofs

All theorems are proved by TLAPS for every value of the constants, under the
assumption of each module (`AutoflowAssumption`: the functions that say who
owns and targets what, `Creates` finite, the limit positive;
`ProfileAssumption`; `SignInAssumption`; `TransfersAssumption`;
`MonitorAssumption`; `LimiterAssumption`; `CalendarAssumption`,
`ExecutionAssumption`, `MembersAssumption`). Each proof follows one scheme: an
inductive invariant `IInv`, checked by TLC first; `Init => IInv`; one lemma per
part of `IInv` with one step per action that can disturb it;
then each property from `IInv`.

*Autoflow.* The properties are not inductive. `TxInv` ties the control point to
the transaction: an uncommitted execution row exists only in a transaction that
is not aborted, with the process up. `LockInv` and `HoldInv` are why a deposit
is for a live saving: an execution row implies that the saving is live or was
inserted by the same transaction, and that no delete holds its lock.
`ProgressInv` says that a copy counts, itself aside, only successes that were
committed, and whose rows are there as long as the saving was never put back;
with it a late write of a stale copy can lose a success but not invent one. `SerialInv` and
`LimitInv` use the history variables `raced` and `racedUsers`: whoever is not
marked is alone, so what it has read or counted still holds when it writes. The
limit needs facts about cardinalities of finite sets. `NoteInv`, `DepositInv`
and `JobInv` relate what was told, sent and scheduled to the control points.
`Refinement` proves that every step of `Autoflow` is a step of `SavingsLedger`
or a stutter. `NoLockCircle` adds `OneUpdater` to the invariant, the exclusion of
two updates of a saving: the second save of an execution that has updated the
saving finds no other updater, so whoever is waited for at the end of a chain
of waits goes on.

*UserProfile.* `LocksInv`: one request holds a row. `NamesInv`: a username
being written by a holder is nobody's row and no other holder's, which the
waits at the unique index give. `SerialInv`: for a user whose requests never
overlapped, the request in flight has read what is stored.

*SignIn.* `VerifyInv`: who deletes a token is alone with it, who inserts a user
is alone with the email, has deleted the token, and the email has no account
yet. `SentInv`: a sign-up token is stored only after its code was sent. Together
they make the COMMIT of a sign-up the `Open` of the registry, and every other
COMMIT a stutter (`CommitOpens`, `RefinesRegistry`). `NoLockCircle`: who holds a
token waits for an email at most, who holds an email for nothing.

*Transfers.* `DrawInv` is the core: as the signed start is the date in the row and
the period 24 hours, the period of a tick is the number of 24 hours that have gone
by since (`PeriodIsElapsed`), so what these see drawn is one period's draw, which the
enforcer limits. `SendInv`
ties records and events to the control point and the operation, `DeployInv` the
use of a wallet to its code, through the pending deployment. `SerialInv`: a
wallet that is not `raced` has at most one transfer that is not settled and no
deposit meanwhile, so a pending operation that was covered stays covered; other
requests may add money and only new 24 hours change a draw, in its favour
(`CoveredTomorrow`). `PcInv` says who holds a connection: a transaction or a failed
START TRANSACTION. `GrantInv`: what is stored is
what was signed. For `RefinesAllowances` the abstract `spent` is the draw of the running 24 hours as
`DrawInv` sees it: an included redemption is a `Draw` of the ledger
(`MineDraws`), a COMMIT of a delegation its `Grant`, and a tick of the clock its
`Tick`, which renews just the allowances whose next 24 hours begin
(`TickRenews`): nothing was drawn of a period that has not come.

*Monitor.* `LimiterInv`: the log is in the order of time and what is forgotten of
it is out of every window to come. With fewer than `MaxRequests` remembered slots
in the window, the slot that many places back is a window old (`SlotIsFree`, by
cardinality). `LimitInNumbers` says the same in numbers, counted over any stretch
of time that is as long as the window: of more than `MaxRequests` slots in it
two would be that many places apart. `UsesLimiter` shows that a step of the monitor is a step of the
limiter, which carries `LimitKept` over to it. For `PaymentsNotified` the
invariant says that whatever is remembered, seen or swept was told. The other
direction, `NoSecondNotice`, needs `OnceInv`: unless handlers lapped there is one
handler; the transactions are remembered in the order of their blocks, and
those of a block that is being gone through are the newest; so what is trimmed
of a block with at most `Keep` transactions belongs to a block that no handler
will visit again (`ForgottenIsPassed`, by an injection and cardinality). In the
listener, `LastIsRead` says of each last balance a block whose balance it does not
exceed, up to which what was reported is covered by what was credited and
dropped (`Backed`), and that no check looks further back; a check that holds an
object which is no longer in the map has its gain covered as well. `ChecksAreFinal` is the safety part of
`CaughtUp`: what a check has visited stays at the balance of its block.

*Entities.* For any calendar with months of 28 to 31 days: the next date is a
later day that exists (`NextIsLater`), and while it is the one that a record
computed, the days between belong to no run (`NoneBetween`), nor does the rest of
the day of the record if 12:00 is over. `ExecutionInv` compares the count
of retries with the failures, `GroupInv` keeps the threshold within the members.

| Module | Theorems |
|---|---|
| `AutoflowProofs` | `TypeCorrect`, `Invariance`, one for each safety property of the runs `autoflow` and `autoflow_limit`, `SuccessIsReceipted`, `NoLockCircle`, `Refinement` |
| `UserProfileProofs` | `Invariance`, `UniqueNames`, `SerialKept`, `SerialPin` |
| `SignInProofs` | `Invariance`, `SignUpStays`, `AccountIsProved`, `TokenIsSpentOnce`, `NoLockCircle`, `RefinesRegistry` |
| `TransfersProofs` | `TypeCorrect`, `Invariance`, `TracesHaveReceipts`, `DoneHasRow`, `SerialTransfersArePaid`, `AllowancesAreKept`, `OffersAreDrawable`, `UsedAccountsAreDeployed`, `RefusalsAreJustified`, `RefinesAllowances` |
| `RateLimiterProofs`, `TransactionMonitorProofs` | `LimitKept`, `LimitInNumbers`; `UsesLimiter`, `MonitorKeepsLimit`, `Invariance`, `PaymentsAreNotified`, `NoSecondNotice` |
| `BalanceListenerProofs` | `Invariance`, `WatchesAreOne`, `ReportsAreBacked`, `ChecksAreFinal` |
| `EntitiesProofs` | `TypeCorrect`, `Invariance`, `OnTimeStaysAhead`, `NextRunShown`, `RetriesCounted`, `ClonesAccepted`, `GroupsLoad` |

Only model-checked: the liveness properties `TriggersEnd`, `DeletesEnd`,
`RequestsEnd`, `VerificationsEnd` and
`CaughtUp`, as TLAPS 1.4.5 does not handle ENABLED and with it fairness; and the
four counterexamples. Every safety property and every refinement of a passing
run has a theorem. The inductive invariants, and the properties that only a
theorem states (`SuccessHasReceipt`, `HoldersGoOn`, `AccountProvesEmail`,
`WaitsAreShort`, `DoneIsRecorded`, `VisitedIsCurrent`), were checked by TLC before
they were proved and are in no run now, since their theorems say more.

## 5. Left out of the models, and why

* Amounts of savings, addresses, texts: no modelled branch depends on them.
  `totalSaved += amount` concatenates, because PostgreSQL returns a decimal as a
  string; the result is only stored and shown.
* Progress after a load: `nextScheduledDate` comes back from jsonb as a string, so
  `isOverdue` is never true of a loaded saving and `getTime` on the date throws.
  Only `ProgressTrackingService` calls them, which nothing constructs.
* What the HTTP client was told: controllers answer before the COMMIT. The
  effect on the worker is modelled (a webhook's `outcome`), the answer to a
  create or a delete is not.
* Wrong codes: a refusal changes nothing and is not counted by the code.
* Reads (lists, portfolio, username availability): no state. They take a
  connection of the pool for a moment, which `Transfers` does not count.
* The PIN and the risk score of a transfer are a choice: the checker sends
  fixed data, so its answer says nothing of the transfer.
* Transfers of tokens: the code refuses them after the estimate.
* Daylight saving and the difference between the server's clock and a block's;
  in the schedule, a server that does not keep UTC. The calls to the node per
  slot of the limiter (two in `initializeBalances`, one for each wallet in
  `checkForInternalTransfers`); blocks that a poll of ten seconds skips, whose direct
  transfers the monitor never sees (the listener sees their balances).
* One use of a login token: it is not the case in the code (above), and the
  deletion that deletes nothing is in `SignIn`.
* Setters of the entities that nothing calls (`updateFrequency`,
  `updateAmountLimit`, `updateAmount` and the like), and `removeWallet`.
* Several processes on one database: the event bus is in memory and the
  program is deployed as one process. The database part of the models does not
  depend on it.

## 6. Plan

Done, in this order: `Autoflow` with `SavingsLedger`; `UserProfile`; `SignIn` with
`AccountRegistry`; `Transfers` with `AllowanceLedger`; `RateLimiter`, `TransactionMonitor` and `BalanceListener`; the
entities.

Worth doing next, most important first:

1. The answer to creates and deletes of savings as state, next to the failed
   COMMIT.
2. The other requests on the pool of `Transfers`, savings above all, which hold a
   connection as long.
3. `EventBus` as a module of its own: sequential handlers, an error in one that
   skips the rest, start and stop.
