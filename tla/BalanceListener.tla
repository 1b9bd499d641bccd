-------------------------- MODULE BalanceListener --------------------------
(***************************************************************************)
(* BalanceChangeListener, the part of MonadTransferDetector that compares  *)
(* the balances of the users' wallets block by block.  watchBlocks polls,  *)
(* hands over the newest block only, and does not wait for the handler of  *)
(* the block before.  The wallets are visited in any order.  A wait for    *)
(* the rate limiter is part of the step that follows it; RateLimiter has   *)
(* the limiter.  A watch is named by the call of start that began it.      *)
(***************************************************************************)
EXTENDS Integers

CONSTANTS
  Starts,      \* calls of start(), numbered as they come
  Stops,       \* calls of stop()
  Wallets,
  Known,       \* the wallets given to the constructor
  NoWallet,
  MaxBalance,  \* bound: balances
  MaxBlock     \* bound: the number of the last block

NoWatch   == 0
Heights   == 0..MaxBlock

ASSUME MonitorAssumption ==
  /\ Known \subseteq Wallets
  /\ NoWallet \notin Wallets
  /\ Starts \subseteq Nat \ {0}
  /\ MaxBalance \in Nat /\ MaxBlock \in Nat

VARIABLES
  \* the chain
  height, balance,
  \* MonadTransferDetector
  pc, toStop, wallets,
  \* BalanceChangeListener
  running, unwatch, watching, emitted,
  inited,     \* inited[s]: the wallets start s has initialised
  last,       \* last[w]: lastBalance
  checks,     \* the calls of checkBalanceChanges in flight
  \* history
  credited,   \* credited[w][b]: what the blocks up to b have added to w
  since,      \* since[w]: what had been credited when last[w] was read
  reported,   \* reported[w]: what was notified since then
  forgotten,  \* forgotten[w]: the balances that addWallet has dropped since then
  hasty,      \* a stop came while a start was under way
  lapped,     \* a check began before another, or an initialisation, ended
  failed      \* a check met an error

chainVars    == <<height, balance, credited>>
detectorVars == <<pc, toStop, hasty>>
watchVars    == <<running, unwatch, watching, emitted>>
checkVars    == <<inited, last, checks, since, reported, forgotten, lapped,
                  failed>>
vars == <<chainVars, detectorVars, wallets, watchVars, checkVars>>

\* A call of checkBalanceChanges is at a wallet with a gain to be notified, or
\* between two; renewed are the visited ones whose entry in the map is no
\* longer the object it has seen.
Check   == [watch : Starts, block : Heights, visited : SUBSET Wallets,
            wallet : Wallets \cup {NoWallet}, gain : Nat,
            renewed : SUBSET Wallets]
Watch   == Starts \cup {NoWatch}

TypeOK ==
  /\ height \in Heights
  /\ balance \in [Wallets -> [Heights -> Nat]]
  /\ pc \in [Starts -> {"idle", "init", "done", "failed"}]
  /\ toStop \in SUBSET Stops
  /\ wallets \in SUBSET Wallets
  /\ running \in BOOLEAN
  /\ unwatch \in Watch
  /\ watching \in SUBSET Starts
  /\ emitted \in [Starts -> Heights \cup {-1}]
  /\ inited \in [Starts -> SUBSET Wallets]
  /\ last \in [Wallets -> Nat]
  /\ checks \in SUBSET Check
  /\ credited \in [Wallets -> [Heights -> Nat]]
  /\ since \in [Wallets -> Nat] /\ reported \in [Wallets -> Nat]
  /\ forgotten \in [Wallets -> Nat]
  /\ hasty \in BOOLEAN /\ failed \in BOOLEAN
  /\ lapped \in BOOLEAN

Init ==
  /\ height = 0
  /\ balance = [w \in Wallets |-> [b \in Heights |-> 0]]
  /\ credited = balance
  /\ pc = [s \in Starts |-> "idle"] /\ toStop = Stops /\ hasty = FALSE
  /\ wallets = Known
  /\ running = FALSE /\ unwatch = NoWatch /\ watching = {}
  /\ emitted = [s \in Starts |-> -1]
  /\ inited = [s \in Starts |-> {}] /\ last = [w \in Wallets |-> 0]
  /\ checks = {} /\ lapped = FALSE /\ failed = FALSE
  /\ since = [w \in Wallets |-> 0] /\ reported = [w \in Wallets |-> 0]
  /\ forgotten = [w \in Wallets |-> 0]

-----------------------------------------------------------------------------
(* The chain.                                                               *)

Gain(old, new) == IF new > old THEN new - old ELSE 0

\* A block, in which the balance of each wallet may change.
NewBlock ==
  /\ height < MaxBlock
  /\ height' = height + 1
  /\ \E new \in [Wallets -> 0..MaxBalance] :
       /\ balance' =
            [w \in Wallets |-> [balance[w] EXCEPT ![height + 1] = new[w]]]
       /\ credited' =
            [w \in Wallets |-> [credited[w] EXCEPT ![height + 1] =
               credited[w][height] + Gain(balance[w][height], new[w])]]
  /\ UNCHANGED <<detectorVars, wallets, watchVars, checkVars>>

-----------------------------------------------------------------------------
(* start and stop.                                                          *)

\* A start is under way.
Starting == \E s \in Starts : pc[s] = "init"

\* Mutant of Start: the listener may be started while it is running.
StartAgain(s) ==
  /\ pc[s] = "idle" /\ \A r \in Starts : r < s => pc[r] # "idle"
  /\ running' = TRUE
  /\ pc' = [pc EXCEPT ![s] = "init"]
  /\ UNCHANGED <<chainVars, toStop, hasty, wallets, unwatch, watching,
                 emitted, checkVars>>

\* isRunning is set before the balances are read.
Start(s) ==
  /\ pc[s] = "idle" /\ \A r \in Starts : r < s => pc[r] # "idle"
  /\ running' = TRUE
  /\ pc' = [pc EXCEPT ![s] = IF running THEN "done" ELSE "init"]
  /\ UNCHANGED <<chainVars, toStop, hasty, wallets, unwatch, watching,
                 emitted, checkVars>>

\* initializeBalances reads the next wallet.
InitializeBalance(s, w) ==
  /\ pc[s] = "init"
  /\ w \in wallets \ inited[s]
  /\ last' = [last EXCEPT ![w] = balance[w][height]]
  /\ inited' = [inited EXCEPT ![s] = @ \cup {w}]
  /\ since' = [since EXCEPT ![w] = credited[w][height]]
  /\ reported' = [reported EXCEPT ![w] = 0]
  /\ forgotten' = [forgotten EXCEPT ![w] = 0]
  /\ lapped' = (lapped \/ checks # {})
  /\ UNCHANGED <<chainVars, detectorVars, wallets, watchVars, checks, failed>>

\* A balance or a block number cannot be read: start rejects, and isRunning
\* stays set.
InitializeThrows(s) ==
  /\ pc[s] = "init"
  /\ wallets # {}
  /\ pc' = [pc EXCEPT ![s] = "failed"]
  /\ UNCHANGED <<chainVars, toStop, hasty, wallets, watchVars, checkVars>>

\* All are read, and the listener watches.
WatchBlocks(s) ==
  /\ pc[s] = "init"
  /\ wallets \subseteq inited[s]
  /\ unwatch' = s
  /\ watching' = watching \cup {s}
  /\ pc' = [pc EXCEPT ![s] = "done"]
  /\ UNCHANGED <<chainVars, toStop, hasty, wallets, running, emitted,
                 checkVars>>

\* stop does nothing if nothing was ever watched.
Stop(p) ==
  /\ p \in toStop
  /\ toStop' = toStop \ {p}
  /\ running' = (running /\ unwatch = NoWatch)
  /\ watching' = watching \ {unwatch}
  /\ hasty' = (hasty \/ Starting)
  /\ UNCHANGED <<chainVars, pc, wallets, unwatch, emitted, checkVars>>

\* The checks that hold w with a gain, and the object that is in the map.
Holders(w) == {c \in checks : c.wallet = w /\ w \notin c.renewed}

\* What is known of the balance of w: the last balance and the gain upon it.
BalanceKnown(w) ==
  last[w] + IF Holders(w) = {} THEN 0 ELSE (CHOOSE c \in Holders(w) : TRUE).gain

\* The checks, when w gets a new entry: those that were at w have the old one.
Renew(w) ==
  checks' = {[c EXCEPT !.renewed = @ \cup ({w} \cap (c.visited \cup {c.wallet}))] :
               c \in checks}

\* addWallet: w is monitored with a last balance of 0, whether it was before
\* or not.  (Bound: a block follows, so that its balance is read.)
AddWallet(w) ==
  /\ height < MaxBlock
  /\ wallets' = wallets \cup {w}
  /\ last' = [last EXCEPT ![w] = 0]
  /\ forgotten' = [forgotten EXCEPT ![w] = @ + BalanceKnown(w)]
  /\ Renew(w)
  /\ UNCHANGED <<chainVars, detectorVars, watchVars, inited, since, reported,
                 lapped, failed>>

-----------------------------------------------------------------------------
(* BalanceChangeListener: checkBalanceChanges.                              *)

Replace(c, d) == checks' = (checks \ {c}) \cup {d}
Visited(c, w) ==
  [c EXCEPT !.visited = @ \cup {w}, !.wallet = NoWallet, !.gain = 0]

\* A poll of watch k finds a new block.
Emit(k) ==
  /\ k \in watching
  /\ emitted[k] < height
  /\ emitted' = [emitted EXCEPT ![k] = height]
  /\ checks' = checks \cup {[watch |-> k, block |-> height, visited |-> {},
                             wallet |-> NoWallet, gain |-> 0,
                             renewed |-> {}]}
  /\ lapped' = (lapped \/ checks # {} \/ \E s \in Starts : pc[s] = "init")
  /\ UNCHANGED <<chainVars, detectorVars, wallets, running, unwatch, watching,
                 inited, last, since, reported, forgotten, failed>>

\* Mutant of Compare: only a gain is looked at.
CompareGains(c, w) ==
  LET current == balance[w][c.block] IN
  /\ c.wallet = NoWallet
  /\ w \in wallets \ c.visited
  /\ Replace(c, IF current > last[w]
                THEN [c EXCEPT !.wallet = w, !.gain = current - last[w]]
                ELSE Visited(c, w))
  /\ UNCHANGED <<chainVars, detectorVars, wallets, watchVars, inited, last,
                 since, reported, forgotten, lapped, failed>>

\* The balance of w at the block arrives, and is compared.
Compare(c, w) ==
  LET current == balance[w][c.block] IN
  /\ c.wallet = NoWallet
  /\ w \in wallets \ c.visited
  /\ IF current > last[w]
     THEN /\ Replace(c, [c EXCEPT !.wallet = w, !.gain = current - last[w]])
          /\ UNCHANGED last
     ELSE /\ last' = [last EXCEPT ![w] = current]
          /\ Replace(c, Visited(c, w))
  /\ UNCHANGED <<chainVars, detectorVars, wallets, watchVars, inited, since,
                 reported, forgotten, lapped, failed>>

\* It does not arrive.
CompareThrows(c, w) ==
  /\ c.wallet = NoWallet
  /\ w \in wallets \ c.visited
  /\ Replace(c, Visited(c, w))
  /\ failed' = TRUE
  /\ UNCHANGED <<chainVars, detectorVars, wallets, watchVars, inited, last,
                 since, reported, forgotten, lapped>>

\* The balance that was compared is the last one, of the object that is held.
SetLast(c) ==
  last' = IF c.wallet \in c.renewed THEN last
          ELSE [last EXCEPT ![c.wallet] = balance[c.wallet][c.block]]

\* Mutant of Notify: the last balance is not updated after a gain.
NotifyOnly(c) ==
  /\ c.wallet # NoWallet
  /\ reported' = [reported EXCEPT ![c.wallet] = @ + c.gain]
  /\ Replace(c, Visited(c, c.wallet))
  /\ UNCHANGED <<chainVars, detectorVars, wallets, watchVars, inited, last,
                 since, forgotten, lapped, failed>>

\* findTransferTransaction has found the transaction, or takes the transfer
\* for an internal one, and the gain is notified.
Notify(c) ==
  /\ c.wallet # NoWallet
  /\ reported' = [reported EXCEPT ![c.wallet] = @ + c.gain]
  /\ SetLast(c)
  /\ Replace(c, Visited(c, c.wallet))
  /\ UNCHANGED <<chainVars, detectorVars, wallets, watchVars, inited, since,
                 forgotten, lapped, failed>>

\* findTransferTransaction fails and says so: nothing is notified.
NotifyThrows(c) ==
  /\ c.wallet # NoWallet
  /\ SetLast(c)
  /\ Replace(c, Visited(c, c.wallet))
  /\ UNCHANGED <<chainVars, detectorVars, wallets, watchVars, inited, since,
                 reported, forgotten, lapped, failed>>

CheckEnds(c) ==
  /\ c.wallet = NoWallet
  /\ wallets \subseteq c.visited
  /\ checks' = checks \ {c}
  /\ UNCHANGED <<chainVars, detectorVars, wallets, watchVars, inited, last,
                 since, reported, forgotten, lapped, failed>>

CheckSteps(c) ==
  \/ \E w \in Wallets : Compare(c, w) \/ CompareThrows(c, w)
  \/ Notify(c) \/ NotifyThrows(c) \/ CheckEnds(c)

-----------------------------------------------------------------------------
Next ==
  \/ NewBlock
  \/ \E s \in Starts :
       \/ Start(s) \/ InitializeThrows(s) \/ WatchBlocks(s)
       \/ \E w \in Wallets : InitializeBalance(s, w)
       \/ Emit(s)
  \/ \E p \in Stops : Stop(p)
  \/ \E w \in Wallets : AddWallet(w)
  \/ \E c \in checks : CheckSteps(c)

Spec == Init /\ [][Next]_vars

\* The chain goes on, a poll comes every ten seconds, and every call to the
\* node returns or fails.
Fairness ==
  /\ WF_vars(NewBlock)
  /\ \A k \in Starts : WF_vars(Emit(k))
  /\ WF_vars(\E c \in checks : CheckSteps(c))

FairSpec == Spec /\ Fairness
=============================================================================
