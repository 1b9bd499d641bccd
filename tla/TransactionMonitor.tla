------------------------ MODULE TransactionMonitor ------------------------
(***************************************************************************)
(* TransactionMonitor, the part of MonadTransferDetector that goes through *)
(* the transactions of a block, and the RateLimiter it asks for each call. *)
(* watchBlocks hands over the newest block only, and does not wait for the *)
(* handler of the block before.  The transactions of a block are visited   *)
(* in any order.  A watch is named by the call of start that began it.     *)
(***************************************************************************)
EXTENDS RateLimiter

CONSTANTS
  Starts,      \* calls of start(), numbered as they come
  Stops,       \* calls of stop()
  Wallets,
  Known,       \* the wallets given to the constructor
  Lower,       \* the wallets whose address is held in lower case
  Txs,         \* transactions
  BlockOf,     \* BlockOf[x]: the block of x
  ToOf,        \* ToOf[x]: the wallet x is sent to, in lower case, or NoWallet
  Paying,      \* the transactions that move a value
  NoWallet, NoTx,
  Keep,        \* transactions remembered (1000 in the code)
  MaxBlock     \* bound: the number of the last block

NoWatch  == 0
Heights  == 0..MaxBlock
TxsIn(b) == {x \in Txs : BlockOf[x] = b}

ASSUME MonitorAssumption ==
  /\ Callers = Starts \X Heights
  /\ Known \subseteq Wallets /\ Lower \subseteq Wallets
  /\ NoWallet \notin Wallets /\ NoTx \notin Txs
  /\ Starts \subseteq Nat \ {0}
  /\ IsFiniteSet(Txs)
  /\ BlockOf \in [Txs -> Heights]
  /\ ToOf \in [Txs -> Wallets \cup {NoWallet}]
  /\ Paying \subseteq Txs
  /\ Keep \in Nat
  /\ MaxBlock \in Nat

VARIABLES
  height,     \* of the chain
  toStart, toStop,
  wallets, running, unwatch, watching, emitted,
  processed,  \* processedTxs, in the order of insertion
  handlers,   \* the calls of processBlock in flight
  \* history
  notified,   \* notified[x]: how often x was notified
  swept,      \* the blocks whose handler came to its end
  lapped      \* a block was handed over while one was being processed

watchVars   == <<toStart, toStop, running, unwatch, watching, emitted>>
handlerVars == <<processed, handlers, notified, swept, lapped>>
vars == <<height, watchVars, wallets, handlerVars, limiterVars>>

\* Where a handler is: at an await, or in the loop.
Handler == [watch : Starts, block : Heights, seen : SUBSET Txs,
            tx : Txs \cup {NoTx},
            at : {"slot", "block", "loop", "receiptSlot", "receipt", "add"}]

TypeOK ==
  /\ LimiterTypeOK
  /\ height \in Heights
  /\ toStart \in SUBSET Starts /\ toStop \in SUBSET Stops
  /\ wallets \in SUBSET Wallets
  /\ running \in BOOLEAN
  /\ unwatch \in Starts \cup {NoWatch}
  /\ watching \in SUBSET Starts
  /\ emitted \in [Starts -> Heights \cup {-1}]
  /\ processed \in Seq(Txs)
  /\ handlers \in SUBSET Handler
  /\ \A h \in handlers : h.at \in {"receiptSlot", "receipt", "add"} => h.tx \in Txs
  /\ notified \in [Txs -> Nat]
  /\ swept \in SUBSET Heights
  /\ lapped \in BOOLEAN

Init ==
  /\ LimiterInit
  /\ height = 0
  /\ toStart = Starts /\ toStop = Stops
  /\ wallets = Known
  /\ running = FALSE /\ unwatch = NoWatch /\ watching = {}
  /\ emitted = [s \in Starts |-> -1]
  /\ processed = <<>> /\ handlers = {}
  /\ notified = [x \in Txs |-> 0] /\ swept = {} /\ lapped = FALSE

-----------------------------------------------------------------------------
(* The chain, start, stop and addWallet.                                    *)

NewBlock ==
  /\ height < MaxBlock
  /\ height' = height + 1
  /\ UNCHANGED <<watchVars, wallets, handlerVars, limiterVars>>

Start(s) ==
  /\ s \in toStart
  /\ toStart' = toStart \ {s}
  /\ running' = TRUE
  /\ IF running THEN UNCHANGED <<unwatch, watching>>
     ELSE unwatch' = s /\ watching' = watching \cup {s}
  /\ UNCHANGED <<height, toStop, wallets, emitted, handlerVars, limiterVars>>

\* stop does nothing if nothing was ever watched.
Stop(p) ==
  /\ p \in toStop
  /\ toStop' = toStop \ {p}
  /\ running' = (running /\ unwatch = NoWatch)
  /\ watching' = watching \ {unwatch}
  /\ UNCHANGED <<height, toStart, wallets, unwatch, emitted, handlerVars,
                 limiterVars>>

AddWallet(w) ==
  /\ w \in Wallets \ wallets
  /\ wallets' = wallets \cup {w}
  /\ UNCHANGED <<height, watchVars, handlerVars, limiterVars>>

-----------------------------------------------------------------------------
(* processBlock.                                                            *)

Replace(h, g) == handlers' = (handlers \ {h}) \cup {g}
Goto(h, at)   == Replace(h, [h EXCEPT !.at = at])
Seen(h, x)    == [h EXCEPT !.seen = @ \cup {x}, !.tx = NoTx, !.at = "loop"]

\* Mutant of HasProcessed: a block is taken for its transactions.
HasProcessedBlock(x) ==
  \E i \in 1..Len(processed) : BlockOf[processed[i]] = BlockOf[x]

HasProcessed(x) == \E i \in 1..Len(processed) : processed[i] = x

\* A poll of watch k finds a new block.
Emit(k) ==
  /\ k \in watching
  /\ emitted[k] < height
  /\ emitted' = [emitted EXCEPT ![k] = height]
  /\ handlers' = handlers \cup
       {[watch |-> k, block |-> height, seen |-> {}, tx |-> NoTx, at |-> "slot"]}
  /\ lapped' = (lapped \/ handlers # {})
  /\ UNCHANGED <<height, toStart, toStop, wallets, running, unwatch, watching,
                 processed, notified, swept, limiterVars>>

\* waitForSlot: for the block, or for a receipt.
TakeSlot(h) ==
  /\ h.at \in {"slot", "receiptSlot"}
  /\ GiveSlot(<<h.watch, h.block>>)
  /\ Goto(h, IF h.at = "slot" THEN "block" ELSE "receipt")
  /\ UNCHANGED <<height, watchVars, wallets, processed, notified, swept, lapped>>

AwaitSlot(h) ==
  /\ h.at \in {"slot", "receiptSlot"}
  /\ Sleep(<<h.watch, h.block>>)
  /\ UNCHANGED <<height, watchVars, wallets, handlerVars>>

GetBlock(h) ==
  /\ h.at = "block"
  /\ Goto(h, "loop")
  /\ UNCHANGED <<height, watchVars, wallets, processed, notified, swept, lapped,
                 limiterVars>>

\* wallets.has(tx.to): the addresses are compared as they are written, and the
\* node writes them in lower case.
HasWallet(to) == to \in wallets \cap Lower

\* The next transaction: it is skipped if it was processed; a payment to a
\* wallet is notified; the receipt of any other is asked for.
ProcessTx(h, x) ==
  /\ h.at = "loop"
  /\ x \in TxsIn(h.block) \ h.seen
  /\ IF HasProcessed(x) THEN Replace(h, Seen(h, x)) /\ UNCHANGED notified
     ELSE IF HasWallet(ToOf[x])
     THEN /\ Replace(h, [h EXCEPT !.tx = x, !.at = "add"])
          /\ notified' =
               IF x \in Paying THEN [notified EXCEPT ![x] = @ + 1] ELSE notified
     ELSE Replace(h, [h EXCEPT !.tx = x, !.at = "receiptSlot"])
          /\ UNCHANGED notified
  /\ UNCHANGED <<height, watchVars, wallets, processed, swept, lapped,
                 limiterVars>>

\* Mutant of AddProcessed: the transaction is not remembered.
AddNothing(h) ==
  /\ h.at \in {"add", "receipt"}
  /\ Replace(h, Seen(h, h.tx))
  /\ UNCHANGED <<height, watchVars, wallets, processed, notified, swept, lapped,
                 limiterVars>>

\* processedTxs.add, after what was awaited for the transaction: nothing but
\* a log line, or the receipt and the balances, of which nothing is made.
AddProcessed(h) ==
  /\ h.at \in {"add", "receipt"}
  /\ processed' = IF HasProcessed(h.tx) THEN processed
                  ELSE Append(processed, h.tx)
  /\ Replace(h, Seen(h, h.tx))
  /\ UNCHANGED <<height, watchVars, wallets, notified, swept, lapped,
                 limiterVars>>

\* The block does not arrive, or a receipt does not: the rest of the block is
\* given up.
ProcessThrows(h) ==
  /\ h.at \in {"block", "receipt"}
  /\ handlers' = handlers \ {h}
  /\ UNCHANGED <<height, watchVars, wallets, processed, notified, swept, lapped,
                 limiterVars>>

\* The block is done; of the processed transactions the newest are kept.
ProcessEnds(h) ==
  /\ h.at = "loop"
  /\ TxsIn(h.block) \subseteq h.seen
  /\ handlers' = handlers \ {h}
  /\ swept' = swept \cup {h.block}
  /\ processed' = SubSeq(processed,
                         IF Len(processed) > Keep THEN Len(processed) - Keep + 1
                         ELSE 1, Len(processed))
  /\ UNCHANGED <<height, watchVars, wallets, notified, lapped, limiterVars>>

HandlerSteps(h) ==
  \/ TakeSlot(h) \/ AwaitSlot(h) \/ GetBlock(h)
  \/ \E x \in Txs : ProcessTx(h, x)
  \/ AddProcessed(h) \/ ProcessThrows(h) \/ ProcessEnds(h)

-----------------------------------------------------------------------------
Time == Tick /\ UNCHANGED <<height, watchVars, wallets, handlerVars>>

Next ==
  \/ NewBlock \/ Time
  \/ \E s \in Starts : Start(s) \/ Emit(s)
  \/ \E p \in Stops : Stop(p)
  \/ \E w \in Wallets : AddWallet(w)
  \/ \E h \in handlers : HandlerSteps(h)

Spec == Init /\ [][Next]_vars
=============================================================================
