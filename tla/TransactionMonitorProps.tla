---------------------- MODULE TransactionMonitorProps ----------------------
(* What the transaction monitor promises.                                   *)
EXTENDS TransactionMonitor

\* The transactions of block b can all be remembered.
Fits(b) == Cardinality(TxsIn(b)) <= Keep

\* However watches are stopped and begun anew, no transaction is notified
\* twice, unless a block was handed over while one was being processed, or the
\* block has more transactions than are remembered: what is forgotten of the
\* processed transactions never comes again (processBlock, the newest 1000).
NotifiedOnce ==
  ~lapped => \A x \in Txs : Fits(BlockOf[x]) => notified[x] <= 1

\* Whatever other handlers add to the processed transactions and drop from
\* them meanwhile: when the handler of a block has come to its end, every
\* payment in it was notified, if it is to a wallet known from the start whose
\* address is held in lower case.
PaymentsNotified ==
  \A x \in Paying :
    BlockOf[x] \in swept /\ ToOf[x] \in Known \cap Lower => notified[x] >= 1

-----------------------------------------------------------------------------
(* The inductive invariant.                                                 *)

\* There is at most the one watch that a stop ends, and a monitor that has
\* been stopped watches nothing (isRunning, unwatch).
WatchInv ==
  /\ watching \subseteq {unwatch}
  /\ ~running => watching = {}

\* A watch has one handler of a block, and a handler is asleep only while it
\* waits for a slot.
HandlerInv ==
  /\ \A h \in handlers : h.block <= emitted[h.watch]
  /\ \A g, h \in handlers : g.watch = h.watch /\ g.block = h.block => g = h
  /\ \A k \in Starts, b \in Heights :
       <<k, b>> \in asleep =>
         \E h \in handlers : /\ h.watch = k /\ h.block = b
                             /\ h.at \in {"slot", "receiptSlot"}

\* x needs no notification any more, or never did.
Told(x) == x \in Paying /\ ToOf[x] \in Known \cap Lower => notified[x] >= 1

\* What is remembered, seen or swept was told.
ToldInv ==
  /\ Known \subseteq wallets
  /\ \A x \in Txs : HasProcessed(x) => Told(x)
  /\ \A h \in handlers :
       /\ \A x \in h.seen : Told(x)
       /\ h.at \in {"receiptSlot", "receipt", "add"} => Told(h.tx)
  /\ \A x \in Txs : BlockOf[x] \in swept => Told(x)

IInv == TypeOK /\ WatchInv /\ HandlerInv /\ ToldInv

\* Some watch is past the block of x, whose transactions never come again.
Passed(x) == \E k \in Starts : BlockOf[x] < emitted[k]

\* The one handler is in the newest block that was handed over.
OneHandler ==
  /\ \A g, h \in handlers : g = h
  /\ \A h \in handlers, k \in Starts : emitted[k] <= h.block
  /\ \A k \in Starts : emitted[k] <= height
  /\ \A h \in handlers :
       h.at \in {"receiptSlot", "receipt", "add"} => h.tx \in TxsIn(h.block)

\* The processed transactions differ, and are in the order of their blocks,
\* none of which is newer than what was handed over.
InBlockOrder ==
  /\ \A i, j \in 1..Len(processed) :
       i < j => /\ processed[i] # processed[j]
                /\ BlockOf[processed[i]] <= BlockOf[processed[j]]
  /\ \A i \in 1..Len(processed) :
       \E k \in Starts : BlockOf[processed[i]] <= emitted[k]

\* What was notified was notified once, and is passed, or remembered, or about
\* to be, if its block fits.
OnceTold ==
  \A x \in Txs : Fits(BlockOf[x]) =>
    /\ notified[x] <= 1
    /\ notified[x] >= 1 =>
         \/ Passed(x) \/ HasProcessed(x)
         \/ \E h \in handlers : h.at = "add" /\ h.tx = x

OnceInv == ~lapped => OneHandler /\ InBlockOrder /\ OnceTold
=============================================================================
