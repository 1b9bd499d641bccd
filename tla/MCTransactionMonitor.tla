----------------------- MODULE MCTransactionMonitor -----------------------
(* A small instance of TransactionMonitor for TLC: two starts and a stop,   *)
(* two blocks, the first with more transactions than are remembered, a       *)
(* payment to the known wallet in each, one to a wallet that is added and    *)
(* whose address is not in lower case; two slots in a window of two ticks.   *)
EXTENDS TransactionMonitorProps

CONSTANTS w1, w2, p1, x1, x2, x3

TwoWallets == {w1, w2}
OneKnown   == {w1}
OneLower   == {w1}
TwoStarts  == {1, 2}
OneStop    == {p1}
ThreeTxs   == {x1, x2, x3}
Blocks     == [x \in ThreeTxs |-> IF x = x3 THEN 1 ELSE 0]
Payees     == [x \in ThreeTxs |-> IF x = x2 THEN w2 ELSE w1]
WatchBlock == TwoStarts \X (0..1)
=============================================================================
