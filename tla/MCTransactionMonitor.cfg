SPECIFICATION Spec
CONSTANTS
  w1 = w1
  w2 = w2
  p1 = p1
  x1 = x1
  x2 = x2
  x3 = x3
  NoWallet = NoWallet
  NoTx = NoTx
  Callers <- WatchBlock
  MaxRequests = 2
  Window = 2
  Buffer = 1
  MaxTime = 4
  Starts <- TwoStarts
  Stops <- OneStop
  Wallets <- TwoWallets
  Known <- OneKnown
  Lower <- OneLower
  Txs <- ThreeTxs
  BlockOf <- Blocks
  ToOf <- Payees
  Paying <- ThreeTxs
  Keep = 1
  MaxBlock = 1
CHECK_DEADLOCK FALSE
INVARIANTS
  WindowKept
  NotifiedOnce
  PaymentsNotified
