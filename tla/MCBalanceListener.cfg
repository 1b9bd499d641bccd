SPECIFICATION FairSpec
CONSTANTS
  w1 = w1
  p1 = p1
  NoWallet = NoWallet
  Starts <- TwoStarts
  Stops <- OneStop
  Wallets <- OneWallet
  Known <- NoneKnown
  MaxBalance = 2
  MaxBlock = 2
CHECK_DEADLOCK FALSE
INVARIANTS
  OneWatch
  ReportsBacked
PROPERTIES
  CaughtUp
