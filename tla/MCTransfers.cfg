SPECIFICATION Spec
CONSTANTS
  a = a
  b = b
  t1 = t1
  t2 = t2
  t3 = t3
  g1 = g1
  NoGrant = NoGrant
  NoWallet = NoWallet
  Sends <- ThreeSends
  Quotes = {}
  Grants <- OneGrant
  Wallets <- TwoWallets
  WalletOf <- Senders
  AmountOf <- Amounts
  PayeeOf <- Payees
  GrantOf <- Drawn
  DelegateeOf <- ToB
  LimitOf <- Limits
  StartOf <- Starts
  Day = 4
  Minute = 2
  SavingsOf <- Savings
  Funds <- Money
  Deployed0 <- OnlyA
  PoolSize = 2
  MaxTime = 5
SYMMETRY SameDraws
INVARIANTS
  TraceHasReceipt
  SerialNotShort
  AllowanceKept
  OfferedMayDraw
  AccountsDeployed
PROPERTIES
  ImplementsAllowances
  RefusedOnlyWhenBusy
