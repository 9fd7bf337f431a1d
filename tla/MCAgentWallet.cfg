SPECIFICATION FairSpec
CONSTANTS
  r1 = r1
  r2 = r2
  Requests = {r1, r2}
  Amounts = {0, 1, 4}
  Holdings <- MCHoldings
  Bonds = 1
  TargetPercent = 50
  DriftPercent = 25
  MinSwap = 2
  MaxSwap = 3
  CooldownTicks = 2
  ChainRefreshEveryN = 2
  Faults = {"receipt", "reverted", "rpc", "partial", "api", "crash"}
  MaxFaults = 2
CHECK_DEADLOCK FALSE
INVARIANT SettledIsPaid
INVARIANT PaidOnce
PROPERTY Settles
