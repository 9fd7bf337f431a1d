SPECIFICATION FairSpec
CONSTANTS
  t1 = t1
  t2 = t2
  t3 = t3
  CA = CA
  NY = NY
  none = none
  silent = silent
  Tasks <- MCTasks
  Bidders <- MCBidders
  Bids <- MCBids
  Bands <- MCBands
  MaxBids = 2
  Principal = 2
  NoTask <- none
  Silent <- silent
  Unknown = Unknown
  Reports <- MCReports
CHECK_DEADLOCK FALSE
INVARIANT NoHungAuction
INVARIANT OneMintPerRound
INVARIANT AwardsMatchMints
INVARIANT MintWithinCredit
PROPERTY KeepsPromise
INVARIANT WorseNeverCheaper
