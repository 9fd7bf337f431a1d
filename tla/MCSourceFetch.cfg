SPECIFICATION FetchFairSpec
CONSTANTS
  Requesters = {1, 2}
  MinIntervalMs = 1
  MaxLate = 1
  ItemCount = 2
  SeriesCount = 2
  RetryDelays = 1
  MaxFailures = 2
CHECK_DEADLOCK FALSE
INVARIANT AllSettled
INVARIANT BoundedRate
PROPERTY SettledOnce
PROPERTY Returns
