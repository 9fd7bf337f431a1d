SPECIFICATION SweepFairSpec
CONSTANTS
  FED = FED
  GA = GA
  CA = CA
  Nodes = {FED, GA, CA}
  Links <- MCLinks
  Events = {1, 2}
  Severity <- MCSeverity
  Affects <- MCAffects
  Recognised <- MCRecognised
  TopN = 1
  RecentCap = 1
  RecentKeep = 1
  MaxLost = 1
CHECK_DEADLOCK FALSE
INVARIANT HandledOnce
PROPERTY EveryShockHandled
