SPECIFICATION FairSpec
CONSTANTS
  Agents = {"MA", "CA"}
  Leaves = {"MA", "CA"}
  Reasons = {"MA", "CA"}
  Every <- MCEvery
  Offset <- MCOffset
  Cycle = 2
  Window = 3
  MaxNews <- MCNews
  MaxFaults = 1
CHECK_DEADLOCK FALSE
PROPERTY HeardInOrder
PROPERTY TicksGoOn
PROPERTY IdleStopsPaying
