SPECIFICATION FairSpec
CONSTANTS
  CA = CA
  States <- MCStates
  Order <- MCOrder
  KindsOf <- MCKindsOf
  MaxRelease = 1
  MaxManual = 2
  MaxQueued = 1
  MaxFaults = 2
CHECK_DEADLOCK FALSE
INVARIANT FileCaughtUp
PROPERTY NeverOlder
PROPERTY RefreshesGoOn
