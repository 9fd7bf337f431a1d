SPECIFICATION FairSpec
CONSTANTS
  absent = absent
  torn = torn
  BatchSize = 2
  ManifestCap = 2
  MaxRev = 1
  MaxEntry = 3
  MaxFaults = 2
  Faults = {"crash", "upload", "mirror", "manifest", "download", "slow"}
  Absent <- absent
  Torn <- torn
CHECK_DEADLOCK FALSE
INVARIANT NoEntryLost
PROPERTY EveryEntryAnchored
