SPECIFICATION Spec
CONSTANTS
  absent = absent
  torn = torn
  BatchSize = 2
  ManifestCap = 2
  MaxRev = 3
  MaxEntry = 2
  MaxFaults = 2
  Faults = {"crash", "upload", "mirror", "download", "slow"}
  Absent <- absent
  Torn <- torn
CHECK_DEADLOCK FALSE
INVARIANT LogInOrder
PROPERTY AnchorNeverOlder
PROPERTY KeepsSaved
