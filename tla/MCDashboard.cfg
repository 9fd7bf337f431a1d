SPECIFICATION FairSpec
CONSTANTS
  t1 = t1
  t2 = t2
  Tasks = {t1, t2}
  Stages = {"proposal", "accept", "reject"}
  NegotiationCap = 1
  SwapCap = 1
  EventCap = 3
  SnapshotEvents = 1
  EventBuffer = 2
  ShockCap = 1
  MaxInputs = 2
  MaxDrops = 1
  Polls = {1}
CHECK_DEADLOCK FALSE
INVARIANT OldestIsOpen
INVARIANT StreamIsComplete
PROPERTY EndedStaysEnded
PROPERTY Converges
