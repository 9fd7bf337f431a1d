SPECIFICATION RecordsFairSpec
CONSTANTS
  Signer = "agent"
  SignerOverride = "none"
  OwnKey = TRUE
  TickHeartbeat = 1
  MaxVersion = 1
  MaxPool = 2
  MaxFaults = 1
CHECK_DEADLOCK FALSE
INVARIANT DisabledIsFinal
INVARIANT PassedIsReadable
INVARIANT RecordsAgree
PROPERTY RecipientKeeps
PROPERTY RecordsCatchUp
