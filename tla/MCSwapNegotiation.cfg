SPECIFICATION LiveSpec
CONSTANTS
  c1 = c1
  c2 = c2
  c3 = c3
  Calls <- MCCalls
  Replies = {0, 1}
  MaxRestarts = 1
CHECK_DEADLOCK FALSE
PROPERTY EveryCallAnswered
PROPERTY ImplementsAgreement
