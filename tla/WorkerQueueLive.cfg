SPECIFICATION FairSpec
CONSTANTS
  Worker = {w1}
  MaxMsgs = 2
  NoTask <- NoneWithoutTask
  MaxRetries = 2
  ClaimCount = 1
  FailBound = 2
  CrashBound = 2
  OutageBound = 1
PROPERTIES Delivery
CHECK_DEADLOCK FALSE
