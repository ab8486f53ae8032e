SPECIFICATION FairSpec
CONSTANTS
  r1 = r1
  r2 = r2
  Request = {r1}
  NoRequest = NoRequest
  Item = {i1}
  CallsEndInTime = TRUE
CHECK_DEADLOCK FALSE
PROPERTIES
  EveryClaimIsProcessed
  FailedSetupFreesSite
