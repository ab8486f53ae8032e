SPECIFICATION Spec
CONSTANTS
  r1 = r1
  r2 = r2
  Request = {r1, r2}
  NoRequest = NoRequest
  Item = {i1}
  CallsEndInTime = TRUE
CONSTRAINT SecondLeaseBegins
SYMMETRY Symmetry
CHECK_DEADLOCK FALSE
INVARIANTS
  TypeOK
  OneOwner
  NoOvertaking
  StoppedMeansStopped
  NextOwnerMeetsNothing
  CompleteMeansPassed
  AcceptedWorkIsFinished
  FencedForGood
