SPECIFICATION Spec
CONSTANTS
  Delivery = {d1, d2, e}
  StartDelivery = {d1, d2}
  NoDelivery = NoDelivery
  Worker = {w1}
  MaxRun = 2
  MaxRevision = 1
  MaxAttempts = 2
  BatchSize = 1
SYMMETRY WorkerSymmetry
CHECK_DEADLOCK FALSE
INVARIANTS
  EventReachesItsRun
