SPECIFICATION Spec
CONSTANTS
  Delivery = {d1, d2}
  StartDelivery = {d1, d2}
  NoDelivery = NoDelivery
  Worker = {w1, w2}
  MaxRun = 2
  MaxRevision = 3
  MaxAttempts = 2
  BatchSize = 2
CONSTRAINT EditsOrRetries
SYMMETRY StartSymmetry
CHECK_DEADLOCK FALSE
INVARIANTS
  TypeOK
  
PROPERTIES
  ImplementsIssueRuns
  
