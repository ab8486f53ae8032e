SPECIFICATION Spec
CONSTANTS
  c1 = c1
  c2 = c2
  Attempts <- OneAttempt
  Calls = {c1, c2}
  Overlap = TRUE
  Retention = TRUE
  Operator = TRUE
  MaxFaults = 1
  MaxVisits = 1
  MaxPuts = 4
SYMMETRY CallSlots
INVARIANTS
  TypeOK
  
  AcceptedLeavesNoLogin
  EndedMeansStopped
PROPERTY
  EndStands
