SPECIFICATION FairSpec
CONSTANTS
  c1 = c1
  c2 = c2
  Attempts <- TwoAttempts
  Calls = {c1}
  Overlap = FALSE
  Retention = FALSE
  Operator = FALSE
  MaxFaults = 1
  MaxVisits = 2
  MaxPuts = 4
INVARIANTS
  OneAttemptPerVisit
  CompleteManifest

  
