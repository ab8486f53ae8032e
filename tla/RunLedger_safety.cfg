SPECIFICATION Spec
CONSTANTS
  Deliveries = {d1}
  NoDelivery = none
  Replies = {"received", "canceled", "rejected"}
  Operators = {o1}
  MaxVisit = 5
  MaxFaults = 1
CHECK_DEADLOCK FALSE
CONSTRAINT OneReplacement
INVARIANTS
  TypeOK
  LedgerIsWalk
  OpenWaitIsCurrent
  EventAppliesOnce
PROPERTIES
  FinalStands
