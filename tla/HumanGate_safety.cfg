SPECIFICATION Spec
CONSTANTS
  Outsider = {"user", "bot", "review"}
  MaxVisit = 3
  MaxMove = 5
  MaxOutside = 2
  MaxFault = 1
CHECK_DEADLOCK FALSE
INVARIANTS
  TypeOK
  DecidedByPerson
  OneMovePerOperation
PROPERTIES
  RepairBeforeChoice
  
