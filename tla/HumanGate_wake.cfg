SPECIFICATION FairSpec
CONSTANTS
  Outsider = {"user", "stranger"}
  MaxVisit = 3
  MaxMove = 3
  MaxOutside = 1
  MaxFault = 2
CHECK_DEADLOCK FALSE
PROPERTIES
  WakeIsTaken
