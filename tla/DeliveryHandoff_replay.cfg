SPECIFICATION FairSpec
CONSTANTS
  Delivery = {d1, d2}
  Post = {p1}
  Body = {b1}
  NoBody = NoBody
  Task = {t1}
  NoTask = NoTask
  ReplayLimit = 1
PROPERTIES
  StoredIsSent
