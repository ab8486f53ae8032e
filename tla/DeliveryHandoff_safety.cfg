SPECIFICATION Spec
CONSTANTS
  Delivery = {d1}
  Post = {p1, p2}
  Body = {b1, b2}
  NoBody = NoBody
  Task = {t1, t2, t3}
  NoTask = NoTask
  ReplayLimit = 1
SYMMETRY Symmetry
INVARIANTS
  TypeOK
  QueuedMatchesReceipt
  SentWasQueued
PROPERTIES
  LeaseRespected
  ImplementsOutbox
