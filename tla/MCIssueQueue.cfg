SPECIFICATION QSpec
CONSTANTS
  W = 2
  MaxCapacity = 7
  RobSize = 3
  Capacity = 2
  Pregs = {p1, p2}
  MaxSeq = 4
INVARIANTS
  ScansInAgeOrder
  QueueExact
  NoLostWakeup
  SelectsOldestFirst
PROPERTIES
  RefinesWaiting
CHECK_DEADLOCK FALSE
