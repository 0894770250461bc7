CONSTANTS
  Period = 3
  Wdt = 20
  QueueSize = 10
  MaxWork = 2
SPECIFICATION FastSpec
CHECK_DEADLOCK FALSE
INVARIANTS
  NeverBites
PROPERTIES
  CatchesUp
