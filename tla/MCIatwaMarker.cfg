CONSTANTS
  Period = 3
  Wdt = 20
  QueueSize = 10
  MaxWork = 2
SPECIFICATION Spec
CHECK_DEADLOCK FALSE
INVARIANTS
  MarkerHeadsBoot
