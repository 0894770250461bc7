CONSTANTS
  Period = 3
  Wdt = 20
  QueueSize = 10
  MaxWork = 20
SPECIFICATION FairSpec
CHECK_DEADLOCK FALSE
INVARIANTS
  TypeOK
  QueueNeverFull
  NoTickLost
  SleepsOverOne
PROPERTIES
  NoHangSurvives
