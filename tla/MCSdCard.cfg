CONSTANTS
  MaxRetryInit = 2
  MaxRetry = 2
  MaxBlocks = 2
  MaxIo = 3
SPECIFICATION FairSpec
INVARIANTS
  TypeOK
  LayersAgree
  TriesReachCard
PROPERTIES
  KeepsPromise
