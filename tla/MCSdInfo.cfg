CONSTANTS
  MaxRetryInit = 2
  MaxRetry = 2
  MaxBlocks = 2
  MaxIo = 3
SPECIFICATION Spec
INVARIANTS
  InfoOnlyIfInitialized
