CONSTANTS
  e1 = e1
  e2 = e2
  None = None
  Event <- MCEvent
  QueueSize = 3
  Levels = 2
SPECIFICATION FairSpec
INVARIANTS
  TypeOK
  OneWriterPerSlot
  HandlerSlotKept
PROPERTIES
  IsFifo
