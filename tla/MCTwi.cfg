CONSTANTS
  bmp388 = bmp388
  smpb = smpb
  dps368 = dps368
  Addr <- MCAddr
  Clients <- MCClients
  Present <- MCClients
  MaxMsg = 2
  MaxSize = 3
SPECIFICATION FairSpec
CHECK_DEADLOCK FALSE
INVARIANTS
  TypeOK
  BusZeroQuiet
  WaitEndsOnOwnTransfer
  HonestSuccess
  NoLostCompletion
PROPERTIES
  NeverRescued
  LiveBuffer
  ReturnsOrHangs
  KeepsPromise
