\* A ring of four bytes that is filled, emptied and wrapped twice over.
SPECIFICATION FairSpec
CONSTANTS
  Size = 4
  MaxSent = 8
  MaxLen = 4
INVARIANTS
  TypeOK
  NoByteRace
  WaitingIntact
  PromisesKept
  NoUseAfterCleanup
PROPERTIES
  StreamSpec
  Delivered
