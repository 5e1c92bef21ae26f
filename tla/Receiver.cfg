\* One recvmsg returns less than the ring holds, no frame straddles its end.
SPECIFICATION FairSpec
CONSTANTS
  Size = 8
  FrameCount = 7
  FrameStart <- FittingStarts
  Opcode <- FittingOpcodes
  RecordEnds <- FittingRecords
  ResponseLen = 3
  MaxEarly = 4
  MaxRecv = 4
  MaxSslRead = 4
  MaxAttempts = 2
  MaxReads = 3
  MaxRounds = 2
  RetryReads = 2
  PeerMayClose = TRUE
  AppMayClose = TRUE
INVARIANTS
  TypeOK
  StaysInRing
  NothingLost
  Drained
PROPERTIES
  ImplementsChannel
  ChannelDelivers
