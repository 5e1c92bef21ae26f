SPECIFICATION Spec
CONSTANTS
  Size = 8
  FrameCount = 2
  FrameStart <- StraddlingStarts
  Opcode <- StraddlingOpcodes
  RecordEnds <- StraddlingRecords
  ResponseLen = 3
  MaxEarly = 4
  MaxRecv = 4
  MaxSslRead = 4
  MaxAttempts = 2
  MaxReads = 3
  MaxRounds = 2
  RetryReads = 2
  PeerMayClose = FALSE
  AppMayClose = FALSE
INVARIANTS
  StaysInRing
