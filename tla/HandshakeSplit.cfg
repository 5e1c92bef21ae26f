SPECIFICATION HandshakeSpec
CONSTANTS
  Responses <- Usual
  StatusLen = 2
  SearchLimit = 4
  Substantial = 8
  CopyLen = 11
  DummyLen = 12
  Lookalike = 9
  CutInBlank = TRUE
INVARIANTS
  FramesAfterHeaders
CHECK_DEADLOCK FALSE
