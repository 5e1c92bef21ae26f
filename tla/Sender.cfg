SPECIFICATION Spec
CONSTANTS
  Capacity = 9
  SendBuffer = 5
  Requests = {4, 6}
  Payloads = {0, 3}
  MaxFrames = 4
  MaxRepeats = 1
INVARIANTS
  TypeOK
  InCallOrder
  AcceptedIntact
PROPERTIES
  NextSendFlushes
CHECK_DEADLOCK FALSE
