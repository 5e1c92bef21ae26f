\* Two objects without TLS, or one with.
SPECIFICATION Spec
CONSTANTS
  PlainObjects = {a, b}
  TlsObjects = {a}
  MaxFd = 5
  Endings = {"rejected", "close_frame", "eof", "tls_closed"}
INVARIANTS
  OwnDescriptors
  NoStrayClose
  ErrorOnce
  NothingLeftOpen
  ClosedMeansClosed
