SPECIFICATION Spec
CONSTANTS
  PlainObjects = {a}
  TlsObjects = {a, b}
  MaxFd = 5
  Endings = {}
INVARIANTS
  OwnDescriptors
