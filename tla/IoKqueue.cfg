SPECIFICATION FairSpec
CONSTANTS
  Fds = {f1, f2, f3, f4}
  MaxSockets = 3
  MaxAdds = 4
INVARIANTS
  TypeOK
  RegisteredWithSlot
PROPERTIES
  Served
CHECK_DEADLOCK FALSE
