SPECIFICATION Spec
CONSTANTS
  Configs <- ShortTimeouts
  TxMayBeFull = TRUE
  MaxNow = 10
  MaxPings = 2
INVARIANTS
  TypeOK
  AlarmJustified
  NoFalseAlarm
  SilenceDetected
