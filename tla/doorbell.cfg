SPECIFICATION DoorbellSpec
CONSTANTS
  Mails = {m, n}
  MaxReading = 2
  MaxOldMails = 0
  MaxJobStarts = 2
  EscalateAfter = 2
  ReRingCap = 2
  Window = 1
  Horizon = 2
  Hour = 3
  Budget = 2
  Inodes = {1, 2, 3}
  MaxIntents = 2
  MaxStarts = 2
  MaxLosses = 1
  FailingAfter = 2
  StaleAfter = 1
  WaitGrace = 1
  Jump = 1
  Windows = {w1, w2}
  BlindAfter = 2
  MaxStops = 1
PROPERTIES
  
  
  ReportsTrue
CHECK_DEADLOCK FALSE
