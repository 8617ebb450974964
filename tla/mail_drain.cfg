SPECIFICATION FairSpec
CONSTANTS
  a1 = a1
  p1 = p1
  system = system
  none = none
  Agents = {a1}
  Outsiders = {}
  Senders = {system}
  SystemName = system
  Procs = {p1}
  MaxMessages = 2
  MaxSessions = 2
  Priorities = {0, 1}
  ReadLimit = 1
  ReadModes <- EveryKind
  NoOne = none
CHECK_DEADLOCK FALSE
PROPERTY PendingDrained
