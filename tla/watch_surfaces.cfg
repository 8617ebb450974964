SPECIFICATION WatchSpec
CONSTANTS
  a1 = a1
  p1 = p1
  system = system
  none = none
  Agents = {a1}
  Outsiders = {}
  Senders = {system}
  SystemName = system
  Procs = {p1}
  MaxMessages = 2
  MaxSessions = 1
  Priorities = {0}
  ReadLimit = 2
  ReadModes <- OnlyPending
  NoOne = none
  Watched = a1
CHECK_DEADLOCK FALSE
PROPERTY SurfacesMail
