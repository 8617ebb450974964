SPECIFICATION Spec
CONSTANTS
  a1 = a1
  h = h
  p1 = p1
  p2 = p2
  system = system
  none = none
  Agents = {a1}
  Outsiders = {h}
  Senders = {a1}
  SystemName = system
  Procs = {p1, p2}
  MaxMessages = 2
  MaxSessions = 1
  Priorities = {0}
  ReadLimit = 2
  ReadModes <- RaceReads
  NoOne = none
SYMMETRY Symmetry
CHECK_DEADLOCK FALSE
INVARIANTS
  TypeOK
  SeqUnique
PROPERTIES
  ImplementsLog
  UndeliveredKept
