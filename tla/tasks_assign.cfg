SPECIFICATION FairSpec
CONSTANTS
  a1 = a1
  c1 = c1
  p1 = p1
  NoOne = NoOne
  Agents = {a1}
  Humans = {}
  Caps = {c1}
  Declared = {{}, {c1}}
  Statuses = {"idle", "working", "offline"}
  Procs = {p1}
  MaxTasks = 2
  Priorities = {0}
  AutoAssignLimit = 2
  ScanLimit = 50
PROPERTIES
  QueuedAssigned
