SPECIFICATION FairSpec
CONSTANTS
  a1 = a1
  a2 = a2
  p1 = p1
  NoOne = NoOne
  Agents = {a1, a2}
  Humans = {}
  Caps = {}
  Declared = {{}}
  Statuses = {"idle", "working", "offline"}
  Procs = {p1}
  MaxTasks = 1
  Priorities = {0}
  AutoAssignLimit = 20
  ScanLimit = 50
PROPERTIES
  GoneReleased
