SPECIFICATION Spec
CONSTANTS
  a1 = a1
  a2 = a2
  c1 = c1
  p1 = p1
  p2 = p2
  NoOne = NoOne
  Agents = {a1, a2}
  Humans = {}
  Caps = {c1}
  Declared = {{c1}}
  Statuses = {"idle"}
  Procs = {p1, p2}
  MaxTasks = 1
  Priorities = {0}
  AutoAssignLimit = 20
  ScanLimit = 50
SYMMETRY Symmetry
INVARIANTS
  TypeOK
  WellAssigned
PROPERTIES
  ActorsEntitled
  OfferKept
  NoTheft
  ImplementsLedger
