SPECIFICATION StoresSpec
CONSTANTS
  Procs = {p, q}
  Places = {here, there}
  MaxWrites = 2
  MaxTries = 2
  MaxFaults = 1
  MaxRestores = 1
  MaxChanges = 5
  Servers = {p}
  Runs = {r, s}
  Cells <- MCChannel
  Targets = {"result"}
  Old = "k1"
  New = "k2"
  MaxText = 2
  MaxKeyFaults = 1
  Openers = {a, b}
  Origins = {"fresh", "v1.6", "v2.2", "v2.16", "v2.22"}
  Together = {"v2.22"}
  MaxCrashes = 1
INVARIANTS RetiredUnneeded
CHECK_DEADLOCK FALSE
