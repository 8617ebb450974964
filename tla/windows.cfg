SPECIFICATION WindowsSpec
CONSTANTS
  WindowPids = {p1}
  Binders = {b1, b2}
  Conversations = {x, y}
  MaxBoots = 2
  MaxBindings = 3
  MaxAttempts = 2
  Watchers = {p, q}
  Ids = {i}
  MaxGen = 2
  MaxReaders = 2
  MaxFaults = 1
  PairWakes = 1
  TakeoverRounds = 3
  Transports = {t1, t2, t3, t4}
  External = {"initial", "config", "manual"}
  LinkFaults = {"tokenRefused", "timeout", "streamRefused"}
  MaxStops = 2
  MaxExternal = 2
  FailThreshold = 2
  Looks = {l1, l2}
  Slots = {1, 2}
  MaxMail = 2
  MaxHarm = 1
  MaxSpecs = 3
  MaxRestarts = 2
  RestartWindow = 2
  MaxCrashes = 4
  Mail = {m, n}
  StuckAge = 1
  BaseAge = 2
  GraceAge = 3
  MaxPurgeDeaths = 1
PROPERTIES
  ChainKept
  PresenceTrue
  WakesHeard
  DropsKnown
  
CHECK_DEADLOCK FALSE
