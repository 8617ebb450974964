SPECIFICATION NetSpec
CONSTANTS
  Agents = {a1, a2}
  Clients = {k1}
  MaxEvents = 2
  MaxForeign = 2
  BatchLimit = 500
  WhProcs = {p, q}
  WhHooks = {"h"}
  WhSlots = {1, 2, 3}
  WhRows = {1}
  MaxWhCrashes = 1
  PubHosts = {"h"}
  PublicIps = {"i1", "i2"}
  PrivateIps = {"lan"}
  MaxRedirects = 1
  MaxIpAttempts = 2
  PageIds = {c1, c2}
  States = {"active", "stale"}
  MaxQueued = 2
  MaxWriteFaults = 1
  Sids = {"i", "j"}
  ReqSlots = {r1, r2, r3}
  MaxMcpSessions = 1
  MaxConcurrent = 2
  Sources = {k1}
  ScanKey = scan
  Checks = {c1, c2}
  Burst <- MCBurst
  MaxKeys = 1
  PoolSize = 2
  MaxPending = 1
  ScanRows = 1
  MaxWorkers = 3
  MaxRefills = 1
INVARIANTS
  NoticesExact
  BaselineTrue
  AttemptsAccounted
PROPERTIES
  RetriesAreExclusive
  DeliveryIsPinned
  SessionsAccounted
  
CHECK_DEADLOCK FALSE
