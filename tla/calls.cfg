SPECIFICATION CallsSpec
CONSTANTS
  Windows = {w1, w2}
  MaxSessions = 2
  MaxStarts = 1
  Names = {a}
  Calls = {c1}
  MaxSecrets = 4
  MaxNow = 1
  GraceTicks = 1
  CacheTicks = 1
  CapNames = {"a"}
  CapTags = {"c", "d"}
  CapProcs = {p, q}
  MaxLives = 2
  ChanAgents = {"a", "b"}
  ChanProcs = {p, q}
  Limit = 1
  MaxPosts = 2
  MaxClock = 2
  Transport = {"s1", "s2"}
  Dashboard = {"d1", "d2"}
  Sources = {"a", "b"}
  Proxy = "px"
  PerMinute = 1
  MaxTokens = 3
  Recipients = {"a"}
  Desks = {"p", "q"}
  MaxPosted = 2
  MaxWindows = 1
  PageSize = 1
  Readings <- MCReadings
  Dispositions = {"ask"}
SYMMETRY Symmetry
INVARIANTS
  CapabilitiesAgree
PROPERTIES
  
  HoldsRespected
  PostsReadable
  EdgeHolds
  
  ReceiptsTrue
CHECK_DEADLOCK FALSE
