SPECIFICATION Spec
CONSTANTS
  h1 = h1
  s1 = s1
  s2 = s2
  v1 = v1
  v2 = v2
  d1 = d1
  g1 = g1
  a1 = a1
  a2 = a2
  a6 = a6
  own1 = own1
  site1 = site1
  cl1 = cl1
  cl2 = cl2
  sec1 = sec1
  sec2 = sec2
  box1 = box1
  box2 = box2
  Host = {h1}
  Prefix = {}
  Members <- MCMembers
  Span <- MCSpan
  Worker = {w1}
  Sweeper = sweeper
  NoConfig = noconfig
  Config <- MCConfig
  Horizon = 1
  Helper = TRUE
  NoSnap = nosnap
  BanMayFail = {"announce", "install", "save", "load"}
  Pair <- MCPair
  Ttl = 1
  PerSource = 2
  Budget = 2
  Policies <- MCPolicies
  Free = free
  Victim = {v1, v2}
  Slots = 2
  Profiles = 1
  Rate = {1}
  Policy = {p1, p2}
  NoVictim = novictim
  NoPolicy = nopolicy
  MapMayFail = {"victim"}
  Address = {d1}
  Ingest = {i1, i2}
  Group = {g1}
  Window = 1
  Lag = 1
  Volume = {1}
  PerSecond = 3
  Setting <- MCSetting
  Factor = 2
  Floor = 1
  Warmup = 1
  Hysteresis = 1
  LastSecond = 3
  NoFlow = noflow
  Attack = {k1, k2}
  Audit = {x1}
  Channel = {c1}
  EventCap = 2
  QueueSize = 1
  BatchSize = 1
  MaxRecent = 1
  MaxSlots = 1
  Protected = {a1, a2, a6}
  V6 = {a6}
  Files <- MCFiles
  ZoneFiles <- MCZoneFiles
  Reloader = {"signal", "api"}
  Edits = 1
  None = none
  Client = {cl1, cl2}
  Owned = {own1}
  Site = {site1}
  Box = {box1}
  Bears <- MCBears
  ApiConf <- MCApiConf
  MaxHolds = 1
  Edge = {box1}
  Domain = {1, 2}
  Placing <- MCPlacing
  Changes = 2
  Closes <- MCCloses
  NoReport = noreport
  Polls = 2
  Stale = 2
  Period = 1
INVARIANTS
  FileCurrent
  RestartStrandsNothing
  TableIsKernel
  OperatorReserve
  LiveMapsWhole
  MeasurementHonest
  ToldOnce
  LiveIsSound
  AccessHonest
  HistoryHonest
  PresenceTold
PROPERTY
  RestartKeepsRoute
\* A process that was stopped, and files edited as often as they may be, are the end.
CHECK_DEADLOCK FALSE
