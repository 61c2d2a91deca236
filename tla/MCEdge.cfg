SPECIFICATION Spec
CONSTANTS
  n1 = n1
  n2 = n2
  z1 = z1
  s1 = s1
  s2 = s2
  f1 = f1
  f2 = f2
  Doc = {d1, d2, bad}
  Valid = {d1, d2}
  NoDoc = nodoc
  Unreadable = {cut}
  Keep = 1
  Faults = 2
  MayFail = {"test", "mark", "write", "reload", "restore", "save", "kill"}
  Node = {n1, n2}
  ConfSet <- MCConfSet
  Ttl = 2
  Holder = {n1}
  Path = {"a", "b"}
  Foreign = {}
  Secret = {1, 2, 3, 4, 5, 6, 7, 8, 9, 10}
  Epoch = 1
  MaxTtl = 1
  Zone = {z1}
  Src = {s1, s2}
  Every = every
  Target <- MCTarget
  MaxEntries = 2
  Levers = {"off"}
  FullEvery = 1
  MaxSources = 1
  MinQuota = 1
  Rps = 2
  Concurrency = 1
  Earn = 1
  Idle = 2
  MaxAge = 1
  SweepEvery = 2
  Pending = 2
  LogZone = {"a"}
  LogSource = {1, 2, 3}
  LogKind = {"allowed", "would deny"}
  MaxPairs = 2
  TopSources = 1
  Records = 3
  Length = 1
  NoRecord = norecord
  Flooder = {f1, f2}
  Closed <- MCClosed
  FloodMin = 2
  FloodShare = 30
  DenyTtl = 1
  MaxDenyTtl = 2
  ChallengeTtl = 2
  RepeatMemory = 3
  MaxRepeats = 1
  ZoneRps = 1
  FlipHold = 1
  Lines = 2
  Rotations = 2
  Window = 1
  BlockTtl = 3
  NoFile = nofile
\* A node with its faults used up and nothing published stops.
CHECK_DEADLOCK FALSE
INVARIANTS
  NotModifiedIsCurrent
  ClearanceHonoured
  VerdictsStand
  CeilingsHonest
  FloodsJudged
PROPERTIES
  ImplementsGate
  LatestServed
  ZonesReach
ACTION_CONSTRAINT PublishedAtPoll
