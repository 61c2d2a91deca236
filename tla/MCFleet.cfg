SPECIFICATION Spec
CONSTANTS
  n1 = n1
  n2 = n2
  Order <- MCOrder
  Stale = 2
  Slack = 1
  MaxOpen = 2
  ConfSet <- MCConfSet
  NoNode = nonode
  Ttl = 2
  WatchOnly = FALSE
  HoldCap = 2
  MayFail = {"install", "withdraw", "enumerate", "network"}
  NoEntry = noentry
  NoDoc = nodoc
  Adopted = adopted
  Iface = {e0, e1}
  Index = {1, 2}
  Build = {1, 2}
  Mode = {native, generic}
  AutoMode = auto
  Backoff = 2
  Holder = {n1, n2}
  NoHolder = noholder
  Lease = 2
  SlotWait = 3
  FallbackAfter = 2
  Upsets = 2
\* An ACME order that fails for good with nothing left to change is the end.
CHECK_DEADLOCK FALSE
INVARIANTS
  RouteFollowsBan
  SleeperWillHear
  NodeEnforcesDocument
  CertificatesSafe
PROPERTIES
  MovedOnlyWhenLost
  NoUnfilteredGap
  LossRepaired
