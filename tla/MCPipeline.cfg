SPECIFICATION FairSpec
CONSTANTS
  h1 = h1
  p1 = p1
  Host = {h1}
  Prefix = {}
  Members <- NoCarpet
  Span <- MCSpan
  Config <- HostPolicies
  NoConfig = none
  Horizon = 1
  MayFail = {"announce"}
  Outgoing = TRUE
  Hysteresis = 1
  EventCap = 1
  Lifecycle = lifecycle
  Heartbeats = heartbeats
  Api = api
  Sweeper = sweeper
  NoEvent = noevent
  Prompt = TRUE
INVARIANTS
  MitigatedUntilOver
  ReleasedAtEnd
PROPERTIES
  HeldUntilReleased
  ComesDownAfterAttack
