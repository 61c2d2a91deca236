SPECIFICATION Spec
CONSTANTS
  h1 = h1
  p1 = p1
  Host = {h1}
  Prefix = {}
  Members <- NoCarpet
  Span <- MCSpan
  Config <- OnePolicy
  NoConfig = none
  Horizon = 1
  MayFail = {}
  Outgoing = TRUE
  Hysteresis = 1
  EventCap = 1
  Lifecycle = lifecycle
  Heartbeats = heartbeats
  Api = api
  Sweeper = sweeper
  NoEvent = noevent
  Prompt = FALSE
INVARIANTS
  ReleasedAtEnd
