SPECIFICATION Spec
CONSTANTS
  h1 = h1
  p1 = p1
  Host = {h1}
  Prefix = {p1}
  Members <- Carpeted
  Span <- MCSpan
  Config <- CarpetPolicies
  NoConfig = none
  Horizon = 1
  MayFail = {}
  Outgoing = FALSE
  Hysteresis = 1
  EventCap = 1
  Lifecycle = lifecycle
  Heartbeats = heartbeats
  Api = api
  Sweeper = sweeper
  NoEvent = noevent
  Prompt = TRUE
PROPERTIES
  ImplementsMitigator
