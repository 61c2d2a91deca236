SPECIFICATION BeatenSpec
CONSTANTS
  h1 = h1
  p1 = p1
  w1 = w1
  sweeper = sweeper
  none = none
  Host <- MCHost
  Prefix <- MCPrefix
  Members <- MCMembers
  Span <- MCSpan
  Worker = {w1}
  Sweeper = sweeper
  NoConfig = none
  Config <- MCConfig
  Horizon = 4
  MayFail = {}
INVARIANTS
  KernelAhead
