SPECIFICATION Spec
CONSTANTS
  h1 = h1
  w1 = w1
  sweeper = sweeper
  none = none
  Host <- MCHost
  Prefix = {}
  Members <- MCMembers
  Span <- MCSpan
  Worker = {w1}
  Sweeper = sweeper
  NoConfig = none
  Config <- MCConfig
  Horizon = 3
  MayFail = {"announce", "install", "withdraw"}
INVARIANTS
  NoStrandedMitigation
  ReportedIsEnforced
