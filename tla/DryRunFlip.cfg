SPECIFICATION TrialSpec
CONSTANTS
  h1 = h1
  w1 = w1
  sweeper = sweeper
  none = none
  Host <- MCHost
  Prefix = {}
  Members <- MCMembers
  Span <- MCSpan
  Worker = {w1}
  Sweeper = sweeper
  NoConfig = none
  Config <- DryRunFlip
  Horizon = 4
  MayFail = {}
INVARIANTS
  NoStrandedMitigation
