SPECIFICATION FairSpec
CONSTANTS
  h1 = h1
  h2 = h2
  p1 = p1
  p2 = p2
  w1 = w1
  sweeper = sweeper
  none = none
  Host <- MCHost
  Prefix <- MCPrefix
  Members <- MCMembers
  Span <- MCSpan
  Worker = {w1}
  Sweeper = sweeper
  NoConfig = none
  Config <- MCConfig
  Horizon = 2
  MayFail = {}
INVARIANTS
  TypeOK
  CapsHeld
  BlastRadiusHeld
PROPERTIES
  NoPermanentBan
  ExcludedComesDown
