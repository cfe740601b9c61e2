CONSTANTS
  Conn = {c1, c2}
  Caster = {b1, b2}
  Stalled = {c1}
  Parts = 2
  MaxFrames = 2
  MaxCasts = 2
  None = None
CHECK_DEADLOCK FALSE
SPECIFICATION FairSpec
INVARIANTS FramesWhole LaterBroadcastsSkipRemoved
PROPERTY RemoveReturns
