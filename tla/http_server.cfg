CONSTANTS
  Worker = {w1, w2}
  Client = {c1, c2}
  Stopper = {s1, s2}
  MaxHeader = 1
  MaxBody = 1
  ReadTimeout = 1
  Upgrades = TRUE
  WsThrows = TRUE
  PeersReset = TRUE
  EarlyStop = FALSE
  None = None
CHECK_DEADLOCK FALSE
SPECIFICATION FairSpec
INVARIANT DescriptorsOwned
PROPERTIES NoAcceptAfterStop EveryClientAnswered StopReturns
