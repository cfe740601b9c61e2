CONSTANTS
  Cap = 4
  Frames <- PeerFrames
  RequireMask = TRUE
  Pieces = {3, 20}
  MaxSent = 3
  Near = 70
  Boundaries = {0, 126, 256, 65536, 16777216}
CHECK_DEADLOCK FALSE
SPECIFICATION FairReceiveSpec
INVARIANTS Reassembly MemoryBounded EncodersReadBack
PROPERTY EveryFrameConsumed
