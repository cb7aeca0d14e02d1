SPECIFICATION DebugSpec
CONSTANTS
  OwnRids = {r1}
  ForeignRids = {f1}
  RegionLen = 8
  Bufs <- MCBufs
  PeerBufs <- MCPeerBufs
  Cap = 3
  MaxEntries = 2
  NONE = NONE
INVARIANTS ChunksExact ChunksMerged ReturnsAccepted
CHECK_DEADLOCK FALSE
