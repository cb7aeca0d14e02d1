SPECIFICATION MCSpec
CONSTANTS
  Regions = {1, 2}
  PerRegion = 2
  Ids = {1, 2, 3}
  MaxRegions = 2
  PoolSize <- MCPoolSize
  Packets <- MCPackets
  Ports = {"peer", "other"}
  DstPort = "peer"
  NbDesc = 3
  RsThresh = 3
  NULL = NULL
INVARIANTS BuffersConserved Addressable 
PROPERTIES FilterExact GoodFramesDelivered
CHECK_DEADLOCK FALSE
