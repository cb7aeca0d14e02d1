SPECIFICATION FairSpec
CONSTANTS
  Slots = 2
  MaxSeq = 5
  Regions = {r1, r2}
  BufsPerRegion = 2
  Rids = {i1, i2}
  Registrars = {"a"}
  OrderedStart = TRUE
  NULL = NULL
INVARIANTS BuffersConserved NoBufferLost
PROPERTIES ImplementsFifo EverythingArrives RegisterReturns
CHECK_DEADLOCK FALSE
