SPECIFICATION BurstSpec
CONSTANTS
  NbDesc = 3
  Buffers = {b1, b2, b3}
  NbPkts = 2
  NULL = NULL
INVARIANTS BuffersConserved CardOwnsPending DequeueInOrder RefillFits
PROPERTIES PacketsDelivered CardIsFed
