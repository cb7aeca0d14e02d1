SPECIFICATION PolledSpec
CONSTANTS
  NbDesc = 6
  RsThresh = 2
  MaxBurst = 2
  MaxFreeBufSz = 4
  Buffers = {0, 1, 2, 3, 4, 5, 6}
  NULL = NULL
INVARIANTS BuffersConserved ThresholdsAligned FullBatchReclaimSafe CardSeesPosted
PROPERTIES PostedReclaimed
CHECK_DEADLOCK FALSE
