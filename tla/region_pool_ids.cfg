SPECIFICATION SlabSpec
CONSTANTS
  InitPoolSize = 2
  U16 = 16
  U64 = 64
  RegionOffsets = {1}
  Areas <- MCTwoAreas
  AddIds = {0, 1, 2, 7}
  RemoveIds <- MCEightIds
  AllocMayFail = TRUE
  BlocksPerSlab = 2
  NULL = NULL
INVARIANTS LiveIdsResolve CountBounds BlocksConserved
PROPERTIES RegionsSurvive
CHECK_DEADLOCK FALSE
