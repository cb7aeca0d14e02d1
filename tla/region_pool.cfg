SPECIFICATION ReplicaSpec
CONSTANTS
  InitPoolSize = 2
  U16 = 8
  U64 = 64
  RegionOffsets = {3}
  Areas <- MCAreas
  AddIds = {}
  RemoveIds <- MCIds
  AllocMayFail = FALSE
  ChanCap = 2
  Vaddr <- MCVaddr
  NULL = NULL
INVARIANTS SlotSearchTerminates RegionsDisjoint TranslationsInvert ReplicaFollows
