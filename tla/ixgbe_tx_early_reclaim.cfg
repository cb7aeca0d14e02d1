SPECIFICATION Spec
CONSTANTS
  NbDesc = 6
  RsThresh = 2
  MaxBurst = 2
  MaxFreeBufSz = 4
  Buffers = {b1, b2, b3}
  NULL = NULL
SYMMETRY MCSymmetry
INVARIANTS CardOwnsPending
