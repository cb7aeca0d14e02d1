SPECIFICATION Spec
CONSTANTS
  NbDesc = 4
  Buffers = {b1, b2, b3, b4}
  NULL = NULL
SYMMETRY MCSymmetry
INVARIANTS KeepsOneDescriptor
