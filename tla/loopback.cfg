SPECIFICATION Spec
CONSTANTS
  Size = 4
  Msgs = {m1, m2}
  NULL = NULL
PROPERTIES ImplementsFifo
CHECK_DEADLOCK FALSE
