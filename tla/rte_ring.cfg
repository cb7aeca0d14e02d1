SPECIFICATION Spec
CONSTANTS
  t1 = t1
  t2 = t2
  t3 = t3
  o1 = o1
  o2 = o2
  NULL = NULL
  Threads = {t1, t2, t3}
  Objs = {o1, o2}
  Size = 4
  Capacity = 3
  U32 = 8
  Calls <- MCCalls
INVARIANT Reservations
PROPERTY RingIsFifo
PROPERTY ReservationsPublished
