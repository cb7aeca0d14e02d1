SPECIFICATION TimerSpec
CONSTANTS
  Lcores = {l1, l2}
  Timers = {ta, tb}
  Ticks = {1}
  MaxTime = 2
  Callers = {l1}
  CbCalls = 1
  NONE = NONE
INVARIANT ListsMatchStatus
INVARIANT StoppedUnreferenced
INVARIANT FirstExpiryCached
PROPERTY ExpiredRuns
