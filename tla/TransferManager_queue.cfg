SPECIFICATION FairSpec
CONSTANTS
  t1 = t1
  t2 = t2
  w1 = w1
  w2 = w2
  c1 = c1
  c2 = c2
  Transfers = {t1, t2}
  OwnContext = {t2}
  NoTransfer = none
  Workers = {w1, w2}
  Callers = {c1, c2}
  JobCapacity = 1
  MaxStops = 2
INVARIANTS
  OneCallback
  CalledIsNotPending
PROPERTY StopDrains
CHECK_DEADLOCK FALSE
