SPECIFICATION FairSpec
CONSTANTS
  t1 = t1
  t2 = t2
  w1 = w1
  w2 = w2
  w3 = w3
  c1 = c1
  c2 = c2
  epIn = epIn
  Transfers = {t1, t2}
  NoTransfer = none
  Endpoints = {epIn}
  EndpointOf <- MCOneEndpoint
  Workers = {w1, w2}
  Callers = {c1}
  MaxPending = 1
  MaxSubmissions = 2
INVARIANTS
  NoSlotLeaked
  OneCallback
  FirstSubmissionReachable
PROPERTY ContextEndsTransfer
