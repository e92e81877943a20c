SPECIFICATION FairSpec
CONSTANTS
  d1 = d1
  d2 = d2
  nobody = nobody
  Dirs = {d1, d2}
  Nobody = nobody
  ChannelCapacity = 1
  Scenarios <- MCScenarios
INVARIANTS
  ConnectionsAccounted
  AnswerLag
PROPERTIES
  StartedIsReported
  StopReturns
CHECK_DEADLOCK FALSE
