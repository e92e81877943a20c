SPECIFICATION FairLifecycle
CONSTANTS
  c1 = c1
  c2 = c2
  Starters = {c1, c2}
  MaxStarts = 4
  MaxStops = 2
INVARIANTS
  RunningIsUp
PROPERTIES
  LoopsEnd
CHECK_DEADLOCK FALSE
