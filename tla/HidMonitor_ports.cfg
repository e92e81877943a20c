SPECIFICATION FairSpec
CONSTANTS
  d1 = d1
  d2 = d2
  hub = hub
  nobody = nobody
  Devices = {d1, d2, hub}
  Nobody = nobody
  MaxDevices = 2
  MaxFiles = 4
  Capacity = 1
  MaxHandlers = 3
  Scenarios <- MCScenarios
INVARIANTS
  SlotsAccounted
  StoredIsOpen
PROPERTIES
  GoneIsNoticed
  PluggedIsGreeted
  CloseReleases
CHECK_DEADLOCK FALSE
