SPECIFICATION Spec
CONSTANTS
  d1 = d1
  d2 = d2
  d3 = d3
  NoDev = nodev
  Ports = {1, 2}
  Devs = {d1, d2, d3}
  MaxDevices = 2
  Monitors = {1}
  Scenarios <- MCServing
SYMMETRY MCSymmetry
INVARIANTS
  ConnectedIsKept
CHECK_DEADLOCK FALSE
