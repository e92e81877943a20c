SPECIFICATION Spec
CONSTANTS
  Loop = loop
  AppProcs = {app1, app2}
  ConfigValues = {1}
  Addresses = {1}
  MaxConfigurations = 2
  Endpoints = {129}
  IsoEndpoints = {129}
  Interfaces = {0}
  EndpointsOf <- MCEndpointsOf
  InterfacesOf <- MCInterfacesOf
  Alternates = {0, 1}
  AppCalls = {"AddConfiguration", "Suspend", "Resume", "Close", "EnableRemoteWakeup"}
  Submissions <- MCUndo
  HalFaults = TRUE
INVARIANTS
  ActiveConfigRegistered
