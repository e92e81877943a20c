SPECIFICATION FairSpec
CONSTANTS
  Loop = loop
  AppProcs = {app}
  ConfigValues = {1, 2}
  Addresses = {1}
  MaxConfigurations = 2
  Endpoints = {129}
  IsoEndpoints = {129}
  Interfaces = {0}
  EndpointsOf <- MCEndpointsOf
  InterfacesOf <- MCInterfacesOf
  Alternates = {0, 1}
  AppCalls = {"AddConfiguration"}
  Submissions <- MCAnswered
  HalFaults = TRUE
INVARIANTS
  StateCoherent
  RefusalContained
  HostBeliefHolds
PROPERTIES
  ImplementsUsbDevice
  RequestAnswered
