SPECIFICATION FairSpec
CONSTANTS
  a1 = a1
  a2 = a2
  serial = serial
  keyboard = keyboard
  Apps = {a1, a2}
  Values = {1, 2}
  MaxConfigurations = 4
  MaxInterfaces = 8
  MaxEndpoints = 16
  MaxAssociations = 4
  BufferSize = 71
  Serials = {serial}
  Hids = {keyboard}
  Plans <- QuietWriter
PROPERTIES
  MarshalReturns
CHECK_DEADLOCK FALSE
