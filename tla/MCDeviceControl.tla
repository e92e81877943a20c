--------------------------- MODULE MCDeviceControl ---------------------------
(* A device with two configurations of one interface and one endpoint      *)
(* each, and a host that submits every kind of control request.            *)
EXTENDS DeviceControl

MCEndpointsOf  == [v \in ConfigValues |-> IF v = 1 THEN Endpoints ELSE {}]
MCInterfacesOf == [v \in ConfigValues |-> IF v = 1 THEN Interfaces ELSE {}]

R(n, v, i, l) == [name |-> n, value |-> v, index |-> i, length |-> l]

(* Requests that change the device, with an unknown configuration value.   *)
MCControl ==
  {R("SetAddress", a, 0, 0) : a \in Addresses \union {0}} \union
  {R("SetConfiguration", v, 0, 0) : v \in ConfigValues \union {0, 9}} \union
  {R("SetWakeup", 1, 0, 0), R("ClearWakeup", 1, 0, 0)}

MCFeatures ==
  {R(n, 0, e, 0) : n \in {"SetHalt", "ClearHalt"}, e \in Endpoints \union {0}} \union
  {R("SetInterface", a, i, 0) : a \in Alternates, i \in Interfaces}

MCQueries ==
  {R("GetStatus", 0, 0, l) : l \in {1, 2}} \union
  {R("GetInterfaceStatus", 0, 0, l) : l \in {1, 2}} \union
  {R("GetEndpointStatus", 0, e, 2) : e \in Endpoints} \union
  {R("GetConfiguration", 0, 0, 1), R("GetDescriptor", 0, 0, 9), R("GetDescriptor", 1, 0, 9),
   R("GetDescriptor", 0, 0, 0), R("GetInterface", 0, 0, 1),
   R("Unsupported", 0, 0, 0), R("InterfaceFeature", 0, 9, 0),
   R("SynchFrame", 0, 129, 2), R("SynchFrame", 0, 0, 2), R("ClassOut", 0, 0, 7), R("ClassIn", 0, 0, 7)}

MCAnswered == MCControl \union MCFeatures \union MCQueries

(* A host that addresses and configures the device.                        *)
MCLifecycle == {R("SetAddress", 1, 0, 0), R("SetConfiguration", 1, 0, 0)}
MCUndo      == MCLifecycle \union {R("SetAddress", 0, 0, 0), R("SetConfiguration", 0, 0, 0)}
=============================================================================
