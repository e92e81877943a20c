------------------------------- MODULE Device -------------------------------
(***************************************************************************)
(* The object device.Device of device/device.go: the USB device state, the *)
(* bus address, the active configuration and the registered configurations.*)
(*                                                                         *)
(* Every method of the object takes d.mutex, changes the fields it owns,   *)
(* releases the mutex and only then calls setState, which takes the mutex  *)
(* a second time.  A method is therefore two steps, and steps of methods   *)
(* running on other goroutines fall between them.  call[p] holds the state *)
(* that goroutine p still has to write with setState, or NoCall.           *)
(*                                                                         *)
(* The module has the operations only; DeviceControl runs them.            *)
(***************************************************************************)
EXTENDS Naturals, FiniteSets

CONSTANTS
  Loop,               (* the goroutine running Stack.controlLoop            *)
  AppProcs,           (* the goroutines of the application                  *)
  ConfigValues,       (* bConfigurationValue of the application's           *)
                      (* configurations; 0 stands for the nil pointer       *)
  Addresses,          (* the non-zero bus addresses a host assigns          *)
  MaxConfigurations   (* capacity of Device.configurations                  *)

ASSUME DeviceAssumption ==
  /\ Loop \notin AppProcs
  /\ ConfigValues \subseteq Nat \ {0}
  /\ Addresses \subseteq Nat \ {0}
  /\ MaxConfigurations \in Nat \ {0}

Procs  == AppProcs \union {Loop}
States == {"Attached", "Powered", "Default", "Address", "Configured", "Suspended"}
NoCall == "none"

VARIABLES
  state,            (* Device.state                                         *)
  previousState,    (* Device.previousState                                 *)
  address,          (* Device.address                                       *)
  activeConfig,     (* value of Device.activeConfig, 0 when it is nil       *)
  configurations,   (* values of Device.configurations                      *)
  remoteWakeup,     (* Device.remoteWakeupEnabled                           *)
  call              (* per goroutine, the argument of the setState to come  *)

deviceVars == <<state, previousState, address, activeConfig, configurations,
                remoteWakeup, call>>

DeviceTypeOK ==
  /\ state \in States
  /\ previousState \in States
  /\ address \in Addresses \union {0}
  /\ activeConfig \in ConfigValues \union {0}
  /\ configurations \subseteq ConfigValues
  /\ remoteWakeup \in BOOLEAN
  /\ call \in [Procs -> States \union {NoCall}]

DeviceInit ==
  /\ state = "Attached"
  /\ previousState = "Attached"
  /\ address = 0
  /\ activeConfig = 0
  /\ configurations = {}
  /\ remoteWakeup = FALSE
  /\ call = [p \in Procs |-> NoCall]

-----------------------------------------------------------------------------
Free(p) == call[p] = NoCall

(* The method ends with setState(s), which is still to be run.             *)
WillSet(p, s) == call' = [call EXCEPT ![p] = s]

setState(p) ==
  /\ call[p] # NoCall
  /\ state' = call[p]
  /\ call' = [call EXCEPT ![p] = NoCall]
  /\ UNCHANGED <<previousState, address, activeConfig, configurations, remoteWakeup>>

AddConfiguration(p, v) ==
  /\ Free(p)
  /\ Cardinality(configurations) < MaxConfigurations
  /\ v \notin configurations
  /\ configurations' = configurations \union {v}
  /\ UNCHANGED <<state, previousState, address, activeConfig, remoteWakeup, call>>

(* Mutant of Reset: the configuration survives a bus reset.                *)
ResetKeepsConfig(p) ==
  /\ Free(p)
  /\ address' = 0
  /\ remoteWakeup' = FALSE
  /\ WillSet(p, "Default")
  /\ UNCHANGED <<state, previousState, activeConfig, configurations>>

(* Mutant of Reset: remote wakeup stays enabled over a bus reset.          *)
ResetKeepsWakeup(p) ==
  /\ Free(p)
  /\ address' = 0
  /\ activeConfig' = 0
  /\ WillSet(p, "Default")
  /\ UNCHANGED <<state, previousState, configurations, remoteWakeup>>

Reset(p) ==
  /\ Free(p)
  /\ address' = 0
  /\ activeConfig' = 0
  /\ remoteWakeup' = FALSE
  /\ WillSet(p, "Default")
  /\ UNCHANGED <<state, previousState, configurations>>

CanSetAddress == state \in {"Default", "Address"}

SetAddress(p, a) ==
  /\ Free(p)
  /\ CanSetAddress
  /\ address' = a
  /\ WillSet(p, IF a = 0 THEN "Default" ELSE "Address")
  /\ UNCHANGED <<state, previousState, activeConfig, configurations, remoteWakeup>>

(* Mutant of CanSetConfiguration: an unaddressed device can be configured. *)
CanSetConfigurationEarly(v) ==
  /\ state \in {"Default", "Address", "Configured"}
  /\ v \in configurations \union {0}

CanSetConfiguration(v) ==
  /\ state \in {"Address", "Configured"}
  /\ v \in configurations \union {0}

SetConfiguration(p, v) ==
  /\ Free(p)
  /\ CanSetConfiguration(v)
  /\ activeConfig' = v
  /\ WillSet(p, IF v = 0 THEN "Address" ELSE "Configured")
  /\ UNCHANGED <<state, previousState, address, configurations, remoteWakeup>>

Suspend(p) ==
  /\ Free(p)
  /\ previousState' = state
  /\ WillSet(p, "Suspended")
  /\ UNCHANGED <<state, address, activeConfig, configurations, remoteWakeup>>

Resume(p) ==
  /\ Free(p)
  /\ WillSet(p, IF previousState \in {"Attached", "Powered"} THEN "Default" ELSE previousState)
  /\ UNCHANGED <<state, previousState, address, activeConfig, configurations, remoteWakeup>>

EnableRemoteWakeup(p, enabled) ==
  /\ Free(p)
  /\ remoteWakeup' = enabled
  /\ UNCHANGED <<state, previousState, address, activeConfig, configurations, call>>

(* Mutant of Close: the active configuration outlives its registration.    *)
CloseKeepsActive(p) ==
  /\ Free(p)
  /\ configurations' = {}
  /\ UNCHANGED <<state, previousState, address, activeConfig, remoteWakeup, call>>

(* Close drops the configurations but leaves the device state alone.       *)
Close(p) ==
  /\ Free(p)
  /\ configurations' = {}
  /\ activeConfig' = 0
  /\ UNCHANGED <<state, previousState, address, remoteWakeup, call>>
=============================================================================
