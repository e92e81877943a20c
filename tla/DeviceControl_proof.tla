------------------------- MODULE DeviceControl_proof -------------------------
(***************************************************************************)
(* Proofs about DeviceControl, for every set of addresses, configurations, *)
(* interfaces, endpoints, application goroutines and host requests.        *)
(***************************************************************************)
EXTENDS DeviceControl, TLAPS

LEMMA NoRequestNames == NoRequest.name = "none" /\ BusResetRequest.name = "reset"
  BY DEF NoRequest, BusResetRequest

(* A request the host submits is a record of Requests.                     *)
LEMMA SubmissionsTyped ==
  ASSUME NEW r \in Submissions
  PROVE  /\ r.name \in RequestNames /\ r.value \in Nat /\ r.index \in Nat /\ r.length \in Nat
         /\ r.name = "SetAddress" => r.value \in Addresses \union {0}
         /\ r.name = "SetInterface" => r.value \in Alternates
         /\ r # NoRequest /\ r # BusResetRequest
  BY ControlAssumption, NoRequestNames DEF Requests, RequestNames

(* Whoever calls it and whenever, a step of Device keeps Device's types.   *)
LEMMA SetStateTyped ==
  ASSUME NEW p \in Procs, DeviceTypeOK, setState(p)
  PROVE  DeviceTypeOK'
  BY DEF DeviceTypeOK, setState, NoCall

LEMMA DeviceStutters ==
  ASSUME DeviceTypeOK, UNCHANGED deviceVars
  PROVE  DeviceTypeOK'
  BY DEF DeviceTypeOK, deviceVars

(* A handler leaves the loop at completing or at stalling, and an answer   *)
(* is a number.                                                            *)
LEMMA AnswerTyped ==
  ASSUME TypeOK, NEW v, v \in Nat, Answer(v) \/ Accept \/ Reject
  PROVE  response' \in SUBSET Nat /\ pc' \in {"completing", "stalling"}
  BY DEF TypeOK, Answer, Accept, Reject

(* What the host learns from an acknowledged request has the type of a     *)
(* belief if a configuration it set is one of the application's.           *)
LEMMA LearnTyped ==
  ASSUME belief \in Belief, NEW r \in Submissions \union {NoRequest, BusResetRequest},
         r.name = "SetConfiguration" => r.value \in ConfigValues \union {0}
  PROVE  Learn(r) \in Belief
<1>1. r.name = "SetAddress" => r.value \in Addresses \union {0}
  BY SubmissionsTyped, NoRequestNames
<1>2. CASE r.name = "SetAddress"
  BY <1>1, <1>2 DEF Learn, Belief
<1>3. CASE r.name = "SetConfiguration"
  BY <1>3 DEF Learn, Belief
<1>4. CASE r.name = "SetWakeup"
  BY <1>4 DEF Learn, Belief
<1>5. CASE r.name = "ClearWakeup"
  BY <1>5 DEF Learn, Belief
<1>6. CASE r.name \notin {"SetAddress", "SetConfiguration", "SetWakeup", "ClearWakeup"}
  BY <1>6 DEF Learn
<1>7. QED BY <1>2, <1>3, <1>4, <1>5, <1>6

(* A SET_CONFIGURATION that got past its handler named a configuration of  *)
(* the application: TypeOK alone is not inductive, because the host learns *)
(* the value of an acknowledged request.                                   *)
AcceptedConfiguration ==
  (pc \in {"settling", "completing"} /\ request.name = "SetConfiguration")
    => request.value \in ConfigValues \union {0}

LEMMA AcceptedConfigurationKept ==
  ASSUME TypeOK, AcceptedConfiguration, [Next]_vars
  PROVE  AcceptedConfiguration'
<1> USE DEF AcceptedConfiguration
<1>1. CASE UNCHANGED vars \/ Host \/ \E p \in AppProcs : AppCall(p)
  BY <1>1 DEF vars, loopVars, Host, BusReset, HostSubmit, GiveUp, AppCall
<1>2. CASE LoopStep
  <2>1. CASE handleSetConfiguration
    BY <2>1 DEF handleSetConfiguration, SetConfiguration, CanSetConfiguration, Reject, TypeOK, DeviceTypeOK
  <2>2. CASE ReadSetup \/ ReadReset \/ Settle \/ completeSetup \/ completeFails \/ StallEP0
    BY <2>2, NoRequestNames
    DEF ReadSetup, ReadReset, Settle, completeSetup, completeFails, StallEP0, Return
  <2>3. CASE handleSetAddress \/ setDeviceFeature \/ getDeviceStatus \/ getConfiguration
             \/ getDescriptor \/ getInterface \/ setInterface \/ getEndpointStatus
             \/ synchFrame \/ setEndpointFeature \/ handleClass \/ handleUnsupported
    BY <2>3 DEF Handling, handleSetAddress, setDeviceFeature, getDeviceStatus, getConfiguration,
       getDescriptor, getInterface, setInterface, getEndpointStatus, synchFrame, setEndpointFeature,
       handleClass, handleUnsupported
  <2>4. QED BY <1>2, <2>1, <2>2, <2>3 DEF LoopStep
<1>3. QED BY <1>1, <1>2 DEF Next

(***************************************************************************)
(* Every variable keeps its type (DeviceControl!TypeOK): in particular an  *)
(* endpoint or interface is only ever changed in a configuration that has  *)
(* it, and the loop's setState argument is a device state.                 *)
(***************************************************************************)
THEOREM TypeCorrect == Spec => []TypeOK
<1>1. Init => TypeOK
  <2> SUFFICES ASSUME Init PROVE TypeOK
    OBVIOUS
  <2>1. DeviceTypeOK
    BY DEF Init, DeviceInit, DeviceTypeOK, States, NoCall
  <2>2. alternate \in [InterfaceKeys -> Alternates]
    BY ControlAssumption DEF Init
  <2>3. QED BY <2>1, <2>2 DEF Init, TypeOK, Belief, Fresh, NoData
<1>0. Init => AcceptedConfiguration
  BY DEF Init, AcceptedConfiguration
<1>2. TypeOK /\ AcceptedConfiguration /\ [Next]_vars => TypeOK'
  <2> SUFFICES ASSUME TypeOK, AcceptedConfiguration, [Next]_vars PROVE TypeOK'
    OBVIOUS
  <2> USE DEF TypeOK, hostVars
  <2>1. CASE UNCHANGED vars
    BY <2>1, DeviceStutters DEF vars, loopVars
  <2>2. CASE Host
    <3>1. CASE BusReset
      BY <3>1, DeviceStutters DEF BusReset, loopVars, Belief, Fresh
    <3>2. ASSUME NEW r \in Submissions, HostSubmit(r) PROVE TypeOK'
      BY <3>2, DeviceStutters DEF HostSubmit, loopVars
    <3>3. CASE GiveUp
      BY <3>3, DeviceStutters DEF GiveUp, loopVars
    <3>4. QED BY <2>2, <3>1, <3>2, <3>3 DEF Host
  <2>3. ASSUME NEW p \in AppProcs, AppCall(p) PROVE TypeOK'
    <3>0. p \in Procs
      BY DEF Procs
    <3>1. DeviceTypeOK'
      BY <2>3, <3>0, SetStateTyped
      DEF AppCall, DeviceTypeOK, AddConfiguration, Suspend, Resume, Close, EnableRemoteWakeup,
          WillSet, States, NoCall
    <3>2. QED BY <2>3, <3>1 DEF AppCall, loopVars
  <2>4. CASE LoopStep
    <3>0. Loop \in Procs
      BY DEF Procs
    <3>1. CASE ReadSetup
      BY <3>1, DeviceStutters DEF ReadSetup, NoData
    <3>2. CASE ReadReset
      BY <3>2, <3>0 DEF ReadReset, Reset, WillSet, DeviceTypeOK, States
    <3>3. CASE Settle
      <4>1. DeviceTypeOK'
        BY <3>3, <3>0, SetStateTyped DEF Settle
      <4>2. QED BY <3>3, <4>1 DEF Settle, Return, NoData
    <3>4. CASE handleSetAddress
      <4>1. request \in Submissions /\ request.name = "SetAddress"
        BY <3>4, NoRequestNames DEF handleSetAddress, Handling
      <4>2. request.value \in Addresses \union {0}
        BY <4>1, SubmissionsTyped
      <4>3. ASSUME SetAddress(Loop, request.value) PROVE DeviceTypeOK'
        BY <4>2, <4>3, <3>0 DEF SetAddress, WillSet, DeviceTypeOK, States
      <4>4. DeviceTypeOK'
        BY <3>4, <4>3, DeviceStutters DEF handleSetAddress
      <4>5. QED BY <3>4, <4>4 DEF handleSetAddress, Reject
    <3>5. CASE handleSetConfiguration
      <4>0. ASSUME SetConfiguration(Loop, request.value) PROVE DeviceTypeOK'
        BY <4>0, <3>0 DEF SetConfiguration, CanSetConfiguration, WillSet, DeviceTypeOK, States
      <4>1. DeviceTypeOK'
        BY <3>5, <4>0, DeviceStutters DEF handleSetConfiguration
      <4>2. QED BY <3>5, <4>1 DEF handleSetConfiguration, Reject
    <3>6. CASE setDeviceFeature
      BY <3>6 DEF setDeviceFeature, EnableRemoteWakeup, Accept, DeviceTypeOK
    <3>7. CASE getDeviceStatus \/ getConfiguration \/ getDescriptor
      <4>0. request \in Submissions
        BY <3>7, NoRequestNames DEF getDeviceStatus, getConfiguration, getDescriptor, Handling
      <4>1. request.value \in Nat /\ activeConfig \in Nat
        BY <4>0, SubmissionsTyped, DeviceAssumption DEF DeviceTypeOK
      <4>2. request.value + 1 \in Nat /\ (IF remoteWakeup THEN 2 ELSE 0) \in Nat
        BY <4>1
      <4>3. response' \in SUBSET Nat /\ pc' \in {"completing", "stalling"}
        BY <3>7, <4>1, <4>2, AnswerTyped DEF getDeviceStatus, getConfiguration, getDescriptor
      <4>4. QED BY <3>7, <4>3, DeviceStutters DEF getDeviceStatus, getConfiguration, getDescriptor
    <3>8. CASE getInterface
      <4>1. HasInterface(request.index) => <<activeConfig, request.index>> \in InterfaceKeys
        BY ControlAssumption DEF HasInterface, InterfaceKeys, DeviceTypeOK
      <4>2. HasInterface(request.index) => alternate[<<activeConfig, request.index>>] \in Nat
        BY <4>1, ControlAssumption
      <4>3. response' \in SUBSET Nat /\ pc' \in {"completing", "stalling"}
        <5> DEFINE v == IF request.name = "GetInterface"
                          THEN alternate[<<activeConfig, request.index>>] ELSE 0
        <5>1. HasInterface(request.index) => v \in Nat
          BY <4>2
        <5>2. Reject \/ (HasInterface(request.index) /\ Answer(v))
          BY <3>8 DEF getInterface
        <5> HIDE DEF v
        <5>3. CASE Reject
          BY <5>3 DEF Reject
        <5>4. QED BY <5>1, <5>2, <5>3, AnswerTyped
      <4>4. QED BY <3>8, <4>3, DeviceStutters DEF getInterface
    <3>9. CASE setInterface
      <4>1. request.value \in Alternates
        BY <3>9, NoRequestNames, SubmissionsTyped DEF setInterface, Handling
      <4>2. alternate' \in [InterfaceKeys -> Alternates]
        BY <3>9, <4>1 DEF setInterface
      <4>3. QED BY <3>9, <4>2, DeviceStutters DEF setInterface, Reject, Accept
    <3>10. CASE getEndpointStatus
      <4> DEFINE v == IF EndpointKey(request.index) \in halted THEN 1 ELSE 0
      <4>1. v \in Nat
        OBVIOUS
      <4>2. Reject \/ Answer(v)
        BY <3>10 DEF getEndpointStatus
      <4> HIDE DEF v
      <4>3. response' \in SUBSET Nat /\ pc' \in {"completing", "stalling"}
        BY <4>1, <4>2, AnswerTyped
      <4>4. QED BY <3>10, <4>3, DeviceStutters DEF getEndpointStatus
    <3>10a. CASE synchFrame
      <4>1. Reject \/ Answer(0)
        BY <3>10a DEF synchFrame
      <4>2. response' \in SUBSET Nat /\ pc' \in {"completing", "stalling"}
        BY <4>1, AnswerTyped
      <4>3. QED BY <3>10a, <4>2, DeviceStutters DEF synchFrame
    <3>11. CASE setEndpointFeature
      <4>1. HasEndpoint(request.index) => EndpointKey(request.index) \in EndpointKeys
        BY ControlAssumption DEF HasEndpoint, EndpointKey, EndpointKeys, DeviceTypeOK
      <4>2. halted' \subseteq EndpointKeys
        BY <3>11, <4>1 DEF setEndpointFeature
      <4>3. QED BY <3>11, <4>2, DeviceStutters DEF setEndpointFeature, Reject, Accept
    <3>12. CASE handleClass \/ handleUnsupported
      BY <3>12, DeviceStutters DEF handleClass, handleUnsupported, Accept, Reject
    <3>13. CASE completeSetup
      <4>1. Learn(request) \in Belief
        BY <3>13, LearnTyped DEF completeSetup, AcceptedConfiguration
      <4>2. QED BY <3>13, <4>1, DeviceStutters DEF completeSetup, Return, NoData
    <3>14. CASE completeFails
      BY <3>14, DeviceStutters DEF completeFails
    <3>15. CASE StallEP0
      BY <3>15, DeviceStutters DEF StallEP0, Return, NoData
    <3>16. QED BY <2>4, <3>1, <3>2, <3>3, <3>4, <3>5, <3>6, <3>7, <3>8, <3>9, <3>10, <3>10a, <3>11, <3>12,
         <3>13, <3>14, <3>15 DEF LoopStep
  <2>5. QED BY <2>1, <2>2, <2>3, <2>4 DEF Next
<1>3. TypeOK /\ AcceptedConfiguration /\ [Next]_vars => AcceptedConfiguration'
  BY AcceptedConfigurationKept
<1>4. QED BY <1>0, <1>1, <1>2, <1>3, PTL DEF Spec

-----------------------------------------------------------------------------
(***************************************************************************)
(* No interleaving of resets, requests and application calls leaves the    *)
(* device with an active configuration that is not registered.             *)
(***************************************************************************)
THEOREM ActiveRegistered == Spec => []ActiveConfigRegistered
<1>1. Init => ActiveConfigRegistered
  BY DEF Init, DeviceInit, ActiveConfigRegistered
<1>2. ActiveConfigRegistered /\ [Next]_vars => ActiveConfigRegistered'
  <2> SUFFICES ASSUME ActiveConfigRegistered, [Next]_vars PROVE ActiveConfigRegistered'
    OBVIOUS
  <2> USE DEF ActiveConfigRegistered
  <2>1. CASE UNCHANGED deviceVars
    BY <2>1 DEF deviceVars
  <2>2. ASSUME NEW p \in AppProcs, AppCall(p) PROVE ActiveConfigRegistered'
    BY <2>2 DEF AppCall, AddConfiguration, Suspend, Resume, Close, EnableRemoteWakeup, setState
  <2>3. CASE ReadReset
    BY <2>3 DEF ReadReset, Reset
  <2>4. CASE Settle
    BY <2>4 DEF Settle, setState
  <2>5. CASE handleSetAddress
    BY <2>5 DEF handleSetAddress, SetAddress, deviceVars
  <2>6. CASE handleSetConfiguration
    BY <2>6 DEF handleSetConfiguration, SetConfiguration, CanSetConfiguration, deviceVars
  <2>7. CASE setDeviceFeature
    BY <2>7 DEF setDeviceFeature, EnableRemoteWakeup
  <2>8. QED BY <2>1, <2>2, <2>3, <2>4, <2>5, <2>6, <2>7
    DEF Next, vars, Host, BusReset, HostSubmit, GiveUp, LoopStep, ReadSetup, getDeviceStatus,
        getConfiguration, getDescriptor, getInterface, setInterface, getEndpointStatus,
        synchFrame, setEndpointFeature, handleClass, handleUnsupported, completeSetup, completeFails, StallEP0
<1>3. QED BY <1>1, <1>2, PTL DEF Spec

-----------------------------------------------------------------------------
(* An application that only registers configurations and switches remote   *)
(* wakeup never has a setState outstanding.                                *)
AppQuiet == \A p \in AppProcs : call[p] = NoCall

LEMMA AppStaysQuiet ==
  ASSUME TypeOK, AppQuiet, [Next]_vars, AppCalls \subseteq {"AddConfiguration", "EnableRemoteWakeup"}
  PROVE  AppQuiet'
<1> USE DEF AppQuiet
<1>1. CASE UNCHANGED call
  BY <1>1
<1>2. ASSUME NEW p \in AppProcs, AppCall(p) PROVE AppQuiet'
  BY <1>2 DEF AppCall, AddConfiguration, EnableRemoteWakeup, setState
<1>3. CASE call' = [call EXCEPT ![Loop] = call'[Loop]]
  BY <1>3, DeviceAssumption DEF Procs, TypeOK, DeviceTypeOK
<1>4. CASE Settle \/ ReadReset \/ handleSetAddress \/ handleSetConfiguration
  <2>1. Loop \in Procs /\ call \in [Procs -> States \union {NoCall}]
    BY DEF Procs, TypeOK, DeviceTypeOK
  <2>2. UNCHANGED call \/ call' = [call EXCEPT ![Loop] = call'[Loop]]
    BY <1>4, <2>1 DEF Settle, setState, ReadReset, Reset, handleSetAddress, SetAddress,
       handleSetConfiguration, SetConfiguration, WillSet, deviceVars
  <2>3. QED BY <2>2, <1>1, <1>3
<1>5. QED BY <1>1, <1>2, <1>4
  DEF Next, vars, deviceVars, Host, BusReset, HostSubmit, GiveUp, LoopStep, ReadSetup, getDeviceStatus,
      setDeviceFeature, EnableRemoteWakeup,
      getConfiguration, getDescriptor, getInterface, setInterface, getEndpointStatus,
      synchFrame, setEndpointFeature, handleClass, handleUnsupported, completeSetup, completeFails, StallEP0

(* Each step of the control loop is one step of the chapter-9 device, or   *)
(* leaves it alone: the first half of a method takes effect at once, the   *)
(* setState that follows writes what Settled already shows.                *)
LEMMA StepImplementsUsbDevice ==
  ASSUME TypeOK, AcceptedConfiguration, AppQuiet, [Next]_vars,
         AppCalls \subseteq {"AddConfiguration", "EnableRemoteWakeup"}
  PROVE  [Usb!Next]_(Usb!usbVars)
<1> USE DEF Usb!usbVars
<1>0. Loop \in Procs /\ call \in [Procs -> States \union {NoCall}] /\ "Default" # NoCall
      /\ "Address" # NoCall /\ "Configured" # NoCall
  BY DEF Procs, TypeOK, DeviceTypeOK, NoCall
<1>1. CASE UNCHANGED deviceVars
  BY <1>1 DEF deviceVars, Settled
<1>2. ASSUME NEW p \in AppProcs, AppCall(p) PROVE UNCHANGED Usb!usbVars
  BY <1>2 DEF AppQuiet, AppCall, AddConfiguration, EnableRemoteWakeup, setState, Settled
<1>3. CASE ReadReset
  <2>1. Settled' = "Default"
    BY <1>3, <1>0 DEF ReadReset, Reset, WillSet, Settled
  <2>2. QED BY <1>3, <2>1 DEF ReadReset, Reset, Usb!Next, Usb!BusReset
<1>4. CASE Settle
  <2>1. Settled' = Settled
    BY <1>4, <1>0 DEF Settle, setState, Settled
  <2>2. QED BY <1>4, <2>1 DEF Settle, setState
<1>5. CASE SetAddress(Loop, request.value) /\ request.value \in Addresses \union {0}
  <2>1. Settled = state /\ Settled' = IF request.value = 0 THEN "Default" ELSE "Address"
    BY <1>5, <1>0 DEF SetAddress, WillSet, Free, Settled
  <2>2. Usb!Assign(request.value)
    BY <1>5, <2>1 DEF SetAddress, CanSetAddress, Usb!Assign
  <2>3. QED BY <1>5, <2>2 DEF Usb!Next
<1>6. CASE SetConfiguration(Loop, request.value)
  <2>1. Settled = state /\ Settled' = IF request.value = 0 THEN "Address" ELSE "Configured"
    BY <1>6, <1>0 DEF SetConfiguration, WillSet, Free, Settled
  <2>2. Usb!Configure(request.value)
    BY <1>6, <2>1 DEF SetConfiguration, CanSetConfiguration, Usb!Configure
  <2>3. request.value \in ConfigValues \union {0}
    BY <1>6 DEF SetConfiguration, CanSetConfiguration, TypeOK, DeviceTypeOK
  <2>4. QED BY <2>2, <2>3 DEF Usb!Next
<1>7. CASE handleSetAddress
  <2>1. request \in Submissions /\ request.name = "SetAddress"
    BY <1>7, NoRequestNames DEF handleSetAddress, Handling, TypeOK
  <2>2. request.value \in Addresses \union {0}
    BY <2>1, SubmissionsTyped
  <2>3. QED BY <1>7, <2>2, <1>5, <1>1 DEF handleSetAddress
<1>8. CASE handleSetConfiguration
  BY <1>8, <1>6, <1>1 DEF handleSetConfiguration
<1>9. CASE setDeviceFeature
  BY <1>9 DEF setDeviceFeature, EnableRemoteWakeup, Settled
<1>10. QED BY <1>1, <1>2, <1>3, <1>4, <1>7, <1>8, <1>9
  DEF Next, vars, Host, BusReset, HostSubmit, GiveUp, LoopStep, ReadSetup, getDeviceStatus,
      getConfiguration, getDescriptor, getInterface, setInterface, getEndpointStatus,
      synchFrame, setEndpointFeature, handleClass, handleUnsupported, completeSetup, completeFails, StallEP0

(***************************************************************************)
(* Under an application that neither suspends, resumes nor closes the      *)
(* device, DeviceControl implements the atomic chapter-9 device, although  *)
(* every method is two critical sections.                                  *)
(***************************************************************************)
THEOREM Implementation ==
  ASSUME AppCalls \subseteq {"AddConfiguration", "EnableRemoteWakeup"}
  PROVE  Spec => ImplementsUsbDevice
<1>1. Init => Usb!Init /\ AppQuiet /\ AcceptedConfiguration
  BY DEF Init, DeviceInit, Usb!Init, Settled, AppQuiet, AcceptedConfiguration, Procs, NoCall
<1>2. TypeOK /\ AcceptedConfiguration /\ [Next]_vars => AcceptedConfiguration'
  BY AcceptedConfigurationKept
<1>3. TypeOK /\ AppQuiet /\ [Next]_vars => AppQuiet'
  BY AppStaysQuiet
<1>4. TypeOK /\ AcceptedConfiguration /\ AppQuiet /\ [Next]_vars => [Usb!Next]_(Usb!usbVars)
  BY StepImplementsUsbDevice
<1>5. QED BY <1>1, <1>2, <1>3, <1>4, TypeCorrect, PTL DEF Spec, Usb!Spec, ImplementsUsbDevice

(* The loop owes a setState exactly while it is between the two halves of  *)
(* a method.                                                               *)
OwesState == call[Loop] # NoCall <=> pc = "settling"

LEMMA OwesStateKept ==
  ASSUME TypeOK, OwesState, [Next]_vars
  PROVE  OwesState'
<1> USE DEF OwesState
<1>0. /\ Loop \in Procs /\ call \in [Procs -> States \union {NoCall}]
      /\ "Default" # NoCall /\ "Address" # NoCall /\ "Configured" # NoCall
  BY DEF Procs, TypeOK, DeviceTypeOK, NoCall
<1>1. CASE UNCHANGED <<call, pc>>
  BY <1>1
<1>2. ASSUME NEW p \in AppProcs, AppCall(p) PROVE OwesState'
  <2>1. p # Loop
    BY DeviceAssumption
  <2>2. call'[Loop] = call[Loop]
    BY <1>0, <1>2, <2>1 DEF AppCall, AddConfiguration, Suspend, Resume, Close, EnableRemoteWakeup,
       setState, WillSet
  <2>3. QED BY <1>2, <2>2 DEF AppCall, loopVars
<1>3. CASE ReadReset
  BY <1>0, <1>3 DEF ReadReset, Reset, WillSet
<1>4. CASE Settle
  BY <1>0, <1>4 DEF Settle, setState, Return
<1>5. CASE handleSetAddress
  BY <1>0, <1>5 DEF handleSetAddress, SetAddress, WillSet, Reject, Handling, deviceVars
<1>6. CASE handleSetConfiguration
  BY <1>0, <1>6 DEF handleSetConfiguration, SetConfiguration, WillSet, Reject, Handling, deviceVars
<1>7. CASE ReadSetup \/ completeSetup \/ completeFails \/ StallEP0
  BY <1>7 DEF ReadSetup, completeSetup, completeFails, StallEP0, Return, deviceVars
<1>8. CASE setDeviceFeature \/ getDeviceStatus \/ getConfiguration \/ getDescriptor
           \/ getInterface \/ setInterface \/ getEndpointStatus \/ synchFrame
           \/ setEndpointFeature \/ handleClass \/ handleUnsupported
  <2>1. pc = "handling" /\ UNCHANGED call
    BY <1>8 DEF Handling, setDeviceFeature, EnableRemoteWakeup, getDeviceStatus, getConfiguration,
       getDescriptor, getInterface, setInterface, getEndpointStatus, synchFrame, setEndpointFeature,
       handleClass, handleUnsupported, deviceVars
  <2>2. pc' \in {"completing", "stalling"}
    BY <1>8 DEF setDeviceFeature, getDeviceStatus, getConfiguration, getDescriptor, getInterface,
       setInterface, getEndpointStatus, synchFrame, setEndpointFeature, handleClass, handleUnsupported,
       Accept, Reject, Answer
  <2>3. QED BY <2>1, <2>2
<1>9. QED BY <1>1, <1>2, <1>3, <1>4, <1>5, <1>6, <1>7, <1>8
  DEF Next, vars, deviceVars, loopVars, Host, BusReset, HostSubmit, GiveUp, LoopStep

LEMMA AtomicDeviceIsCoherent == Usb!Spec => []Usb!StateMatchesFields
<1>1. Usb!Init => Usb!StateMatchesFields
  BY DEF Usb!Init, Usb!StateMatchesFields
<1>2. Usb!StateMatchesFields /\ [Usb!Next]_(Usb!usbVars) => Usb!StateMatchesFields'
  <2> SUFFICES ASSUME Usb!StateMatchesFields, [Usb!Next]_(Usb!usbVars)
               PROVE  Usb!StateMatchesFields'
    OBVIOUS
  <2> USE DEF Usb!StateMatchesFields, Usb!usbVars
  <2>1. CASE Usb!BusReset
    BY <2>1 DEF Usb!BusReset
  <2>2. ASSUME NEW a \in Addresses \union {0}, Usb!Assign(a) PROVE Usb!StateMatchesFields'
    BY <2>2, DeviceAssumption DEF Usb!Assign
  <2>3. ASSUME NEW v \in ConfigValues \union {0}, Usb!Configure(v) PROVE Usb!StateMatchesFields'
    BY <2>3, DeviceAssumption DEF Usb!Configure
  <2>4. QED BY <2>1, <2>2, <2>3 DEF Usb!Next
<1>3. QED BY <1>1, <1>2, PTL DEF Usb!Spec

(***************************************************************************)
(* The state a device reports agrees with its address and configuration    *)
(* at every moment at which the control loop is not between the two halves *)
(* of a method; there the state about to be written does.                  *)
(***************************************************************************)
THEOREM Coherence ==
  ASSUME AppCalls \subseteq {"AddConfiguration", "EnableRemoteWakeup"}
  PROVE  Spec => []StateCoherent
<1>1. Init => OwesState
  BY DEF Init, DeviceInit, OwesState, Procs
<1>2. TypeOK /\ OwesState /\ [Next]_vars => OwesState'
  BY OwesStateKept
<1>3. OwesState /\ Usb!StateMatchesFields => StateCoherent
  BY DEF OwesState, StateCoherent, Settled, Usb!StateMatchesFields, Reported!StateMatchesFields
<1>4. QED BY <1>1, <1>2, <1>3, TypeCorrect, Implementation, AtomicDeviceIsCoherent, PTL
  DEF Spec, ImplementsUsbDevice

-----------------------------------------------------------------------------
(* From the moment a request is read until its handler has decided, the    *)
(* control state is the one the request found; after a refusal too, up to  *)
(* the setting that a refusing driver leaves in its interface.             *)
Untouched ==
  pc \in {"handling", "stalling"} =>
    /\ address = snapshot[1]
    /\ SameConfig(snapshot[2])
    /\ SameWakeup(snapshot[3])
    /\ halted = snapshot[4]
    /\ \/ alternate = snapshot[5]
       \/ /\ pc = "stalling"
          /\ request.name = "SetInterface"
          /\ alternate = [snapshot[5] EXCEPT ![<<snapshot[2], request.index>>] = request.value]

(* What the application may do between two steps of the loop.              *)
LEMMA AppKeepsControlState ==
  ASSUME NEW p \in AppProcs, AppCall(p)
  PROVE  /\ UNCHANGED <<loopVars, hostVars, address>>
         /\ \A v : SameConfig(v) => SameConfig(v)'
         /\ \A b : SameWakeup(b) => SameWakeup(b)'
<1> USE DEF SameConfig, SameWakeup
<1>1. CASE Close(p) /\ "Close" \in AppCalls
  BY <1>1 DEF AppCall, Close
<1>2. CASE \E b \in BOOLEAN : EnableRemoteWakeup(p, b) /\ "EnableRemoteWakeup" \in AppCalls
  BY <1>2 DEF AppCall, EnableRemoteWakeup
<1>3. CASE Suspend(p) \/ Resume(p) \/ setState(p) \/ \E v \in ConfigValues : AddConfiguration(p, v)
  BY <1>3 DEF AppCall, Suspend, Resume, setState, AddConfiguration
<1>4. QED BY <1>1, <1>2, <1>3 DEF AppCall

(***************************************************************************)
(* A control request answered with STALL by its handler has changed        *)
(* nothing of the device, whatever the application does meanwhile, but for *)
(* the alternate setting of the interface a refused SET_INTERFACE names.   *)
(***************************************************************************)
THEOREM Refusal == Spec => []RefusalContained
<1>1. Init => Untouched
  BY DEF Init, Untouched
<1>2. Untouched /\ [Next]_vars => Untouched'
  <2> SUFFICES ASSUME Untouched, [Next]_vars PROVE Untouched'
    OBVIOUS
  <2> USE DEF Untouched
  <2>1. CASE UNCHANGED vars \/ Host
    BY <2>1 DEF vars, deviceVars, loopVars, Host, BusReset, HostSubmit, GiveUp, SameConfig, SameWakeup
  <2>2. ASSUME NEW p \in AppProcs, AppCall(p) PROVE Untouched'
    BY <2>2, AppKeepsControlState DEF loopVars
  <2>3. CASE ReadSetup
    BY <2>3 DEF ReadSetup, ControlState, SameConfig, SameWakeup, deviceVars
  <2>4. CASE ReadReset \/ Settle \/ completeSetup \/ completeFails \/ StallEP0 \/ setDeviceFeature
    BY <2>4 DEF ReadReset, Settle, completeSetup, completeFails, StallEP0, setDeviceFeature, Return, Accept
  <2>5. CASE handleSetAddress \/ handleSetConfiguration
    BY <2>5 DEF handleSetAddress, handleSetConfiguration, Handling, deviceVars, SameConfig, SameWakeup
  <2>6. CASE setEndpointFeature
    BY <2>6 DEF setEndpointFeature, Handling, Accept, Reject, deviceVars, SameConfig, SameWakeup
  <2>6a. CASE setInterface
    <3>1. /\ pc = "handling" /\ request.name = "SetInterface"
          /\ UNCHANGED <<deviceVars, request, halted, snapshot>>
          /\ pc' \in {"completing", "stalling"}
      BY <2>6a DEF setInterface, Handling, Accept, Reject
    <3>2. \/ UNCHANGED alternate
          \/ /\ activeConfig # 0
             /\ alternate' = [alternate EXCEPT ![<<activeConfig, request.index>>] = request.value]
      BY <2>6a DEF setInterface, HasInterface
    <3>3. activeConfig # 0 => activeConfig = snapshot[2]
      BY <3>1 DEF SameConfig
    <3>4. alternate = snapshot[5]
      BY <3>1
    <3>5. \/ alternate' = snapshot[5]
          \/ alternate' = [snapshot[5] EXCEPT ![<<snapshot[2], request.index>>] = request.value]
      BY <3>2, <3>3, <3>4
    <3>6. QED BY <3>1, <3>5 DEF deviceVars, SameConfig, SameWakeup
  <2>7. CASE getDeviceStatus \/ getConfiguration \/ getDescriptor \/ getInterface
             \/ getEndpointStatus \/ synchFrame \/ handleClass \/ handleUnsupported
    <3>1. pc = "handling" /\ UNCHANGED <<deviceVars, halted, alternate, snapshot>>
      BY <2>7 DEF getDeviceStatus, getConfiguration, getDescriptor, getInterface,
         getEndpointStatus, synchFrame, handleClass, handleUnsupported, Handling
    <3>2. QED BY <3>1 DEF deviceVars, SameConfig, SameWakeup
  <2>8. QED BY <2>1, <2>2, <2>3, <2>4, <2>5, <2>6, <2>6a, <2>7 DEF Next, LoopStep
<1>3. Untouched => RefusalContained
  BY DEF Untouched, RefusalContained
<1>4. QED BY <1>1, <1>2, <1>3, PTL DEF Spec

-----------------------------------------------------------------------------
(* What the device holds is b, up to what the application may change.      *)
Holds(b) == address = b.address /\ SameConfig(b.config) /\ SameWakeup(b.wakeup)

(* The loop has run the handler of a request and not yet answered it.      *)
Handled == pc \in {"settling", "completing"} /\ request # BusResetRequest

(* The strengthening of HostBeliefHolds: where the loop is decides whether *)
(* the device holds what the host was told or what it is about to be told, *)
(* and a reset on its way finds the host with nothing outstanding.         *)
BeliefInv ==
  /\ resetPending => awaiting = NoRequest /\ wire = NoRequest /\ belief = Fresh
  /\ wire # NoRequest => awaiting = wire
  /\ ~resetPending /\ pc # "reading" /\ request # BusResetRequest => awaiting = request
  /\ pc # "reading" => request # NoRequest
  /\ pc # "reading" /\ request # BusResetRequest => wire = NoRequest
  /\ pc \in {"handling", "completing", "failed", "stalling"} => request # BusResetRequest
  /\ ~resetPending /\ ~suspect =>
       /\ pc # "failed"
       /\ ~Handled => Holds(belief)
       /\ Handled => Holds(Learn(request))

Learning == {"SetAddress", "SetConfiguration", "SetWakeup", "ClearWakeup"}

LEMMA LearnFields ==
  ASSUME belief \in Belief, NEW r
  PROVE  /\ r.name # "SetAddress" => Learn(r).address = belief.address
         /\ r.name # "SetConfiguration" => Learn(r).config = belief.config
         /\ r.name \notin {"SetWakeup", "ClearWakeup"} => Learn(r).wakeup = belief.wakeup
         /\ r.name = "SetAddress" => Learn(r).address = r.value
         /\ r.name = "SetConfiguration" => Learn(r).config = r.value
         /\ r.name = "SetWakeup" => Learn(r).wakeup = TRUE
         /\ r.name = "ClearWakeup" => Learn(r).wakeup = FALSE
         /\ r.name \notin Learning => Learn(r) = belief
<1>1. CASE r.name = "SetAddress"
  BY <1>1 DEF Learn, Belief, Learning
<1>2. CASE r.name = "SetConfiguration"
  BY <1>2 DEF Learn, Belief, Learning
<1>3. CASE r.name = "SetWakeup"
  BY <1>3 DEF Learn, Belief, Learning
<1>4. CASE r.name = "ClearWakeup"
  BY <1>4 DEF Learn, Belief, Learning
<1>5. CASE r.name \notin Learning
  BY <1>5 DEF Learn, Learning
<1>6. QED BY <1>1, <1>2, <1>3, <1>4, <1>5 DEF Learning

LEMMA LearnStable ==
  ASSUME UNCHANGED <<request, hostVars>>
  PROVE  Learn(request)' = Learn(request)
  BY DEF Learn, hostVars

(* A handler that accepts must leave the device holding what the host is   *)
(* about to learn, one that refuses what the host already knows.           *)
LEMMA HandlerKeepsBelief ==
  ASSUME BeliefInv, pc = "handling", UNCHANGED <<request, hostVars>>,
         pc' \in {"settling", "completing", "stalling"},
         pc' = "stalling" /\ Holds(belief) => Holds(belief)',
         pc' # "stalling" /\ Holds(belief) => Holds(Learn(request))'
  PROVE  BeliefInv'
  BY DEF BeliefInv, Handled, hostVars

LEMMA RejectKeepsBelief ==
  ASSUME BeliefInv, pc = "handling", UNCHANGED <<request, hostVars>>, Reject, UNCHANGED deviceVars
  PROVE  BeliefInv'
<1>1. Holds(belief) => Holds(belief)'
  BY DEF Holds, SameConfig, SameWakeup, deviceVars, hostVars
<1>2. QED BY <1>1, HandlerKeepsBelief DEF Reject

LEMMA FreshFields == Fresh.address = 0 /\ Fresh.config = 0 /\ Fresh.wakeup = FALSE
  BY DEF Fresh

LEMMA FreshHolds ==
  ASSUME belief = Fresh, address = 0, activeConfig = 0, remoteWakeup = FALSE
  PROVE  Holds(belief)
<1>1. address = belief.address /\ activeConfig = belief.config
  BY FreshFields
<1>2. remoteWakeup = belief.wakeup
  BY FreshFields, Zenon
<1>3. QED BY <1>1, <1>2 DEF Holds, SameConfig, SameWakeup

LEMMA BeliefKept ==
  ASSUME TypeOK, BeliefInv, [Next]_vars
  PROVE  BeliefInv'
<1>1. CASE UNCHANGED vars
  BY <1>1 DEF BeliefInv, vars, deviceVars, loopVars, hostVars, Handled, Holds, SameConfig,
     SameWakeup, Learn
<1>2. CASE BusReset
  BY <1>2, NoRequestNames DEF BusReset, BeliefInv, Handled, loopVars, deviceVars
<1>2a. CASE GiveUp
  <2>1. pc = "reading" /\ UNCHANGED <<deviceVars, loopVars, wire, resetPending, belief, suspect>>
        /\ wire = NoRequest /\ awaiting' = NoRequest
    BY <1>2a DEF GiveUp
  <2>2. QED BY <2>1 DEF BeliefInv, Handled, Holds, SameConfig, SameWakeup, Learn, deviceVars, loopVars
<1>3. ASSUME NEW r \in Submissions, HostSubmit(r) PROVE BeliefInv'
  <2>1. r # NoRequest
    BY SubmissionsTyped
  <2>2. pc = "reading" \/ request = BusResetRequest
    BY <1>3 DEF HostSubmit, BeliefInv
  <2>3. ~suspect => ~Handled /\ Holds(belief) /\ pc # "failed"
    BY <1>3, <2>2 DEF HostSubmit, BeliefInv, Handled
  <2>4. QED BY <1>3, <2>1, <2>2, <2>3
    DEF HostSubmit, BeliefInv, Handled, Holds, SameConfig, SameWakeup, loopVars, deviceVars
<1>4. ASSUME NEW p \in AppProcs, AppCall(p) PROVE BeliefInv'
  <2>1. \A b : Holds(b) => Holds(b)'
    BY <1>4, AppKeepsControlState DEF Holds
  <2>2. Learn(request)' = Learn(request)
    BY <1>4 DEF AppCall, loopVars, hostVars, Learn
  <2>3. QED BY <1>4, <2>1, <2>2 DEF AppCall, BeliefInv, Handled, loopVars, hostVars
<1>5. CASE ReadSetup
  BY <1>5, SubmissionsTyped
  DEF ReadSetup, BeliefInv, Handled, Holds, SameConfig, SameWakeup, deviceVars, TypeOK
<1>6. CASE ReadReset
  <2>1. belief' = Fresh /\ belief = Fresh /\ address' = 0 /\ activeConfig' = 0 /\ remoteWakeup' = FALSE
    BY <1>6 DEF ReadReset, Reset, BeliefInv
  <2>2. Holds(belief)'
    <3>1. address' = belief'.address /\ activeConfig' = belief'.config
      BY <2>1, FreshFields
    <3>2. remoteWakeup' = belief'.wakeup
      BY <2>1, FreshFields, Zenon
    <3>3. QED BY <3>1, <3>2 DEF Holds, SameConfig, SameWakeup
  <2>3. ~Handled' /\ request' # NoRequest /\ request' = BusResetRequest
    BY <1>6, NoRequestNames DEF ReadReset, Handled
  <2>4. QED BY <1>6, <2>2, <2>3 DEF ReadReset, BeliefInv
<1>7. CASE Settle
  <2>1. CASE request = BusResetRequest
    BY <1>7, <2>1, NoRequestNames
    DEF Settle, setState, Return, BeliefInv, Handled, Holds, SameConfig, SameWakeup, hostVars
  <2>2. CASE request # BusResetRequest
    <3>1. Learn(request)' = Learn(request)
      BY <1>7, <2>2 DEF Settle, hostVars, Learn
    <3>2. Handled /\ Handled'
      BY <1>7, <2>2 DEF Settle, Handled
    <3>3. QED BY <1>7, <2>2, <3>1, <3>2
      DEF Settle, setState, BeliefInv, Holds, SameConfig, SameWakeup, hostVars
  <2>3. QED BY <2>1, <2>2
<1>8. CASE handleSetAddress
  <2>1. pc = "handling" /\ request.name = "SetAddress" /\ UNCHANGED <<request, hostVars>>
    BY <1>8 DEF handleSetAddress, Handling
  <2>2. CASE SetAddress(Loop, request.value) /\ pc' = "settling"
    <3>1. Holds(belief) => Holds(Learn(request))'
      BY <2>1, <2>2, LearnStable, LearnFields DEF SetAddress, Holds, SameConfig, SameWakeup, TypeOK
    <3>2. QED BY <2>1, <2>2, <3>1, HandlerKeepsBelief
  <2>3. CASE Reject /\ UNCHANGED deviceVars
    BY <2>1, <2>3, RejectKeepsBelief
  <2>4. QED BY <1>8, <2>2, <2>3 DEF handleSetAddress
<1>9. CASE handleSetConfiguration
  <2>1. pc = "handling" /\ request.name = "SetConfiguration" /\ UNCHANGED <<request, hostVars>>
    BY <1>9 DEF handleSetConfiguration, Handling
  <2>2. CASE SetConfiguration(Loop, request.value) /\ pc' = "settling"
    <3>1. Holds(belief) => Holds(Learn(request))'
      BY <2>1, <2>2, LearnStable, LearnFields DEF SetConfiguration, Holds, SameConfig, SameWakeup, TypeOK
    <3>2. QED BY <2>1, <2>2, <3>1, HandlerKeepsBelief
  <2>3. CASE Reject /\ UNCHANGED deviceVars
    BY <2>1, <2>3, RejectKeepsBelief
  <2>4. QED BY <1>9, <2>2, <2>3 DEF handleSetConfiguration
<1>10. CASE setDeviceFeature
  <2>1. pc = "handling" /\ UNCHANGED <<request, hostVars>> /\ pc' = "completing"
        /\ request.name \in {"SetWakeup", "ClearWakeup"}
    BY <1>10 DEF setDeviceFeature, Handling, Accept
  <2>2. Holds(belief) => Holds(Learn(request))'
    BY <1>10, <2>1, LearnStable, LearnFields
    DEF setDeviceFeature, EnableRemoteWakeup, Holds, SameConfig, SameWakeup, TypeOK
  <2>3. QED BY <2>1, <2>2, HandlerKeepsBelief
<1>11. CASE getDeviceStatus \/ getConfiguration \/ getDescriptor \/ getInterface \/ setInterface
           \/ getEndpointStatus \/ synchFrame \/ setEndpointFeature \/ handleClass \/ handleUnsupported
  <2>1. pc = "handling" /\ UNCHANGED <<request, hostVars, deviceVars>> /\ request.name \notin Learning
    BY <1>11 DEF getDeviceStatus, getConfiguration, getDescriptor, getInterface, setInterface,
       getEndpointStatus, synchFrame, setEndpointFeature, handleClass, handleUnsupported, Handling, Learning
  <2>2. pc' \in {"completing", "stalling"}
    BY <1>11 DEF getDeviceStatus, getConfiguration, getDescriptor, getInterface, setInterface,
       getEndpointStatus, synchFrame, setEndpointFeature, handleClass, handleUnsupported, Accept, Reject, Answer
  <2>3. Holds(belief) => Holds(Learn(request))'
    BY <2>1, LearnStable, LearnFields DEF Holds, SameConfig, SameWakeup, deviceVars, TypeOK
  <2>4. Holds(belief) => Holds(belief)'
    BY <2>1 DEF Holds, SameConfig, SameWakeup, deviceVars, hostVars
  <2>5. QED BY <2>1, <2>2, <2>3, <2>4, HandlerKeepsBelief
<1>12. CASE completeSetup
  <2>1. ~resetPending /\ Answered => belief' = Learn(request)
    BY <1>12, SubmissionsTyped, NoRequestNames DEF completeSetup, BeliefInv, TypeOK
  <2>2. ~Answered => Learn(request) = belief
    BY LearnFields DEF Answered, InRequests, Learning, TypeOK
  <2>3. ~resetPending => belief' = Learn(request)
    BY <1>12, <2>1, <2>2 DEF completeSetup
  <2>4. resetPending => UNCHANGED <<belief, awaiting>>
    BY <1>12 DEF completeSetup, BeliefInv
  <2>5. Handled /\ ~Handled' /\ wire = NoRequest
    BY <1>12 DEF completeSetup, Return, Handled, BeliefInv
  <2>6. ~resetPending /\ ~suspect => Holds(belief)'
    BY <1>12, <2>3, <2>5 DEF completeSetup, BeliefInv, Holds, SameConfig, SameWakeup, deviceVars
  <2>7. QED BY <1>12, <2>4, <2>5, <2>6 DEF completeSetup, Return, BeliefInv
<1>13. CASE completeFails
  BY <1>13, SubmissionsTyped, NoRequestNames DEF completeFails, BeliefInv, Handled, TypeOK
<1>14. CASE StallEP0
  BY <1>14 DEF StallEP0, Return, BeliefInv, Handled, Holds, SameConfig, SameWakeup, deviceVars
<1>15. QED BY <1>1, <1>2, <1>2a, <1>3, <1>4, <1>5, <1>6, <1>7, <1>8, <1>9, <1>10, <1>11, <1>12, <1>13, <1>14
  DEF Next, Host, LoopStep

(***************************************************************************)
(* Host and device agree on address, configuration and remote wakeup       *)
(* whenever the control loop waits for the next request, over resets,      *)
(* refusals, abandoned requests and application calls.                     *)
(***************************************************************************)
THEOREM Agreement == Spec => []HostBeliefHolds
<1>1. Init => BeliefInv
  <2>1. Init => Holds(belief)
    BY FreshHolds DEF Init, DeviceInit
  <2>2. QED BY <2>1 DEF Init, BeliefInv, Handled
<1>2. TypeOK /\ BeliefInv /\ [Next]_vars => BeliefInv'
  BY BeliefKept
<1>3. BeliefInv => HostBeliefHolds
  BY DEF BeliefInv, HostBeliefHolds, Handled, Holds
<1>4. QED BY <1>1, <1>2, <1>3, TypeCorrect, PTL DEF Spec
=============================================================================
