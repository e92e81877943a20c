---------------------------- MODULE DeviceControl ----------------------------
(***************************************************************************)
(* The device side of endpoint 0: Stack.controlLoop, handleSetup and       *)
(* completeSetup (device/stack.go) with StandardRequestHandler             *)
(* (device/standard.go) over the Device object, the application's          *)
(* goroutines, and a host that submits one control request at a time and   *)
(* may reset the bus.                                                      *)
(*                                                                         *)
(* One request goes through the loop as                                    *)
(*   reading -> handling -> (settling ->) completing -> reading            *)
(* and leaves handling for stalling, completing for failed on an error.    *)
(***************************************************************************)
EXTENDS Device

CONSTANTS
  Endpoints,      (* endpoint addresses other than 0                        *)
  IsoEndpoints,   (* those of them that are isochronous                     *)
  Interfaces,     (* interface numbers                                      *)
  EndpointsOf,    (* per configuration value, its endpoints                 *)
  InterfacesOf,   (* per configuration value, its interfaces                *)
  Alternates,     (* alternate settings a host asks for; 0 is the first     *)
  AppCalls,       (* the Device methods the application calls               *)
  Submissions,    (* the control requests the host submits                  *)
  HalFaults       (* whether the HAL may fail to complete a request         *)

AppMethods == {"AddConfiguration", "Suspend", "Resume", "Close", "EnableRemoteWakeup"}

(* wValue, wIndex and wLength of a SETUP packet, with bmRequestType and    *)
(* bRequest folded into one name.                                          *)
RequestNames ==
  {"GetStatus", "SetWakeup", "ClearWakeup", "SetAddress", "GetDescriptor",
   "GetConfiguration", "SetConfiguration", "GetInterface", "SetInterface",
   "GetInterfaceStatus", "GetEndpointStatus", "SynchFrame", "SetHalt", "ClearHalt",
   "InterfaceFeature", "Unsupported", "ClassIn", "ClassOut"}
Requests == [name : RequestNames, value : Nat, index : Nat, length : Nat]

ASSUME ControlAssumption ==
  /\ Endpoints \subseteq Nat \ {0}
  /\ IsoEndpoints \subseteq Endpoints
  /\ Interfaces \subseteq Nat
  /\ EndpointsOf \in [ConfigValues -> SUBSET Endpoints]
  /\ InterfacesOf \in [ConfigValues -> SUBSET Interfaces]
  /\ Alternates \subseteq Nat /\ 0 \in Alternates
  /\ AppCalls \subseteq AppMethods
  /\ Submissions \subseteq Requests
  /\ \A r \in Submissions :
       /\ r.name = "SetAddress" => r.value \in Addresses \union {0}
       /\ r.name = "SetInterface" => r.value \in Alternates
  /\ HalFaults \in BOOLEAN

NoRequest  == [name |-> "none", value |-> 0, index |-> 0, length |-> 0]
BusResetRequest == [NoRequest EXCEPT !.name = "reset"]
NoData     == {}

VARIABLES
  pc,            (* where the control loop is                               *)
  request,       (* Stack.setupBuf: the request being handled               *)
  response,      (* {v}: HandleSetup returned the data v; {}: nil or empty  *)
  halted,        (* <<configuration, endpoint>> with Endpoint.stalled set   *)
  alternate,     (* Interface.AlternateSetting, per configuration           *)
  wire,          (* SETUP packet sent and not yet read                      *)
  resetPending,  (* bus reset signalled and not yet read                    *)
  awaiting,      (* the request the host waits for an answer to             *)
  belief,        (* what the answers so far told the host of the device     *)
  suspect,       (* a request has failed after the handler had run          *)
  snapshot       (* control state when the request was read (history)       *)

loopVars == <<pc, request, response, halted, alternate, snapshot>>
hostVars == <<wire, resetPending, awaiting, belief, suspect>>
vars     == <<deviceVars, loopVars, hostVars>>

InterfaceKeys == {k \in ConfigValues \X Interfaces : k[2] \in InterfacesOf[k[1]]}
EndpointKeys  == {k \in ConfigValues \X Endpoints : k[2] \in EndpointsOf[k[1]]} \union {<<0, 0>>}

Belief == [address : Addresses \union {0}, config : ConfigValues \union {0}, wakeup : BOOLEAN]
Fresh  == [address |-> 0, config |-> 0, wakeup |-> FALSE]

TypeOK ==
  /\ DeviceTypeOK
  /\ pc \in {"reading", "handling", "settling", "completing", "failed", "stalling"}
  /\ request \in Submissions \union {NoRequest, BusResetRequest}
  /\ response \in SUBSET Nat
  /\ halted \subseteq EndpointKeys
  /\ alternate \in [InterfaceKeys -> Alternates]
  /\ wire \in Submissions \union {NoRequest}
  /\ resetPending \in BOOLEAN
  /\ awaiting \in Submissions \union {NoRequest}
  /\ belief \in Belief
  /\ suspect \in BOOLEAN

ControlState == <<address, activeConfig, remoteWakeup, halted, alternate>>
NoSnapshot   == <<>>

Init ==
  /\ DeviceInit
  /\ pc = "reading"
  /\ request = NoRequest
  /\ response = NoData
  /\ halted = {}
  /\ alternate = [k \in InterfaceKeys |-> 0]
  /\ wire = NoRequest
  /\ resetPending = FALSE
  /\ awaiting = NoRequest
  /\ belief = Fresh
  /\ suspect = FALSE
  /\ snapshot = NoSnapshot

-----------------------------------------------------------------------------
(* The host.                                                               *)

HostSubmit(r) ==
  /\ awaiting = NoRequest
  /\ ~resetPending
  /\ wire' = r
  /\ awaiting' = r
  /\ UNCHANGED <<deviceVars, loopVars, resetPending, belief, suspect>>

(* A reset abandons the request under way; its answer is then dropped.  A  *)
(* SETUP packet the device has not read yet is read first.                 *)
BusReset ==
  /\ ~resetPending
  /\ wire = NoRequest
  /\ resetPending' = TRUE
  /\ awaiting' = NoRequest
  /\ belief' = Fresh
  /\ suspect' = FALSE
  /\ UNCHANGED <<deviceVars, loopVars, wire>>

(* The host's own time-out for a request the device has left unanswered.   *)
GiveUp ==
  /\ awaiting # NoRequest
  /\ wire = NoRequest
  /\ pc = "reading"
  /\ awaiting' = NoRequest
  /\ UNCHANGED <<deviceVars, loopVars, wire, resetPending, belief, suspect>>

(* What the host knows once its request r has been acknowledged.           *)
Learn(r) ==
  CASE r.name = "SetAddress"       -> [belief EXCEPT !.address = r.value]
    [] r.name = "SetConfiguration" -> [belief EXCEPT !.config = r.value]
    [] r.name = "SetWakeup"        -> [belief EXCEPT !.wakeup = TRUE]
    [] r.name = "ClearWakeup"      -> [belief EXCEPT !.wakeup = FALSE]
    [] OTHER                       -> belief

-----------------------------------------------------------------------------
(* Back to ReadSetup; what was kept for the request is no longer needed.   *)
Return ==
  /\ pc' = "reading"
  /\ request' = NoRequest
  /\ response' = NoData
  /\ snapshot' = NoSnapshot

(* controlLoop: ReadSetup returns a packet, or ErrReset.                   *)

ReadSetup ==
  /\ pc = "reading"
  /\ wire # NoRequest
  /\ request' = wire
  /\ wire' = NoRequest
  /\ response' = NoData
  /\ snapshot' = ControlState
  /\ pc' = "handling"
  /\ UNCHANGED <<deviceVars, halted, alternate, resetPending, awaiting, belief, suspect>>

ReadReset ==
  /\ pc = "reading"
  /\ wire = NoRequest
  /\ resetPending
  /\ resetPending' = FALSE
  /\ Reset(Loop)
  /\ request' = BusResetRequest
  /\ pc' = "settling"
  /\ UNCHANGED <<response, halted, alternate, snapshot, wire, awaiting, belief, suspect>>

(* The setState at the end of Reset, SetAddress and SetConfiguration.      *)
Settle ==
  /\ pc = "settling"
  /\ setState(Loop)
  /\ IF request = BusResetRequest
       THEN Return
       ELSE pc' = "completing" /\ UNCHANGED <<request, response, snapshot>>
  /\ UNCHANGED <<halted, alternate, hostVars>>

-----------------------------------------------------------------------------
(* handleSetup: one action per request, as HandleSetup dispatches it.      *)

Handling(names) == pc = "handling" /\ request.name \in names

(* Mutant of Reject: the loop forgets to stall endpoint 0.                 *)
RejectSilently == pc' = "reading" /\ UNCHANGED response

Reject == pc' = "stalling" /\ UNCHANGED response
Accept == pc' = "completing" /\ UNCHANGED response
Answer(v) == pc' = "completing" /\ response' = {v}

handleSetAddress ==
  /\ Handling({"SetAddress"})
  /\ \/ SetAddress(Loop, request.value) /\ pc' = "settling" /\ UNCHANGED response
     \/ ~CanSetAddress /\ Reject /\ UNCHANGED deviceVars
  /\ UNCHANGED <<request, halted, alternate, snapshot, hostVars>>

(* Mutant of handleSetConfiguration: the old configuration is dropped      *)
(* before the new one is looked up.                                        *)
SetConfigurationDropsFirst ==
  /\ Handling({"SetConfiguration"})
  /\ \/ SetConfiguration(Loop, request.value) /\ pc' = "settling" /\ UNCHANGED response
     \/ /\ ~CanSetConfiguration(request.value)
        /\ Reject
        /\ activeConfig' = 0
        /\ UNCHANGED <<state, previousState, address, configurations, remoteWakeup, call>>
  /\ UNCHANGED <<request, halted, alternate, snapshot, hostVars>>

handleSetConfiguration ==
  /\ Handling({"SetConfiguration"})
  /\ \/ SetConfiguration(Loop, request.value) /\ pc' = "settling" /\ UNCHANGED response
     \/ ~CanSetConfiguration(request.value) /\ Reject /\ UNCHANGED deviceVars
  /\ UNCHANGED <<request, halted, alternate, snapshot, hostVars>>

setDeviceFeature ==
  /\ Handling({"SetWakeup", "ClearWakeup"})
  /\ EnableRemoteWakeup(Loop, request.name = "SetWakeup")
  /\ Accept
  /\ UNCHANGED <<request, halted, alternate, snapshot, hostVars>>

getDeviceStatus ==
  /\ Handling({"GetStatus"})
  /\ IF request.length < 2 THEN Reject ELSE Answer(IF remoteWakeup THEN 2 ELSE 0)
  /\ UNCHANGED <<deviceVars, request, halted, alternate, snapshot, hostVars>>

getConfiguration ==
  /\ Handling({"GetConfiguration"})
  /\ Answer(activeConfig)
  /\ UNCHANGED <<deviceVars, request, halted, alternate, snapshot, hostVars>>

(* The configuration descriptor of index i is looked up by the value i + 1 *)
(* and cut to wLength bytes, which may leave nothing.                      *)
getDescriptor ==
  /\ Handling({"GetDescriptor"})
  /\ \/ request.value + 1 \notin configurations /\ Reject
     \/ request.value + 1 \in configurations /\ request.length > 0 /\ Answer(request.value + 1)
     \/ request.value + 1 \in configurations /\ request.length = 0 /\ Accept
  /\ UNCHANGED <<deviceVars, request, halted, alternate, snapshot, hostVars>>

HasInterface(i) == activeConfig # 0 /\ i \in InterfacesOf[activeConfig]

getInterface ==
  /\ Handling({"GetInterface", "GetInterfaceStatus"})
  /\ IF ~HasInterface(request.index) \/ (request.name = "GetInterfaceStatus" /\ request.length < 2)
       THEN Reject
       ELSE Answer(IF request.name = "GetInterface"
                     THEN alternate[<<activeConfig, request.index>>] ELSE 0)
  /\ UNCHANGED <<deviceVars, request, halted, alternate, snapshot, hostVars>>

(* Interface.SetAlternate stores the setting and then asks the driver,     *)
(* which may refuse it: the request is stalled and the setting stays.      *)
setInterface ==
  /\ Handling({"SetInterface"})
  /\ \/ /\ HasInterface(request.index)
        /\ alternate' = [alternate EXCEPT ![<<activeConfig, request.index>>] = request.value]
        /\ Accept \/ Reject
     \/ ~HasInterface(request.index) /\ Reject /\ UNCHANGED alternate
  /\ UNCHANGED <<deviceVars, request, halted, snapshot, hostVars>>

(* Device.GetEndpoint: endpoint 0 always, others in the active one.        *)
HasEndpoint(e) == e = 0 \/ (activeConfig # 0 /\ e \in EndpointsOf[activeConfig])
EndpointKey(e) == IF e = 0 THEN <<0, 0>> ELSE <<activeConfig, e>>

getEndpointStatus ==
  /\ Handling({"GetEndpointStatus"})
  /\ IF request.length >= 2 /\ HasEndpoint(request.index)
       THEN Answer(IF EndpointKey(request.index) \in halted THEN 1 ELSE 0)
       ELSE Reject
  /\ UNCHANGED <<deviceVars, request, halted, alternate, snapshot, hostVars>>

(* Nothing advances Endpoint.frameNumber: the answer is always 0.          *)
synchFrame ==
  /\ Handling({"SynchFrame"})
  /\ IF request.length >= 2 /\ HasEndpoint(request.index) /\ request.index \in IsoEndpoints
       THEN Answer(0) ELSE Reject
  /\ UNCHANGED <<deviceVars, request, halted, alternate, snapshot, hostVars>>

setEndpointFeature ==
  /\ Handling({"SetHalt", "ClearHalt"})
  /\ \/ /\ HasEndpoint(request.index)
        /\ halted' = IF request.name = "SetHalt" THEN halted \union {EndpointKey(request.index)}
                                                 ELSE halted \ {EndpointKey(request.index)}
        /\ Accept
     \/ ~HasEndpoint(request.index) /\ Reject /\ UNCHANGED halted
  /\ UNCHANGED <<deviceVars, request, alternate, snapshot, hostVars>>

(* Requests of class drivers.  The driver gets no data stage and returns   *)
(* none: handled (completeSetup(setup, nil)), refused or not handled.      *)
handleClass ==
  /\ Handling({"ClassIn", "ClassOut"})
  /\ \/ HasInterface(request.index) /\ Accept
     \/ Reject
  /\ UNCHANGED <<deviceVars, request, halted, alternate, snapshot, hostVars>>

(* Interface features are acknowledged whatever the interface is.          *)
handleUnsupported ==
  /\ Handling({"InterfaceFeature", "Unsupported"})
  /\ IF request.name = "InterfaceFeature" THEN Accept ELSE Reject
  /\ UNCHANGED <<deviceVars, request, halted, alternate, snapshot, hostVars>>

-----------------------------------------------------------------------------
(* completeSetup and StallEP0.  awaiting = NoRequest here means that the   *)
(* host has given the request up; what is sent is then lost.               *)

InRequests == {"GetStatus", "GetDescriptor", "GetConfiguration", "GetInterface",
               "GetInterfaceStatus", "GetEndpointStatus", "SynchFrame", "ClassIn"}

(* An IN request whose handler returned no data is not answered at all.    *)
Answered == request.name \in InRequests => response # NoData

completeSetup ==
  /\ pc = "completing"
  /\ Return
  /\ IF Answered /\ awaiting # NoRequest
       THEN awaiting' = NoRequest /\ belief' = Learn(request)
       ELSE UNCHANGED <<awaiting, belief>>
  /\ UNCHANGED <<deviceVars, halted, alternate, wire, resetPending, suspect>>

completeFails ==
  /\ HalFaults
  /\ pc = "completing"
  /\ pc' = "failed"
  /\ suspect' = (suspect \/ awaiting # NoRequest)
  /\ UNCHANGED <<deviceVars, request, response, halted, alternate, snapshot, wire, resetPending, awaiting, belief>>

StallEP0 ==
  /\ pc \in {"stalling", "failed"}
  /\ Return
  /\ awaiting' = NoRequest
  /\ UNCHANGED <<deviceVars, halted, alternate, wire, resetPending, belief, suspect>>

-----------------------------------------------------------------------------
(* The application.                                                        *)
AppCall(p) ==
  /\ \/ "AddConfiguration" \in AppCalls /\ \E v \in ConfigValues : AddConfiguration(p, v)
     \/ "Suspend" \in AppCalls /\ Suspend(p)
     \/ "Resume" \in AppCalls /\ Resume(p)
     \/ "Close" \in AppCalls /\ Close(p)
     \/ "EnableRemoteWakeup" \in AppCalls /\ \E b \in BOOLEAN : EnableRemoteWakeup(p, b)
     \/ setState(p)
  /\ UNCHANGED <<loopVars, hostVars>>

LoopStep ==
  \/ ReadSetup \/ ReadReset \/ Settle
  \/ handleSetAddress \/ handleSetConfiguration \/ setDeviceFeature
  \/ getDeviceStatus \/ getConfiguration \/ getDescriptor
  \/ getInterface \/ setInterface
  \/ getEndpointStatus \/ synchFrame \/ setEndpointFeature
  \/ handleClass \/ handleUnsupported
  \/ completeSetup \/ completeFails \/ StallEP0

Host == BusReset \/ GiveUp \/ \E r \in Submissions : HostSubmit(r)

Next ==
  \/ LoopStep
  \/ Host
  \/ \E p \in AppProcs : AppCall(p)

Spec == Init /\ [][Next]_vars

(* controlLoop runs on its own goroutine, takes no lock for long and its   *)
(* HAL calls return (over the FIFO HAL, as long as the control pipe has    *)
(* room for an answer): whenever it can move, it eventually does.          *)
FairSpec == Spec /\ WF_vars(LoopStep)

-----------------------------------------------------------------------------
(* The chapter-9 view of the device: the state is the one the method under *)
(* way on the control loop is about to write.                              *)
Settled == IF call[Loop] = NoCall THEN state ELSE call[Loop]

Usb == INSTANCE UsbDevice
         WITH usbState <- Settled, usbAddress <- address, usbConfig <- activeConfig

(* With no Suspend, Resume or Close from the application, the two-step     *)
(* methods of Device behave like the atomic chapter-9 device.              *)
ImplementsUsbDevice == Usb!Spec

(* What Device.State and the getters report, and what they will report     *)
(* once the method under way on the control loop has set the state.        *)
Reported == INSTANCE UsbDevice
              WITH usbState <- state, usbAddress <- address, usbConfig <- activeConfig

(* The state a device reports agrees with its address and configuration    *)
(* whenever the loop reads, handles, completes or stalls.  Between         *)
(* device.go:238 (or :258, :287, :307) and setState it need not: State()   *)
(* still tells the old state beside the new fields.  The gap closes before *)
(* the answer is sent, and the state on its way agrees with the fields.    *)
StateCoherent ==
  IF pc = "settling" THEN Usb!StateMatchesFields ELSE Reported!StateMatchesFields

(* The active configuration is one of the registered ones, whatever the    *)
(* application calls at whatever moment.                                   *)
ActiveConfigRegistered == activeConfig \in configurations \union {0}

(* The application may drop the active configuration and switch remote     *)
(* wakeup, if it calls the methods for it.                                 *)
SameConfig(v) == activeConfig = v \/ ("Close" \in AppCalls /\ activeConfig = 0)
SameWakeup(b) == remoteWakeup = b \/ "EnableRemoteWakeup" \in AppCalls

(* When the loop is back in ReadSetup and no answer is outstanding, the    *)
(* device holds the address, configuration and wakeup setting its answers  *)
(* told the host, unless a request failed after its handler had run; a bus *)
(* reset restores the agreement.                                           *)
HostBeliefHolds ==
  pc = "reading" /\ awaiting = NoRequest /\ ~resetPending /\ ~suspect =>
    /\ address = belief.address
    /\ SameConfig(belief.config)
    /\ SameWakeup(belief.wakeup)

(* A request that its handler refuses with a STALL has changed neither the *)
(* device nor its endpoints and interfaces, with one exception: a          *)
(* SET_INTERFACE that the driver refuses (interface.go:186-196) has stored *)
(* the setting it asked for in the interface it names, and only there.     *)
RefusalContained ==
  pc = "stalling" =>
    /\ address = snapshot[1]
    /\ SameConfig(snapshot[2])
    /\ SameWakeup(snapshot[3])
    /\ halted = snapshot[4]
    /\ \/ alternate = snapshot[5]
       \/ /\ request.name = "SetInterface"
          /\ alternate = [snapshot[5] EXCEPT ![<<snapshot[2], request.index>>] = request.value]

(* The requests the code never answers: a class IN request that its driver *)
(* has handled, because handleSetup hands completeSetup no data            *)
(* (stack.go:213) and an IN request without data sends nothing             *)
(* (stack.go:229), and for the same reason a descriptor of zero bytes.     *)
Unanswerable(r) == r.name = "ClassIn" \/ (r.name = "GetDescriptor" /\ r.length = 0)

(* Every control request but these is answered with data, an               *)
(* acknowledgement or a STALL (controlLoop, completeSetup), unless the     *)
(* host gives it up, also after requests that were left unanswered.        *)
RequestAnswered ==
  awaiting # NoRequest /\ ~Unanswerable(awaiting) ~> awaiting = NoRequest
=============================================================================
