------------------------------- MODULE Assembly -------------------------------
(***************************************************************************)
(* A composite device put together, attached to its class drivers and read *)
(* by a host: the application's goroutines, the control loop of the stack  *)
(* (device/stack.go, device/standard.go) and the enumeration of the host   *)
(* (host/enumeration.go) over the tree of Configuration and the drivers of *)
(* ClassDrivers.                                                           *)
(*                                                                         *)
(* The application builds the device, then each of its goroutines makes    *)
(* the calls of its list.  The control loop serves one request at a time:  *)
(*   reading -> lookup -> entering -> header -> interface (-> endpoints -> *)
(*     endpoint ... -> interface) ... -> replying -> reading               *)
(*                                             GET_DESCRIPTOR              *)
(*   reading -> configure -> reading           SET_CONFIGURATION           *)
(*   reading -> find -> reach -> handle -> reading    a class request      *)
(***************************************************************************)
EXTENDS ClassDrivers

CONSTANTS
  Plans   (* what is built, what the goroutines call, what the host asks    *)

Served == 1   (* descriptor index 0 asks for the configuration of value 1   *)

Uses == {"send", "receive", "notify"}
Lifecycle == {"attach", "detach", "removeInterface", "close"}
Writers   == {"removeInterface", "selfPowered", "addInterface", "association"}

Numbers == Seq(Nat) \ {<<>>}
Calls ==
  [op : {"attach"}, driver : Drivers, value : Nat, numbers : Numbers]
  \union [op : {"detach"}, driver : {Nobody}, value : Nat, numbers : Numbers]
  \union [op : {"addEndpoint", "removeEndpoint"}, value : Nat, numbers : Numbers,
         endpoint : EndpointType]
  \union [op : Writers, value : Nat, number : Nat, class : STRING]
  \union [op : {"setStack"} \union Uses, driver : Drivers]
  \union [op : {"start", "close"}]
Requests == [kind : {"Class"}, number : Nat, name : STRING, setting : Nat]

ASSUME PlansAssumption ==
  /\ Served \in Values
  /\ Plans \subseteq [script : Seq(BuilderCalls), calls : [Apps -> Seq(Calls)],
                      requests : Seq(Requests)]

NoRequest == [kind |-> "none"]
Lapsed(r) == [kind |-> "lapsed", name |-> r.name]   (* nobody answers it any more *)
NoAnswer  == [kind |-> "none"]
NoTree    == [value |-> 0, announces |-> 0, interfaces |-> <<>>, endpoints |-> <<>>]

VARIABLES
  plan,         (* the plan of the behaviour                                *)
  phase,        (* "building", "built", or "failed" when Build returned an  *)
                (* error                                                    *)
  builder,      (* calls of the DeviceBuilder left, and what it has made    *)
  app,          (* per goroutine: calls left, where it is in the first one, *)
                (* and the locals of that call                              *)
  onBus,        (* the stack is started and the host has seen the device    *)
  active,       (* value of Device.activeConfig, 0 when it is nil           *)
  isConfigured, (* Device.IsConfigured                                      *)
  loop,         (* where the control loop is, with its locals               *)
  request,      (* the request the host waits for an answer to              *)
  answer,       (* its answer                                               *)
  host,         (* where the host is, the tree it has read, requests left   *)
  changed,      (* the tree changed after the host saw the device (history) *)
  removed,      (* an interface or an endpoint was taken away (history)     *)
  torn,         (* endpoints have changed since the header of the           *)
                (* descriptor that is being written (history)               *)
  tangled,      (* two calls of Lifecycle have overlapped (history)         *)
  used          (* addresses of endpoints handed to the HAL (history)       *)

busVars  == <<onBus, active, isConfigured>>
hostVars == <<request, answer, host>>
vars == <<treeVars, lockVars, driverVars, plan, phase, builder, app, busVars, loop,
          hostVars, changed, removed, torn, tangled, used>>

NoBuilder == [calls |-> <<>>, made |-> NewDeviceBuilder]

Idle    == [at |-> "reading", object |-> 0, target |-> Nobody, header |-> NoAnswer,
            items |-> <<>>, index |-> 0, slice |-> 0, next |-> 0]
Frame(calls) == [calls |-> calls, at |-> "ready", todo |-> <<>>, old |-> Nobody,
                 clean |-> FALSE, endpoint |-> 0, slice |-> 0, read |-> <<>>]

Init ==
  /\ plan \in Plans
  /\ phase = "building"
  /\ builder = [calls |-> plan.script, made |-> NewDeviceBuilder]
  /\ app = [p \in Apps |-> Frame(plan.calls[p])]
  /\ values = <<>> /\ objs = <<>> /\ tree = [v \in Values |-> EmptyTree]
  /\ announced = [v \in Values |-> Nobody] /\ readers = [v \in Values |-> 0]
  /\ deviceLock = Nobody
  /\ driver = [d \in Drivers |-> Detached]
  /\ classDriver = <<>>
  /\ onBus = FALSE /\ active = 0 /\ isConfigured = FALSE
  /\ loop = Idle
  /\ request = NoRequest /\ answer = NoAnswer
  /\ host = [at |-> "idle", tree |-> NoTree, requests |-> plan.requests]
  /\ changed = FALSE /\ removed = FALSE /\ torn = FALSE /\ tangled = FALSE /\ used = {}

-----------------------------------------------------------------------------
(* The application.                                                        *)

(* One call of a method of DeviceBuilder.                                  *)
BuilderStep ==
  /\ phase = "building"
  /\ builder.calls # <<>>
  /\ builder' = [calls |-> Tail(builder.calls), made |-> BuilderCall(builder.made, Head(builder.calls))]
  /\ UNCHANGED <<treeVars, lockVars, driverVars, plan, phase, app, busVars, loop, hostVars,
                 changed, removed, torn, tangled, used>>

Build ==
  /\ phase = "building"
  /\ builder.calls = <<>>
  /\ builder' = NoBuilder
  /\ LET b == builder.made
     IN IF Builds(b)
        THEN /\ phase' = "built"
             /\ values' = b.values /\ objs' = b.objs /\ tree' = b.tree
             /\ classDriver' = [o \in DOMAIN b.objs |-> Nobody]
        ELSE phase' = "failed" /\ UNCHANGED <<treeVars, classDriver>>
  /\ UNCHANGED <<lockVars, driver, plan, app, busVars, loop, hostVars, changed, removed, torn, tangled, used>>

Call(p) == Head(app[p].calls)
Calling(p, ops, at) ==
  app[p].calls # <<>> /\ Call(p).op \in ops /\ app[p].at = at
InLifecycle(p) == Calling(p, Lifecycle, app[p].at) /\ app[p].at # "ready"

(* A nil pointer that any goroutine follows ends the program.              *)
Panicked == loop.at = "panicked" \/ \E p \in Apps : app[p].at = "panicked"

Goes(p, to) == app' = [app EXCEPT ![p].at = to]
Returns(p)  == app' = [app EXCEPT ![p] = Frame(Tail(@.calls))]

(* The interfaces a call names, found under both locks for reading.        *)
Reachable(c) == DeviceUnlocked /\ (GetConfiguration(c.value) => RLockable(c.value))
Named(c) == IF ~GetConfiguration(c.value) THEN <<0>>
            ELSE [k \in DOMAIN c.numbers |-> GetInterface(c.value, c.numbers[k])]

Attached(d) == {o \in DOMAIN classDriver : classDriver[o] = d}

(* Interfaces that have what the driver needs, each given once.            *)
WellFormed(d, os) ==
  /\ IsInjective(os)
  /\ IF d \in Hids
     THEN \A o \in ToSet(os) : OfKind(objs[o].endpoints, "interrupt", TRUE) # {}
     ELSE /\ \E o \in ToSet(os) : objs[o].class = "cdc"
          /\ \E o \in ToSet(os) : /\ objs[o].class = "cdc data"
                                  /\ OfKind(objs[o].endpoints, "bulk", TRUE) # {}
                                  /\ OfKind(objs[o].endpoints, "bulk", FALSE) # {}

(* AttachToInterfaces, AttachToInterface and SetClassDriver(nil).          *)
Resolve(p) ==
  /\ Calling(p, {"attach", "detach"}, "ready")
  /\ Reachable(Call(p))
  /\ LET c == Call(p)
         os == Named(c)
     IN IF 0 \in ToSet(os) THEN Returns(p)
        ELSE app' = [app EXCEPT ![p].at = "swap", ![p].todo = os,
                                ![p].clean = /\ c.driver # Nobody
                                             /\ Attached(c.driver) = {}
                                             /\ WellFormed(c.driver, os)]
  /\ UNCHANGED <<treeVars, lockVars, driverVars, busVars, used>>

(* SetClassDriver: the pointer under the interface's mutex, then Close of  *)
(* the driver that was there, then Init of the new one, both outside it.   *)
Swap(p) ==
  /\ Calling(p, {"attach", "detach"}, "swap")
  /\ LET o == Head(app[p].todo)
         new == Call(p).driver
         old == classDriver[o]
     IN /\ classDriver' = [classDriver EXCEPT ![o] = new]
        /\ IF old = Nobody /\ new = Nobody THEN Returns(p)
           ELSE app' = [app EXCEPT ![p].old = old,
                                   ![p].at = IF old = Nobody THEN "init" ELSE "close"]
  /\ UNCHANGED <<treeVars, lockVars, driver, busVars, used>>

(* Init holds the mutex of the driver while it searches.                   *)
DriverUnlocked(d) == \A q \in Apps : ~(Calling(q, {"attach"}, "search") /\ Call(q).driver = d)

CloseOld(p) ==
  /\ Calling(p, Lifecycle, "close")
  /\ DriverUnlocked(app[p].old)
  /\ driver' = [driver EXCEPT ![app[p].old] = CloseDriver(@)]
  /\ LET op == Call(p).op
     IN IF op = "detach" THEN Returns(p)
        ELSE Goes(p, CASE op = "attach" -> "init"
                       [] op = "removeInterface" -> "dropping"
                       [] op = "close" -> "emptying")
  /\ UNCHANGED <<treeVars, lockVars, classDriver, busVars, used>>

(* Init takes a slice of the interface's endpoints, and reads its elements *)
(* one by one without the interface's mutex (see TakeEndpoints below).     *)
InitBegins(p) ==
  /\ Calling(p, {"attach"}, "init")
  /\ DriverUnlocked(Call(p).driver)
  /\ LET o == Head(app[p].todo)
     IN app' = [app EXCEPT ![p].at = "search", ![p].read = <<>>,
                           ![p].slice = IF Ranges(Call(p).driver, o) THEN Len(objs[o].endpoints) ELSE 0]
  /\ UNCHANGED <<treeVars, lockVars, driverVars, busVars, used>>

Searched(p) == \/ Len(app[p].read) = app[p].slice
               \/ Breaks(Call(p).driver, Head(app[p].todo), app[p].read)
InitReads(p) ==
  /\ Calling(p, {"attach"}, "search") /\ ~Searched(p)
  /\ LET eps == objs[Head(app[p].todo)].endpoints
         n == Len(app[p].read) + 1
     IN IF n > Len(eps) THEN Goes(p, "panicked")
        ELSE app' = [app EXCEPT ![p].read = Append(@, eps[n])]
  /\ UNCHANGED <<treeVars, lockVars, driverVars, busVars, used>>

InitNew(p) ==
  /\ Calling(p, {"attach"}, "search") /\ Searched(p)
  /\ LET d == Call(p).driver
         o == Head(app[p].todo)
     IN /\ driver' = [driver EXCEPT ![d] = InitDriver(d, o, app[p].read)]
        /\ IF InitFails(d, o, app[p].read) \/ Len(app[p].todo) = 1 THEN Returns(p)
           ELSE app' = [app EXCEPT ![p].at = "swap", ![p].todo = Tail(@)]
  /\ UNCHANGED <<treeVars, lockVars, classDriver, busVars, used>>

(* The methods of Configuration that write.                                *)
Lock(p) ==
  /\ Calling(p, Writers, "ready")
  /\ IF GetConfiguration(Call(p).value)
     THEN Announce(p, Call(p).value) /\ Goes(p, "locked")
     ELSE Returns(p) /\ UNCHANGED announced
  /\ UNCHANGED <<treeVars, readers, deviceLock, driverVars, busVars, used>>

Write(p) ==
  /\ Calling(p, Writers \ {"removeInterface"}, "locked")
  /\ Locked(p, Call(p).value)
  /\ LET c == Call(p)
     IN CASE c.op = "addInterface" -> InterfaceAdded(c.value, c.number, c.class)
          [] c.op = "association"  -> AssociationAdded(c.value)
          [] c.op = "selfPowered"  -> UNCHANGED treeVars
  /\ classDriver' = [o \in DOMAIN objs' |->
                       IF o \in DOMAIN classDriver THEN classDriver[o] ELSE Nobody]
  /\ Unlock(Call(p).value)
  /\ Returns(p)
  /\ UNCHANGED <<readers, deviceLock, driver, busVars, used>>

(* Interface.Close: the pointer under the mutex, the driver's Close after. *)
Unplugged(p, o, then) ==
  /\ classDriver' = [classDriver EXCEPT ![o] = Nobody]
  /\ app' = [app EXCEPT ![p].old = classDriver[o], ![p].todo = <<o>>,
                        ![p].at = IF classDriver[o] = Nobody THEN then ELSE "close"]

RemoveInterface(p) ==
  /\ Calling(p, {"removeInterface"}, "locked")
  /\ Locked(p, Call(p).value)
  /\ LET o == GetInterface(Call(p).value, Call(p).number)
     IN IF o = 0
        THEN Unlock(Call(p).value) /\ Returns(p) /\ UNCHANGED classDriver
        ELSE Unplugged(p, o, "dropping") /\ UNCHANGED announced
  /\ UNCHANGED <<treeVars, readers, deviceLock, driver, busVars, used>>

(* RemoveInterface after Interface.Close.                                  *)
Drop(p) ==
  /\ Calling(p, {"removeInterface"}, "dropping")
  /\ LET v == Call(p).value
     IN InterfaceRemoved(v, CHOOSE k \in DOMAIN tree[v].interfaces :
                              tree[v].interfaces[k] = Head(app[p].todo))
  /\ Unlock(Call(p).value)
  /\ Returns(p)
  /\ UNCHANGED <<readers, deviceLock, driverVars, busVars, used>>

(* Device.Close: every configuration under its own lock, and the device's  *)
(* lock around all.                                                        *)
CloseDevice(p) ==
  /\ Calling(p, {"close"}, "ready")
  /\ DeviceUnlocked
  /\ deviceLock' = p
  /\ Goes(p, "closing")
  /\ UNCHANGED <<treeVars, announced, readers, driverVars, busVars, used>>

CloseConfiguration(p) ==
  /\ Calling(p, {"close"}, "closing")
  /\ values # <<>>
  /\ Announce(p, Head(values))
  /\ Goes(p, "emptying")
  /\ UNCHANGED <<treeVars, readers, deviceLock, driverVars, busVars, used>>

CloseInterface(p) ==
  /\ Calling(p, {"close"}, "emptying")
  /\ LET v == Head(values)
     IN /\ Locked(p, v)
        /\ tree[v].interfaces # <<>>
        /\ Unplugged(p, Head(tree[v].interfaces), "emptying")
        /\ InterfaceRemoved(v, 1)
  /\ UNCHANGED <<lockVars, driver, busVars, used>>

ConfigurationClosed(p) ==
  /\ Calling(p, {"close"}, "emptying")
  /\ LET v == Head(values)
     IN Locked(p, v) /\ tree[v].interfaces = <<>> /\ Unlock(v)
  /\ values' = Tail(values)
  /\ Goes(p, "closing")
  /\ UNCHANGED <<objs, tree, readers, deviceLock, driverVars, busVars, used>>

(* The device keeps its state: it stays configured with no configuration.  *)
DeviceClosed(p) ==
  /\ Calling(p, {"close"}, "closing")
  /\ values = <<>>
  /\ active' = 0
  /\ deviceLock' = Nobody
  /\ Returns(p)
  /\ UNCHANGED <<treeVars, announced, readers, driverVars, onBus, isConfigured, used>>

(* Interface.AddEndpoint and RemoveEndpoint take the interface's mutex     *)
(* only, which nothing else holds for more than a step.                    *)
ChangeEndpoints(p) ==
  /\ Calling(p, {"addEndpoint", "removeEndpoint"}, "ready")
  /\ Reachable(Call(p))
  /\ LET c == Call(p)
         o == Head(Named(c))
     IN IF o = 0 THEN UNCHANGED treeVars
        ELSE IF c.op = "addEndpoint" THEN EndpointAdded(o, c.endpoint)
             ELSE EndpointRemoved(o, c.endpoint.address)
  /\ Returns(p)
  /\ UNCHANGED <<lockVars, driverVars, busVars, used>>

SetStack(p) ==
  /\ Calling(p, {"setStack"}, "ready")
  /\ DriverUnlocked(Call(p).driver)
  /\ driver' = [driver EXCEPT ![Call(p).driver].stack = TRUE]
  /\ Returns(p)
  /\ UNCHANGED <<treeVars, lockVars, classDriver, busVars, used>>

Start(p) ==
  /\ Calling(p, {"start"}, "ready")
  /\ onBus' = TRUE
  /\ Returns(p)
  /\ UNCHANGED <<treeVars, lockVars, driverVars, active, isConfigured, used>>

(* A data call: the endpoint under the driver's mutex, then Stack.Read or  *)
(* Write, which asks whether the device is configured.                     *)
Prepare(p) ==
  /\ Calling(p, Uses, "ready")
  /\ DriverUnlocked(Call(p).driver)
  /\ LET c == Call(p)
     IN IF Usable(c.driver, c.op)
        THEN app' = [app EXCEPT ![p].at = "io",
                                ![p].endpoint = EndpointFor(c.driver, c.op).address]
        ELSE Returns(p)
  /\ UNCHANGED <<treeVars, lockVars, driverVars, busVars, used>>

(* Mutant of Transfer: the stack does not ask whether it is configured.    *)
TransferAlways(p) ==
  /\ Calling(p, Uses, "io")
  /\ used' = used \union {app[p].endpoint}
  /\ Returns(p)
  /\ UNCHANGED <<treeVars, lockVars, driverVars, busVars>>

Transfer(p) ==
  /\ Calling(p, Uses, "io")
  /\ used' = IF isConfigured THEN used \union {app[p].endpoint} ELSE used
  /\ Returns(p)
  /\ UNCHANGED <<treeVars, lockVars, driverVars, busVars>>

(* What the tree had it still has, and every endpoint where it was.        *)
NothingRemoved ==
  /\ \A v \in Values : ToSet(tree[v].interfaces) \subseteq ToSet(tree'[v].interfaces)
  /\ \A o \in DOMAIN objs : \A k \in DOMAIN objs[o].endpoints :
       k \in DOMAIN objs'[o].endpoints /\ objs'[o].endpoints[k] = objs[o].endpoints[k]

Marshalling == loop.at \in {"interface", "endpoints", "endpoint"}
EndpointsChange == \E o \in DOMAIN objs : objs'[o].endpoints # objs[o].endpoints

AppStep(p) ==
  /\ phase = "built" /\ ~Panicked
  /\ \/ Resolve(p) \/ Swap(p) \/ CloseOld(p) \/ InitBegins(p) \/ InitReads(p) \/ InitNew(p)
     \/ Lock(p) \/ Write(p) \/ RemoveInterface(p) \/ Drop(p)
     \/ CloseDevice(p) \/ CloseConfiguration(p) \/ CloseInterface(p)
     \/ ConfigurationClosed(p) \/ DeviceClosed(p)
     \/ ChangeEndpoints(p) \/ SetStack(p) \/ Start(p) \/ Prepare(p) \/ Transfer(p)
  /\ changed' = (changed \/ (onBus /\ <<objs, tree>>' # <<objs, tree>>))
  /\ removed' = (removed \/ ~NothingRemoved)
  /\ torn' = (torn \/ (Marshalling /\ EndpointsChange))
  /\ tangled' = (tangled \/ \E q \in Apps \ {p} : InLifecycle(q) /\ InLifecycle(p)')
  /\ UNCHANGED <<plan, phase, builder, loop, hostVars>>

-----------------------------------------------------------------------------
(* The control loop.                                                       *)

Answers(a) == answer' = a /\ request' = NoRequest /\ loop' = Idle
Stalls     == Answers([kind |-> "stall"])
Moves(to)  == loop' = [loop EXCEPT !.at = to] /\ UNCHANGED <<request, answer>>

ReadSetup ==
  /\ loop.at = "reading"
  /\ request.kind \notin {"none", "lapsed"}
  /\ Moves(CASE request.kind = "GetDescriptor"    -> "lookup"
             [] request.kind = "SetConfiguration" -> "configure"
             [] request.kind = "Class"            -> "find")
  /\ UNCHANGED <<lockVars, driver, active, isConfigured>>

Lookup ==
  /\ loop.at = "lookup"
  /\ DeviceUnlocked
  /\ IF GetConfiguration(Served) THEN Moves("entering") ELSE Stalls
  /\ UNCHANGED <<lockVars, driver, active, isConfigured>>

(* Configuration.MarshalTo holds the mutex for reading to its end ...      *)
Enter ==
  /\ loop.at = "entering"
  /\ RLockable(Served)
  /\ readers' = [readers EXCEPT ![Served] = @ + 1]
  /\ Moves("header")
  /\ UNCHANGED <<announced, deviceLock, driver, active, isConfigured>>

(* ... and calls Descriptor, which takes it for reading once more.         *)
Header ==
  /\ loop.at = "header"
  /\ RLockable(Served)
  /\ loop' = [loop EXCEPT !.at = "interface", !.index = 1, !.items = AssociationItems(Served),
                          !.header = [total |-> calculateTotalLength(Served),
                                      interfaces |-> Len(tree[Served].interfaces),
                                      value |-> Served]]
  /\ UNCHANGED <<lockVars, driver, active, isConfigured, request, answer>>

Current == tree[Served].interfaces[loop.index]

WriteInterface ==
  /\ loop.at = "interface"
  /\ loop.index <= Len(tree[Served].interfaces)
  /\ loop' = [loop EXCEPT !.at = "endpoints", !.items = Append(@, InterfaceItem(Current))]
  /\ UNCHANGED <<lockVars, driver, active, isConfigured, request, answer>>

(* Interface.Endpoints returns a slice of the storage of the interface:    *)
(* its length is fixed here, its elements are read later.                  *)
TakeEndpoints ==
  /\ loop.at = "endpoints"
  /\ loop' = [loop EXCEPT !.slice = Len(objs[Current].endpoints), !.next = 1,
                          !.at = IF objs[Current].endpoints = <<>> THEN "interface" ELSE "endpoint",
                          !.index = IF objs[Current].endpoints = <<>> THEN @ + 1 ELSE @]
  /\ UNCHANGED <<lockVars, driver, active, isConfigured, request, answer>>

(* RemoveEndpoint shifts the storage and clears its last element: a slice  *)
(* taken before then ends in a nil pointer.                                *)
WriteEndpoint ==
  /\ loop.at = "endpoint"
  /\ LET eps == objs[Current].endpoints
         last == loop.next = loop.slice
     IN IF loop.next > Len(eps) THEN loop' = [loop EXCEPT !.at = "panicked"]
        ELSE loop' = [loop EXCEPT !.items = Append(@, EndpointItem(eps[loop.next])),
                                  !.next = @ + 1,
                                  !.at = IF last THEN "interface" ELSE "endpoint",
                                  !.index = IF last THEN @ + 1 ELSE @]
  /\ UNCHANGED <<lockVars, driver, active, isConfigured, request, answer>>

(* Mutant of Leave: the lock is not given back.                            *)
LeaveLocked ==
  /\ loop.at = "interface"
  /\ loop.index > Len(tree[Served].interfaces)
  /\ Moves("replying")
  /\ UNCHANGED <<lockVars, driver, active, isConfigured>>

Leave ==
  /\ loop.at = "interface"
  /\ loop.index > Len(tree[Served].interfaces)
  /\ readers' = [readers EXCEPT ![Served] = @ - 1]
  /\ Moves("replying")
  /\ UNCHANGED <<announced, deviceLock, driver, active, isConfigured>>

(* A descriptor longer than the buffer is refused, a shorter one is cut at *)
(* the length the host asks for.                                           *)
Reply ==
  /\ loop.at = "replying"
  /\ LET size == DescriptorSize(loop.items)
     IN IF size > BufferSize THEN Stalls
        ELSE Answers([kind |-> "data", header |-> loop.header, items |-> loop.items,
                      n |-> IF size > request.length THEN request.length ELSE size])
  /\ UNCHANGED <<lockVars, driver, active, isConfigured>>

SetConfiguration ==
  /\ loop.at = "configure"
  /\ DeviceUnlocked
  /\ IF GetConfiguration(request.value)
     THEN active' = request.value /\ isConfigured' = TRUE /\ Answers([kind |-> "ack"])
     ELSE Stalls /\ UNCHANGED <<active, isConfigured>>
  /\ UNCHANGED <<lockVars, driver>>

Find ==
  /\ loop.at = "find"
  /\ DeviceUnlocked /\ (active # 0 => RLockable(active))
  /\ LET o == IF active = 0 THEN 0 ELSE GetInterface(active, request.number)
     IN IF o = 0 THEN Stalls
        ELSE loop' = [loop EXCEPT !.at = "reach", !.object = o] /\ UNCHANGED <<request, answer>>
  /\ UNCHANGED <<lockVars, driver, active, isConfigured>>

Reach ==
  /\ loop.at = "reach"
  /\ IF classDriver[loop.object] = Nobody THEN Stalls
     ELSE /\ loop' = [loop EXCEPT !.at = "handle", !.target = classDriver[loop.object]]
          /\ UNCHANGED <<request, answer>>
  /\ UNCHANGED <<lockVars, driver, active, isConfigured>>

(* The driver may have been closed since it was read.  Nothing is sent for *)
(* a request from device to host: HandleSetup returns no data.  GET_REPORT *)
(* alone is accepted without the mutex of the driver.                      *)
Handle ==
  /\ loop.at = "handle"
  /\ Accepts(loop.target, request.name) /\ request.name # "GetReport" => DriverUnlocked(loop.target)
  /\ IF Accepts(loop.target, request.name)
     THEN /\ driver' = [driver EXCEPT ![loop.target] =
                                        AfterRequest(@, request.name, request.setting)]
          /\ IF request.name \in DeviceToHost
             THEN loop' = Idle /\ request' = Lapsed(request) /\ UNCHANGED answer
             ELSE Answers([kind |-> "ack"])
     ELSE Stalls /\ UNCHANGED driver
  /\ UNCHANGED <<lockVars, active, isConfigured>>

LoopStep ==
  /\ ~Panicked
  /\ \/ ReadSetup \/ Lookup \/ Enter \/ Header \/ WriteInterface \/ TakeEndpoints
     \/ WriteEndpoint \/ Leave \/ Reply \/ SetConfiguration \/ Find \/ Reach \/ Handle
  /\ torn' = (torn /\ Marshalling')
  /\ UNCHANGED <<treeVars, classDriver, plan, phase, builder, app, onBus, host, changed,
                 removed, tangled, used>>

-----------------------------------------------------------------------------
(* The host: the header, the whole configuration, SET_CONFIGURATION, then  *)
(* the class requests of its application.                                  *)

Asks(r) == request' = r /\ answer' = NoAnswer
GetDescriptor(length) == [kind |-> "GetDescriptor", length |-> length]
HostGoes(to) == host' = [host EXCEPT !.at = to]
GivesUp == HostGoes("failed") /\ answer' = NoAnswer /\ UNCHANGED request

HostEnumerate ==
  /\ host.at = "idle" /\ onBus
  /\ Asks(GetDescriptor(HeaderSize))
  /\ HostGoes("header")

HostHeader ==
  /\ host.at = "header" /\ answer # NoAnswer
  /\ IF answer.kind = "stall" THEN GivesUp
     ELSE /\ Asks(GetDescriptor(IF answer.header.total > BufferSize THEN BufferSize
                                ELSE answer.header.total))
          /\ HostGoes("whole")

HostTree ==
  /\ host.at = "whole" /\ answer # NoAnswer
  /\ IF answer.kind = "stall" THEN GivesUp
     ELSE /\ host' = [host EXCEPT !.at = "configuring",
                        !.tree = parseConfigurationTree(answer.header, answer.items, answer.n)]
          /\ Asks([kind |-> "SetConfiguration", value |-> answer.header.value])

HostConfigured ==
  /\ host.at = "configuring" /\ answer # NoAnswer
  /\ IF answer.kind = "stall" THEN GivesUp
     ELSE HostGoes("ready") /\ answer' = NoAnswer /\ UNCHANGED request

HostAsk ==
  /\ host.at = "ready" /\ host.requests # <<>>
  /\ Asks(Head(host.requests))
  /\ host' = [host EXCEPT !.at = "asking", !.requests = Tail(@)]

HostAnswered ==
  /\ host.at = "asking" /\ answer # NoAnswer
  /\ HostGoes("ready") /\ answer' = NoAnswer /\ UNCHANGED request

(* A control transfer that nobody answers ends at its deadline.            *)
HostTimesOut ==
  /\ host.at = "asking" /\ request.kind = "lapsed"
  /\ HostGoes("ready") /\ request' = NoRequest /\ UNCHANGED answer

HostStep ==
  /\ \/ HostEnumerate \/ HostHeader \/ HostTree \/ HostConfigured \/ HostAsk \/ HostAnswered
     \/ HostTimesOut
  /\ UNCHANGED <<treeVars, lockVars, driverVars, plan, phase, builder, app, busVars, loop,
                 changed, removed, torn, tangled, used>>

-----------------------------------------------------------------------------
Next == BuilderStep \/ Build \/ LoopStep \/ HostStep \/ \E p \in Apps : AppStep(p)
Spec == Init /\ [][Next]_vars

(* The goroutines of the application and of the stack are scheduled, and   *)
(* the host goes on with what it began.                                    *)
FairSpec == /\ Spec
            /\ WF_vars(BuilderStep) /\ WF_vars(Build) /\ WF_vars(LoopStep) /\ WF_vars(HostStep)
            /\ \A p \in Apps : WF_vars(AppStep(p))

-----------------------------------------------------------------------------
(* The tree, its locks and the drivers refer to what there is.             *)
TypeOK ==
  /\ phase \in {"building", "built", "failed"}
  /\ values \in Seq(Values) /\ objs \in Seq(ObjectType)
  /\ tree \in [Values -> TreeType(Len(objs))]
  /\ announced \in [Values -> Apps \union {Nobody}]
  /\ readers \in [Values -> 0 .. 1]
  /\ deviceLock \in Apps \union {Nobody}
  /\ classDriver \in [1 .. Len(objs) -> Drivers \union {Nobody}]
  /\ \A d \in Drivers : Holds(d) \subseteq 1 .. Len(objs)
  /\ onBus \in BOOLEAN /\ isConfigured \in BOOLEAN
  /\ active \in Values \union {0}

(* When MarshalTo is done the descriptor is that of one moment, even       *)
(* though other goroutines add and remove interfaces: it has the           *)
(* interfaces of the tree, as many as its header announces, each with its  *)
(* number and in their order (the mutex of the configuration is held for   *)
(* reading).  bNumEndpoints, the endpoints and the total length are read   *)
(* under other locks, one after the other: they agree, and are those of    *)
(* the tree, if no endpoint was added or removed since the header.         *)
NumbersOf(items) == [k \in DOMAIN items |-> items[k].number]
Marshalled == loop.at = "interface" /\ loop.index > Len(tree[Served].interfaces)
ServedWhole ==
  Marshalled =>
    /\ NumbersOf(OfType(loop.items, "interface")) = NumbersOf(TreeOf(Served).interfaces)
    /\ loop.header.interfaces = Len(tree[Served].interfaces)
    /\ ~torn => /\ loop.header.total = DescriptorSize(loop.items)
                /\ parseConfigurationTree(loop.header, loop.items, loop.header.total) = TreeOf(Served)

(* A host that has read the tree of a device nobody changed since knows    *)
(* every interface and every endpoint of it, and was told how many         *)
(* interfaces there are.                                                   *)
TreeIsServed ==
  host.tree # NoTree /\ ~changed => host.tree = TreeOf(Served)

(* Unless two lifecycle calls overlapped, a driver between calls keeps     *)
(* only interfaces it is still attached to, and one that counts itself     *)
(* configured keeps one: replacing a driver, removing an interface and     *)
(* closing the device all reach the driver's Close.                        *)
AttachedOrClosed ==
  ~tangled /\ (\A p \in Apps : ~InLifecycle(p)) =>
    \A d \in Drivers :
      /\ Holds(d) \subseteq Attached(d)
      /\ driver[d].configured => Holds(d) # {}

(* Attaching a driver that was not attached before to interfaces that have *)
(* what it needs leaves it configured, whatever the host asks and the      *)
(* other goroutines add to the tree meanwhile, unless they take something  *)
(* away or attach, detach and close themselves.                            *)
AttachConfigures ==
  [][\A p \in Apps :
       /\ Calling(p, {"attach"}, "search") /\ app[p].clean
       /\ app'[p].at = "ready" /\ ~tangled' /\ ~removed'
       => driver'[Call(p).driver].configured]_vars

(* The endpoints on which drivers move data are endpoints the host knows   *)
(* of, if every driver is attached to the configuration the host selects,  *)
(* nothing was taken from the tree, and it has not changed since the host  *)
(* saw the device.                                                         *)
AttachedToServed ==
  \A p \in Apps : \A k \in DOMAIN plan.calls[p] :
    plan.calls[p][k].op = "attach" => plan.calls[p][k].value = Served

TransfersAreKnown ==
  ~changed /\ ~removed /\ AttachedToServed =>
    \A a \in used : \E k \in DOMAIN host.tree.endpoints : host.tree.endpoints[k].address = a

(* The loop waits inside MarshalTo for a writer that waits for it.         *)
Reentered == loop.at = "header" /\ ~RLockable(Served)

(* A request is answered, with data, an acknowledgment or a stall.  There  *)
(* are three ways in which it is not: a writer announced itself between    *)
(* the two times MarshalTo takes the mutex for reading; an endpoint was    *)
(* removed while a goroutine went through the endpoints of its interface,  *)
(* which ends the program; or a driver has accepted a request from device  *)
(* to host, for which nothing is sent.                                     *)
AnswerComes ==
  request # NoRequest
    ~> (answer # NoAnswer \/ Reentered \/ Panicked \/ (request.kind = "lapsed" /\ request.name \in DeviceToHost))

(* MarshalTo "writes the full configuration descriptor ... Returns the     *)
(* number of bytes written" (interface.go:398): it returns.                *)
MarshalReturns == loop.at = "header" ~> loop.at # "header"
=============================================================================
