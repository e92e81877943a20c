------------------------------ MODULE HostMonitor ------------------------------
(***************************************************************************)
(* The device table of the host: Host.Start, Stop, monitorDevices,         *)
(* allocateAddress and monitorDisconnection (host/host.go) with            *)
(* enumerateDevice (host/enumeration.go), over a HAL that queues the       *)
(* connections and disconnections of its ports.                            *)
(*                                                                         *)
(* monitorDevices is one goroutine (a monitor) that goes through           *)
(*   loop -> waiting -> probing -> allocating -> assigning -> reading      *)
(*        -> adding -> notifying -> spawning -> loop                       *)
(* with one Device object at a time, and spawns for each enumerated object *)
(* a goroutine (the object's watcher) that waits for a disconnection:      *)
(*   started -> waiting -> removing -> closing -> ended                    *)
(* Both read the field h.ctx again at every use; contexts are numbered by  *)
(* the call of Start that made them.                                       *)
(***************************************************************************)
EXTENDS Integers, Sequences, FiniteSets

CONSTANTS
  Ports,        (* root hub ports                                           *)
  Devs,         (* Device objects; newDevice takes a fresh one each time    *)
  NoDev,        (* the nil pointer                                          *)
  MaxDevices,   (* MaxDevices                                               *)
  Monitors,     (* goroutines running monitorDevices, numbered as the calls *)
                (* of Start that spawn them                                 *)
  Scenarios     (* bounds: the ports and objects that occur, and how many   *)
                (* calls of Start and Stop and connections                  *)

ASSUME HostAssumption ==
  /\ Ports # {}
  /\ NoDev \notin Devs
  /\ MaxDevices \in Nat \ {0}
  /\ Scenarios \subseteq
       [ports : SUBSET Ports, devs : SUBSET Devs, starts : Nat, stops : Nat, plugs : Nat]

Slots == 1..MaxDevices
Stages == {"idle", "loop", "waiting", "probing", "allocating", "assigning", "reading",
           "adding", "notifying", "spawning", "ended"}
WatcherStages == {"none", "started", "waiting", "removing", "closing", "ended"}

VARIABLES
  scenario,     (* the bounds of this behaviour, chosen at the start        *)
  app,          (* "idle", or in the middle of Start or of Stop             *)
  sweep,        (* the slot Stop clears next                                *)
  running,      (* Host.running                                             *)
  ctx,          (* number of the context in Host.ctx                        *)
  cancelled,    (* numbers of the contexts that are cancelled               *)
  stops,        (* calls of Stop that got past its guard                    *)
  devices,      (* Host.devices                                             *)
  deviceCount,  (* Host.deviceCount                                         *)
  nextAddress,  (* Host.nextAddress                                         *)
  at,           (* per monitor, where monitorDevices is                     *)
  waitCtx,      (* per monitor, the context WaitForConnection was given     *)
  dev,          (* per monitor, the object being enumerated                 *)
  port,         (* per monitor, the port of that object                     *)
  address,      (* Device.address                                           *)
  watcher,      (* per object, where its monitorDisconnection is            *)
  watchCtx,     (* per object, the context WaitForDisconnection was given   *)
  announced,    (* objects passed to onDeviceConnect (history)              *)
  retired,      (* objects passed to onDeviceDisconnect (history)           *)
  connected,    (* HAL: ports with a device                                 *)
  arrivals,     (* HAL: connections not yet returned by WaitForConnection   *)
  departures,   (* HAL: disconnections not yet returned                     *)
  plugs,        (* HAL: connections so far                                  *)
  intact        (* objects whose device was never unplugged (history)       *)

hostVars    == <<running, ctx, cancelled, stops, sweep>>
tableVars   == <<devices, deviceCount, nextAddress>>
monitorVars == <<at, waitCtx, dev, port, address>>
watchVars   == <<watcher, watchCtx>>
noteVars    == <<announced, retired>>
halVars     == <<connected, arrivals, departures, plugs>>
vars == <<scenario, app, hostVars, tableVars, monitorVars, watchVars, noteVars, halVars, intact>>

Sweeps == 1..(MaxDevices + 1)

TypeOK ==
  /\ scenario \in Scenarios
  /\ app \in {"idle", "starting", "stopping"}
  /\ sweep \in Sweeps
  /\ running \in BOOLEAN
  /\ ctx \in Nat
  /\ cancelled \subseteq Nat
  /\ stops \in Nat
  /\ devices \in [Slots -> Devs \union {NoDev}]
  /\ deviceCount \in Int
  /\ nextAddress \in Slots
  /\ at \in [Monitors -> Stages]
  /\ waitCtx \in [Monitors -> Nat]
  /\ dev \in [Monitors -> Devs \union {NoDev}]
  /\ port \in [Devs -> Ports]
  /\ address \in [Devs -> Slots \union {0}]
  /\ watcher \in [Devs -> WatcherStages]
  /\ watchCtx \in [Devs -> Nat]
  /\ announced \subseteq Devs
  /\ retired \subseteq Devs
  /\ connected \subseteq Ports
  /\ arrivals \in Seq(Ports)
  /\ departures \in Seq(Ports)
  /\ plugs \in Nat
  /\ intact \subseteq Devs

Init ==
  /\ scenario \in Scenarios
  /\ app = "idle"
  /\ sweep = 1
  /\ running = FALSE
  /\ ctx = 0
  /\ cancelled = {}
  /\ stops = 0
  /\ devices = [a \in Slots |-> NoDev]
  /\ deviceCount = 0
  /\ nextAddress = 1
  /\ at = [m \in Monitors |-> "idle"]
  /\ waitCtx = [m \in Monitors |-> 0]
  /\ dev = [m \in Monitors |-> NoDev]
  /\ port = [d \in Devs |-> CHOOSE p \in Ports : TRUE]
  /\ address = [d \in Devs |-> 0]
  /\ watcher = [d \in Devs |-> "none"]
  /\ watchCtx = [d \in Devs |-> 0]
  /\ announced = {}
  /\ retired = {}
  /\ connected = {}
  /\ arrivals = <<>>
  /\ departures = <<>>
  /\ plugs = 0
  /\ intact = {}

Goto(m, stage)  == at' = [at EXCEPT ![m] = stage]
Watch(d, stage) == watcher' = [watcher EXCEPT ![d] = stage]
Cancelled       == ctx \in cancelled

-----------------------------------------------------------------------------
(* The ports.                                                              *)
Plug(p) ==
  /\ p \in scenario.ports \ connected
  /\ plugs < scenario.plugs
  /\ connected' = connected \union {p}
  /\ arrivals' = Append(arrivals, p)
  /\ plugs' = plugs + 1
  /\ UNCHANGED <<scenario, app, hostVars, tableVars, monitorVars, watchVars, noteVars, departures, intact>>

Unplug(p) ==
  /\ p \in connected
  /\ connected' = connected \ {p}
  /\ departures' = Append(departures, p)
  /\ intact' = {d \in intact : port[d] # p}
  /\ UNCHANGED <<scenario, app, hostVars, tableVars, monitorVars, watchVars, noteVars, arrivals, plugs>>

-----------------------------------------------------------------------------
(* The application calls Start and Stop from one goroutine.                *)

(* Start, up to hal.Start.                                                 *)
StartContext ==
  /\ app = "idle"
  /\ ~running
  /\ ctx < scenario.starts
  /\ ctx' = ctx + 1
  /\ app' = "starting"
  /\ UNCHANGED <<scenario, running, cancelled, stops, sweep, tableVars, monitorVars, watchVars, noteVars, halVars, intact>>

Start ==
  /\ app = "starting"
  /\ running' = TRUE
  /\ app' = "idle"
  /\ \E m \in Monitors : m = ctx /\ Goto(m, "loop")
  /\ UNCHANGED <<scenario, ctx, cancelled, stops, sweep, tableVars, waitCtx, dev, port, address, watchVars, noteVars, halVars, intact>>

(* hal.Init or hal.Start fails: the new context stays in Host.ctx.         *)
StartFails ==
  /\ app = "starting"
  /\ app' = "idle"
  /\ UNCHANGED <<scenario, hostVars, tableVars, monitorVars, watchVars, noteVars, halVars, intact>>

StopCancel ==
  /\ app = "idle"
  /\ running
  /\ stops < scenario.stops
  /\ stops' = stops + 1
  /\ running' = FALSE
  /\ cancelled' = cancelled \union {ctx}
  /\ app' = "stopping"
  /\ sweep' = 1
  /\ UNCHANGED <<scenario, ctx, tableVars, monitorVars, watchVars, noteVars, halVars, intact>>

(* The rest of Stop runs without the mutex, slot by slot.                  *)
StopSweep ==
  /\ app = "stopping"
  /\ sweep <= MaxDevices
  /\ devices' = [devices EXCEPT ![sweep] = NoDev]
  /\ sweep' = sweep + 1
  /\ UNCHANGED <<scenario, app, running, ctx, cancelled, stops, deviceCount, nextAddress,
                 monitorVars, watchVars, noteVars, halVars, intact>>

Stop ==
  /\ app = "stopping"
  /\ sweep > MaxDevices
  /\ deviceCount' = 0
  /\ app' = "idle"
  /\ UNCHANGED <<scenario, hostVars, devices, nextAddress, monitorVars, watchVars, noteVars, halVars, intact>>

-----------------------------------------------------------------------------
(* monitorDevices.                                                         *)

MonitorLoop(m) ==
  /\ at[m] = "loop"
  /\ IF Cancelled
       THEN Goto(m, "ended") /\ UNCHANGED waitCtx
       ELSE Goto(m, "waiting") /\ waitCtx' = [waitCtx EXCEPT ![m] = ctx]
  /\ UNCHANGED <<scenario, app, hostVars, tableVars, dev, port, address, watchVars, noteVars, halVars, intact>>

Unused(d) == watcher[d] = "none" /\ \A m \in Monitors : dev[m] # d

(* WaitForConnection returns a port: newDevice for it.                     *)
WaitForConnection(m, d) ==
  /\ at[m] = "waiting"
  /\ arrivals # <<>>
  /\ d \in scenario.devs /\ Unused(d)
  /\ arrivals' = Tail(arrivals)
  /\ dev' = [dev EXCEPT ![m] = d]
  /\ port' = [port EXCEPT ![d] = Head(arrivals)]
  /\ address' = [address EXCEPT ![d] = 0]
  /\ intact' = IF Head(arrivals) \in connected THEN intact \union {d} ELSE intact \ {d}
  /\ Goto(m, "probing")
  /\ UNCHANGED <<scenario, app, hostVars, tableVars, waitCtx, watchVars, noteVars, connected, departures, plugs>>

(* It returns an error because its context is cancelled.                   *)
WaitCancelled(m) ==
  /\ at[m] = "waiting"
  /\ waitCtx[m] \in cancelled
  /\ Goto(m, IF Cancelled THEN "ended" ELSE "loop")
  /\ UNCHANGED <<scenario, app, hostVars, tableVars, waitCtx, dev, port, address, watchVars, noteVars, halVars, intact>>

(* One exchange with the device under enumeration succeeds; or the         *)
(* enumeration fails, at any of them, and the object is dropped.           *)
Exchange(m, from, to) ==
  /\ at[m] = from
  /\ port[dev[m]] \in connected
  /\ Goto(m, to)

EnumerationFails(m) ==
  /\ at[m] \in {"probing", "assigning", "reading"}
  /\ Goto(m, "loop")
  /\ dev' = [dev EXCEPT ![m] = NoDev]
  /\ UNCHANGED <<scenario, app, hostVars, tableVars, waitCtx, port, address, watchVars, noteVars, halVars, intact>>

(* ResetPort and the first 8 bytes of the device descriptor.               *)
Probe(m) ==
  /\ Exchange(m, "probing", "allocating")
  /\ UNCHANGED <<scenario, app, hostVars, tableVars, waitCtx, dev, port, address, watchVars, noteVars, halVars, intact>>

After(a) == IF a = MaxDevices THEN 1 ELSE a + 1

(* Mutant of FirstFree: the slot is not looked at.                         *)
NextSlot(a) == a = nextAddress

(* The first free slot in the order of the round robin.                    *)
Distance(a) == IF a >= nextAddress THEN a - nextAddress ELSE a - nextAddress + MaxDevices
FirstFree(a) ==
  /\ devices[a] = NoDev
  /\ \A b \in Slots : devices[b] = NoDev => Distance(a) <= Distance(b)

allocateAddress(m) ==
  /\ at[m] = "allocating"
  /\ IF \E a \in Slots : devices[a] = NoDev
       THEN \E a \in Slots :
              /\ FirstFree(a)
              /\ nextAddress' = After(a)
              /\ address' = [address EXCEPT ![dev[m]] = a]
              /\ Goto(m, "assigning")
              /\ UNCHANGED dev
       ELSE /\ Goto(m, "loop")
            /\ dev' = [dev EXCEPT ![m] = NoDev]
            /\ UNCHANGED <<nextAddress, address>>
  /\ UNCHANGED <<scenario, app, hostVars, devices, deviceCount, waitCtx, port, watchVars, noteVars, halVars, intact>>

(* SET_ADDRESS.                                                            *)
Assign(m) ==
  /\ Exchange(m, "assigning", "reading")
  /\ UNCHANGED <<scenario, app, hostVars, tableVars, waitCtx, dev, port, address, watchVars, noteVars, halVars, intact>>

(* Descriptors, strings and SET_CONFIGURATION; only the result matters.    *)
Read(m) ==
  /\ Exchange(m, "reading", "adding")
  /\ UNCHANGED <<scenario, app, hostVars, tableVars, waitCtx, dev, port, address, watchVars, noteVars, halVars, intact>>

(* Mutant of AddDevice: the watcher starts before the callback runs.       *)
AddDeviceWatched(m) ==
  /\ at[m] = "adding"
  /\ devices' = [devices EXCEPT ![address[dev[m]]] = dev[m]]
  /\ deviceCount' = deviceCount + 1
  /\ Goto(m, "notifying")
  /\ Watch(dev[m], "started")
  /\ UNCHANGED <<scenario, app, hostVars, nextAddress, waitCtx, dev, port, address, watchCtx, noteVars, halVars, intact>>

AddDevice(m) ==
  /\ at[m] = "adding"
  /\ IF deviceCount < MaxDevices
       THEN /\ devices' = [devices EXCEPT ![address[dev[m]]] = dev[m]]
            /\ deviceCount' = deviceCount + 1
            /\ Goto(m, "notifying")
       ELSE /\ Goto(m, "spawning")
            /\ UNCHANGED <<devices, deviceCount>>
  /\ UNCHANGED <<scenario, app, hostVars, nextAddress, waitCtx, dev, port, address, watchVars, noteVars, halVars, intact>>

(* deviceConnected and onDeviceConnect.                                    *)
NotifyConnect(m) ==
  /\ at[m] = "notifying"
  /\ announced' = announced \union {dev[m]}
  /\ Goto(m, "spawning")
  /\ UNCHANGED <<scenario, app, hostVars, tableVars, waitCtx, dev, port, address, watchVars, retired, halVars, intact>>

SpawnWatcher(m) ==
  /\ at[m] = "spawning"
  /\ Watch(dev[m], "started")
  /\ Goto(m, "loop")
  /\ dev' = [dev EXCEPT ![m] = NoDev]
  /\ UNCHANGED <<scenario, app, hostVars, tableVars, waitCtx, port, address, watchCtx, noteVars, halVars, intact>>

-----------------------------------------------------------------------------
(* monitorDisconnection.                                                   *)

WatchStart(d) ==
  /\ watcher[d] = "started"
  /\ watchCtx' = [watchCtx EXCEPT ![d] = ctx]
  /\ Watch(d, "waiting")
  /\ UNCHANGED <<scenario, app, hostVars, tableVars, monitorVars, noteVars, halVars, intact>>

(* Mutant of WaitForDisconnection: an event of another port is swallowed.  *)
WaitForOwnDisconnection(d) ==
  /\ watcher[d] = "waiting"
  /\ departures # <<>>
  /\ departures' = Tail(departures)
  /\ IF Head(departures) = port[d] THEN Watch(d, "removing") ELSE UNCHANGED watcher
  /\ UNCHANGED <<scenario, app, hostVars, tableVars, monitorVars, watchCtx, noteVars, connected, arrivals, plugs, intact>>

(* WaitForDisconnection returns a port, which is not looked at ...         *)
WaitForDisconnection(d) ==
  /\ watcher[d] = "waiting"
  /\ departures # <<>>
  /\ departures' = Tail(departures)
  /\ Watch(d, "removing")
  /\ UNCHANGED <<scenario, app, hostVars, tableVars, monitorVars, watchCtx, noteVars, connected, arrivals, plugs, intact>>

(* Mutant of WatchCancelled: the error is not taken for the end.           *)
WatchAgain(d) ==
  /\ watcher[d] = "waiting"
  /\ watchCtx[d] \in cancelled
  /\ Watch(d, "started")
  /\ UNCHANGED <<scenario, app, hostVars, tableVars, monitorVars, watchCtx, noteVars, halVars, intact>>

(* ... or an error because its context is cancelled.                       *)
WatchCancelled(d) ==
  /\ watcher[d] = "waiting"
  /\ watchCtx[d] \in cancelled
  /\ Watch(d, "ended")
  /\ UNCHANGED <<scenario, app, hostVars, tableVars, monitorVars, watchCtx, noteVars, halVars, intact>>

(* Mutant of RemoveDevice: the address is taken for the index.             *)
RemoveNextSlot(d) ==
  /\ watcher[d] = "removing"
  /\ devices' = [devices EXCEPT ![After(address[d])] = NoDev]
  /\ deviceCount' = deviceCount - 1
  /\ Watch(d, "closing")
  /\ UNCHANGED <<scenario, app, hostVars, nextAddress, monitorVars, watchCtx, noteVars, halVars, intact>>

RemoveDevice(d) ==
  /\ watcher[d] = "removing"
  /\ devices' = [devices EXCEPT ![address[d]] = NoDev]
  /\ deviceCount' = deviceCount - 1
  /\ Watch(d, "closing")
  /\ UNCHANGED <<scenario, app, hostVars, nextAddress, monitorVars, watchCtx, noteVars, halVars, intact>>

(* Device.Close, deviceDisconnected and onDeviceDisconnect.                *)
NotifyDisconnect(d) ==
  /\ watcher[d] = "closing"
  /\ retired' = retired \union {d}
  /\ Watch(d, "ended")
  /\ UNCHANGED <<scenario, app, hostVars, tableVars, monitorVars, watchCtx, announced, halVars, intact>>

-----------------------------------------------------------------------------
AppStep == Start \/ StartFails \/ StopSweep \/ Stop

MonitorStep(m) ==
  \/ MonitorLoop(m) \/ WaitCancelled(m) \/ EnumerationFails(m)
  \/ Probe(m) \/ allocateAddress(m) \/ Assign(m) \/ Read(m)
  \/ AddDevice(m) \/ NotifyConnect(m) \/ SpawnWatcher(m)
  \/ \E d \in Devs : WaitForConnection(m, d)

WatchStep(d) ==
  \/ WatchStart(d) \/ WaitForDisconnection(d) \/ WatchCancelled(d)
  \/ RemoveDevice(d) \/ NotifyDisconnect(d)

Next ==
  \/ StartContext \/ StopCancel \/ AppStep
  \/ \E p \in Ports : Plug(p) \/ Unplug(p)
  \/ \E m \in Monitors : MonitorStep(m)
  \/ \E d \in Devs : WatchStep(d)

Spec == Init /\ [][Next]_vars

(* The HAL's calls return: with an event, a result or an error, and once   *)
(* their context is cancelled; Start and Stop run to their end.  Nothing   *)
(* makes anyone plug, unplug, start or stop.                               *)
FairSpec ==
  /\ Spec
  /\ WF_vars(AppStep)
  /\ \A m \in Monitors : WF_vars(MonitorStep(m))
  /\ \A d \in Devs : WF_vars(WatchStep(d))
-----------------------------------------------------------------------------
Listed   == {a \in Slots : devices[a] # NoDev}
Resting  == /\ \A m \in Monitors : at[m] \in {"idle", "ended"}
            /\ \A d \in Devs : watcher[d] \in {"none", "ended"}

(* Until Stop is called: Device.address is the index of the table, and     *)
(* deviceCount the number of its entries.  allocateAddress has given the   *)
(* slot up long before monitorDevices fills it.                            *)
TableConsistent ==
  stops = 0 => /\ deviceCount = Cardinality(Listed)
               /\ \A a \in Listed : address[devices[a]] = a

(* Until Stop is called, every listed device has a goroutine that will     *)
(* remove it.                                                              *)
Watched(d) ==
  \/ watcher[d] \in {"started", "waiting", "removing"}
  \/ \E m \in Monitors : dev[m] = d /\ at[m] \in {"notifying", "spawning"}
ListedIsWatched == stops = 0 => \A a \in Listed : Watched(devices[a])

(* Until Stop is called, onDeviceDisconnect comes after onDeviceConnect,   *)
(* for the same device.                                                    *)
CallbackOrder == stops = 0 => retired \subseteq announced

(* When all devices of a host that is not stopped have been unplugged for  *)
(* good, the table empties, whichever goroutine takes which disconnection. *)
TableDrains == <>[](connected = {} /\ stops = 0) => <>[](Listed = {})

(* After Stop all goroutines end: its context is the one that they read    *)
(* from Host.ctx, unless a failed Start has replaced it in the meantime.   *)
GoroutinesEnd == <>[](~running /\ app = "idle" /\ Cancelled) => <>[]Resting

(* host.go: "Connected devices (indexed by address - 1)".  A device that   *)
(* is still connected is not taken out of the table.                       *)
ConnectedIsKept == \A d \in Devs : d \in intact => watcher[d] \notin {"closing", "ended"}
=============================================================================
