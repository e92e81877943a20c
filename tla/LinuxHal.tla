------------------------------ MODULE LinuxHal ------------------------------
(***************************************************************************)
(* host/hal/linux: the table of open devices, the free list behind it, the *)
(* file descriptors, and the three goroutines that change them:            *)
(*   pollLoop     reads the netlink socket and learns of hang-ups,         *)
(*   hotplugLoop  adds and removes devices one event at a time,            *)
(*   initialScan  adds the devices that were there before, concurrently.   *)
(* A port is the index of a slot plus one, and the address of its device.  *)
(* The kernel numbers a device anew whenever it is plugged in, so each     *)
(* element of Devices comes and goes once.                                 *)
(***************************************************************************)
EXTENDS Integers, SequencesExt

CONSTANTS
  Devices,      (* devices, as the kernel numbers them                     *)
  MaxDevices,   (* slots of the pool                                       *)
  MaxFiles,     (* bound on the file descriptors                           *)
  Capacity,     (* of each of the four channels                            *)
  Scenarios,    (* which devices are there early, which are root hubs,     *)
                (* what is plugged in and out later, in this order, and    *)
                (* whether the HAL is stopped                              *)
  Nobody        (* no device                                               *)

ASSUME LinuxHalAssumption ==
  /\ {MaxDevices, MaxFiles, Capacity} \subseteq Nat \ {0}
  /\ Nobody \notin Devices

Ports  == 1 .. MaxDevices
Files  == 1 .. MaxFiles
Socket == 0                  (* the netlink socket among the polled files  *)

VARIABLES
  plug,         (* where a device is: away, present or gone                *)
  uevents,      (* what the kernel announced and the socket still holds    *)
  addCh, removeCh, connectCh, disconnectCh,
  scenario,     (* one of Scenarios, for good                              *)
  hal,          (* the life of the HAL                                     *)
  ctxDone,      (* the context of the HAL is done                          *)
  slots,        (* devicePool.slots: the connection of a port, 0 for none  *)
  freeList,     (* the ports from freeHead on                              *)
  count,        (* devicePool.count                                        *)
  conns,        (* every deviceConn made so far                            *)
  files,        (* the device a file descriptor is open on                 *)
  polled,       (* poller.fds: the connection a descriptor's callback has  *)
  watched,      (* the descriptors in the kernel's epoll set               *)
  batch,        (* what epollWait returned and pollOnce has yet to serve   *)
  polling,      (* pollLoop has not ended                                  *)
  found,        (* devices the initial scan has yet to add                 *)
  worker,       (* where initialScan and hotplugLoop are                   *)
  lost          (* devices whose removal, or whose addition, was dropped   *)
                (* (no room in a channel, no slot, a failed call; history) *)

kernelVars == <<scenario, plug, uevents>>
queueVars  == <<addCh, removeCh, connectCh, disconnectCh>>
lifeVars   == <<hal, ctxDone>>
poolVars   == <<slots, freeList, count>>
pollVars   == <<polled, watched, batch, polling>>
workVars   == <<found, worker>>
halVars    == <<kernelVars, queueVars, lifeVars, poolVars, conns, files, pollVars, workVars, lost>>

Workers == {"scan", "loop"}
Stages  == {"none", "start", "next", "alloc", "open", "store", "watch", "signal", "free", "report", "ended"}
AtRest(stage) == [at |-> stage, device |-> Nobody, port |-> 0, conn |-> 0]
At(w, stage) == worker' = [worker EXCEPT ![w] = IF stage \in {"next", "ended"} THEN AtRest(stage) ELSE [@ EXCEPT !.at = stage]]

HalTypeOK ==
  /\ plug \in [Devices -> {"away", "present", "gone"}]
  /\ uevents \in Seq({"add", "remove"} \X Devices)
  /\ {addCh, removeCh} \subseteq Seq(Devices) /\ {connectCh, disconnectCh} \subseteq Seq(Ports)
  /\ Len(addCh) <= Capacity /\ Len(removeCh) <= Capacity
  /\ Len(connectCh) <= Capacity /\ Len(disconnectCh) <= Capacity
  /\ hal \in {"new", "ready", "running", "stopping", "stopped", "closed"} /\ ctxDone \in BOOLEAN
  /\ slots \in [Ports -> 0 .. Len(conns)]
  /\ freeList \in Seq(Ports) /\ count \in 0 .. MaxDevices
  /\ conns \in Seq([device : Devices, file : Files, disconnected : BOOLEAN])
  /\ files \in [Files -> Devices \union {Nobody}]
  /\ polled \in [Files -> 0 .. Len(conns)] /\ watched \subseteq Files
  /\ batch \in Seq(Files \union {Socket}) /\ polling \in BOOLEAN
  /\ found \subseteq Devices /\ lost \subseteq {"add", "remove"} \X Devices
  /\ worker \in [Workers -> [at : Stages, device : Devices \union {Nobody}, port : Ports \union {0}, conn : 0 .. Len(conns)]]

HalInit ==
  /\ scenario \in Scenarios
  /\ plug = [d \in Devices |-> IF d \in scenario.early THEN "present" ELSE "away"]
  /\ uevents = <<>>
  /\ addCh = <<>> /\ removeCh = <<>> /\ connectCh = <<>> /\ disconnectCh = <<>>
  /\ hal = "new" /\ ctxDone = FALSE
  /\ slots = [p \in Ports |-> 0] /\ freeList = [p \in Ports |-> p] /\ count = 0
  /\ conns = <<>>
  /\ files = [f \in Files |-> Nobody]
  /\ polled = [f \in Files |-> 0] /\ watched = {} /\ batch = <<>> /\ polling = FALSE
  /\ found = {} /\ lost = {}
  /\ worker = [w \in Workers |-> AtRest("none")]

-----------------------------------------------------------------------------
(* The kernel announces a device on the socket, if there is one.           *)
Announce(action, d) ==
  uevents' = IF hal \in {"new", "closed"} THEN uevents ELSE Append(uevents, <<action, d>>)

Happened(action, d) == IF action = "plug" THEN plug[d] # "away" ELSE plug[d] = "gone"
Due(action, d) ==
  \E i \in DOMAIN scenario.plan :
    /\ scenario.plan[i] = <<action, d>> /\ ~Happened(action, d)
    /\ \A j \in 1 .. i - 1 : Happened(scenario.plan[j][1], scenario.plan[j][2])

Plug(d) ==
  /\ Due("plug", d) /\ plug[d] = "away"
  /\ plug' = [plug EXCEPT ![d] = "present"]
  /\ Announce("add", d)
  /\ UNCHANGED <<scenario, queueVars, lifeVars, poolVars, conns, files, pollVars, workVars, lost>>

Unplug(d) ==
  /\ Due("unplug", d) /\ plug[d] = "present"
  /\ plug' = [plug EXCEPT ![d] = "gone"]
  /\ Announce("remove", d)
  /\ UNCHANGED <<scenario, queueVars, lifeVars, poolVars, conns, files, pollVars, workVars, lost>>

-----------------------------------------------------------------------------
(* Init makes the netlink socket, before Start spawns the goroutines.      *)
Initialise ==
  /\ hal = "new"
  /\ hal' = "ready"
  /\ UNCHANGED <<ctxDone, kernelVars, queueVars, poolVars, conns, files, pollVars, workVars, lost>>

Start ==
  /\ hal = "ready"
  /\ hal' = "running"
  /\ polling' = TRUE
  /\ worker' = [worker EXCEPT !["scan"].at = "start", !["loop"].at = "next"]
  /\ UNCHANGED <<ctxDone, kernelVars, queueVars, poolVars, conns, files, polled, watched, batch, found, lost>>

(* The context given to Init ends the goroutines as Stop does.             *)
EndContext ==
  /\ scenario.stops
  /\ hal = "running" /\ ~ctxDone
  /\ ctxDone' = TRUE
  /\ UNCHANGED <<kernelVars, queueVars, hal, poolVars, conns, files, pollVars, workVars, lost>>

StopCancel ==
  /\ scenario.stops
  /\ hal = "running"
  /\ hal' = "stopping" /\ ctxDone' = TRUE
  /\ UNCHANGED <<kernelVars, queueVars, poolVars, conns, files, pollVars, workVars, lost>>

StopWaits ==
  /\ hal = "stopping"
  /\ ~polling /\ \A w \in Workers : worker[w].at = "ended"
  /\ hal' = "stopped"
  /\ UNCHANGED <<ctxDone, kernelVars, queueVars, poolVars, conns, files, pollVars, workVars, lost>>

(* Close, after its call of Stop.  Freeing a slot closes its connection,   *)
(* and the kernel drops a closed descriptor from the epoll set.            *)
Held        == {p \in Ports : slots[p] # 0}
FilesOf(ps) == {conns[slots[p]].file : p \in ps}
ConnsOf(ps) == {slots[p] : p \in ps}
CloseOnPaper(ps) ==                      (* a deviceConn that keeps its fd *)
  /\ conns' = [c \in DOMAIN conns |-> IF c \in ConnsOf(ps) THEN [conns[c] EXCEPT !.disconnected = TRUE] ELSE conns[c]]
  /\ UNCHANGED <<files, watched>>
CloseConns(ps) ==
  /\ conns' = [c \in DOMAIN conns |-> IF c \in ConnsOf(ps) THEN [conns[c] EXCEPT !.disconnected = TRUE] ELSE conns[c]]
  /\ files' = [f \in Files |-> IF f \in FilesOf(ps) THEN Nobody ELSE files[f]]
  /\ watched' = watched \ FilesOf(ps)

Descending(ps) ==
  [i \in 1 .. Cardinality(ps) |-> CHOOSE p \in ps : Cardinality({q \in ps : q > p}) = i - 1]

CloseLeaks ==                            (* the devices left to the collector *)
  /\ hal = "stopped"
  /\ hal' = "closed"
  /\ uevents' = <<>> /\ polled' = [f \in Files |-> 0]
  /\ UNCHANGED <<scenario, plug, queueVars, ctxDone, poolVars, conns, files, watched, batch, polling, workVars, lost>>

Close ==
  /\ hal = "stopped"
  /\ hal' = "closed"
  /\ CloseConns(Held)
  /\ slots' = [p \in Ports |-> 0]
  /\ freeList' = Descending(Held) \o freeList
  /\ count' = count - Cardinality(Held)
  /\ uevents' = <<>> /\ polled' = [f \in Files |-> 0]
  /\ UNCHANGED <<scenario, plug, queueVars, ctxDone, batch, polling, workVars, lost>>

-----------------------------------------------------------------------------
(* pollLoop.  A file on a device that is gone reports a hang-up each time. *)
ReadyFiles == {f \in watched : plug[files[f]] = "gone"}
Ready      == ReadyFiles \union (IF uevents # <<>> THEN {Socket} ELSE {})
PollOnce ==
  /\ polling /\ batch = <<>> /\ Ready # {}
  /\ batch' \in SetToSeqs(Ready)
  /\ UNCHANGED <<kernelVars, queueVars, lifeVars, poolVars, conns, files, polled, watched, polling, workVars, lost>>

PollEnds ==
  /\ polling /\ batch = <<>> /\ ctxDone
  /\ polling' = FALSE
  /\ UNCHANGED <<kernelVars, queueVars, lifeVars, poolVars, conns, files, polled, watched, batch, workVars, lost>>

(* The callback of a device, found by the descriptor: handleENODEV.        *)
MarkDisconnected(c) == conns' = [conns EXCEPT ![c].disconnected = TRUE]
Serving == IF batch = <<>> THEN -1 ELSE Head(batch)
onDeviceEventIgnored ==                  (* EPOLLHUP taken for no event *)
  /\ Serving \in Files
  /\ batch' = Tail(batch)
  /\ UNCHANGED <<kernelVars, queueVars, lifeVars, poolVars, conns, files, polled, watched, polling, workVars, lost>>

onDeviceEvent ==
  /\ Serving \in Files
  /\ batch' = Tail(batch)
  /\ IF polled[Serving] # 0 THEN MarkDisconnected(polled[Serving]) ELSE UNCHANGED conns
  /\ UNCHANGED <<kernelVars, queueVars, lifeVars, poolVars, files, polled, watched, polling, workVars, lost>>

(* processEvent, until the socket is empty: a device that is gone again    *)
(* cannot be parsed, and a full channel drops the event.                   *)
Offer(ch, x) == IF Len(ch) < Capacity THEN Append(ch, x) ELSE ch
processEvent ==
  /\ Serving = Socket /\ uevents # <<>>
  /\ uevents' = Tail(uevents)
  /\ LET d    == Head(uevents)[2]
         here == Head(uevents)[1] = "add" /\ plug[d] = "present"
         left == Head(uevents)[1] = "remove"
     IN /\ addCh'    = IF here THEN Offer(addCh, d) ELSE addCh
        /\ removeCh' = IF left THEN Offer(removeCh, d) ELSE removeCh
        /\ lost'     = lost \union (IF here /\ addCh' = addCh THEN {<<"add", d>>} ELSE {})
                             \union (IF left /\ removeCh' = removeCh THEN {<<"remove", d>>} ELSE {})
  /\ UNCHANGED <<scenario, plug, connectCh, disconnectCh, lifeVars, poolVars, conns, files, pollVars, workVars>>

onHotplugEvent ==
  /\ Serving = Socket /\ uevents = <<>>
  /\ batch' = Tail(batch)
  /\ UNCHANGED <<kernelVars, queueVars, lifeVars, poolVars, conns, files, polled, watched, polling, workVars, lost>>

-----------------------------------------------------------------------------
(* initialScan reads sysfs once, which may fail, and skips root hubs.      *)
scanUSBDevices ==
  /\ worker["scan"].at = "start"
  /\ found' = {d \in Devices : plug[d] = "present"} \ scenario.roots
  /\ At("scan", "next")
  /\ UNCHANGED <<kernelVars, queueVars, lifeVars, poolVars, conns, files, pollVars, lost>>

ScanFails ==
  /\ worker["scan"].at = "start"
  /\ lost' = lost \union {<<"add", d>> : d \in {e \in Devices : plug[e] = "present"}}
  /\ At("scan", "ended")
  /\ UNCHANGED <<kernelVars, queueVars, lifeVars, poolVars, conns, files, pollVars, found>>

ScanEnds ==
  /\ worker["scan"].at = "next" /\ found = {}
  /\ At("scan", "ended")
  /\ UNCHANGED <<kernelVars, queueVars, lifeVars, poolVars, conns, files, pollVars, found, lost>>

LoopEnds ==
  /\ worker["loop"].at = "next" /\ ctxDone
  /\ At("loop", "ended")
  /\ UNCHANGED <<kernelVars, queueVars, lifeVars, poolVars, conns, files, pollVars, found, lost>>

(* hotplugLoop takes from either channel.  Both goroutines look for the    *)
(* device in the pool before they add it.                                  *)
PortsOf(d) == {p \in Held : conns[slots[p]].device = d}
Tracked(d) == PortsOf(d) # {}
AddingFirst(w, d) ==                     (* any slot in use taken for the device's *)
  IF Held # {} THEN UNCHANGED worker ELSE worker' = [worker EXCEPT ![w].at = "alloc", ![w].device = d]
Adding(w, d) == IF Tracked(d) THEN UNCHANGED worker ELSE worker' = [worker EXCEPT ![w].at = "alloc", ![w].device = d]

ScanNext(d) ==
  /\ worker["scan"].at = "next" /\ d \in found
  /\ found' = found \ {d}
  /\ Adding("scan", d)
  /\ UNCHANGED <<kernelVars, queueVars, lifeVars, poolVars, conns, files, pollVars, lost>>

LoopAdds ==
  /\ worker["loop"].at = "next" /\ addCh # <<>>
  /\ addCh' = Tail(addCh)
  /\ Adding("loop", Head(addCh))
  /\ UNCHANGED <<kernelVars, removeCh, connectCh, disconnectCh, lifeVars, poolVars, conns, files, pollVars, found, lost>>

(* handleDeviceAdd after that check.                                       *)
AddStep(w, stage) == worker[w].at = stage
alloc(w) ==
  /\ AddStep(w, "alloc")
  /\ IF freeList = <<>>
     THEN At(w, "next") /\ lost' = lost \union {<<"add", worker[w].device>>} /\ UNCHANGED poolVars
     ELSE /\ worker' = [worker EXCEPT ![w].at = "open", ![w].port = Head(freeList)]
          /\ freeList' = Tail(freeList) /\ count' = count + 1
          /\ UNCHANGED <<slots, lost>>
  /\ UNCHANGED <<kernelVars, queueVars, lifeVars, conns, files, pollVars, found>>

(* The kernel gives out the lowest descriptor that is not open.            *)
Lowest(fs) == CHOOSE f \in fs : \A g \in fs : f <= g
ClosedFiles == {f \in Files : files[f] = Nobody}
newDeviceConn(w) ==
  /\ AddStep(w, "open")
  /\ plug[worker[w].device] = "present" /\ ClosedFiles # {}
  /\ LET f == Lowest(ClosedFiles) IN
       /\ files' = [files EXCEPT ![f] = worker[w].device]
       /\ conns' = Append(conns, [device |-> worker[w].device, file |-> f, disconnected |-> FALSE])
  /\ worker' = [worker EXCEPT ![w].at = "store", ![w].conn = Len(conns')]
  /\ UNCHANGED <<kernelVars, queueVars, lifeVars, poolVars, pollVars, found, lost>>

OpenFailsKeeping(w) ==                   (* an error path that forgets the slot *)
  /\ AddStep(w, "open")
  /\ lost' = lost \union {<<"add", worker[w].device>>}
  /\ At(w, "next")
  /\ UNCHANGED <<kernelVars, queueVars, lifeVars, poolVars, conns, files, pollVars, found>>

OpenFails(w) ==
  /\ AddStep(w, "open")
  /\ lost' = lost \union {<<"add", worker[w].device>>}
  /\ freeList' = <<worker[w].port>> \o freeList /\ count' = count - 1
  /\ At(w, "next")
  /\ UNCHANGED <<kernelVars, queueVars, lifeVars, slots, conns, files, pollVars, found>>

Store(w) ==
  /\ AddStep(w, "store")
  /\ slots' = [slots EXCEPT ![worker[w].port] = worker[w].conn]
  /\ At(w, "watch")
  /\ UNCHANGED <<kernelVars, queueVars, lifeVars, freeList, count, conns, files, pollVars, found, lost>>

(* addFD fails on a descriptor that is closed by now or in the epoll set.  *)
Watch(w) ==
  /\ AddStep(w, "watch")
  /\ LET c == worker[w].conn IN
       IF files[conns[c].file] # Nobody /\ conns[c].file \notin watched
       THEN polled' = [polled EXCEPT ![conns[c].file] = c] /\ watched' = watched \union {conns[c].file}
       ELSE UNCHANGED <<polled, watched>>
  /\ At(w, "signal")
  /\ UNCHANGED <<kernelVars, queueVars, lifeVars, poolVars, conns, files, batch, polling, found, lost>>

SignalConnect(w) ==
  /\ AddStep(w, "signal")
  /\ connectCh' = Offer(connectCh, worker[w].port)
  /\ lost' = IF connectCh' = connectCh THEN lost \union {<<"add", worker[w].device>>} ELSE lost
  /\ At(w, "next")
  /\ UNCHANGED <<kernelVars, addCh, removeCh, disconnectCh, lifeVars, poolVars, conns, files, pollVars, found>>

(* handleDeviceRemove: the lock is given up before the slot is freed.      *)
LoopRemoves ==
  /\ worker["loop"].at = "next" /\ removeCh # <<>>
  /\ removeCh' = Tail(removeCh)
  /\ IF Tracked(Head(removeCh))
     THEN LET p == Lowest(PortsOf(Head(removeCh))) IN
            /\ polled' = [polled EXCEPT ![conns[slots[p]].file] = 0]
            /\ watched' = watched \ {conns[slots[p]].file}
            /\ MarkDisconnected(slots[p])
            /\ worker' = [worker EXCEPT !["loop"].at = "free", !["loop"].port = p]
     ELSE UNCHANGED <<polled, watched, conns, worker>>
  /\ UNCHANGED <<kernelVars, addCh, connectCh, disconnectCh, lifeVars, poolVars, files, batch, polling, found, lost>>

free ==
  /\ worker["loop"].at = "free"
  /\ LET p == worker["loop"].port IN
       /\ CloseConns({p} \intersect Held)
       /\ slots' = [slots EXCEPT ![p] = 0]
       /\ freeList' = <<p>> \o freeList /\ count' = count - 1
  /\ At("loop", "report")
  /\ UNCHANGED <<kernelVars, queueVars, lifeVars, polled, batch, polling, found, lost>>

SignalDisconnect ==
  /\ worker["loop"].at = "report"
  /\ disconnectCh' = Offer(disconnectCh, worker["loop"].port)
  /\ At("loop", "next")
  /\ UNCHANGED <<kernelVars, addCh, removeCh, connectCh, lifeVars, poolVars, conns, files, pollVars, found, lost>>

-----------------------------------------------------------------------------
PollStep == PollOnce \/ PollEnds \/ onDeviceEvent \/ processEvent \/ onHotplugEvent
AddSteps(w) == alloc(w) \/ newDeviceConn(w) \/ OpenFails(w) \/ Store(w) \/ Watch(w) \/ SignalConnect(w)
ScanStep == scanUSBDevices \/ ScanFails \/ ScanEnds \/ (\E d \in Devices : ScanNext(d)) \/ AddSteps("scan")
LoopStep == LoopAdds \/ LoopRemoves \/ LoopEnds \/ AddSteps("loop") \/ free \/ SignalDisconnect
KernelStep == \E d \in Devices : Plug(d) \/ Unplug(d)
LifeStep == Initialise \/ Start \/ EndContext \/ StopCancel \/ StopWaits \/ Close
HalStep == KernelStep \/ LifeStep \/ PollStep \/ ScanStep \/ LoopStep

-----------------------------------------------------------------------------
(* A slot is in the free list once, or it holds a connection, or one of    *)
(* the goroutines is filling it, and count says how many are not free.     *)
Filling == {w \in Workers : worker[w].at \in {"open", "store"}}
SlotsAccounted ==
  /\ \A i, j \in DOMAIN freeList : i # j => freeList[i] # freeList[j]
  /\ \A p \in Ports :
       (IF \E i \in DOMAIN freeList : freeList[i] = p THEN 1 ELSE 0) + (IF slots[p] # 0 THEN 1 ELSE 0)
         + Cardinality({w \in Filling : worker[w].port = p}) = 1
  /\ count = MaxDevices - Len(freeList)

(* A connection in the pool has a descriptor of its own that is open on    *)
(* its device, and no file stays open that nobody will close.              *)
StoredIsOpen ==
  /\ \A p \in Held : files[conns[slots[p]].file] = conns[slots[p]].device
  /\ \A p, q \in Held : p # q => conns[slots[p]].file # conns[slots[q]].file
  /\ \A f \in Files : files[f] # Nobody =>
       f \in FilesOf(Held) \union {conns[worker[w].conn].file : w \in {v \in Workers : worker[v].at = "store"}}

(* The connection of a device that is gone is marked or leaves the pool,   *)
(* for the removal or for the hang-up; unless both are in vain: the        *)
(* removal was dropped, and the callback of the descriptor is that of      *)
(* another connection, which had the descriptor before.                    *)
Unnoticed(p) == slots[p] # 0 /\ ~conns[slots[p]].disconnected /\ plug[conns[slots[p]].device] = "gone"
InVain(p)    == Unnoticed(p) /\ <<"remove", conns[slots[p]].device>> \in lost /\ polled[conns[slots[p]].file] # slots[p]
GoneIsNoticed == \A p \in Ports : (Unnoticed(p) /\ polling) ~> (~Unnoticed(p) \/ InVain(p) \/ ctxDone)

(* Once Stop is called, Close ends with every descriptor closed.           *)
CloseReleases == hal = "stopping" ~> (hal = "closed" /\ \A f \in Files : files[f] = Nobody)
=============================================================================
