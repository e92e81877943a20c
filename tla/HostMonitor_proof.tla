--------------------------- MODULE HostMonitor_proof ---------------------------
(***************************************************************************)
(* Proofs about HostMonitor: its type invariant and, until Stop is called  *)
(* for the first time, that the device table, its count and the goroutines *)
(* that watch its entries agree, and the order of the callbacks.           *)
(***************************************************************************)
EXTENDS HostMonitor, FiniteSetTheorems, TLAPS

(* Where monitorDevices has a Device object at hand.                       *)
Holding == {"probing", "allocating", "assigning", "reading", "adding", "notifying", "spawning"}
TypeInv == TypeOK /\ \A m \in Monitors : at[m] \in Holding => dev[m] \in Devs

LEMMA InitType == Init => TypeInv
<1> SUFFICES ASSUME Init PROVE TypeInv
  OBVIOUS
<1>1. <<>> \in Seq(Ports)
  OBVIOUS
<1>2. 1 \in Slots /\ 1 \in Sweeps
  BY HostAssumption DEF Slots, Sweeps
<1>3. /\ devices \in [Slots -> Devs \union {NoDev}]
      /\ at \in [Monitors -> Stages] /\ waitCtx \in [Monitors -> Nat]
      /\ dev \in [Monitors -> Devs \union {NoDev}]
  BY DEF Init, Stages
<1>4. /\ port \in [Devs -> Ports]
      /\ address \in [Devs -> Slots \union {0}]
      /\ watcher \in [Devs -> WatcherStages] /\ watchCtx \in [Devs -> Nat]
  BY HostAssumption DEF Init, WatcherStages
<1>5. ctx \in Nat /\ stops \in Nat /\ deviceCount \in Int /\ plugs \in Nat
  BY DEF Init
<1>6. TypeOK
  BY <1>1, <1>2, <1>3, <1>4, <1>5, Zenon DEF Init, TypeOK
<1> QED BY <1>6 DEF Init, TypeInv, Holding

(* The ports, Start and Stop.                                              *)
LEMMA AppType ==
  ASSUME TypeInv,
         \/ StartContext \/ StopCancel \/ AppStep
         \/ \E p \in Ports : Plug(p) \/ Unplug(p)
  PROVE  TypeInv'
<1> USE HostAssumption DEF TypeInv, Holding, TypeOK, hostVars, tableVars, monitorVars, watchVars, noteVars, halVars
<1>1. CASE StartContext
  BY <1>1 DEF StartContext
<1>2. CASE StopCancel
  <2>1. 1 \in Sweeps
    BY DEF Sweeps
  <2>2. cancelled' \subseteq Nat /\ stops' \in Nat
    BY <1>2 DEF StopCancel
  <2>3. UNCHANGED <<scenario, ctx, tableVars, monitorVars, watchVars, noteVars, halVars, intact>>
    BY <1>2 DEF StopCancel
  <2> QED BY <1>2, <2>1, <2>2, <2>3 DEF StopCancel
<1>3. CASE Start
  BY <1>3 DEF Start, Goto, Stages
<1>4. CASE StopSweep
  <2>1. sweep + 1 \in Sweeps
    BY <1>4 DEF StopSweep, Sweeps
  <2> QED BY <1>4, <2>1 DEF StopSweep
<1>5. CASE Stop
  BY <1>5 DEF Stop
<1>8. CASE StartFails
  BY <1>8 DEF StartFails
<1>6. ASSUME NEW p \in Ports, Plug(p) PROVE TypeInv'
  BY <1>6 DEF Plug
<1>7. ASSUME NEW p \in Ports, Unplug(p) PROVE TypeInv'
  BY <1>7 DEF Unplug
<1> QED BY <1>1, <1>2, <1>3, <1>4, <1>5, <1>6, <1>7, <1>8 DEF AppStep

LEMMA MonitorType == ASSUME TypeInv, NEW m \in Monitors, MonitorStep(m) PROVE TypeInv'
<1> USE HostAssumption DEF TypeInv, Holding, TypeOK, hostVars, tableVars, monitorVars, watchVars, noteVars, halVars
<1> USE DEF Goto, Stages
<1>1. CASE MonitorLoop(m)
  <2>1. CASE Cancelled
    BY <1>1, <2>1 DEF MonitorLoop
  <2>2. CASE ~Cancelled
    <3>1. waitCtx' \in [Monitors -> Nat]
      BY <1>1, <2>2 DEF MonitorLoop
    <3>2. UNCHANGED <<scenario, app, hostVars, tableVars, dev, port, address, watchVars, noteVars, halVars, intact>>
      BY <1>1 DEF MonitorLoop
    <3>3. at' = [at EXCEPT ![m] = "waiting"]
      BY <1>1, <2>2 DEF MonitorLoop
    <3> QED BY <3>1, <3>2, <3>3
  <2> QED BY <2>1, <2>2
<1>2. CASE WaitCancelled(m)
  BY <1>2 DEF WaitCancelled
<1>3. CASE EnumerationFails(m)
  BY <1>3 DEF EnumerationFails
<1>4. CASE Probe(m) \/ Assign(m) \/ Read(m)
  BY <1>4 DEF Probe, Assign, Read, Exchange
<1>5. CASE allocateAddress(m)
  <2>1. CASE \E a \in Slots : devices[a] = NoDev
    <3>1. PICK a \in Slots :
            /\ nextAddress' = After(a)
            /\ address' = [address EXCEPT ![dev[m]] = a]
      BY <1>5, <2>1 DEF allocateAddress
    <3>2. After(a) \in Slots
      BY DEF After, Slots
    <3> QED BY <1>5, <2>1, <3>1, <3>2 DEF allocateAddress
  <2>2. CASE ~ \E a \in Slots : devices[a] = NoDev
    <3>1. at' = [at EXCEPT ![m] = "loop"] /\ dev' = [dev EXCEPT ![m] = NoDev]
      BY <1>5, <2>2 DEF allocateAddress
    <3>2. UNCHANGED <<nextAddress, address>>
      BY <1>5, <2>2 DEF allocateAddress
    <3>3. UNCHANGED <<scenario, app, hostVars, devices, deviceCount, waitCtx, port, watchVars, noteVars, halVars, intact>>
      BY <1>5 DEF allocateAddress
    <3>4. dev' \in [Monitors -> Devs \union {NoDev}] /\ at' \in [Monitors -> Stages]
      BY <3>1
    <3>5. \A n \in Monitors : at'[n] \in Holding => dev'[n] \in Devs
      BY <3>1
    <3>6. TypeOK'
      BY <3>2, <3>3, <3>4
    <3> QED BY <3>5, <3>6
  <2> QED BY <2>1, <2>2
<1>6. CASE AddDevice(m)
  <2>1. CASE deviceCount < MaxDevices
    <3>1. devices' = [devices EXCEPT ![address[dev[m]]] = dev[m]] /\ deviceCount' = deviceCount + 1
      BY <1>6, <2>1 DEF AddDevice
    <3>2. dev[m] \in Devs \union {NoDev} /\ devices \in [Slots -> Devs \union {NoDev}]
      OBVIOUS
    <3>3. devices' \in [Slots -> Devs \union {NoDev}]
      BY <3>1, <3>2
    <3>4. deviceCount' \in Int
      BY <3>1
    <3>5. devices' \in [Slots -> Devs \union {NoDev}] /\ deviceCount' \in Int
      BY <3>3, <3>4
    <3>6. UNCHANGED <<scenario, app, hostVars, nextAddress, waitCtx, dev, port, address, watchVars, noteVars, halVars, intact>>
      BY <1>6 DEF AddDevice
    <3>7. at[m] = "adding" /\ at' = [at EXCEPT ![m] = "notifying"]
      BY <1>6, <2>1 DEF AddDevice
    <3> QED BY <3>5, <3>6, <3>7
  <2>2. CASE ~(deviceCount < MaxDevices)
    BY <1>6, <2>2 DEF AddDevice
  <2> QED BY <2>1, <2>2
<1>7. CASE NotifyConnect(m)
  BY <1>7 DEF NotifyConnect
<1>8. CASE SpawnWatcher(m)
  BY <1>8 DEF SpawnWatcher, Watch, WatcherStages
<1>9. ASSUME NEW d \in Devs, WaitForConnection(m, d) PROVE TypeInv'
  BY <1>9 DEF WaitForConnection
<1> QED BY <1>1, <1>2, <1>3, <1>4, <1>5, <1>6, <1>7, <1>8, <1>9 DEF MonitorStep

LEMMA WatchType == ASSUME TypeInv, NEW d \in Devs, WatchStep(d) PROVE TypeInv'
<1> USE HostAssumption DEF TypeInv, Holding, TypeOK, hostVars, tableVars, monitorVars, watchVars, noteVars, halVars
<1> USE DEF Watch, WatcherStages
<1>1. CASE WatchStart(d)
  <2>1. watchCtx' \in [Devs -> Nat] /\ watcher' \in [Devs -> WatcherStages]
    BY <1>1 DEF WatchStart
  <2>2. UNCHANGED <<scenario, app, hostVars, tableVars, monitorVars, noteVars, halVars, intact>>
    BY <1>1 DEF WatchStart
  <2> QED BY <2>1, <2>2
<1>2. CASE WaitForDisconnection(d)
  BY <1>2 DEF WaitForDisconnection
<1>3. CASE WatchCancelled(d)
  BY <1>3 DEF WatchCancelled
<1>4. CASE RemoveDevice(d)
  <2>1. deviceCount' \in Int
    BY <1>4 DEF RemoveDevice
  <2>4. devices' \in [Slots -> Devs \union {NoDev}]
    BY <1>4 DEF RemoveDevice
  <2>2. watcher' \in [Devs -> WatcherStages]
    BY <1>4 DEF RemoveDevice
  <2>3. UNCHANGED <<scenario, app, hostVars, nextAddress, monitorVars, watchCtx, noteVars, halVars, intact>>
    BY <1>4 DEF RemoveDevice
  <2> QED BY <2>1, <2>2, <2>3, <2>4
<1>5. CASE NotifyDisconnect(d)
  BY <1>5 DEF NotifyDisconnect
<1> QED BY <1>1, <1>2, <1>3, <1>4, <1>5 DEF WatchStep

LEMMA TypeStep == ASSUME TypeInv, [Next]_vars PROVE TypeInv'
<1>1. CASE Next
  BY <1>1, AppType, MonitorType, WatchType DEF Next
<1>2. CASE UNCHANGED vars
  BY <1>2, HostAssumption
  DEF TypeInv, TypeOK, vars, hostVars, tableVars, monitorVars, watchVars, noteVars, halVars
<1> QED BY <1>1, <1>2

LEMMA TypeInvariant == Spec => []TypeInv
<1>1. Init => TypeInv
  BY InitType
<1>2. TypeInv /\ [Next]_vars => TypeInv'
  BY TypeStep
<1> QED BY <1>1, <1>2, PTL DEF Spec

(* Every variable of the host keeps its type, whatever the order in which  *)
(* the ports, the goroutines, Start and Stop take their steps.             *)
THEOREM TypeCorrect == Spec => []TypeOK
<1>1. TypeInv => TypeOK
  BY DEF TypeInv
<1> QED BY <1>1, TypeInvariant, PTL

-----------------------------------------------------------------------------
(* No call of Stop yet: there is one monitor and no cancelled context.     *)
RunInv ==
  /\ stops = 0
  /\ cancelled = {}
  /\ app \in {"idle", "starting"}
  /\ running => app = "idle"
  /\ ~running => \A m \in Monitors : at[m] = "idle"
  /\ \A m, n \in Monitors : at[m] # "idle" /\ at[n] # "idle" => m = n

(* The slot an object is given stays free until the object is put there,   *)
(* and is its own until its watcher has removed it.                        *)
Live == {"started", "waiting", "removing"}
SlotInv ==
  /\ \A m \in Monitors : at[m] \notin Holding => dev[m] = NoDev
  /\ \A m \in Monitors : at[m] \in Holding => watcher[dev[m]] = "none"
  /\ \A m \in Monitors : at[m] \in {"assigning", "reading", "adding"} =>
       address[dev[m]] \in Slots /\ devices[address[dev[m]]] = NoDev
  /\ \A m \in Monitors : at[m] \in {"notifying", "spawning"} =>
       address[dev[m]] \in Slots /\ devices[address[dev[m]]] = dev[m]
  /\ \A d \in Devs : watcher[d] \in Live => address[d] \in Slots /\ devices[address[d]] = d

AllWatched == \A a \in Listed : Watched(devices[a])
ListInv ==
  /\ \A a \in Listed : address[devices[a]] = a
  /\ AllWatched

CountInv == deviceCount = Cardinality(Listed)

NoteInv ==
  /\ \A d \in Devs : watcher[d] # "none" => d \in announced
  /\ \A m \in Monitors : at[m] = "spawning" => dev[m] \in announced
  /\ \A d \in retired : watcher[d] = "ended"

Inv == TypeInv /\ RunInv /\ SlotInv /\ ListInv /\ CountInv /\ NoteInv

LEMMA InitInv == Init => Inv
<1> SUFFICES ASSUME Init PROVE Inv
  OBVIOUS
<1>1. TypeInv
  BY InitType
<1>2. Listed = {}
  BY DEF Init, Listed
<1>3. CountInv
  BY <1>2, FS_EmptySet DEF Init, CountInv
<1>4. RunInv
  BY DEF Init, RunInv
<1>5. SlotInv /\ NoteInv
  BY DEF Init, SlotInv, NoteInv, Holding, Live
<1>6. ListInv
  BY <1>2 DEF ListInv, AllWatched, Watched
<1> QED BY <1>1, <1>3, <1>4, <1>5, <1>6 DEF Inv

LEMMA RunStep ==
  ASSUME TypeInv, RunInv, Next, stops' = 0
  PROVE  RunInv'
<1> USE DEF TypeInv, TypeOK, RunInv, hostVars, monitorVars, Goto
<1>1. CASE StartContext
  BY <1>1 DEF StartContext
<1>2. CASE StopCancel
  BY <1>2 DEF StopCancel
<1>3. CASE Start
  <2>1. PICK m \in Monitors : at' = [at EXCEPT ![m] = "loop"]
    BY <1>3 DEF Start
  <2>2. ~running
    BY <1>3 DEF Start
  <2> QED BY <1>3, <2>1, <2>2 DEF Start
<1>4. CASE StopSweep \/ Stop \/ StartFails
  BY <1>4 DEF StopSweep, Stop, StartFails
<1>5. ASSUME NEW p \in Ports, Plug(p) \/ Unplug(p) PROVE RunInv'
  BY <1>5 DEF Plug, Unplug
<1>6. ASSUME NEW m \in Monitors, MonitorStep(m) PROVE RunInv'
  <2>1. at[m] # "idle" /\ \E s \in Stages \ {"idle"} : at' = [at EXCEPT ![m] = s]
    BY <1>6 DEF MonitorStep, MonitorLoop, WaitCancelled, EnumerationFails, Probe, allocateAddress,
       Assign, Read, AddDevice, NotifyConnect, SpawnWatcher, WaitForConnection, Exchange, Stages
  <2>2. UNCHANGED <<app, hostVars>>
    BY <1>6 DEF MonitorStep, MonitorLoop, WaitCancelled, EnumerationFails, Probe, allocateAddress,
       Assign, Read, AddDevice, NotifyConnect, SpawnWatcher, WaitForConnection, Exchange
  <2>3. PICK s \in Stages \ {"idle"} : at' = [at EXCEPT ![m] = s]
    BY <2>1
  <2> QED BY <2>1, <2>2, <2>3
<1>7. ASSUME NEW d \in Devs, WatchStep(d) PROVE RunInv'
  BY <1>7 DEF WatchStep, WatchStart, WaitForDisconnection, WatchCancelled, RemoveDevice, NotifyDisconnect
<1> QED BY <1>1, <1>2, <1>3, <1>4, <1>5, <1>6, <1>7 DEF Next, AppStep

(* Steps of the ports and of Start leave the table and its goroutines.     *)
TablePart == <<devices, deviceCount, address, dev, watcher, announced, retired>>

LEMMA TableStutter ==
  ASSUME TypeInv, SlotInv, ListInv, CountInv, NoteInv, UNCHANGED TablePart,
         \/ UNCHANGED at
         \/ \E m \in Monitors, s \in Stages \ Holding :
              at[m] \notin Holding /\ at' = [at EXCEPT ![m] = s]
  PROVE  SlotInv' /\ ListInv' /\ CountInv' /\ NoteInv'
<1>1. \A m \in Monitors : at'[m] \in Holding => at'[m] = at[m]
  BY DEF TypeInv, TypeOK
<1>2. \A m \in Monitors : at[m] \in Holding => at'[m] = at[m]
  BY DEF TypeInv, TypeOK
<1>3. SlotInv'
  <2>1. \A m \in Monitors : at'[m] \notin Holding => at[m] \notin Holding
    BY <1>2
  <2> QED BY <1>1, <1>2, <2>1 DEF SlotInv, TablePart, Holding
<1>4. ListInv'
  BY <1>2 DEF ListInv, AllWatched, Watched, Listed, TablePart, Holding
<1>5. CountInv' /\ NoteInv'
  BY <1>1 DEF CountInv, Listed, NoteInv, TablePart, Holding
<1> QED BY <1>3, <1>4, <1>5

(* The other monitors are idle when one takes a step.                      *)
Alone(m) == \A n \in Monitors \ {m} : at[n] = "idle" /\ dev[n] = NoDev

LEMMA MonitorAlone ==
  ASSUME RunInv, SlotInv, NEW m \in Monitors, at[m] # "idle"
  PROVE  Alone(m)
  BY DEF RunInv, SlotInv, Alone, Holding

(* An object that has not been added is not in the table.                  *)
LEMMA NotListed ==
  ASSUME TypeInv, SlotInv, ListInv, NEW d \in Devs, watcher[d] = "none",
         \A m \in Monitors : dev[m] = d => at[m] \notin {"notifying", "spawning"}
  PROVE  \A a \in Slots : devices[a] # d
<1> SUFFICES ASSUME NEW a \in Slots, devices[a] = d PROVE FALSE
  OBVIOUS
<1>1. a \in Listed
  BY HostAssumption DEF Listed
<1>2. watcher[d] \notin {"started", "waiting", "removing"}
  OBVIOUS
<1>3. PICK m \in Monitors : dev[m] = d /\ at[m] \in {"notifying", "spawning"}
  BY <1>1, <1>2, Zenon DEF ListInv, AllWatched, Watched
<1> QED BY <1>3

(* Steps before the object is added.                                       *)
LEMMA EnumerationStep ==
  ASSUME TypeInv, RunInv, SlotInv, ListInv, CountInv, NoteInv, NEW m \in Monitors,
         EnumerationFails(m) \/ Probe(m) \/ Assign(m) \/ Read(m)
  PROVE  SlotInv' /\ ListInv' /\ CountInv' /\ NoteInv'
<1>1. UNCHANGED <<devices, deviceCount, address, watcher, announced, retired>>
  BY DEF EnumerationFails, Probe, Assign, Read, tableVars, watchVars, noteVars
<1>2. at[m] \in {"probing", "assigning", "reading"}
  BY DEF EnumerationFails, Probe, Assign, Read, Exchange
<1>3. PICK s \in {"loop", "allocating", "reading", "adding"} :
        /\ at' = [at EXCEPT ![m] = s]
        /\ s \in {"reading", "adding"} => at[m] \in {"assigning", "reading"}
        /\ dev' = [dev EXCEPT ![m] = IF s = "loop" THEN NoDev ELSE dev[m]]
  BY DEF EnumerationFails, Probe, Assign, Read, Exchange, Goto, TypeInv, TypeOK
<1>4. SlotInv'
  BY <1>1, <1>2, <1>3 DEF SlotInv, TypeInv, TypeOK, Holding
<1>5. ListInv'
  <2>1. \A n \in Monitors : at[n] \in {"notifying", "spawning"} => at'[n] = at[n] /\ dev'[n] = dev[n]
    BY <1>2, <1>3 DEF TypeInv, TypeOK
  <2> QED BY <1>1, <2>1 DEF ListInv, AllWatched, Watched, Listed
<1>6. CountInv' /\ NoteInv'
  BY <1>1, <1>3 DEF CountInv, Listed, NoteInv, TypeInv, TypeOK
<1> QED BY <1>4, <1>5, <1>6

LEMMA ConnectionStep ==
  ASSUME TypeInv, RunInv, SlotInv, ListInv, CountInv, NoteInv,
         NEW m \in Monitors, NEW d \in Devs, WaitForConnection(m, d)
  PROVE  SlotInv' /\ ListInv' /\ CountInv' /\ NoteInv'
<1>1. /\ UNCHANGED <<devices, deviceCount, watcher, announced, retired>>
      /\ at[m] = "waiting" /\ at' = [at EXCEPT ![m] = "probing"]
      /\ dev' = [dev EXCEPT ![m] = d]
      /\ address' = [address EXCEPT ![d] = 0]
      /\ watcher[d] = "none" /\ \A n \in Monitors : dev[n] # d
  BY DEF WaitForConnection, Unused, Goto, tableVars, watchVars, noteVars
<1>2. \A a \in Slots : devices[a] # d
  BY <1>1, NotListed
<1>3. SlotInv'
  BY <1>1 DEF SlotInv, TypeInv, TypeOK, Holding, Live
<1>4. ListInv'
  <2>1. \A a \in Listed : address'[devices[a]] = a
    BY <1>1, <1>2 DEF ListInv, Listed, TypeInv, TypeOK
  <2>2. \A n \in Monitors : at[n] \in {"notifying", "spawning"} => at'[n] = at[n] /\ dev'[n] = dev[n]
    BY <1>1 DEF TypeInv, TypeOK
  <2> QED BY <1>1, <2>1, <2>2 DEF ListInv, AllWatched, Watched, Listed
<1>5. CountInv' /\ NoteInv'
  BY <1>1 DEF CountInv, Listed, NoteInv, TypeInv, TypeOK
<1> QED BY <1>3, <1>4, <1>5

LEMMA AllocateStep ==
  ASSUME TypeInv, RunInv, SlotInv, ListInv, CountInv, NoteInv,
         NEW m \in Monitors, allocateAddress(m)
  PROVE  SlotInv' /\ ListInv' /\ CountInv' /\ NoteInv'
<1>1. /\ UNCHANGED <<devices, deviceCount, watcher, announced, retired>>
      /\ at[m] = "allocating"
  BY DEF allocateAddress, watchVars, noteVars
<1>2. Alone(m) /\ dev[m] \in Devs /\ watcher[dev[m]] = "none"
  BY <1>1, MonitorAlone DEF TypeInv, SlotInv, Holding
<1>3. CASE \E a \in Slots : devices[a] = NoDev
  <2>1. PICK a \in Slots :
          /\ devices[a] = NoDev
          /\ address' = [address EXCEPT ![dev[m]] = a]
          /\ at' = [at EXCEPT ![m] = "assigning"] /\ dev' = dev
    BY <1>3 DEF allocateAddress, FirstFree, Goto
  <2>2. \A b \in Slots : devices[b] # dev[m]
    <3>1. \A n \in Monitors : dev[n] = dev[m] => at[n] \notin {"notifying", "spawning"}
      BY <1>1, <1>2 DEF Alone
    <3> QED BY <1>2, <3>1, NotListed
  <2>3. SlotInv'
    BY <1>1, <1>2, <2>1 DEF SlotInv, TypeInv, TypeOK, Holding, Live, Alone
  <2>4. ListInv'
    <3>1. \A b \in Listed : address'[devices[b]] = b
      BY <2>1, <2>2 DEF ListInv, Listed, TypeInv, TypeOK
    <3>2. \A n \in Monitors : at[n] \in {"notifying", "spawning"} => at'[n] = at[n] /\ dev'[n] = dev[n]
      BY <1>1, <2>1 DEF TypeInv, TypeOK
    <3> QED BY <1>1, <3>1, <3>2 DEF ListInv, AllWatched, Watched, Listed
  <2>5. CountInv' /\ NoteInv'
    BY <1>1, <2>1 DEF CountInv, Listed, NoteInv, TypeInv, TypeOK
  <2> QED BY <2>3, <2>4, <2>5
<1>4. CASE ~ \E a \in Slots : devices[a] = NoDev
  <2>1. /\ at' = [at EXCEPT ![m] = "loop"]
        /\ dev' = [dev EXCEPT ![m] = NoDev] /\ address' = address
    BY <1>4 DEF allocateAddress, Goto
  <2>2. SlotInv'
    BY <1>1, <2>1 DEF SlotInv, TypeInv, TypeOK, Holding
  <2>3. ListInv'
    <3>1. \A n \in Monitors : at[n] \in {"notifying", "spawning"} => at'[n] = at[n] /\ dev'[n] = dev[n]
      BY <1>1, <2>1 DEF TypeInv, TypeOK
    <3> QED BY <1>1, <2>1, <3>1 DEF ListInv, AllWatched, Watched, Listed
  <2>4. CountInv' /\ NoteInv'
    BY <1>1, <2>1 DEF CountInv, Listed, NoteInv, TypeInv, TypeOK
  <2> QED BY <2>2, <2>3, <2>4
<1> QED BY <1>3, <1>4

(* The table takes the object: its slot is free, so the count fits.        *)
LEMMA AddStep ==
  ASSUME TypeInv, RunInv, SlotInv, ListInv, CountInv, NoteInv,
         NEW m \in Monitors, AddDevice(m)
  PROVE  SlotInv' /\ ListInv' /\ CountInv' /\ NoteInv'
<1> DEFINE d == dev[m]
           a == address[dev[m]]
<1>1. at[m] = "adding"
  BY DEF AddDevice
<1>2. /\ Alone(m) /\ d \in Devs /\ watcher[d] = "none" /\ d # NoDev
      /\ a \in Slots /\ devices[a] = NoDev
  BY <1>1, MonitorAlone, HostAssumption DEF TypeInv, SlotInv, Holding
<1>3. IsFiniteSet(Slots) /\ Cardinality(Slots) = MaxDevices
  BY HostAssumption, FS_Interval DEF Slots
<1>4. Listed \subseteq Slots /\ a \notin Listed /\ IsFiniteSet(Listed)
  BY <1>2, <1>3, FS_Subset DEF Listed
<1>5. Cardinality(Listed) \in Nat
  BY <1>4, FS_CardinalityType
<1>6. deviceCount < MaxDevices
  <2>1. Cardinality(Listed) <= Cardinality(Slots) /\ (Listed # Slots => Cardinality(Listed) # Cardinality(Slots))
    BY <1>3, <1>4, FS_Subset
  <2> QED BY <1>2, <1>3, <1>4, <1>5, <2>1, HostAssumption DEF CountInv
<1>7. /\ devices' = [devices EXCEPT ![a] = d]
      /\ deviceCount' = deviceCount + 1
      /\ at' = [at EXCEPT ![m] = "notifying"]
      /\ UNCHANGED <<dev, address, watcher, announced, retired>>
  BY <1>6 DEF AddDevice, Goto, watchVars, noteVars
<1>8. Listed' = Listed \union {a}
  BY <1>2, <1>7 DEF Listed, TypeInv, TypeOK
<1>9. CountInv'
  <2>1. Cardinality(Listed \union {a}) = Cardinality(Listed) + 1
    BY <1>4, FS_AddElement
  <2> QED BY <1>7, <1>8, <2>1 DEF CountInv
<1>10. SlotInv'
  <2>1. /\ at'[m] = "notifying" /\ devices'[a] = d
        /\ \A n \in Monitors \ {m} : at'[n] = "idle" /\ dev'[n] = NoDev
    BY <1>2, <1>7 DEF TypeInv, TypeOK, Alone
  <2>2. ASSUME NEW e \in Devs, watcher[e] \in Live
        PROVE  address[e] \in Slots /\ devices'[address[e]] = e
    <3>1. address[e] \in Slots /\ devices[address[e]] = e
      BY <2>2 DEF SlotInv
    <3>2. address[e] # a
      BY <1>2, <3>1, HostAssumption
    <3> QED BY <1>7, <3>1, <3>2 DEF TypeInv, TypeOK
  <2> QED BY <1>2, <1>7, <2>1, <2>2 DEF SlotInv, Holding
<1>11. ListInv'
  <2>1. \A b \in Listed : devices'[b] = devices[b]
    BY <1>4, <1>7 DEF TypeInv, TypeOK
  <2>2. devices'[a] = d /\ dev'[m] = d /\ at'[m] = "notifying"
    BY <1>2, <1>7 DEF TypeInv, TypeOK
  <2>3. \A n \in Monitors : at[n] \notin {"notifying", "spawning"}
    BY <1>1, <1>2 DEF Alone
  <2>4. \A b \in Listed' : address'[devices'[b]] = b
    BY <1>7, <1>8, <2>1, <2>2 DEF ListInv
  <2>5. AllWatched'
    BY <1>7, <1>8, <2>1, <2>2, <2>3 DEF ListInv, AllWatched, Watched
  <2> QED BY <2>4, <2>5 DEF ListInv
<1>12. NoteInv'
  BY <1>7 DEF NoteInv, TypeInv, TypeOK
<1> QED BY <1>9, <1>10, <1>11, <1>12

LEMMA NotifyStep ==
  ASSUME TypeInv, RunInv, SlotInv, ListInv, CountInv, NoteInv,
         NEW m \in Monitors, NotifyConnect(m)
  PROVE  SlotInv' /\ ListInv' /\ CountInv' /\ NoteInv'
<1>1. /\ at[m] = "notifying" /\ at' = [at EXCEPT ![m] = "spawning"]
      /\ announced' = announced \union {dev[m]}
      /\ UNCHANGED <<devices, deviceCount, dev, address, watcher, retired>>
  BY DEF NotifyConnect, Goto, tableVars, watchVars
<1>2. SlotInv'
  BY <1>1 DEF SlotInv, TypeInv, TypeOK, Holding, Live
<1>3. ListInv'
  BY <1>1 DEF ListInv, AllWatched, Watched, Listed, TypeInv, TypeOK
<1>4. CountInv' /\ NoteInv'
  BY <1>1 DEF CountInv, Listed, NoteInv, TypeInv, TypeOK
<1> QED BY <1>2, <1>3, <1>4

LEMMA SpawnStep ==
  ASSUME TypeInv, RunInv, SlotInv, ListInv, CountInv, NoteInv,
         NEW m \in Monitors, SpawnWatcher(m)
  PROVE  SlotInv' /\ ListInv' /\ CountInv' /\ NoteInv'
<1> DEFINE d == dev[m]
<1>1. /\ at[m] = "spawning" /\ at' = [at EXCEPT ![m] = "loop"]
      /\ watcher' = [watcher EXCEPT ![d] = "started"]
      /\ dev' = [dev EXCEPT ![m] = NoDev]
      /\ UNCHANGED <<devices, deviceCount, address, announced, retired>>
  BY DEF SpawnWatcher, Watch, Goto, tableVars, noteVars
<1>2. Alone(m) /\ d \in Devs /\ watcher[d] = "none"
  BY <1>1, MonitorAlone DEF TypeInv, SlotInv, Holding
<1>3. watcher'[d] = "started" /\ \A e \in Devs \ {d} : watcher'[e] = watcher[e]
  BY <1>1, <1>2 DEF TypeInv, TypeOK
<1>4. SlotInv'
  BY <1>1, <1>2, HostAssumption DEF SlotInv, TypeInv, TypeOK, Holding, Live, Alone
<1>5. ListInv'
  <2>1. AllWatched'
    <3> SUFFICES ASSUME NEW b \in Listed
                 PROVE  watcher'[devices[b]] \in {"started", "waiting", "removing"}
      BY <1>1 DEF AllWatched, Watched, Listed
    <3>1. devices[b] \in Devs
      BY DEF Listed, TypeInv, TypeOK
    <3>2. CASE devices[b] = d
      BY <1>3, <3>2
    <3>3. CASE devices[b] # d
      <4>1. \A n \in Monitors : dev[n] = devices[b] => at[n] \notin {"notifying", "spawning"}
        BY <1>2, <3>3 DEF Alone
      <4>2. watcher[devices[b]] \in {"started", "waiting", "removing"}
        BY <4>1, Zenon DEF ListInv, AllWatched, Watched
      <4> QED BY <1>3, <3>1, <3>3, <4>2
    <3> QED BY <3>2, <3>3
  <2> QED BY <1>1, <2>1 DEF ListInv, Listed
<1>6. CountInv'
  BY <1>1 DEF CountInv, Listed
<1>7. NoteInv'
  <2>1. d \in announced /\ d \notin retired
    BY <1>1, <1>2 DEF NoteInv
  <2>2. \A n \in Monitors : at'[n] # "spawning"
    BY <1>1, <1>2 DEF Alone, TypeInv, TypeOK
  <2>3. retired \subseteq Devs
    BY DEF TypeInv, TypeOK
  <2> QED BY <1>1, <1>3, <2>1, <2>2, <2>3 DEF NoteInv
<1> QED BY <1>4, <1>5, <1>6, <1>7

-----------------------------------------------------------------------------
(* A watcher that neither starts to remove its object nor has removed it.  *)
LEMMA WatchMoves ==
  ASSUME TypeInv, SlotInv, ListInv, CountInv, NoteInv,
         NEW d \in Devs, watcher[d] \in Live, NEW s \in Live,
         watcher' = [watcher EXCEPT ![d] = s],
         UNCHANGED <<at, devices, deviceCount, address, dev, announced, retired>>
  PROVE  SlotInv' /\ ListInv' /\ CountInv' /\ NoteInv'
<1>1. \A e \in Devs : e # d => watcher'[e] = watcher[e]
  BY DEF TypeInv, TypeOK
<1>2. watcher'[d] = s /\ s # "none" /\ s # "ended" /\ watcher[d] # "none"
  BY DEF TypeInv, TypeOK, Live
<1>3. SlotInv'
  BY <1>1, <1>2 DEF SlotInv, TypeInv, TypeOK
<1>4. ListInv'
  <2>1. \A a \in Listed : devices[a] \in Devs
    BY DEF Listed, TypeInv, TypeOK
  <2> QED BY <1>1, <1>2, <2>1 DEF ListInv, AllWatched, Watched, Listed, Live
<1>5. CountInv'
  BY DEF CountInv, Listed
<1>6. NoteInv'
  BY <1>1, <1>2 DEF NoteInv, TypeInv, TypeOK, Live
<1> QED BY <1>3, <1>4, <1>5, <1>6

LEMMA RemoveStep ==
  ASSUME TypeInv, SlotInv, ListInv, CountInv, NoteInv, NEW d \in Devs, RemoveDevice(d)
  PROVE  SlotInv' /\ ListInv' /\ CountInv' /\ NoteInv'
<1> DEFINE a == address[d]
<1>1. /\ watcher[d] = "removing" /\ watcher' = [watcher EXCEPT ![d] = "closing"]
      /\ devices' = [devices EXCEPT ![a] = NoDev]
      /\ deviceCount' = deviceCount - 1
      /\ UNCHANGED <<at, address, dev, announced, retired>>
  BY DEF RemoveDevice, Watch, monitorVars, noteVars
<1>2. a \in Slots /\ devices[a] = d /\ a \in Listed
  BY <1>1, HostAssumption DEF SlotInv, Live, Listed
<1>3. Listed' = Listed \ {a} /\ \A b \in Slots \ {a} : devices'[b] = devices[b]
  BY <1>1, <1>2 DEF Listed, TypeInv, TypeOK
<1>4. \A e \in Devs : e # d => watcher'[e] = watcher[e]
  BY <1>1 DEF TypeInv, TypeOK
<1>5. watcher'[d] = "closing"
  BY <1>1 DEF TypeInv, TypeOK
<1>6. CountInv'
  <2>1. IsFiniteSet(Listed)
    <3>1. IsFiniteSet(Slots) /\ Listed \subseteq Slots
      BY HostAssumption, FS_Interval DEF Slots, Listed
    <3> QED BY <3>1, FS_Subset
  <2>2. Cardinality(Listed \ {a}) = Cardinality(Listed) - 1
    BY <1>2, <2>1, FS_RemoveElement
  <2> QED BY <1>1, <1>3, <2>2 DEF CountInv
<1>7. SlotInv'
  <2>1. ASSUME NEW m \in Monitors, at[m] \in {"assigning", "reading", "adding"}
        PROVE  address[dev[m]] \in Slots /\ devices'[address[dev[m]]] = NoDev
    BY <1>1, <1>3, <2>1 DEF SlotInv, TypeInv, TypeOK
  <2>2. ASSUME NEW m \in Monitors, at[m] \in {"notifying", "spawning"}
        PROVE  address[dev[m]] \in Slots /\ devices'[address[dev[m]]] = dev[m]
    <3>1. address[dev[m]] \in Slots /\ devices[address[dev[m]]] = dev[m] /\ watcher[dev[m]] = "none"
      BY <2>2 DEF SlotInv, Holding
    <3>2. address[dev[m]] # a
      BY <1>1, <1>2, <3>1
    <3> QED BY <1>3, <3>1, <3>2
  <2>3. ASSUME NEW e \in Devs, watcher'[e] \in Live
        PROVE  address[e] \in Slots /\ devices'[address[e]] = e
    <3>1. e # d /\ watcher[e] \in Live
      BY <1>4, <1>5, <2>3 DEF Live
    <3>2. address[e] \in Slots /\ devices[address[e]] = e
      BY <3>1 DEF SlotInv
    <3> QED BY <1>2, <1>3, <3>1, <3>2
  <2>4. \A m \in Monitors : at[m] \in Holding => watcher'[dev[m]] = "none"
    BY <1>1, <1>4 DEF SlotInv, TypeInv
  <2> QED BY <1>1, <2>1, <2>2, <2>3, <2>4 DEF SlotInv
<1>8. ListInv'
  <2>1. \A b \in Listed' : b \in Listed /\ devices'[b] = devices[b] /\ devices[b] \in Devs /\ devices[b] # d
    BY <1>2, <1>3 DEF Listed, TypeInv, TypeOK, ListInv
  <2>2. \A b \in Listed' : address'[devices'[b]] = b
    BY <1>1, <2>1 DEF ListInv
  <2>3. AllWatched'
    BY <1>1, <1>4, <2>1 DEF ListInv, AllWatched, Watched
  <2> QED BY <2>2, <2>3 DEF ListInv
<1>9. NoteInv'
  BY <1>1, <1>4, <1>5 DEF NoteInv, TypeInv, TypeOK
<1> QED BY <1>6, <1>7, <1>8, <1>9

LEMMA RetireStep ==
  ASSUME TypeInv, SlotInv, ListInv, CountInv, NoteInv, NEW d \in Devs, NotifyDisconnect(d)
  PROVE  SlotInv' /\ ListInv' /\ CountInv' /\ NoteInv'
<1>1. /\ watcher[d] = "closing" /\ watcher' = [watcher EXCEPT ![d] = "ended"]
      /\ retired' = retired \union {d}
      /\ UNCHANGED <<at, devices, deviceCount, address, dev, announced>>
  BY DEF NotifyDisconnect, Watch, monitorVars, tableVars
<1>2. watcher'[d] = "ended" /\ \A e \in Devs : e # d => watcher'[e] = watcher[e]
  BY <1>1 DEF TypeInv, TypeOK
<1>3. SlotInv'
  BY <1>1, <1>2 DEF SlotInv, TypeInv, TypeOK, Live
<1>4. ListInv'
  <2>1. \A a \in Listed : devices[a] \in Devs
    BY DEF Listed, TypeInv, TypeOK
  <2>2. \A a \in Listed : watcher[devices[a]] \in {"started", "waiting", "removing"} =>
                          watcher'[devices[a]] = watcher[devices[a]]
    BY <1>1, <1>2, <2>1
  <2> QED BY <1>1, <2>2 DEF ListInv, AllWatched, Watched, Listed
<1>5. CountInv' /\ NoteInv'
  BY <1>1, <1>2 DEF CountInv, Listed, NoteInv, TypeInv, TypeOK
<1> QED BY <1>3, <1>4, <1>5

-----------------------------------------------------------------------------
LEMMA InvStep == ASSUME Inv, [Next]_vars, stops' = 0 PROVE Inv'
<1> DEFINE Table == SlotInv /\ ListInv /\ CountInv /\ NoteInv
<1>1. TypeInv'
  BY TypeStep DEF Inv
<1>2. CASE UNCHANGED vars
  <2>1. UNCHANGED TablePart /\ UNCHANGED at
    BY <1>2 DEF vars, TablePart, tableVars, monitorVars, watchVars, noteVars
  <2>2. Table'
    BY <2>1, TableStutter DEF Inv
  <2>3. RunInv'
    BY <1>2 DEF Inv, RunInv, vars, hostVars, monitorVars
  <2> QED BY <1>1, <2>2, <2>3 DEF Inv
<1>3. CASE Next
  <2>1. RunInv'
    BY <1>3, RunStep DEF Inv
  <2> SUFFICES Table'
    BY <1>1, <2>1 DEF Inv
  <2> USE DEF Inv
  <2>2. CASE StartContext \/ StartFails \/ \E p \in Ports : Plug(p) \/ Unplug(p)
    <3>1. UNCHANGED TablePart /\ UNCHANGED at
      BY <2>2 DEF StartContext, StartFails, Plug, Unplug, TablePart, tableVars, monitorVars, watchVars, noteVars
    <3> QED BY <3>1, TableStutter
  <2>3. CASE Start
    <3>1. UNCHANGED TablePart /\ \E m \in Monitors : at[m] = "idle" /\ at' = [at EXCEPT ![m] = "loop"]
      BY <2>3 DEF Start, Goto, RunInv, TablePart, tableVars, watchVars, noteVars
    <3>2. "loop" \in Stages \ Holding /\ "idle" \notin Holding
      BY DEF Stages, Holding
    <3> QED BY <3>1, <3>2, TableStutter
  <2>4. CASE StopCancel \/ StopSweep \/ Stop
    BY <2>4 DEF StopCancel, StopSweep, Stop, RunInv, TypeInv, TypeOK
  <2>5. ASSUME NEW m \in Monitors, MonitorStep(m) PROVE Table'
    <3>1. CASE MonitorLoop(m) \/ WaitCancelled(m)
      <4>1. UNCHANGED TablePart
        BY <3>1 DEF MonitorLoop, WaitCancelled, TablePart, tableVars, watchVars, noteVars
      <4>2. \E s \in Stages \ Holding : at[m] \notin Holding /\ at' = [at EXCEPT ![m] = s]
        BY <3>1 DEF MonitorLoop, WaitCancelled, Goto, Stages, Holding
      <4> QED BY <4>1, <4>2, TableStutter
    <3> QED BY <2>5, <3>1, EnumerationStep, ConnectionStep, AllocateStep, AddStep, NotifyStep, SpawnStep
         DEF MonitorStep
  <2>6. ASSUME NEW d \in Devs, WatchStep(d) PROVE Table'
    <3>1. CASE WatchStart(d) \/ WaitForDisconnection(d)
      <4>1. /\ watcher[d] \in Live
            /\ \E s \in Live : watcher' = [watcher EXCEPT ![d] = s]
            /\ UNCHANGED <<at, devices, deviceCount, address, dev, announced, retired>>
        BY <3>1 DEF WatchStart, WaitForDisconnection, Watch, Live, monitorVars, tableVars, noteVars
      <4> QED BY <4>1, WatchMoves
    <3>2. CASE WatchCancelled(d)
      BY <3>2 DEF WatchCancelled, RunInv
    <3> QED BY <2>6, <3>1, <3>2, RemoveStep, RetireStep DEF WatchStep
  <2> QED BY <1>3, <2>2, <2>3, <2>4, <2>5, <2>6 DEF Next, AppStep
<1> QED BY <1>2, <1>3

(* Nothing takes a call of Stop back.                                      *)
LEMMA StopsGrow == ASSUME TypeInv, [Next]_vars, stops' = 0 PROVE stops = 0
<1> USE DEF hostVars
<1>1. CASE StartContext \/ AppStep \/ UNCHANGED vars
  BY <1>1 DEF StartContext, AppStep, Start, StartFails, StopSweep, Stop, vars
<1>2. CASE StopCancel
  BY <1>2 DEF StopCancel, TypeInv, TypeOK
<1>3. ASSUME NEW p \in Ports, Plug(p) \/ Unplug(p) PROVE stops = 0
  BY <1>3 DEF Plug, Unplug
<1>4. ASSUME NEW m \in Monitors, MonitorStep(m) PROVE stops = 0
  BY <1>4 DEF MonitorStep, MonitorLoop, WaitCancelled, EnumerationFails, Probe, allocateAddress,
     Assign, Read, AddDevice, NotifyConnect, SpawnWatcher, WaitForConnection
<1>5. ASSUME NEW d \in Devs, WatchStep(d) PROVE stops = 0
  BY <1>5 DEF WatchStep, WatchStart, WaitForDisconnection, WatchCancelled, RemoveDevice, NotifyDisconnect
<1> QED BY <1>1, <1>2, <1>3, <1>4, <1>5 DEF Next

LEMMA Invariance == Spec => [](stops = 0 => Inv)
<1> DEFINE UntilStop == TypeInv /\ (stops = 0 => Inv)
<1>1. Init => UntilStop
  BY InitInv DEF Inv
<1>2. UntilStop /\ [Next]_vars => UntilStop'
  BY TypeStep, StopsGrow, InvStep
<1>3. UntilStop => (stops = 0 => Inv)
  OBVIOUS
<1> QED BY <1>1, <1>2, <1>3, PTL DEF Spec

(* Until Stop is called, the index of a listed device is its address and   *)
(* deviceCount is the number of listed devices, for any number of ports    *)
(* and devices and whichever watcher takes which disconnection             *)
(* (monitorDevices, allocateAddress, monitorDisconnection of host.go).     *)
THEOREM TableAgreement == Spec => []TableConsistent
<1>1. (stops = 0 => Inv) => TableConsistent
  BY DEF Inv, ListInv, CountInv, TableConsistent
<1> QED BY <1>1, Invariance, PTL

(* Until Stop is called, every listed device has a goroutine that will     *)
(* take it out of the table.                                               *)
THEOREM EachWatched == Spec => []ListedIsWatched
<1>1. (stops = 0 => Inv) => ListedIsWatched
  BY DEF Inv, ListInv, AllWatched, ListedIsWatched
<1> QED BY <1>1, Invariance, PTL

(* Until Stop is called, no device is reported as disconnected that was    *)
(* not reported as connected before.                                       *)
THEOREM CallbacksOrdered == Spec => []CallbackOrder
<1>1. Inv => retired \subseteq announced
  <2>1. Inv => retired \subseteq Devs
    BY DEF Inv, TypeInv, TypeOK
  <2> QED BY <2>1 DEF Inv, NoteInv
<1>2. (stops = 0 => Inv) => CallbackOrder
  BY <1>1 DEF CallbackOrder
<1> QED BY <1>2, Invariance, PTL
=============================================================================
