# A verification development for softusb

softusb is a USB stack in Go: a device stack (`device/`) with class drivers, a host stack
(`host/`), and hardware abstraction layers (HALs) for both over named pipes (`hal/fifo`) and,
for the host, over Linux' usbfs. This directory holds TLA+ models of the parts of it whose
correctness depends on the order of events, TLC configurations that check them on small
instances, and theorems about them that TLAPS proves for every value of the constants.

Paths below are relative to the root of the repository; `PROJECT.json` maps every definition to
its lines, lists the runs, the mutants (a changed definition that breaks the property it is listed for),
the findings, the hazards and the theorems.

## 1. Inventory

### Device side

| Component | State | Operations | Talks to |
|---|---|---|---|
| `Device` (`device/device.go`) | `state`, `previousState`, `address`, `activeConfig`, `configurations`, `remoteWakeupEnabled`, under one mutex | `Reset`, `SetAddress`, `SetConfiguration`, `Suspend`, `Resume`, `EnableRemoteWakeup`, `AddConfiguration`, `Close`, lookups | called by the control loop and by the application's goroutines |
| `StandardRequestHandler` (`device/standard.go`) | a response buffer | `HandleSetup`: one method per standard request | `Device`, its interfaces and endpoints |
| `Stack`, control (`device/stack.go`) | `running`, `ctx`, `setupBuf` | `Start`, `Stop`, `controlLoop`, `handleSetup`, `completeSetup` | HAL (`ReadSetup`, `WriteEP0`, `ReadEP0`, `AckEP0`, `StallEP0`), handler, class drivers |
| `Stack`, data (`device/stack.go`, `device/transfer.go`) | per endpoint a list of at most eight pending transfers; per `Transfer` its flags, status and context | `SubmitTransfer`, `processTransfer` (one goroutine per transfer), `removeTransfer`, `CancelTransfers`, `Transfer.Cancel`, `Complete`, `Reset` | HAL `Read`/`Write`, completion callbacks |
| Interfaces, configurations, endpoints (`device/interface.go`, `endpoint.go`) | alternate setting, class driver, data toggle, halted flag | lookups, `SetAlternate`, `SetStall`, marshalling | `Device`, class drivers |
| Mass storage (`device/class/msc`) | transport state, current CBW, sense data, one data buffer | `Run`, `processCBW`, one handler per SCSI command, `sendCSW`, `handleReset` | stack transfers or HAL, a `Storage` |
| CDC ACM and HID (`device/class/cdc`, `hid`) | line coding, control lines; idle rate, protocol, report | `HandleSetup`, `SetAlternate`, `Read`, `Write`, `SendReport`, `Close` | stack |
| FIFO HAL (`device/hal/fifo`) | open pipes, connection flag, one read and one write buffer | `ReadSetup`, `WriteEP0`, `Read`, `Write`, `StallEP0`, `WaitConnect`, `Stop` | the host's FIFO HAL, as a byte stream of messages |
| Builder (`device/device.go`) | the device under construction, an error | one method per part of a tree, `Build` | configurations, interfaces, class drivers |
| Setup packets, descriptors | none | parsing, formatting | - |

### Host side

| Component | State | Operations | Talks to |
|---|---|---|---|
| `Host` (`host/host.go`, `enumeration.go`) | `running`, `ctx`, the table `devices` (indexed by address - 1), `deviceCount`, `nextAddress`, two channels of devices | `Start`, `Stop`, `monitorDevices`, `enumerateDevice`, `allocateAddress`, `monitorDisconnection`, `WaitDevice` | HAL (`WaitForConnection`, `WaitForDisconnection`, `ResetPort`, `ControlTransfer`), callbacks |
| `Device` of the host (`host/device.go`) | port, address, descriptors, state | wrappers of HAL transfers, `Close` | HAL |
| `TransferManager` (`host/transfer.go`) | `running`, `ctx`, the channel `jobs`, the map `pending`, per transfer `completed` and its result | `Start`, `Stop`, `Submit`, `Cancel`, `worker`, `executeTransfer`, `completeTransfer`, `WaitAll`; `Pipe` | HAL transfers, callbacks |
| FIFO HAL (`host/hal/fifo`) | at most one device connection, pipes per endpoint, one buffer | `ControlTransfer`, `WaitForConnection`, polling of a directory, connection monitor | the device's FIFO HAL |
| Linux HAL (`host/hal/linux`) | pools of devices, URBs and descriptors, port map, epoll set, netlink socket | hot plugging, transfers by ioctl, poller | kernel |
| `hid-monitor` (`examples/linux-hal/hid-monitor`) | a registry of devices by port | one goroutine for connections, one for disconnections, two per device | Linux HAL |

`pkg` (errors, logging, USB ids), `cmd/softusb-udev-rules` and the other examples keep no state
of the system.

### How they interact, and what is hard about it

* The device's control loop is one goroutine; the application calls the same `Device` from
  others. Every method that changes the state takes the mutex, changes its fields, releases it
  and takes it again in `setState`: calls interleave between the two halves.
* A bus reset may arrive while a request is handled; the HAL may fail to complete a request
  whose effect has already happened.
* Every submitted transfer has a goroutine of its own. Cancelling, completing, removing it from
  the pending list and submitting it again from its callback happen in any order.
* The host's monitor and one watcher per device share the table with `Stop`, which takes no lock
  for it; both read the field `Host.ctx` again after a restart has replaced it. All watchers wait
  on the same HAL call, so each may receive the event of another's device.
* `TransferManager` closes a channel that other goroutines send on.
* The mass storage driver takes what is in its OUT pipe as a command or as data by what it is
  doing itself, while the host may have given the command up, the medium may change, and a
  Bulk-Only Reset arrives on the control endpoint, that is, in another goroutine.
* The FIFO HALs frame messages over a byte stream with deadlines, so a late or short message
  shifts what follows; control loop and class driver share one read and one write buffer.
* A connection of the FIFO host passes from a goroutine through a channel to the caller of
  `WaitForConnection`, which stores it a moment later, with `Stop`, a disconnection or another
  connection at any moment: its files must not be used, or closed, by two of them. Reads have
  deadlines, writes to a pipe have none, and both hold the lock that `Stop` needs.
* In the Linux HAL the initial scan and the hot-plug loop add devices concurrently, the poll loop
  marks and unregisters them, ports and file descriptors are reused at once, and transfers look a
  device up first and call the kernel later.
* A configuration has an RWMutex; `MarshalTo` takes it for reading twice, and a waiting writer
  keeps the second one out. Attaching a driver releases the lock around the driver's `Init` and
  the old driver's `Close`, while the loop uses drivers and the application closes the device.
  `Init` and `MarshalTo` go through a slice of endpoints that other goroutines change meanwhile.

The list under `hazards` in `PROJECT.json` places each of these at its line.

### What makes each component correct

* `Device` and control pipe: state, address and configuration agree, but for the moment between the
  two steps of a method; a refused request changes nothing but, if a driver refuses it, the
  alternate setting; host and device agree once an answer is out; a request gets data, an
  acknowledgement or a STALL, except those the code is known to leave; to the host, each method
  looks atomic.
* Data transfers: one callback per submission; a slot of a pending list is always going to be
  given back; what is being moved can be cancelled; a done context ends a transfer that is not in
  the middle of a write.
* Host table: a listed device has the address of its index, a watcher, and is counted; it is
  listed as long as it is connected; the table empties when all devices are gone; `Stop` ends all
  goroutines.
* Transfer manager: one callback per accepted transfer, and never a pending entry after it;
  `Stop` brings every accepted transfer to its end.
* Mass storage: a command comes to a status or a stall; what was acknowledged is on the medium,
  what is read is what was stored; the residue is what was not moved; sense data name a cause.
* FIFO HALs: a connection is in one place at a time as long as it is open, and in none after; an
  answer is at most as late as calls have timed out; a device that starts is reported and `Stop`
  returns, unless a call is stuck in a full pipe.
* Linux HAL: a slot is free or in use, never both; the port of a connected device has an open
  descriptor; a device that leaves is noticed, one that is plugged in is found; `Close` releases
  everything.
* Tree and drivers: a descriptor has the interfaces of one moment, and is that of the tree when no
  endpoint changes under it; what a host reads is what is there; a driver is attached where it
  believes to be, and closed when it is not; a request is answered, but for three known ways.

## 2. Modules

| Module | What it models |
|---|---|
| `Device` | `device.Device`: one operation per method. `call[p]` is the state that goroutine `p` has still to write in `setState`. It has no `Next`. |
| `UsbDevice` | The abstract specification: the chapter 9 state machine of `device/doc.go`, each request and reset one atomic step. |
| `DeviceControl` | Extends `Device` by `controlLoop`, `handleSetup`, `StandardRequestHandler` (one action per request), `completeSetup`, a host that submits a request at a time and resets the bus, and the application's goroutines. `pc` is the place in the loop; `reading -> handling -> settling -> completing`. |
| `StackLifecycle` | `Start`, `Stop` and `controlLoop` of the stack over `Init`, `Start`, `Stop` and `ReadSetup` of the FIFO HAL, with the lock released in between. `callAt[c]` is the place of a caller, `loops` the control loops with the context of their last read; contexts are numbers. |
| `StackTransfers` | `SubmitTransfer`, `processTransfer`, `removeTransfer`, `CancelTransfers` and the `Transfer` object. `at[w]` is the place of a goroutine in `processTransfer`, `doing[c]` that of a caller. |
| `MscBot` | The mass storage driver: `Run`, `processCBW`, the SCSI commands, `MemoryStorage` and `FileStorage`, `sendCSW`, `handleReset`, `Init` and `Close` as what they leave bound, and a host that sends commands and may give one up. `pc` is the place of `Run`; a pipe is the queue of transfers under way. |
| `FifoLink` | Both FIFO HALs: a device process per directory, `handleDeviceDirectory` per directory, the two channels, `WaitForConnection` and `WaitForDisconnection` each as its receive (`ReceiveConnection`, `taken`) and what it does with `h.device` afterwards, one host call at a time with its write and its read, pipes that can be full, and the two goroutines of a device over its shared buffers. |
| `LinuxHal` | `host/hal/linux`: the slots with their free list, file descriptors, the poller's map (`polled`) and the kernel's epoll set (`watched`), netlink events, `pollLoop`, `hotplugLoop`, `initialScan`, `Init`, `Start`, `Stop`, `Close`. It has no specification of its own. |
| `HidMonitor` | Composes `LinuxHal` with the goroutines of `hid-monitor`: connections, disconnections, and per device enumeration, claim, reports; its registry, which it only prints, is left out. Through them it models the HAL's transfers: a lookup, then the kernel call. |
| `Configuration` | The builder's methods and `Build`; interfaces, endpoints and associations with their locks; the configuration descriptor as a header and items with their lengths; the host's `parseConfigurationTree`. Operators only. |
| `ClassDrivers` | Extends `Configuration` by `cdc.ACM` and `hid.HID`: builder calls, `Init`, `Close`, the class requests, the endpoints they transfer on. Operators only. |
| `Assembly` | Composes both with the application's goroutines (attach in the steps of `SetClassDriver`, with `Init` endpoint by endpoint: `InitBegins`, `InitReads`, `InitNew`; detach, change the tree, close, transfer), the control loop (`GET_DESCRIPTOR` in the steps of `MarshalTo`, `SET_CONFIGURATION`, class requests) and a host that enumerates and asks. |
| `HostMonitor` | `Start`, `Stop`, `monitorDevices`, `enumerateDevice`, `allocateAddress`, `monitorDisconnection`, over the connect and disconnect events of a HAL. `at[m]` is the place of a monitor, `watcher[d]` that of a device's watcher; a number stands for a context, so that reading `Host.ctx` again yields the newer one. |
| `TransferManager` | `Start`, `Stop` (three steps), `Submit` (three steps), `Cancel`, `worker`, `executeTransfer`, `completeTransfer`; a send on, or a second close of, a closed channel sets `panicked`, after which nothing happens. |
| `MC...` | Model values, requests, commands, scenarios and maps for TLC. |
| `..._proof` | Theorems, about the module of that name; `Stack_proof` is about both `Stack...` modules. |

How state corresponds to the code. A variable is named for the field it models, or for the
goroutine whose place and locals it holds; an action is named for the function, or for the part of
it that runs between two points at which others can get in (a lock taken or released, a channel
operation, a HAL or kernel call). History variables exist for properties only and are marked so
where they are declared (`late`, `reported`, `greeted`, `tangled`, `changed`, `removed`,
`torn`, `used`, `stored`).

Abstractions. A request is `[name, value, index, length]`, where the name stands for the pair of
`bmRequestType` and `bRequest`; a configuration is its value, and so is the pointer to it, which
is sound because `AddConfiguration` refuses a value that is registered. Data are not modelled
beyond what an answer says; in `MscBot` a block the host sends is named by its command and its
place, and is `Garbage` once it mixes with others. Strings, logging and the user's event callbacks
have no effect on the modelled state; completion callbacks do, and appear as steps of a caller
between `Complete` and what follows it. Behaviour of the Go runtime that matters is modelled as
such: `select` takes any ready case, a `close` wakes and drains receivers, a compare-and-swap is
one step and the lock after it another one, a `Lock` that waits keeps new readers of an RWMutex
out. `HostMonitor` and `DeviceControl` use the HAL by its interface (`hal.go`), whose
implementations are `FifoLink` and `LinuxHal`.

## 3. Runs

Passing runs:

| Run | Question |
|---|---|
| `DeviceControl_requests` | With every kind of request, two configurations, failing HAL completions and bus resets: does the device implement `UsbDevice`, agree with itself outside the two steps of a method, agree with the host, change nothing on a STALL but a setting its driver refuses (`RefusalContained`), and answer every request but those of `Unanswerable`? |
| `DeviceControl_app` | What is left of that when two goroutines of the application call every method of `Device` between any two steps of the loop? The active configuration is always a registered one. |
| `StackLifecycle_restart` | Two callers start and stop the stack in all orders, over loops of earlier starts and starts that fail: does a stack that runs have its HAL, and does every loop end once the context the stack holds is cancelled? |
| `StackTransfers_reuse` | Two objects share a list of one slot, are cancelled one by one or all together, reset and submitted again. No slot is leaked, one callback each, a first submission can always be cancelled, and a done context completes a transfer without help from the host, unless it is in the middle of a write. |
| `MscBot_commands` | Three commands in a row, one of them abandoned, failing, meeting another medium or a rewired driver: acknowledged data are on the medium, data read are true, residues exact, sense data name a cause the command can have; undisturbed, every command is answered. |
| `FifoLink_calls` | Directories, pipes and processes come and go, messages are cut, pipes are full, calls time out: is a connection in one place as long as its files are open, how late can an answer be, is a device that starts reported, does `Stop` return? |
| `HidMonitor_ports` | Devices come and go during the initial scan, leave a HAL that is closed while a reader is at work, or leave two at a time while another takes a descriptor over and leaves too, so that removals are dropped and descriptors reused: slots, descriptors, polled files and goroutines are accounted for; what leaves is noticed, what stays is found. |
| `Assembly_plans` | Serial, keyboard and composite devices are built, attached, changed, used and closed by two goroutines while a host enumerates and asks: does a descriptor have the interfaces of one moment, and the endpoints if none changed (`ServedWhole`), does the host know the tree, is every driver attached or closed, does attaching configure it, are the endpoints it uses ones the host knows, is every request answered but in the three ways `AnswerComes` names? |
| `HostMonitor_table` | Three devices come and go on two ports: until a `Stop`, table, count, addresses, watchers and callbacks agree, and the table drains. And two starts, one of which may fail, with two stops in all orders: all goroutines end. |
| `TransferManager_queue` | Two transfers, one with a context of its own, a channel of one job, two workers, two callers, two calls of `Stop`: one callback each, no entry after it, `Stop` drains. |

Runs that must find a violation; each quotes what the repository says and is a finding:

| Run | Violated | Statement |
|---|---|---|
| `HostMonitor_unplug` | `ConnectedIsKept` | `WaitForDisconnection` returns the port (`host/hal/hal.go:218`), and `monitorDisconnection` drops it: unplugging one device removes and closes another. |
| `Assembly_reentrant` | `MarshalReturns` | `MarshalTo` "Returns the number of bytes written" (`device/interface.go:399`). It holds the configuration's mutex for reading and calls `Descriptor`, which takes it again; a goroutine that calls `SetSelfPowered` in between blocks it, and itself, for ever. |

Type invariants (`TypeOK`) document the variables. Those of `DeviceControl`, `StackTransfers`,
`HostMonitor` and `TransferManager` are theorems (section 4).

Bounds, and why they are enough:

* `DeviceControl` (175 000 and 1.3 million states): one address besides 0, two configurations (one without interface and
  endpoint), so that switching, clearing and refusing a configuration all occur; an unknown value
  9; `wLength` below and at 2 for status requests; one isochronous endpoint; two alternate
  settings. The state space is finite without a bound on time. The application run has one
  configuration and the requests that address, configure and undo both, because it multiplies
  them by two goroutines with five methods each.
* `StackLifecycle` (50 000 states): two callers, two stops and four starts, so that two starts or a
  start and a stop overlap, a start fails, and loops of two starts meet.
* `StackTransfers` (480 000 states): `MaxPending` is 1 so that the list is full with two objects, and
  `MaxSubmissions` is 2, the least with which a late removal meets a new submission.
* `MscBot` (460 000 states): three commands, the least for a command, its failure and the REQUEST
  SENSE after it, or for two writes and a read; `MaxTroubles` 1, since two causes do not help
  each other in this code and a second one multiplies the states by ten. Three blocks, of 64 bytes
  so that a CBW is a short packet of data, and a buffer of two: a transfer beyond the buffer and
  one beyond the medium are both among the commands. `Word` is 2^16 for 2^32: a residue wraps in
  either, and no sum of the run comes near it.
* `FifoLink` (150 000 states): five scenarios. Two devices that come, go and die and no call, for
  the life of connections; one device and three calls in a row, so that an answer can be two calls
  late; one device with a call, its class driver and one data packet in each direction, for the
  buffers; one with two calls, and one with data packets, that may die or meet a `Stop` while a pipe
  is full. A pipe has room for one message, or for two where calls follow each other (`room`): a
  second write waits. The channels hold one connection each, so that a sender waits.
* `HidMonitor` (175 000 states): four scenarios of up to two devices and a root hub, two slots, four
  file descriptors, three handler goroutines, and channels of one event. In the fourth, a device
  and the hub leave (two removals, of which one may be dropped), another device is plugged in, may
  get the descriptor of the first, and leaves too (its removal may be dropped as well): the case in
  which neither the removal nor the hang-up helps (`InVain`) is reached.
* `Assembly` (223 000 states): 53 plans, a builder's script, two lists of calls and the class
  requests of the host each. Two of them are those in which data move on an endpoint the host does
  not know: an endpoint is removed after its driver was attached, and a driver is attached to a
  configuration that the host does not select. `BufferSize` 71 stands for 512: the composite device exactly fits it,
  and one association or HID interface more does not. Configuration values are 1 and 2, since the
  host asks for the first configuration whatever its value.
* `HostMonitor` (840 000 states): two scenarios. A host that runs, with two slots and three objects
  and connections, so that addresses are reused and wrap around and the table is full; and one with
  two starts and two stops, the least with which an old monitor meets a new context.
* `TransferManager`: the channel holds one job, so that `Submit` blocks; two stops, so that the
  channel is closed twice.

Deadlock is checked in the runs of `DeviceControl` and `StackTransfers`, which go on for ever. The
others stop where the system does: a host without plugged devices waits, a manager without
transfers does, and so does a driver whose host has sent its last command, once the bound on
plugs, starts, commands, calls or plans is reached. Symmetry is used only where no liveness
property is checked.

Fairness. Weak fairness is assumed of the goroutines of the stack itself: they are scheduled, hold
no lock while they wait, and their HAL calls return with an event, with an error or when the
context is done (`device/hal/hal.go` and `host/hal/hal.go` pass a context to each that waits).
The FIFO HALs do not keep the last promise: a write to a full pipe blocks. `StackTransfers` and
`FifoLink`, whose properties are about that, do not assume it (below). `DeviceControl`,
`StackLifecycle` and `Assembly` do of the control pipe, which is full only after a hundred answers
that the host has not read, and `TransferManager`, whose HAL is any, of every transfer.
None is assumed of the environment: the host need not move data (`HalReturns` of
`StackTransfers` is unfair, so `ContextEndsTransfer` rests on the context alone), nobody need plug,
unplug, start, stop, submit or cancel. A `Stop` that has begun and a `Submit` that has begun go on
(`AppStep`, `SubmitStep`). In particular:

* `StackLifecycle`: the callers that have begun and the control loops. Nobody need start or stop
  the stack, and the host need send nothing.
* `MscBot`: the driver's steps that do not fail, and the host's steps of a command under way. A
  call may fail but need not, so fairness never forces a failure.
* `StackTransfers`: the goroutines of transfers, and of HAL calls only what looks at the context:
  a `Read`, every 100 ms, and a `Write` before its first byte. A `Write` under way (`sending`)
  blocks on a full pipe without deadline or context (`device/hal/fifo/fifo.go:709-718`), so nothing
  is assumed of it and `ContextEndsTransfer` excepts it.
* `FifoLink`: the goroutines of the host. A call's read ends, because it has a deadline of five
  seconds (`CallReads`); its write ends when there is room or nobody reads (`CallWrites` is
  enabled then, and only then). On a full pipe of a living device no fairness makes the call end:
  this is `Stuck`, which `StartedIsReported` and `StopReturns` except, if it lasts for ever. Until
  the host stops, its user calls `WaitForConnection` and `WaitForDisconnection` in a loop (receives
  weakly fair). What they do after the receive needs `deviceMu`, and so does `StopWaits`: they are
  strongly fair, since a mutex that calls take again and again is given to each waiter in turn.
* `HidMonitor`: the three goroutines of the HAL, `Stop` and `Close` once begun, and the
  connection goroutine. `PollEnds` is strongly fair: `pollLoop` looks at the context in each turn
  but may spin on a descriptor that hangs up.
* `Assembly`: builder, control loop, host and each goroutine of the application.

## 4. Theorems

All hold for every value of the constants under the `ASSUME`s of the modules, which only say what
the constants are (sets, functions between them, positive capacities, a block longer than a CBW).

* `DeviceControl_proof`. `TypeCorrect`: types, with which the other proofs start.
  `ActiveRegistered`: `activeConfig` is registered, with any calls of the application; inductive
  together with types. `Implementation`, `Coherence`: with an application that only adds
  configurations and switches remote wakeup (`AppCalls` is the assumption of both), each step of
  the loop maps to a step of `UsbDevice` or a stutter, under the refinement mapping `Settled`:
  the visible state is the one the method under way is about to write. `Coherence` is about the
  state that `State()` returns, wherever the loop is but between the two steps of a method
  (`pc = "settling"`), and there about the state it is going to write; `OwesState` says that a
  state is owed nowhere else. The invariants needed are `AppQuiet` (no goroutine of the application is within a `setState`) and
  `AcceptedConfiguration` (a value accepted for `SetConfiguration` is a registered one).
  `Refusal`: from `Untouched`, which says that as long as a request is handled, and when it is
  refused, the control state equals the snapshot taken when it was read, except the alternate
  setting that a SET_INTERFACE names and its driver has refused. `Agreement`: from
  `BeliefInv`, which adds to the property what holds in the middle of a request: before the
  handler, the host's view is right; after it, the view it will have when it learns of this
  answer is right; and with a reset pending, nothing is claimed but what the reset restores.
* `Stack_proof`. `TypeCorrect`, from `TypeInv`, which adds that a goroutine that is under
  way has a transfer and that the caller's list fits what it does. `ExactlyOneCallback`, from
  `OwnerInv`: at most one goroutine or caller is between the submission and the completion of an
  object, an object handed over is not completed, and the count is 0 before and 1 after it.
  `NoLeak`, from `SlotInv`: per transfer the entries are no more than the goroutines that are still
  to remove one, and every entry is with its endpoint. Types do not give this step by step:
  `removeTransfer` takes the first equal entry, so the proof counts positions under `Append` and
  `RemoveAt`. `FirstIsReachable`, from `FirstInv`: until a first submission is accepted nobody
  works on the transfer or cancels it, then one goroutine does; it is in its list or in that of a
  caller until that goroutine removes it; and whoever has yet to write the status has set the flag.
  The module also extends `StackLifecycle` (whose definitions have names of their own for that) and
  proves its `HalIsHeldOnce`, from `Held`: the HAL is up as long as a caller is between its `Init`
  and the end of `Start`, or within `Stop`, and `Init` refuses a HAL that is up.
* `HostMonitor_proof`. `TypeCorrect` without a bound. `TableAgreement`, `EachWatched` and
  `CallbacksOrdered` speak of a host up to its first `Stop` (`stops = 0` in the properties): `Stop`
  clears table and count without the lock, and none of the three survives it (section 5). The invariant
  is `Inv`: at most one monitor (`RunInv`); the slot a monitor is about to fill is empty and its
  object fresh (`SlotInv`: this is what makes the allocation of an address long before its use
  sound); listed objects have their address and exactly one place in life (`ListInv`); the count
  is the cardinality of the listed slots (`CountInv`); callbacks (`NoteInv`).
* `TransferManager_proof`. `TypeCorrect`; `ExactlyOneCallback` and `CalledIsGone` from `Place`: an
  accepted transfer is in exactly one of the channel, a worker, or the past. They hold with any
  number of calls of `Stop`, and up to a panic.
* `FifoLink_proof`. `Accounted`, from `Hub`: an open connection of the host is in one of four places,
  with its opener, in the channel, in the hands of the call that received it, or active, and nowhere
  twice, and a closed one in none. That somebody will close it is not claimed: one that is in the
  channel at `Stop` stays open (section 5). `Fresh` is why a device is opened
  only once: its connect signal is written once, is the first in its pipe, and is gone when the
  pipes are opened. `LagBounded`, from `Line`: the requests of a connection that are not answered
  stand in one line, from the host's pipe through the device's loop to the answers (`Order`), and
  the line is longer than the call under way by no more than calls have timed out (`Lag`).
* `HidMonitor_proof`. `SlotsAreAccounted` and `StoredAreOpen`, with any devices, slots, files and
  handlers. `Place`: a slot is in the free list, in use, or being filled by one of two goroutines,
  and never in two of these places. `Owned`: an open descriptor belongs to the connection of one
  slot, or to the one that a goroutine is about to store; the kernel gives out a number that is
  closed, and so nobody's. Both need to know what a goroutine carries from stage to stage
  (`Carried`), above all that the slot `hotplugLoop` is going to free is still in use, because
  nobody else frees slots until the goroutines have ended (`Phases`).
* `MscBot_proof`. `StoredIsOnTheMedium`, `ReadsBringWhatIsStored`, `ResiduesAreExact` and
  `SenseNamesTheCause`, with `TypeCorrect`, are all of one invariant, `BotInv`, for any set of
  commands, any medium and buffer, and any number of commands and troubles. The properties speak of
  the moment the host has its answer; the invariant says what leads to it. `StageInv`: what each
  stage has checked of its command. `TagInv`: tags grow along both pipes, so that what waits for the
  driver is younger than its command and what it has answered is not. `DataInv`: the data of the
  current command follow its block, and the driver's buffer holds the first of them in order.
  `MediumInv`: neither the command under way nor one that waits can write where the host relies on
  the medium, which is why an abandoned write does no harm. `ResultInv`: what a status says is true
  from the verdict on, beside the data in front of it, through the pipe to the answer. `SenseInv`:
  a failure that was not asked about yet is in the driver's sense until the next command decides.
  Arithmetic enters where bytes are counted in blocks, and where residues are taken modulo `Word`.
* `Assembly_proof`. All safety properties of its runs, for any script of the builder, any calls of
  any number of goroutines and any class requests; the assumption is that these are well typed and
  that value 1 is a configuration value. `TypeCorrect`, `DescriptorIsWhole` and
  `DriversAreAttachedOrClosed` are of the invariant `AssemblyInv`, which has four parts.
  `TypeInv`: what a builder has made refers to what it has made, and
  the locals of a call fit its step (an interface it still has to visit exists, a driver it closes
  is one). `HoldInv`: the locks a call holds at each step, from which every change of a
  configuration's tree is made by the one goroutine that announced itself there, with no reader
  inside. `MarshalInv`: the loop is the only reader, so the interfaces of the configuration stand
  still while it writes, and after `k` of them it has written the items of `k` interfaces with
  their numbers; as long as no endpoint has changed since the header (`~torn`), what is written is
  what the tree has so far, and the announced total is its size. `LifeInv`: while lifecycle calls do not
  overlap, a driver either keeps only what it is attached to or is the one the call under way is
  about to close, and a driver about to be started is attached to the interface it is given. This
  is why `AttachedOrClosed` has its premise: two overlapping calls of `SetClassDriver` may close
  and start a driver in the opposite order of their assignments.

  `HostReadsTheTree` (`TreeIsServed`) is of `ServeInv`. Its part `AskInv` says whose turn it is: the
  host waits for exactly the request it made, or for its answer. Its part `ReadInv` holds while the
  tree stands still: the loop has written the items of exactly the interfaces and endpoints it has
  passed, with their sum of lengths; the answer to the first read is a header with the true total,
  so the second read asks for all of it; and what the host parses from that is `TreeOf(Served)`.
  The total length and the joined endpoints are sums and joins over sequences of any length. They
  are recursive functions (`Sums`, `Joins`), and the lemmas on them (`Induction`, `Recursion`, and
  those that follow) use well-founded induction over a set of numbers in place of the library's
  induction theorems.

  `TransfersGoToKnownEndpoints` (`TransfersAreKnown`) adds `KnowInv`: every endpoint that a driver
  keeps, that a data call is about to use or that was used is in the configuration served. A driver
  only takes endpoints of the interface that its `Init` is given, and the device is configured only
  after the host has read the tree.

  `AttachingConfigures` (`AttachConfigures`) is of `AttachInv`, about a call that attaches a driver
  which was attached nowhere to interfaces that have what it needs: whatever the driver has not
  taken yet can be had from the interfaces that are left, and the driver is attached to none of
  these, so that the `Close` on the way is always another driver's. While `Init` searches, what it
  counts on is among the endpoints that were there when it began, and what it has read are the
  first of these. Steps of other goroutines keep this, because none of them is in a lifecycle call
  and nothing is removed; endpoints may be added. The property says so:
  with an endpoint removed between the call and the last `Init` it is false.

Model-checked only: liveness (`RequestAnswered`, `ContextEndsTransfer`,
`CommandAnswered`, `StartedIsReported`, `StopReturns`, `GoneIsNoticed`, `PluggedIsGreeted`,
`CloseReleases`, `LoopsEnd`, `AnswerComes`, `TableDrains`, `GoroutinesEnd`, `StopDrains`), which TLAPS
cannot do under fairness. Every safety property of a passing run is a theorem.

## 5. Known divergences

Met while modelling. The models behave as the code does; no property claims otherwise, and the
properties that would be false without it name the exception.

Device:

* `Suspend` while suspended stores `StateSuspended` as the state to return to, and `Resume` after
  a reset may restore `StateConfigured` without a configuration (`device/device.go:322-355`): the
  reason why `Coherence` excludes them. `Device.Close` leaves the state Configured with no
  configuration.
* `Reset`, `SetAddress` and `SetConfiguration` change address and configuration in one critical
  section and the state in another (`device/device.go:232-247`, `:250-274`, `:277-319`): in between,
  `State()` returns the old state beside the new fields, for instance Configured with no
  configuration. `StateCoherent` excepts these moments (`settling`) and says that there are no
  others.
* A SET_INTERFACE that the driver refuses is answered with a STALL, but `Interface.SetAlternate` has
  stored the new setting before it asks the driver (`device/interface.go:186-196`), and GET_INTERFACE
  then reports it. `RefusalContained` excepts that one interface.
* `Transfer.Cancel` of the device sets a flag and a status that a later `Complete` overwrites with
  success (`device/transfer.go:131-158`); it does not stop the HAL operation.
* `CancelTransfers` "cancels all pending transfers for an endpoint" (`device/stack.go:343`), but
  a transfer with a done context is completed before it is removed; submitted again by its
  callback, its late `removeTransfer` (`device/stack.go:297`) takes out the new entry, whose data
  then move unseen. `FirstSubmissionReachable` is what is left.
* The stack never sends the data of a class IN request: `handleSetup` passes nil data to
  `completeSetup` (`device/stack.go:213`, `:229`), which sends nothing, not even a STALL, although
  the drivers' comments say it will (`device/class/cdc/acm.go:210`, `device/class/hid/hid.go:202`).
  The host waits until its deadline. `RequestAnswered` (`Unanswerable`) and `AnswerComes` (`lapsed`)
  except these requests; the first also a descriptor read with `wLength` 0, which is answered with
  no data for the same reason. SET_LINE_CODING, which expects data, always fails.
* A `Write` of the FIFO HAL looks at the context once and then blocks on a full pipe, with neither
  deadline nor context (`device/hal/fifo/fifo.go:678-720`): ending the context of an IN transfer does
  not complete it then (`ContextEndsTransfer` excepts `Sending`).
* `Start` replaces the field `ctx` before it knows that it succeeds (`device/stack.go:91`). When it
  fails, for instance because a `Stop` is not finished with the HAL, the loop of the stopped stack
  reads a context that nobody cancels and repeats `ReadSetup`, which fails at once, for ever.
  `LoopsEnd` is stated for the context that the field holds. Between a `Stop` and a `Start` an old
  and a new loop may both run.
* `Stop` during `Start` does nothing and reports success; the start then completes. With the FIFO
  HAL a stack that was stopped never receives another SETUP packet: `closeCh` is closed for good
  (`device/hal/fifo/fifo.go:276`).

Mass storage:

* A Bulk-Only Reset does not abort `receiveData`, so data of the next command complete the
  abandoned one; the signature of the next CBW is then inside a block (`Garbage`).
* A command of more than 64 KB indexes past `dataBuf` and the goroutine panics (`pc = "panicked"`).
* REQUEST SENSE with allocation length 0 returns 18 bytes; a residue wraps when more is moved than
  the host expects, here and in general (the difference is unsigned). A command that moves nothing (`Silent`: no blocks, an
  allocation length of 0, or one that has no data) returns residue 0 whatever the host expected.
  `ResidueExact` is about hosts that expect enough, and nothing of a command that moves nothing.
* The sense bytes are written by the driver and cleared by the control loop without a lock; the
  model takes the three of them as one.

Tree and drivers:

* `MarshalTo` locks out itself (the finding). `RemoveEndpoint` while its interface is being
  written, or while `Init` of a driver searches it (`acm.go:118`, `:127`, `hid.go:131`), clears an
  element of a slice whose length was read before: the loop, or the application, dereferences nil
  and the program ends (`"panicked"`). `AnswerComes` excepts both, and accepted class IN requests.
* bNumEndpoints, the endpoints and the total length of a descriptor are read one after the other,
  under other locks than that of the configuration (`device/interface.go:407`, `:436`, `:442`): when
  an endpoint is added or removed meanwhile (`torn`) they may disagree, and the host gets such a
  descriptor. `ServedWhole` claims the interfaces and their numbers then, and no more.
* Attaching an ACM again to its own interfaces closes it half-way, between its two interfaces,
  and reports success; it is then attached and unconfigured. Attaching during `Close` or another lifecycle call may leave
  a configured driver that is attached nowhere (`tangled`). A driver that fails in `Init` stays
  attached. `Init` on other interfaces keeps endpoints of the old ones.
* A driver keeps an endpoint that is removed from its interface after `Init`, and moves data on it
  although no host will find it in a descriptor; so does a driver attached to a configuration that
  is not the active one, since `Stack.Read` and `Stack.Write` ask only whether the device is
  configured. The premises of `TransfersAreKnown` exclude both. An endpoint removed while the call
  that attaches is under way leaves the driver attached and unconfigured (`~removed'` in
  `AttachConfigures`).
* `GET_DESCRIPTOR` for configuration index i serves the configuration of value i + 1: a device
  whose only configuration has value 2 cannot be enumerated. A tree of more than 512 bytes is
  answered by a STALL. An endpoint added between the read of the header and the read of the whole
  makes the latter longer than the host has announced (`changed`).
* `AddEndpoint` of the builder after a second `AddConfiguration` goes to the last interface of the
  first configuration.
* The settings of a driver outlive `Close` and a bus reset. A request may reach a driver that was
  closed after the loop had read it.

Host:

* `Host.Stop` clears table and count without the mutex (`host/host.go:94-101`): a monitor may list
  a device behind the sweep, and a watcher that removes one afterwards makes the count negative.
* A `Start` of the host that fails after it has replaced `Host.ctx` leaves a context that nobody
  cancels; a monitor of the previous start may read it and wait for ever. `GoroutinesEnd` is
  stated for the context that the field holds in the end.
* `TransferManager.Cancel` of the host sets `ErrCancelled` on a transfer that a worker then
  overwrites (`host/transfer.go:174-208`). `Submit` concurrent with `Stop` may send on a closed
  channel, and a second `Stop` closes it again; both panic. `StopDrains` says "or the program has
  panicked". A `Submit` that ends because its context is done leaves its entry in the map
  (`host/transfer.go:119-130`), and `WaitAll` (`:230`) then never returns.
* `enumerateDevice` failing after SET_ADDRESS leaves a device at an address the host gives away
  again. Over the Linux HAL no enumeration succeeds: address 0 belongs to no slot.

FIFO HALs:

* All devices are port 1, and the host keeps one active device. The disconnection of the first
  device therefore closes whichever is active, for instance the second one, whose own disconnection
  then finds nothing; and a connection that takes the place of another closes that one.
  `ConnectionsAccounted` holds all the same: it is about files that are open, not about devices that
  are there.
* `WaitForConnection` stores what it has received a moment later (`host/hal/fifo/fifo.go:395-398`).
  When `Stop` comes in between, the connection becomes active after `Stop` has closed the active one,
  and stays open; so does one that is still in the channel. `handleDeviceDirectory` of a device that
  has gone runs until `Stop`.
* Writes of the host (`host/hal/fifo/fifo.go:278`, `:757`) hold `deviceMu` without a deadline: when a
  device does not read and its pipe is full the call never comes back, and neither does `Stop`
  (`:151`), nor is a connection reported (`Stuck`).
* An answer that comes after the deadline is taken for that of the next call; each timeout adds
  one to the lag (`AnswerLag`). Messages are cut at 512 bytes, and the rest of a cut one shifts
  what follows (`shifted`); two goroutines of a device share the buffers (`garbled`).

Linux HAL and `hid-monitor`:

* The check whether a device is known and its addition are two steps (`host/hal/linux/linux.go:478`):
  scan and hot-plug loop may add one device twice, and one of the two slots is never freed (nothing
  claims that a device has one slot; `SlotsAccounted` is about slots and goroutines). So
  does a removal that is handled while the scan is opening the device. The poll loop then spins on
  the hang-up of the forgotten descriptor.
* An epoll event that was collected before a descriptor was closed and reused hits the new device,
  which is then marked disconnected while it is plugged in (`poller.go:230-236`,
  `linux.go:574-576`; `Mistaken`). A transfer has the same window between lookup and ioctl.
* Events are dropped when a channel is full (`lost`): a device whose own addition was dropped is
  never found (`PluggedIsGreeted` excepts it), one whose removal was dropped is noticed by its
  hang-up only.
* A connection is stored first and its descriptor registered with the poller later
  (`linux.go:518-525`). If its device leaves in between, the descriptor may already belong to
  another device when the callback of the first is registered for it; the registration of the
  second then fails, which is only logged. The hang-up of the second device then marks the first
  one's connection, and if the removal of the second is dropped as well, its connection stays in the
  pool unmarked (`InVain`, which `GoneIsNoticed` excepts).
* A port is given away at once, so a late `remove` or `add` of the registry of `hid-monitor`
  concerns another device (`main.go:206-219`); the registry is not part of the model.
  `readHIDReports` ends with the first timeout of five seconds.

## 6. Not modelled, and the plan

Not modelled for good: the byte layouts of setup packets, descriptors and udev rules, sysfs and
uevent parsing, ioctl wrappers, logging, profiling, USB ids, the command-line examples, the
registers of the atsamd51 HAL: no state, or none that depends on an order of events.

Left out of modelled components:

* Device stack: the setup buffer that two control loops may share, `TransferPool`, isochronous packets; `SetSpeed`, `SetEndpointStall`, data toggles, which nothing reads.
* Mass storage: what is in the responses; stale data after an empty read; attaching it in
  `Assembly`.
* FIFO HALs: in `FifoLink`, a second `Init` after `Stop`, which finds its channel closed
  (`StackLifecycle` has it).
* Linux HAL: `Init` after `Stop` without `Close`, the URB pool and its `reapURB`, which nothing
  calls, `modFD`, port numbers beyond 127.
* Tree and drivers: strings, callbacks that call back into the stack, a bus reset during
  enumeration, an overflow found before the end of `MarshalTo` (modelled at its end, with the same
  STALL), a sum torn within `calculateTotalLength`.
* Host: the channel behind `WaitDevice`, `Pipe`, concurrent `Start` and `Stop`.

Next, in this order:

1. `TransferPool`, `WaitDevice`, and the loop of `Pipe.Write` against a reference definition.
2. Theorems: the table of a host that is stopped and restarted, for what survives.
3. `BulkOnly`, an abstract specification of command, data and status, implemented by `MscBot`.
