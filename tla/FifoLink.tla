------------------------------ MODULE FifoLink ------------------------------
(***************************************************************************)
(* The FIFO transport: device/hal/fifo in a process per device, and        *)
(* host/hal/fifo, joined by the named pipes of one directory per device.   *)
(*                                                                         *)
(* A device process goes through none -> ready -> started -> signalled ->  *)
(* stopped, or dies on the way.  The host polls for directories, runs one  *)
(* goroutine per directory (handleDeviceDirectory), keeps one active       *)
(* connection, and does one call at a time under deviceMu.                 *)
(*                                                                         *)
(* A message is one write of a pipe.  The control loop and the class       *)
(* driver of a device share readBuf and writeBuf without a lock: filling   *)
(* and using a buffer are two steps, and a message taken from a buffer     *)
(* somebody else has filled is garbled.                                    *)
(***************************************************************************)
EXTENDS Naturals, Sequences, FiniteSets

CONSTANTS
  Dirs,             (* device directories, each with its process            *)
  Nobody,           (* no directory, no call                                *)
  ChannelCapacity,  (* connectCh and disconnectCh                           *)
  Scenarios         (* bounds: the directories that come up, whether their  *)
                    (* processes may die and the host may stop, the calls   *)
                    (* per connection, whether there are data transfers,    *)
                    (* the messages a pipe has room for                     *)

Requests == {"setup", "reset", "address"}
Answers  == {"data", "ack", "stall"}

ASSUME LinkAssumption ==
  /\ Nobody \notin Dirs \union Requests \union {"writing", "out", "bulk"}
  /\ ChannelCapacity \in Nat \ {0}
  /\ Scenarios \subseteq [dirs : SUBSET Dirs, ends : BOOLEAN, calls : Nat, data : BOOLEAN, room : Nat \ {0}]

VARIABLES
  scenario,    (* the bounds of this behaviour, chosen at the start         *)
  status,      (* the device process of a directory                         *)
  connection,  (* the connection pipe: sigConnect, sigDisconnect            *)
  toDevice, toHost,   (* host_to_device and device_to_host                  *)
  outData, inData,    (* one OUT and one IN data endpoint                   *)
  loop,        (* where the control loop of a device is                     *)
  driver,      (* where its class driver is                                 *)
  request,     (* the request the control loop has read, or answers         *)
  readBuf, writeBuf,  (* whose bytes the buffers of a HAL hold              *)
  shifted,     (* the reader of host_to_device has lost its place           *)
  garbled,     (* some message was taken from a buffer of somebody else     *)
  host,        (* the host HAL: running, stopping, stopped                  *)
  handler,     (* handleDeviceDirectory per directory                       *)
  connectCh, disconnectCh,
  taken,       (* the connection WaitForConnection has received             *)
  dropping,    (* calls of WaitForDisconnection that have received a port   *)
  active,      (* HostHAL.device                                            *)
  opened, closed,     (* connections whose files were opened, closed        *)
  reported,    (* connections WaitForConnection returned (history)          *)
  call,        (* the call under way, which holds deviceMu: its control     *)
               (* request or OUT packet is to be written ("writing", "out"),*)
               (* or it waits for the answer to one or for IN data          *)
  asked, late, (* calls written and timed out per connection (history)      *)
  answered     (* the last answer a call took (history)                     *)

pipeVars   == <<connection, toDevice, toHost, outData, inData>>
deviceVars == <<loop, driver, request, readBuf, writeBuf, shifted, garbled>>
queueVars  == <<connectCh, disconnectCh, taken, dropping>>
hubVars    == <<host, handler, queueVars, active, opened, closed, reported>>
callVars   == <<call, asked, late, answered>>
vars == <<scenario, status, pipeVars, deviceVars, hubVars, callVars>>

HandlerStages == {"none", "opening", "watching", "connecting", "monitoring", "signalling", "ended"}

TypeOK ==
  /\ scenario \in Scenarios
  /\ status \in [Dirs -> {"none", "ready", "started", "signalled", "stopped", "dead"}]
  /\ \A d \in Dirs : /\ connection[d] \in Seq({"connect", "disconnect"}) /\ Len(connection[d]) <= 2
                     /\ Len(toDevice[d]) <= scenario.room /\ Len(toHost[d]) <= scenario.room
                     /\ Len(outData[d]) <= scenario.room /\ Len(inData[d]) <= scenario.room
  /\ loop \in [Dirs -> {"header", "payload", "handling", "writing", "ended"}]
  /\ driver \in [Dirs -> {"idle", "payload", "writing", "ended"}]
  /\ readBuf \in [Dirs -> {"loop", "driver"}] /\ writeBuf \in [Dirs -> {"loop", "driver"}]
  /\ shifted \subseteq Dirs /\ garbled \in BOOLEAN
  /\ host \in {"running", "stopping", "stopped"}
  /\ handler \in [Dirs -> HandlerStages]
  /\ connectCh \in Seq(Dirs) /\ Len(connectCh) <= ChannelCapacity
  /\ disconnectCh \in 0 .. ChannelCapacity
  /\ {taken, active} \subseteq Dirs \union {Nobody}
  /\ dropping \in 0 .. Cardinality(Dirs)
  /\ closed \subseteq opened /\ opened \subseteq Dirs /\ reported \subseteq opened
  /\ call \in {Nobody} \union Requests \union {"writing", "out", "bulk"}
  /\ asked \in [Dirs -> 0 .. scenario.calls] /\ \A d \in Dirs : late[d] <= asked[d]

Init ==
  /\ scenario \in Scenarios
  /\ status = [d \in Dirs |-> "none"]
  /\ connection = [d \in Dirs |-> <<>>]
  /\ toDevice = connection /\ toHost = connection /\ outData = connection /\ inData = connection
  /\ loop = [d \in Dirs |-> "header"] /\ driver = [d \in Dirs |-> "idle"]
  /\ request = [d \in Dirs |-> Nobody]
  /\ readBuf = [d \in Dirs |-> "loop"] /\ writeBuf = readBuf
  /\ shifted = {} /\ garbled = FALSE
  /\ host = "running"
  /\ handler = [d \in Dirs |-> "none"]
  /\ connectCh = <<>> /\ disconnectCh = 0
  /\ taken = Nobody /\ dropping = 0 /\ active = Nobody
  /\ opened = {} /\ closed = {} /\ reported = {}
  /\ call = Nobody
  /\ asked = [d \in Dirs |-> 0] /\ late = asked
  /\ answered = Nobody

-----------------------------------------------------------------------------
(* The life of a device process: Init, Start, the two halves of Stop, and  *)
(* a crash.  The bytes of a pipe are lost when its last end is closed.     *)
Present(d) == status[d] \in {"ready", "started", "signalled", "dead"}
Alive(d)   == status[d] \in {"ready", "started", "signalled"}

Turn(d, from, to) == status[d] \in from /\ status' = [status EXCEPT ![d] = to]

HalInit(d) ==
  /\ d \in scenario.dirs
  /\ UNCHANGED scenario
  /\ Turn(d, {"none"}, "ready")
  /\ UNCHANGED <<pipeVars, deviceVars, hubVars, callVars>>

HalStartUnheard(d) ==
  /\ UNCHANGED scenario
  /\ Turn(d, {"ready"}, "started")
  /\ connection' = [connection EXCEPT ![d] = IF handler[d] = "none" THEN @ ELSE Append(@, "connect")]
  /\ UNCHANGED <<toDevice, toHost, outData, inData, deviceVars, hubVars, callVars>>
HalStart(d) ==
  /\ UNCHANGED scenario
  /\ Turn(d, {"ready"}, "started")
  /\ connection' = [connection EXCEPT ![d] = Append(@, "connect")]
  /\ UNCHANGED <<toDevice, toHost, outData, inData, deviceVars, hubVars, callVars>>

HalStop(d) ==
  /\ UNCHANGED scenario
  /\ Turn(d, {"started"}, "signalled")
  /\ connection' = [connection EXCEPT ![d] = Append(@, "disconnect")]
  /\ UNCHANGED <<toDevice, toHost, outData, inData, deviceVars, hubVars, callVars>>

LoseEnds(d) ==
  /\ connection' = [connection EXCEPT ![d] = IF handler[d] \in {"none", "opening"} THEN <<>> ELSE @]
  /\ loop' = [loop EXCEPT ![d] = "ended"] /\ driver' = [driver EXCEPT ![d] = "ended"]
  /\ toDevice' = [toDevice EXCEPT ![d] = <<>>]

cleanup(d) ==
  /\ UNCHANGED scenario
  /\ Turn(d, {"signalled"}, "stopped")
  /\ LoseEnds(d)
  /\ UNCHANGED <<toHost, outData, inData, request, readBuf, writeBuf, shifted, garbled, hubVars, callVars>>

Crash(d) ==
  /\ scenario.ends
  /\ UNCHANGED scenario
  /\ Turn(d, {"ready", "started", "signalled"}, "dead")
  /\ LoseEnds(d)
  /\ UNCHANGED <<toHost, outData, inData, request, readBuf, writeBuf, shifted, garbled, hubVars, callVars>>

-----------------------------------------------------------------------------
(* ReadSetup: a header, then its payload, both through readBuf.  With its  *)
(* place in the stream lost, the loop drops what it reads, or finds its    *)
(* place again by chance; no bytes it misreads look like a message.        *)
Running(d) == status[d] \in {"started", "signalled"}
LoopAt(d, stage) == loop' = [loop EXCEPT ![d] = stage]

ReadHeader(d) ==
  /\ Running(d) /\ loop[d] = "header" /\ toDevice[d] # <<>>
  /\ readBuf' = [readBuf EXCEPT ![d] = "loop"]
  /\ LoopAt(d, "payload")
  /\ UNCHANGED <<scenario, status, pipeVars, driver, request, writeBuf, shifted, garbled, hubVars, callVars>>

(* ReadSetup returns a SETUP packet; it acknowledges a reset and an        *)
(* address itself, which leads to the write at once.                       *)
ReadPayload(d) ==
  /\ Running(d) /\ loop[d] = "payload"
  /\ readBuf[d] = "loop"
  /\ toDevice' = [toDevice EXCEPT ![d] = Tail(@)]
  /\ LET m == Head(toDevice[d]) IN
       /\ request' = [request EXCEPT ![d] = [to |-> m.to, kind |-> IF m.kind = "setup" THEN Nobody ELSE "ack"]]
       /\ writeBuf' = [writeBuf EXCEPT ![d] = IF m.kind = "setup" THEN @ ELSE "loop"]
       /\ LoopAt(d, IF m.kind = "setup" THEN "handling" ELSE "writing")
  /\ UNCHANGED <<scenario, status, connection, toHost, outData, inData, driver, readBuf, shifted, garbled, hubVars, callVars>>

ReadGarbled(d) ==
  /\ Running(d) /\ loop[d] = "payload"
  /\ readBuf[d] # "loop" \/ d \in shifted
  /\ toDevice' = [toDevice EXCEPT ![d] = Tail(@)]
  /\ shifted' = shifted \union {d}
  /\ garbled' = TRUE
  /\ LoopAt(d, "header")
  /\ UNCHANGED <<scenario, status, connection, toHost, outData, inData, driver, request, readBuf, writeBuf, hubVars, callVars>>

(* The stack answers with data, an acknowledgement or a STALL, or, for a   *)
(* class request its driver has taken, not at all.                         *)
Answer(d) ==
  /\ Running(d) /\ loop[d] = "handling"
  /\ \/ /\ \E a \in Answers : request' = [request EXCEPT ![d].kind = a]
        /\ writeBuf' = [writeBuf EXCEPT ![d] = "loop"]
        /\ LoopAt(d, "writing")
     \/ LoopAt(d, "header") /\ request' = [request EXCEPT ![d] = Nobody] /\ UNCHANGED writeBuf
  /\ UNCHANGED <<scenario, status, pipeVars, driver, readBuf, shifted, garbled, hubVars, callVars>>

(* sendMessage writes what the buffer holds by now, and waits while the    *)
(* pipe is full, until Stop closes it; once Stop has closed closeCh it may *)
(* refuse to.                                                              *)
Room(pipe) == Len(pipe) < scenario.room
Message(d) == [to |-> request[d].to, kind |-> request[d].kind, intact |-> writeBuf[d] = "loop"]
sendAgain(d) ==
  /\ Running(d) /\ loop[d] = "writing" /\ Room(toHost[d])
  /\ toHost' = [toHost EXCEPT ![d] = Append(@, Message(d))]
  /\ garbled' = (garbled \/ writeBuf[d] # "loop")
  /\ LoopAt(d, "header") \/ UNCHANGED loop
  /\ UNCHANGED <<scenario, status, connection, toDevice, outData, inData, driver, request, readBuf, writeBuf, shifted, hubVars, callVars>>
sendMessage(d) ==
  /\ Running(d) /\ loop[d] = "writing" /\ Room(toHost[d])
  /\ toHost' = [toHost EXCEPT ![d] = Append(@, Message(d))]
  /\ garbled' = (garbled \/ writeBuf[d] # "loop")
  /\ LoopAt(d, "header") /\ request' = [request EXCEPT ![d] = Nobody]
  /\ UNCHANGED <<scenario, status, connection, toDevice, outData, inData, driver, readBuf, writeBuf, shifted, hubVars, callVars>>

LoopCancelled(d) ==
  /\ status[d] = "signalled" /\ loop[d] # "ended"
  /\ LoopAt(d, "ended")
  /\ UNCHANGED <<scenario, status, pipeVars, driver, request, readBuf, writeBuf, shifted, garbled, hubVars, callVars>>

(* The class driver: Read of its OUT endpoint (readPacket) and Write of    *)
(* its IN endpoint (writePacket).                                          *)
DriverAt(d, stage) == driver' = [driver EXCEPT ![d] = stage]
DriverReads(d) ==
  /\ Running(d) /\ driver[d] = "idle" /\ outData[d] # <<>>
  /\ readBuf' = [readBuf EXCEPT ![d] = "driver"]
  /\ DriverAt(d, "payload")
  /\ UNCHANGED <<scenario, status, pipeVars, loop, request, writeBuf, shifted, garbled, hubVars, callVars>>

readPacket(d) ==
  /\ Running(d) /\ driver[d] = "payload"
  /\ outData' = [outData EXCEPT ![d] = Tail(@)]
  /\ garbled' = (garbled \/ readBuf[d] # "driver")
  /\ DriverAt(d, "idle")
  /\ UNCHANGED <<scenario, status, connection, toDevice, toHost, inData, loop, request, readBuf, writeBuf, shifted, hubVars, callVars>>

DriverWrites(d) ==
  /\ Running(d) /\ driver[d] = "idle" /\ scenario.data
  /\ writeBuf' = [writeBuf EXCEPT ![d] = "driver"]
  /\ DriverAt(d, "writing")
  /\ UNCHANGED <<scenario, status, pipeVars, loop, request, readBuf, shifted, garbled, hubVars, callVars>>

writePacket(d) ==
  /\ Running(d) /\ driver[d] = "writing" /\ Room(inData[d])
  /\ inData' = [inData EXCEPT ![d] = Append(@, writeBuf[d] = "driver")]
  /\ garbled' = (garbled \/ writeBuf[d] # "driver")
  /\ DriverAt(d, "idle")
  /\ UNCHANGED <<scenario, status, connection, toDevice, toHost, outData, loop, request, readBuf, writeBuf, shifted, hubVars, callVars>>

-----------------------------------------------------------------------------
(* The host: polling, and one goroutine for each directory found.          *)
HandlerAt(d, stage) == handler' = [handler EXCEPT ![d] = stage]

pollDeviceDirectories(d) ==
  /\ host = "running"
  /\ handler[d] = "none" /\ Present(d)
  /\ HandlerAt(d, "opening")
  /\ UNCHANGED <<scenario, status, pipeVars, deviceVars, host, queueVars, active, opened, closed, reported, callVars>>

OpenConnection(d) ==
  /\ handler[d] = "opening"
  /\ HandlerAt(d, IF Present(d) THEN "watching" ELSE "ended")
  /\ UNCHANGED <<scenario, status, pipeVars, deviceVars, host, queueVars, active, opened, closed, reported, callVars>>

(* openDeviceFIFOs succeeds while the device holds its ends.               *)
handleDeviceDirectory(d) ==
  /\ host = "running"
  /\ handler[d] = "watching" /\ connection[d] # <<>>
  /\ connection' = [connection EXCEPT ![d] = Tail(@)]
  /\ IF Head(connection[d]) = "connect" /\ Alive(d)
     THEN opened' = opened \union {d} /\ HandlerAt(d, "connecting")
     ELSE UNCHANGED <<opened, handler>>
  /\ UNCHANGED <<scenario, status, toDevice, toHost, outData, inData, deviceVars, host, queueVars, active, closed, reported, callVars>>

SendConnect(d) ==
  /\ handler[d] = "connecting" /\ Len(connectCh) < ChannelCapacity
  /\ connectCh' = Append(connectCh, d)
  /\ HandlerAt(d, "monitoring")
  /\ UNCHANGED <<scenario, status, pipeVars, deviceVars, host, disconnectCh, taken, dropping, active, opened, closed, reported, callVars>>

monitorDeviceConnection(d) ==
  /\ host = "running"
  /\ handler[d] = "monitoring" /\ connection[d] # <<>>
  /\ connection' = [connection EXCEPT ![d] = Tail(@)]
  /\ HandlerAt(d, IF Head(connection[d]) = "disconnect" THEN "signalling" ELSE "monitoring")
  /\ UNCHANGED <<scenario, status, toDevice, toHost, outData, inData, deviceVars, host, queueVars, active, opened, closed, reported, callVars>>

SendDisconnect(d) ==
  /\ handler[d] = "signalling" /\ disconnectCh < ChannelCapacity
  /\ disconnectCh' = disconnectCh + 1
  /\ HandlerAt(d, "watching")
  /\ UNCHANGED <<scenario, status, pipeVars, deviceVars, host, connectCh, taken, dropping, active, opened, closed, reported, callVars>>

(* With the host's context done, a handler returns; a connection it could  *)
(* not hand over is closed.                                                *)
WatcherIgnoresCancel(d) ==
  /\ host = "stopping" /\ handler[d] \notin {"none", "watching", "ended"}
  /\ HandlerAt(d, "ended")
  /\ closed' = IF handler[d] = "connecting" THEN closed \union {d} ELSE closed
  /\ UNCHANGED <<scenario, status, pipeVars, deviceVars, host, queueVars, active, opened, reported, callVars>>
HandlerCancelled(d) ==
  /\ host = "stopping" /\ handler[d] \notin {"none", "ended"}
  /\ HandlerAt(d, "ended")
  /\ closed' = IF handler[d] = "connecting" THEN closed \union {d} ELSE closed
  /\ UNCHANGED <<scenario, status, pipeVars, deviceVars, host, queueVars, active, opened, reported, callVars>>

(* WaitForConnection and WaitForDisconnection receive, which their select  *)
(* may choose even when the host has stopped, and then change h.device     *)
(* under deviceMu, which a call holds.  One goroutine waits for            *)
(* connections; every connection is on port 1.                             *)
ReceiveConnection ==
  /\ taken = Nobody /\ connectCh # <<>>
  /\ connectCh' = Tail(connectCh)
  /\ taken' = Head(connectCh)
  /\ UNCHANGED <<scenario, status, pipeVars, deviceVars, host, handler, disconnectCh, dropping, active, opened, closed, reported, callVars>>

KeepPrevious ==
  /\ taken # Nobody /\ call = Nobody
  /\ taken' = Nobody
  /\ active' = taken
  /\ reported' = reported \union {taken}
  /\ UNCHANGED <<scenario, status, pipeVars, deviceVars, host, handler, connectCh, disconnectCh, dropping, opened, closed, callVars>>
WaitForConnection ==
  /\ taken # Nobody /\ call = Nobody
  /\ taken' = Nobody
  /\ active' = taken
  /\ closed' = closed \union ({active} \ {Nobody})
  /\ reported' = reported \union {taken}
  /\ UNCHANGED <<scenario, status, pipeVars, deviceVars, host, handler, connectCh, disconnectCh, dropping, opened, callVars>>

ReceiveDisconnection ==
  /\ disconnectCh > 0
  /\ disconnectCh' = disconnectCh - 1
  /\ dropping' = dropping + 1
  /\ UNCHANGED <<scenario, status, pipeVars, deviceVars, host, handler, connectCh, taken, active, opened, closed, reported, callVars>>

WaitForDisconnection ==
  /\ dropping > 0 /\ call = Nobody
  /\ dropping' = dropping - 1
  /\ active' = Nobody
  /\ closed' = closed \union ({active} \ {Nobody})
  /\ UNCHANGED <<scenario, status, pipeVars, deviceVars, host, handler, connectCh, disconnectCh, taken, opened, reported, callVars>>

(* Stop cancels the context, waits for the goroutines and closes what is   *)
(* active then.                                                            *)
StopCancel ==
  /\ scenario.ends
  /\ host = "running"
  /\ host' = "stopping"
  /\ UNCHANGED <<scenario, status, pipeVars, deviceVars, handler, queueVars, active, opened, closed, reported, callVars>>

StopWaits ==
  /\ host = "stopping" /\ call = Nobody
  /\ \A d \in Dirs : handler[d] \in {"none", "ended"}
  /\ host' = "stopped"
  /\ active' = Nobody
  /\ closed' = closed \union ({active} \ {Nobody})
  /\ UNCHANGED <<scenario, status, pipeVars, deviceVars, handler, queueVars, opened, reported, callVars>>

-----------------------------------------------------------------------------
(* ControlTransfer, ResetPort and SetDeviceAddress write one message, for  *)
(* as long as the pipe is full, and take whatever is in the other pipe     *)
(* within five seconds, looking at the first message only.  Writing to a   *)
(* device that is gone fails at once.                                      *)
HostCalls ==
  /\ call = Nobody /\ active # Nobody
  /\ asked[active] < scenario.calls
  /\ call' = "writing" /\ answered' = Nobody
  /\ UNCHANGED <<scenario, status, pipeVars, deviceVars, hubVars, asked, late>>

HostWrites(r) ==
  /\ call = "writing" /\ Alive(active) /\ Room(toDevice[active])
  /\ asked' = [asked EXCEPT ![active] = @ + 1]
  /\ toDevice' = [toDevice EXCEPT ![active] = Append(@, [to |-> asked'[active], kind |-> r])]
  /\ call' = r
  /\ UNCHANGED <<scenario, status, connection, toHost, outData, inData, deviceVars, hubVars, late, answered>>

HostWriteFails ==
  /\ call \in {"writing", "out"} /\ ~Alive(active)
  /\ call' = Nobody
  /\ UNCHANGED <<scenario, status, pipeVars, deviceVars, hubVars, asked, late, answered>>

HostReads ==
  /\ call \in Requests /\ toHost[active] # <<>>
  /\ toHost' = [toHost EXCEPT ![active] = <<>>]
  /\ answered' = [call |-> asked[active], from |-> Head(toHost[active]), late |-> late[active]]
  /\ call' = Nobody
  /\ UNCHANGED <<scenario, status, connection, toDevice, outData, inData, deviceVars, hubVars, asked, late>>

HostTimesOut ==
  /\ call \in Requests
  /\ late' = [late EXCEPT ![active] = @ + 1]
  /\ call' = Nobody
  /\ UNCHANGED <<scenario, status, pipeVars, deviceVars, hubVars, asked, answered>>

(* Data transfers: an OUT transfer is one write, which waits for room too; *)
(* an IN transfer reads what is there within five seconds and loses all    *)
(* but the first message.                                                  *)
TransferOut ==
  /\ call = Nobody /\ active # Nobody /\ scenario.data
  /\ call' = "out"
  /\ UNCHANGED <<scenario, status, pipeVars, deviceVars, hubVars, asked, late, answered>>

OutWrites ==
  /\ call = "out" /\ Alive(active) /\ Room(outData[active])
  /\ outData' = [outData EXCEPT ![active] = Append(@, "data")]
  /\ call' = Nobody
  /\ UNCHANGED <<scenario, status, connection, toDevice, toHost, inData, deviceVars, hubVars, asked, late, answered>>

TransferInStarts ==
  /\ call = Nobody /\ active # Nobody /\ scenario.data
  /\ call' = "bulk"
  /\ UNCHANGED <<scenario, status, pipeVars, deviceVars, hubVars, asked, late, answered>>

TransferInEnds ==
  /\ call = "bulk"
  /\ inData' = [inData EXCEPT ![active] = <<>>]
  /\ call' = Nobody
  /\ UNCHANGED <<scenario, status, connection, toDevice, toHost, outData, deviceVars, hubVars, asked, late, answered>>

-----------------------------------------------------------------------------
DeviceLife(d) == HalInit(d) \/ HalStart(d) \/ HalStop(d) \/ cleanup(d) \/ Crash(d)
LoopStep(d)   == ReadHeader(d) \/ ReadPayload(d) \/ ReadGarbled(d) \/ Answer(d) \/ sendMessage(d) \/ LoopCancelled(d)
DriverStep(d) == DriverReads(d) \/ readPacket(d) \/ DriverWrites(d) \/ writePacket(d)
HandlerStep(d) ==
  \/ pollDeviceDirectories(d) \/ OpenConnection(d) \/ handleDeviceDirectory(d)
  \/ SendConnect(d) \/ monitorDeviceConnection(d) \/ SendDisconnect(d) \/ HandlerCancelled(d)
WaitStep == ReceiveConnection \/ WaitForConnection \/ ReceiveDisconnection \/ WaitForDisconnection
CallWrites == (\E r \in Requests : HostWrites(r)) \/ HostWriteFails \/ OutWrites
CallReads  == HostReads \/ HostTimesOut \/ TransferInEnds
Next ==
  \/ \E d \in Dirs : DeviceLife(d) \/ LoopStep(d) \/ DriverStep(d) \/ HandlerStep(d)
  \/ WaitStep \/ StopCancel \/ StopWaits
  \/ HostCalls \/ CallWrites \/ CallReads \/ TransferOut \/ TransferInStarts

Spec == Init /\ [][Next]_vars

(* The host's goroutines run, and get deviceMu in turn; until it stops its *)
(* user waits for connections and disconnections all the time; a write     *)
(* ends when there is room or nobody reads, a read within five seconds.    *)
FairSpec ==
  /\ Spec
  /\ \A d \in Dirs : WF_vars(HandlerStep(d))
  /\ WF_vars(host = "running" /\ ReceiveConnection) /\ SF_vars(WaitForConnection)
  /\ WF_vars(host = "running" /\ ReceiveDisconnection) /\ SF_vars(WaitForDisconnection)
  /\ WF_vars(CallWrites) /\ WF_vars(CallReads) /\ SF_vars(StopWaits)

-----------------------------------------------------------------------------
(* A connection whose files are open is known in just one place, which     *)
(* decides what becomes of it: the goroutine about to hand it over, the    *)
(* channel, the call that has received it, or the host as its active       *)
(* device; one that has been closed is known in none, so that its files    *)
(* are neither used nor closed again.  (Nobody need close one that is in   *)
(* the channel, or becomes the active device, once Stop is through.)       *)
Places(d) == Cardinality({i \in DOMAIN connectCh : connectCh[i] = d})
             + (IF taken = d THEN 1 ELSE 0) + (IF active = d THEN 1 ELSE 0)
             + (IF handler[d] = "connecting" THEN 1 ELSE 0)
ConnectionsAccounted == \A d \in Dirs : Places(d) = IF d \in opened \ closed THEN 1 ELSE 0

(* The answer a call takes is the device's answer to it, or to one of the  *)
(* earlier requests of this connection, no further back than calls of the  *)
(* connection have timed out.                                              *)
AnswerLag == answered # Nobody => answered.from.to <= answered.call /\ answered.from.to + answered.late >= answered.call

(* A write to a living device that does not read: it has no deadline.     *)
Stuck ==
  /\ \/ call = "writing" /\ ~Room(toDevice[active])
     \/ call = "out" /\ ~Room(outData[active])
  /\ Alive(active)

(* A device that has started and stays is reported to the host's user,     *)
(* unless a call of the host never comes back from a full pipe.            *)
StartedIsReported ==
  \A d \in Dirs : status[d] = "started" ~> (d \in reported \/ status[d] # "started" \/ host # "running" \/ []Stuck)

(* Stop of the host returns, whatever its goroutines are waiting for, save *)
(* a call that holds deviceMu and never comes back from a full pipe.       *)
StopReturns == host = "stopping" ~> (host = "stopped" \/ []Stuck)
=============================================================================
