------------------------------ MODULE HidMonitor ------------------------------
(***************************************************************************)
(* examples/linux-hal/hid-monitor over the Linux HAL: a goroutine takes    *)
(* connections and spawns handleDevice for each, another takes             *)
(* disconnections, and every handler enumerates its device, claims an      *)
(* interface and reads reports.  All of them name a device by its port,    *)
(* which the HAL gives to the next device at once.  What the program keeps *)
(* to print it, its registry of devices, is left out.                      *)
(***************************************************************************)
EXTENDS LinuxHal

CONSTANT MaxHandlers   (* bound on the handlers that are spawned *)

VARIABLES
  newPort,      (* the port the connection goroutine has in hand, or 0     *)
  handlers,     (* the handleDevice and readHIDReports goroutines so far   *)
  greeted       (* devices found connected on the port of a connection     *)

monitorVars == <<newPort, handlers, greeted>>
vars == <<halVars, monitorVars>>

Handlers   == DOMAIN handlers
Transfers  == {"enumerate", "claim", "report"}
TypeOK ==
  /\ HalTypeOK
  /\ newPort \in Ports \union {0}
  /\ handlers \in Seq([at : Transfers \union {"ended"}, port : Ports, conn : 0 .. Len(conns)])
  /\ greeted \subseteq Devices

Init ==
  /\ HalInit
  /\ newPort = 0
  /\ handlers = <<>>
  /\ greeted = {}

-----------------------------------------------------------------------------
WaitForConnection ==
  /\ newPort = 0 /\ ~ctxDone /\ connectCh # <<>>
  /\ connectCh' = Tail(connectCh)
  /\ newPort' = Head(connectCh)
  /\ UNCHANGED <<kernelVars, addCh, removeCh, disconnectCh, lifeVars, poolVars, conns, files, pollVars, workVars, lost,
                 handlers, greeted>>

(* GetPortStatus looks at whatever the port holds by now.                  *)
Connected(p) == slots[p] # 0 /\ ~conns[slots[p]].disconnected
GetPortStatus ==
  /\ newPort # 0
  /\ newPort' = 0
  /\ greeted' = IF Connected(newPort) THEN greeted \union {conns[slots[newPort]].device} ELSE greeted
  /\ handlers' = IF Connected(newPort) /\ scenario.reads /\ Len(handlers) < MaxHandlers
                 THEN Append(handlers, [at |-> "enumerate", port |-> newPort, conn |-> 0])
                 ELSE handlers
  /\ UNCHANGED halVars

(* The other goroutine forgets what it printed of the port.                *)
WaitForDisconnection ==
  /\ ~ctxDone /\ disconnectCh # <<>>
  /\ disconnectCh' = Tail(disconnectCh)
  /\ UNCHANGED <<kernelVars, addCh, removeCh, connectCh, lifeVars, poolVars, conns, files, pollVars, workVars, lost,
                 monitorVars>>

-----------------------------------------------------------------------------
(* A transfer looks its connection up by the address, which is the port,   *)
(* and then calls the kernel on the descriptor, without a lock.            *)
Move(h, stage, c) == handlers' = [handlers EXCEPT ![h].at = stage, ![h].conn = c]
(* A failure ends the handler, unless it was a string that was read.       *)
AfterFailure(h) == IF handlers[h].at = "enumerate" THEN {"enumerate", "ended"} ELSE {"ended"}
GiveUp(h) == \E stage \in AfterFailure(h) : Move(h, stage, 0)
Lookup(h) ==
  /\ handlers[h].at \in Transfers /\ handlers[h].conn = 0
  /\ LET p == handlers[h].port IN
       IF Connected(p) \/ (slots[p] # 0 /\ handlers[h].at = "claim")
       THEN Move(h, handlers[h].at, slots[p])
       ELSE GiveUp(h)
  /\ UNCHANGED <<halVars, newPort, greeted>>

Target(h) == files[conns[handlers[h].conn].file]
(* The device read last passes the filter and has a HID interface, or not. *)
TransferDone(h) ==
  /\ handlers[h].at \in Transfers /\ handlers[h].conn # 0
  /\ Target(h) # Nobody /\ plug[Target(h)] = "present"
  /\ \E stage \in IF handlers[h].at = "enumerate" THEN {"enumerate", "claim", "ended"} ELSE {"report"} : Move(h, stage, 0)
  /\ UNCHANGED <<halVars, newPort, greeted>>

(* Time is up after five seconds, the endpoint stalls, the descriptor is   *)
(* closed, or the device is gone, which the HAL takes note of.             *)
TransferFails(h) ==
  /\ handlers[h].at \in Transfers /\ handlers[h].conn # 0
  /\ IF Target(h) # Nobody /\ plug[Target(h)] = "gone" /\ handlers[h].at # "claim"
     THEN MarkDisconnected(handlers[h].conn) ELSE UNCHANGED conns
  /\ GiveUp(h)
  /\ UNCHANGED <<kernelVars, queueVars, lifeVars, poolVars, files, pollVars, workVars, lost, newPort, greeted>>

ReportsEnd(h) ==
  /\ handlers[h].at = "report" /\ handlers[h].conn = 0 /\ ctxDone
  /\ Move(h, "ended", 0)
  /\ UNCHANGED <<halVars, newPort, greeted>>

-----------------------------------------------------------------------------
HandlerStep(h) == Lookup(h) \/ TransferDone(h) \/ TransferFails(h) \/ ReportsEnd(h)
ConnectStep == WaitForConnection \/ GetPortStatus
Next ==
  \/ HalStep /\ UNCHANGED monitorVars
  \/ ConnectStep \/ WaitForDisconnection
  \/ \E h \in Handlers : HandlerStep(h)

Spec == Init /\ [][Next]_vars

(* Goroutines run, and pollLoop looks at the context in every turn.  The   *)
(* kernel and the user are under no obligation, but a Stop goes on.        *)
FairSpec ==
  /\ Spec
  /\ WF_vars(PollStep /\ UNCHANGED monitorVars)
  /\ SF_vars(PollEnds /\ UNCHANGED monitorVars)
  /\ WF_vars(ScanStep /\ UNCHANGED monitorVars)
  /\ WF_vars(LoopStep /\ UNCHANGED monitorVars)
  /\ WF_vars((StopWaits \/ Close) /\ UNCHANGED monitorVars)
  /\ WF_vars(ConnectStep)

-----------------------------------------------------------------------------
(* A device that is plugged in and stays is found by the monitor, unless   *)
(* it is a root hub, its addition was dropped, no slot or descriptor was   *)
(* to be had, the scan that was to see it failed, or it was marked for the *)
(* device that had its descriptor before.                                  *)
Mistaken(d) == \E p \in PortsOf(d) : conns[slots[p]].disconnected
PluggedIsGreeted ==
  \A d \in Devices :
    (plug[d] = "present" /\ d \notin scenario.roots /\ hal = "running")
      ~> (d \in greeted \/ <<"add", d>> \in lost \/ plug[d] = "gone" \/ Mistaken(d) \/ ctxDone)
=============================================================================
