----------------------------- MODULE ClassDrivers -----------------------------
(***************************************************************************)
(* The class drivers cdc.ACM (device/class/cdc/acm.go) and hid.HID         *)
(* (device/class/hid/hid.go): the interfaces and endpoints they take at    *)
(* Init, what Close drops, which class requests they accept, and the       *)
(* builder calls that make their interfaces.                               *)
(*                                                                         *)
(* Both keep their fields under a mutex of their own that each method      *)
(* holds once, so a method is one operator on the record of its driver;    *)
(* Init alone goes through endpoints that may change while it does.        *)
(* A HID driver has one interface, kept in the field data.                 *)
(*                                                                         *)
(* The module has the operations only; Assembly runs them.                 *)
(***************************************************************************)
EXTENDS Configuration

CONSTANTS
  Serials,   (* the ACM drivers                                             *)
  Hids       (* the HID drivers                                             *)

Drivers == Serials \union Hids
ASSUME DriversAssumption == Serials \intersect Hids = {} /\ Nobody \notin Drivers

NoEndpoint == [address |-> 0, kind |-> "none"]

VARIABLES
  driver,       (* per driver: its fields                                   *)
  classDriver   (* per Interface object: Interface.classDriver, or Nobody   *)

driverVars == <<driver, classDriver>>

(* setting is the last value a host has set: the control line state of a   *)
(* serial driver, the protocol or the idle rate of a HID driver.           *)
Detached ==
  [control |-> 0, data |-> 0, notify |-> NoEndpoint, in |-> NoEndpoint, out |-> NoEndpoint,
   stack |-> FALSE, configured |-> FALSE, setting |-> 0]

Holds(d) == {driver[d].control, driver[d].data} \ {0}

-----------------------------------------------------------------------------
(* ConfigureDevice: the builder calls of a driver.                         *)

In(n, kind)  == [address |-> 128 + n, kind |-> kind]
Out(n, kind) == [address |-> n, kind |-> kind]
AddInterface(class) == [op |-> "interface", class |-> class]
AddEndpoint(ep)     == [op |-> "endpoint", endpoint |-> ep]

ConfigureACM(notify, in, out) ==
  << AddInterface("cdc"), AddEndpoint(In(notify, "interrupt")),
     AddInterface("cdc data"), AddEndpoint(In(in, "bulk")), AddEndpoint(Out(out, "bulk")) >>
ConfigureHID(in) == << AddInterface("hid"), AddEndpoint(In(in, "interrupt")) >>
ConfigureHIDWithOut(in, out) == Append(ConfigureHID(in), AddEndpoint(Out(out, "interrupt")))

-----------------------------------------------------------------------------
(* Init, from the endpoints of the interface it has come across.  One that *)
(* is not found leaves the field as it was.                                *)

OfKind(eps, kind, in) == {k \in DOMAIN eps : eps[k].kind = kind /\ IsIn(eps[k]) = in}
FirstOr(eps, ks, default) == IF ks = {} THEN default ELSE eps[Min(ks)]
LastOr(eps, ks, default)  == IF ks = {} THEN default ELSE eps[Max(ks)]

(* The loops over the endpoints: ACM has one for each of its classes, and  *)
(* that for the notification endpoint ends with it.                        *)
Ranges(d, o) == d \in Hids \/ objs[o].class \in {"cdc", "cdc data"}
Breaks(d, o, eps) == d \in Serials /\ objs[o].class = "cdc" /\ OfKind(eps, "interrupt", TRUE) # {}

Complete(st) == /\ st.control # 0 /\ st.data # 0
                /\ st.in # NoEndpoint /\ st.out # NoEndpoint

(* Mutant of TakeData: the search ends at the first data endpoint, as that *)
(* for the notification endpoint does.                                     *)
TakeFirst(st, o, eps) ==
  [st EXCEPT !.data = o,
             !.in  = LastOr(eps, OfKind(eps, "bulk", TRUE) \intersect {1}, @),
             !.out = LastOr(eps, OfKind(eps, "bulk", FALSE) \intersect {1}, @)]

TakeControl(st, o, eps) ==
  [st EXCEPT !.control = o,
             !.notify = FirstOr(eps, OfKind(eps, "interrupt", TRUE), @)]
TakeData(st, o, eps) ==
  [st EXCEPT !.data = o,
             !.in  = LastOr(eps, OfKind(eps, "bulk", TRUE), @),
             !.out = LastOr(eps, OfKind(eps, "bulk", FALSE), @)]

InitACM(st, o, eps) ==
  LET next == CASE objs[o].class = "cdc"      -> TakeControl(st, o, eps)
                [] objs[o].class = "cdc data" -> TakeData(st, o, eps)
                [] OTHER                      -> st
  IN [next EXCEPT !.configured = @ \/ Complete(next)]

InitHID(st, o, eps) ==
  LET next == [st EXCEPT !.data = o,
                         !.in  = LastOr(eps, OfKind(eps, "interrupt", TRUE), @),
                         !.out = LastOr(eps, OfKind(eps, "interrupt", FALSE), @)]
  IN [next EXCEPT !.configured = @ \/ next.in # NoEndpoint]

(* HID.Init fails without an endpoint to the host; ACM.Init never does.    *)
InitDriver(d, o, eps) ==
  IF d \in Serials THEN InitACM(driver[d], o, eps) ELSE InitHID(driver[d], o, eps)
InitFails(d, o, eps) == d \in Hids /\ InitHID(driver[d], o, eps).in = NoEndpoint

-----------------------------------------------------------------------------
(* Close drops the interfaces, the endpoints and the stack.  Line coding,  *)
(* control lines, protocol and idle rate outlive it.                       *)

(* Mutant of CloseDriver: the data interface stays with the driver.        *)
CloseKeepsData(st) == [Detached EXCEPT !.setting = st.setting, !.data = st.data]

CloseDriver(st) == [Detached EXCEPT !.setting = st.setting]

-----------------------------------------------------------------------------
(* HandleSetup.  SET_LINE_CODING fails: the driver gets the request before *)
(* its data stage, with no data.                                           *)

SerialRequests == {"GetLineCoding", "SetControlLineState", "SendBreak"}
HidRequests    == {"GetReport", "SetReport", "GetIdle", "SetIdle", "GetProtocol", "SetProtocol"}
DeviceToHost   == {"GetLineCoding", "GetReport", "GetIdle", "GetProtocol"}
Settings       == {"SetControlLineState", "SetIdle", "SetProtocol"}

Accepts(d, request) == request \in IF d \in Serials THEN SerialRequests ELSE HidRequests
AfterRequest(st, request, value) ==
  IF request \in Settings THEN [st EXCEPT !.setting = value] ELSE st

-----------------------------------------------------------------------------
(* Read, Write and SendSerialState of ACM, SendReport and ReceiveReport of *)
(* HID: what they take under the mutex before they call the stack.         *)

EndpointFor(d, use) == CASE use = "send"    -> driver[d].in
                         [] use = "receive" -> driver[d].out
                         [] use = "notify"  -> driver[d].notify
(* SendSerialState does not ask whether the driver is configured.          *)
Usable(d, use) == /\ driver[d].stack
                  /\ driver[d].configured \/ use = "notify"
                  /\ EndpointFor(d, use) # NoEndpoint
=============================================================================
