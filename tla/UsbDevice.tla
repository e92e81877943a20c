------------------------------ MODULE UsbDevice ------------------------------
(***************************************************************************)
(* What a device promises the host (device/doc.go, "Device States"): one   *)
(* chapter-9 state machine in which every control request and every bus    *)
(* reset takes effect in a single step and the state, the address and the  *)
(* configuration always agree.  DeviceControl implements it as long as the *)
(* application leaves the state machine alone.                             *)
(***************************************************************************)
EXTENDS Naturals

CONSTANTS Addresses, ConfigValues

VARIABLES
  usbState,    (* the visible device state                                  *)
  usbAddress,  (* the address the device answers to                         *)
  usbConfig    (* the configuration in effect, 0 for none                   *)

usbVars == <<usbState, usbAddress, usbConfig>>

Init ==
  /\ usbState = "Attached"
  /\ usbAddress = 0
  /\ usbConfig = 0

BusReset ==
  /\ usbState' = "Default"
  /\ usbAddress' = 0
  /\ usbConfig' = 0

Assign(a) ==
  /\ usbState \in {"Default", "Address"}
  /\ usbState' = IF a = 0 THEN "Default" ELSE "Address"
  /\ usbAddress' = a
  /\ UNCHANGED usbConfig

Configure(v) ==
  /\ usbState \in {"Address", "Configured"}
  /\ usbState' = IF v = 0 THEN "Address" ELSE "Configured"
  /\ usbConfig' = v
  /\ UNCHANGED usbAddress

Next ==
  \/ BusReset
  \/ \E a \in Addresses \union {0} : Assign(a)
  \/ \E v \in ConfigValues \union {0} : Configure(v)

Spec == Init /\ [][Next]_usbVars

(* The state tells exactly which of address and configuration are set.     *)
StateMatchesFields ==
  /\ usbState \in {"Attached", "Default", "Address", "Configured"}
  /\ usbAddress \in Addresses \union {0}
  /\ usbConfig \in ConfigValues \union {0}
  /\ usbAddress # 0 <=> usbState \in {"Address", "Configured"}
  /\ usbConfig # 0 <=> usbState = "Configured"
=============================================================================
