---------------------------- MODULE Configuration ----------------------------
(***************************************************************************)
(* The tree of a device: configurations, interfaces and endpoints as the   *)
(* DeviceBuilder makes them (device/device.go), the locks around them      *)
(* (device/interface.go), the configuration descriptor the control loop    *)
(* writes from them, and what a host reads from its bytes                  *)
(* (host/device.go).                                                       *)
(*                                                                         *)
(* A descriptor is a header and a sequence of items, each with the length  *)
(* it takes on the wire; the fields of an item are those the properties    *)
(* tell apart.  Configuration.mutex is a Go RWMutex: a writer announces    *)
(* itself first, and from then on no new reader enters, not even one that  *)
(* holds the lock for reading already.                                     *)
(*                                                                         *)
(* The module has the operations only; Assembly runs them.                 *)
(***************************************************************************)
EXTENDS Naturals, Sequences, FiniteSets, SequencesExt

CONSTANTS
  Apps,               (* the goroutines of the application                  *)
  Values,             (* values of bConfigurationValue                      *)
  MaxConfigurations,  (* capacity of Device.configurations                  *)
  MaxInterfaces,      (* capacity of Configuration.interfaces               *)
  MaxEndpoints,       (* capacity of Interface.endpoints                    *)
  MaxAssociations,    (* capacity of Configuration.associations             *)
  BufferSize          (* size of the response buffer of the device and of   *)
                      (* the descriptor buffer of the host                  *)

Nobody == "nobody"

ASSUME ConfigurationAssumption ==
  /\ Values \subseteq Nat \ {0}
  /\ Nobody \notin Apps
  /\ MaxConfigurations \in Nat /\ MaxInterfaces \in Nat
  /\ MaxEndpoints \in Nat /\ MaxAssociations \in Nat
  /\ BufferSize \in Nat

VARIABLES
  values,      (* Device.configurations: their values in order              *)
  objs,        (* every Interface object: its Number, Class and endpoints   *)
  tree,        (* per value: interfaces (indexes into objs), associations   *)
  announced,   (* per value: the goroutine that has called mutex.Lock       *)
  readers,     (* per value: how often mutex is held for reading            *)
  deviceLock   (* the goroutine that holds Device.mutex over several steps  *)

EndpointType == [address : Nat, kind : STRING]
ObjectType   == [number : Nat, class : STRING, endpoints : Seq(EndpointType)]
TreeType(n)  == [interfaces : Seq(1 .. n), associations : Nat]

treeVars == <<values, objs, tree>>
lockVars == <<announced, readers, deviceLock>>

-----------------------------------------------------------------------------
(* DeviceBuilder.  A builder that has met an error yields no device.       *)

BuilderCalls ==
  [op : {"device"}] \union [op : {"configuration"}, value : Values]
  \union [op : {"interface"}, class : STRING]
  \union [op : {"endpoint"}, endpoint : EndpointType]

IsIn(ep) == ep.address >= 128

EmptyTree == [interfaces |-> <<>>, associations |-> 0]
NewDeviceBuilder ==
  [device |-> FALSE, values |-> <<>>, objs |-> <<>>, failed |-> FALSE,
   tree |-> [v \in Values |-> EmptyTree], config |-> 0, iface |-> 0]

FailsIf(b, refused, next) == IF refused THEN [b EXCEPT !.failed = TRUE] ELSE next

WithVendorProduct(b) == [b EXCEPT !.device = TRUE]

AddConfigurationTo(b, v) ==
  FailsIf(b, ~b.device \/ Len(b.values) >= MaxConfigurations \/ v \in ToSet(b.values),
          [b EXCEPT !.config = v, !.values = Append(@, v)])

(* An interface is numbered by those its configuration has already.        *)
AddInterfaceTo(b, class) ==
  IF b.config = 0 THEN [b EXCEPT !.failed = TRUE]
  ELSE LET known == b.tree[b.config].interfaces
           iface == [number |-> Len(known), class |-> class, endpoints |-> <<>>]
       IN FailsIf(b, Len(known) >= MaxInterfaces,
                  [b EXCEPT !.objs = Append(@, iface), !.iface = Len(b.objs) + 1,
                            !.tree = [b.tree EXCEPT ![b.config].interfaces = Append(@, Len(b.objs) + 1)]])

HasAddress(iface, address) ==
  \E k \in DOMAIN iface.endpoints : iface.endpoints[k].address = address

(* The endpoint goes to the last interface made, even when a configuration *)
(* was added after it.  Only that interface is searched for its address.   *)
AddEndpointTo(b, ep) ==
  IF b.iface = 0 THEN [b EXCEPT !.failed = TRUE]
  ELSE FailsIf(b, \/ Len(b.objs[b.iface].endpoints) >= MaxEndpoints
                  \/ HasAddress(b.objs[b.iface], ep.address),
               [b EXCEPT !.objs[b.iface].endpoints = Append(@, ep)])

BuilderCall(b, c) ==
  CASE c.op = "device"        -> WithVendorProduct(b)
    [] c.op = "configuration" -> AddConfigurationTo(b, c.value)
    [] c.op = "interface"     -> AddInterfaceTo(b, c.class)
    [] c.op = "endpoint"      -> AddEndpointTo(b, c.endpoint)

Builds(b) == b.device /\ ~b.failed

-----------------------------------------------------------------------------
(* Configuration.mutex.                                                    *)

RLockable(v)  == announced[v] = Nobody
Announce(p, v) == announced[v] = Nobody /\ announced' = [announced EXCEPT ![v] = p]

(* Mutant of Locked: a writer does not wait for the readers inside.        *)
LockedAnyway(p, v) == announced[v] = p

Locked(p, v)  == announced[v] = p /\ readers[v] = 0
Unlock(v)     == announced' = [announced EXCEPT ![v] = Nobody]

(* Device.mutex is held over several steps by Device.Close alone.          *)
DeviceUnlocked == deviceLock = Nobody

-----------------------------------------------------------------------------
(* Reading and changing the tree.                                          *)

GetConfiguration(v) == v \in ToSet(values)

(* The Interface object with the number, 0 when the tree has none.         *)
GetInterface(v, number) ==
  LET found == {o \in ToSet(tree[v].interfaces) : objs[o].number = number}
  IN IF found = {} THEN 0 ELSE CHOOSE o \in found : TRUE

InterfaceAdded(v, number, class) ==
  IF Len(tree[v].interfaces) >= MaxInterfaces \/ GetInterface(v, number) # 0
  THEN UNCHANGED treeVars
  ELSE /\ objs' = Append(objs, [number |-> number, class |-> class, endpoints |-> <<>>])
       /\ tree' = [tree EXCEPT ![v].interfaces = Append(@, Len(objs) + 1)]
       /\ UNCHANGED values

InterfaceRemoved(v, k) ==
  /\ tree' = [tree EXCEPT ![v].interfaces = RemoveAt(@, k)]
  /\ UNCHANGED <<values, objs>>

AssociationAdded(v) ==
  /\ tree' = [tree EXCEPT ![v].associations = IF @ >= MaxAssociations THEN @ ELSE @ + 1]
  /\ UNCHANGED <<values, objs>>

EndpointAdded(o, ep) ==
  /\ objs' = IF Len(objs[o].endpoints) >= MaxEndpoints \/ HasAddress(objs[o], ep.address)
             THEN objs ELSE [objs EXCEPT ![o].endpoints = Append(@, ep)]
  /\ UNCHANGED <<values, tree>>

EndpointRemoved(o, address) ==
  /\ objs' = IF HasAddress(objs[o], address)
             THEN LET k == CHOOSE k \in DOMAIN objs[o].endpoints :
                             objs[o].endpoints[k].address = address
                  IN [objs EXCEPT ![o].endpoints = RemoveAt(@, k)]
             ELSE objs
  /\ UNCHANGED <<values, tree>>

-----------------------------------------------------------------------------
(* The configuration descriptor.                                           *)

HeaderSize == 9
SizeOf(item) == CASE item.type = "association" -> 8
                  [] item.type = "interface"   -> 9
                  [] item.type = "endpoint"    -> 7
(* Totals so far: what the first k of the sizes add to base.               *)
Sums(base, sizes) ==
  LET sum[k \in 0 .. Len(sizes)] == IF k = 0 THEN base ELSE sum[k - 1] + sizes[k]
  IN sum

(* Where each item ends on the wire, after the header; where the last does *)
(* is the size of the descriptor.                                          *)
Ends(items)           == Sums(HeaderSize, [k \in DOMAIN items |-> SizeOf(items[k])])
DescriptorSize(items) == Ends(items)[Len(items)]

InterfaceSizes(v) ==
  [k \in DOMAIN tree[v].interfaces |-> 9 + 7 * Len(objs[tree[v].interfaces[k]].endpoints)]

(* Mutant of calculateTotalLength: the associations are not counted.       *)
TotalWithoutAssociations(v) ==
  Sums(HeaderSize, InterfaceSizes(v))[Len(tree[v].interfaces)]

calculateTotalLength(v) ==
  Sums(HeaderSize + 8 * tree[v].associations, InterfaceSizes(v))[Len(tree[v].interfaces)]

AssociationItems(v) == [k \in 1 .. tree[v].associations |-> [type |-> "association"]]
InterfaceItem(o) ==
  [type |-> "interface", number |-> objs[o].number, endpoints |-> Len(objs[o].endpoints)]
EndpointItem(ep) == [type |-> "endpoint", address |-> ep.address]

(* Sequences one after the other: the first k of them.                     *)
Joins(seqs) ==
  LET joined[k \in 0 .. Len(seqs)] == IF k = 0 THEN <<>> ELSE joined[k - 1] \o seqs[k]
  IN joined
Joined(seqs) == Joins(seqs)[Len(seqs)]

OfType(items, type) ==
  Joined([k \in DOMAIN items |-> IF items[k].type = type THEN <<items[k]>> ELSE <<>>])

(* What a host takes from the first n bytes: the items that begin before   *)
(* the total length of the header and end within the bytes.                *)
Parsed(items, total, n) ==
  LET ends     == Ends(items)
      Whole(k) == ends[k - 1] < total /\ ends[k] <= n
  IN SubSeq(items, 1, Cardinality({k \in DOMAIN items : Whole(k)}))

parseConfigurationTree(header, items, n) ==
  LET parsed == Parsed(items, header.total, n)
  IN [value      |-> header.value,
      announces  |-> header.interfaces,
      interfaces |-> OfType(parsed, "interface"),
      endpoints  |-> OfType(parsed, "endpoint")]

(* The tree as a host that reads all of it now would know it.              *)
EndpointItems(o) == [j \in DOMAIN objs[o].endpoints |-> EndpointItem(objs[o].endpoints[j])]
TreeOf(v) ==
  LET ifaces == tree[v].interfaces
  IN [value      |-> v,
      announces  |-> Len(ifaces),
      interfaces |-> [k \in DOMAIN ifaces |-> InterfaceItem(ifaces[k])],
      endpoints  |-> Joined([k \in DOMAIN ifaces |-> EndpointItems(ifaces[k])])]
=============================================================================
