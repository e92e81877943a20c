---------------------------- MODULE MCHostMonitor ----------------------------
(* Device objects as model values.                                         *)
EXTENDS HostMonitor, TLC

CONSTANTS d1, d2, d3

(* A host that runs, with devices that come and go on two ports; and one   *)
(* that is started and stopped twice, with a device or two.                *)
Serving == [ports |-> {1, 2}, devs |-> {d1, d2, d3}, starts |-> 1, stops |-> 0, plugs |-> 3]
Restarted == [ports |-> {1}, devs |-> {d1, d2}, starts |-> 2, stops |-> 2, plugs |-> 2]
MCScenarios == {Serving, Restarted}
MCServing == {Serving}

MCSymmetry == Permutations(Devs)
=============================================================================
