------------------------------ MODULE MCFifoLink ------------------------------
(* Two devices that come, go and die under a host that may stop; one with  *)
(* calls in a row; one with a call while its class driver is at work; two  *)
(* whose control pipe, or data pipes, may be full when the host stops or   *)
(* the device dies.                                                        *)
EXTENDS FifoLink

CONSTANTS d1, d2, nobody

MCScenarios == {[dirs |-> {d1, d2}, ends |-> TRUE, calls |-> 0, data |-> FALSE, room |-> 1],
                [dirs |-> {d1}, ends |-> FALSE, calls |-> 3, data |-> FALSE, room |-> 2],
                [dirs |-> {d1}, ends |-> FALSE, calls |-> 1, data |-> TRUE, room |-> 1],
                [dirs |-> {d1}, ends |-> TRUE, calls |-> 2, data |-> FALSE, room |-> 1],
                [dirs |-> {d1}, ends |-> TRUE, calls |-> 0, data |-> TRUE, room |-> 1]}
=============================================================================
