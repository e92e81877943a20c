----------------------------- MODULE MCHidMonitor -----------------------------
(* A second device is plugged in while the HAL starts; one comes and goes  *)
(* meanwhile; one with a reader leaves a HAL that is closed; and one leaves *)
(* with a root hub, and another that may have its descriptor then comes and *)
(* leaves too.                                                              *)
EXTENDS HidMonitor

CONSTANTS d1, d2, hub, nobody

MCScenarios ==
  {[early |-> {d1}, roots |-> {}, plan |-> <<<<"plug", d2>>>>, stops |-> FALSE, reads |-> FALSE],
   [early |-> {}, roots |-> {}, plan |-> <<<<"plug", d1>>, <<"unplug", d1>>>>, stops |-> FALSE, reads |-> FALSE],
   [early |-> {d1}, roots |-> {}, plan |-> <<<<"unplug", d1>>>>, stops |-> TRUE, reads |-> TRUE],
   [early |-> {d1, hub}, roots |-> {hub},
    plan |-> <<<<"unplug", d1>>, <<"unplug", hub>>, <<"plug", d2>>, <<"unplug", d2>>>>, stops |-> FALSE, reads |-> FALSE]}
=============================================================================
