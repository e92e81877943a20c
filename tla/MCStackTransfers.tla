--------------------------- MODULE MCStackTransfers ---------------------------
(* Transfer objects on one endpoint, with model values for them.           *)
EXTENDS StackTransfers, TLC

CONSTANTS t1, t2, w1, w2, w3, c1, c2, epIn

MCOneEndpoint  == [t \in Transfers |-> epIn]
=============================================================================
