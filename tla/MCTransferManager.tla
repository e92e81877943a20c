-------------------------- MODULE MCTransferManager --------------------------
(* Transfers, workers and callers as model values.                         *)
EXTENDS TransferManager, TLC

CONSTANTS t1, t2, w1, w2, c1, c2
=============================================================================
