------------------------------- MODULE MCMscBot -------------------------------
(* The commands of a host that asks for what a command returns, and two    *)
(* that do not: a REQUEST SENSE without an allocation length, answered     *)
(* with more than the host expects, and a transfer beyond dataBuf.         *)
EXTENDS MscBot

CONSTANTS garbage, absent

Plain(op, alloc, dtl) == [op |-> op, lun |-> 0, lba |-> 0, blocks |-> 0, alloc |-> alloc, dtl |-> dtl, eject |-> FALSE]
Blocked(op, lba, n)   == [Plain(op, 0, n * BlockSize) EXCEPT !.lba = lba, !.blocks = n]

MCCommands ==
  {Plain("requestSense", 0, 4), Plain("inquiry", 96, 96), [Plain("inquiry", 36, 36) EXCEPT !.lun = 1],
   Plain("modeSense6", 0, 0), Plain("readCapacity10", 0, 8), Plain("synchronizeCache10", 0, 0),
   Plain("testUnitReady", 0, 0), Plain("unsupported", 0, 0),
   [Plain("startStopUnit", 0, 0) EXCEPT !.eject = TRUE],
   Blocked("read10", 0, 2), Blocked("write10", 0, 2), Blocked("write10", 1, 1),
   Blocked("read10", 2, 2), Blocked("read10", 0, 3)}
=============================================================================
