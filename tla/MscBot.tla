------------------------------- MODULE MscBot -------------------------------
(***************************************************************************)
(* The Bulk-Only Transport of device/class/msc: the loop of Run over       *)
(* MemoryStorage or FileStorage, against a host that may give a command up *)
(* and reset the interface, a bus that may lose the configuration, HAL and *)
(* file calls that may fail, and an application that swaps the medium.     *)
(*                                                                         *)
(* The driver goroutine goes through                                       *)
(*   idle -> waiting -> command -> (loading | receiving, awaiting |        *)
(*   storing | ejecting | sending) -> status -> idle                       *)
(* A pipe is the queue of transfers under way in one direction.  A block   *)
(* the host sends is named by its command and its place in it, and is      *)
(* Garbage once it mixes with bytes that were not sent with it.            *)
(* The host's data never carry the signature of a command.                 *)
(***************************************************************************)
EXTENDS Integers, Sequences, FiniteSets

CONSTANTS
  Garbage,          (* what a block holds that mixes, or was never sent     *)
  BlockCount,       (* Storage.BlockCount                                  *)
  BlockSize,        (* Storage.BlockSize                                   *)
  BufferBlocks,     (* the blocks dataBuf holds: MaxTransferSize/BlockSize *)
  Word,             (* 2^32, the modulus of a residue                      *)
  Commands,         (* the commands the host may send                      *)
  MaxCommands,      (* bound on the commands sent                          *)
  MaxTroubles,      (* bound on commands given up, calls failed, changes   *)
  Absent            (* no command, no answer                               *)

CBWSize  == 31
Blocks   == 0 .. BlockCount - 1
Content  == (Nat \X Nat) \union {Garbage}
Senses   == {"NoSense", "MediumNotPresent", "InvalidFieldInCDB", "InvalidCommand",
             "LBAOutOfRange", "WriteProtected", "MediumError", "HardwareError"}
Statuses == {"Good", "Failed"}

(* The responses of fixed length, by the handler that builds them.         *)
FixedLength == [requestSense |-> 18, inquiry |-> 36, readCapacity10 |-> 8,
                readCapacity16 |-> 32, modeSense6 |-> 4, readFormatCapacities |-> 12]
NeedsMedium  == {"readCapacity10", "readCapacity16", "readFormatCapacities"}
Acknowledged == {"preventAllowRemoval", "verify10"}
Operations   == DOMAIN FixedLength \union Acknowledged \union
  {"testUnitReady", "startStopUnit", "synchronizeCache10", "read10", "write10", "unsupported"}

(* A command, and what the two pipes carry.                                *)
CommandType == [op : Operations, lun : Nat, lba : Nat, blocks : Nat, alloc : Nat,
                dtl : 0 .. Word - 1, eject : BOOLEAN]
Residues    == 0 .. Word - 1
Reply       == [len : Nat, body : Seq(Content \union Senses)]
OutItem     == [kind : {"cbw"}, command : Commands, tag : Nat] \union [kind : {"data"}, value : Nat \X Nat]
InItem      == [kind : {"data"}, tag : Nat, len : Nat, body : Seq(Content \union Senses)]
               \union [kind : {"csw"}, tag : Nat, status : Statuses, residue : Residues]

ASSUME BotAssumption ==
  /\ {BlockCount, BufferBlocks, Word} \subseteq Nat \ {0}
  /\ BlockSize \in Nat /\ BlockSize > CBWSize
  /\ {MaxCommands, MaxTroubles} \subseteq Nat
  /\ Commands \subseteq CommandType
  /\ Absent \notin Commands \union InItem

VARIABLES
  medium,    (* the storage: kind, blocks, present, readOnly, removable    *)
  pc,        (* where Run is                                               *)
  cbw, tag,  (* currentCBW, currentTag                                     *)
  sense,     (* senseKey, asc, ascq                                        *)
  buf,       (* what the blocks of dataBuf hold                            *)
  total,     (* bytes received, totalRead of receiveData                   *)
  reply,     (* the data sendData is to send                               *)
  verdict,   (* status and residue of the command                          *)
  bound,     (* the driver has its stack, interface and endpoints          *)
  up,        (* the device is configured                                   *)
  cancelled, (* the context of Run is done                                 *)
  outPipe, inPipe,                 (* transfers under way                  *)
  host,      (* the host: idle, sending data or reading                    *)
  current,   (* the command it waits for, Absent before the first          *)
  issued,    (* commands sent, which is also the tag of the last one       *)
  sent,      (* the data it sent for the command, one value a block        *)
  received,  (* the data it received, Absent for none                      *)
  answer,    (* what the last command came to, Absent when given up        *)
  stored,    (* the values the host may rely on, per block                 *)
  owed,      (* the command that failed just before the current one        *)
  troubles   (* what went wrong or was changed so far                      *)

driverVars  == <<pc, cbw, tag, sense, buf, total, reply, verdict>>
wiringVars  == <<bound, up, cancelled>>
hostVars    == <<host, current, issued, sent, received, answer, stored, owed>>
vars == <<medium, driverVars, wiringVars, outPipe, inPipe, hostVars, troubles>>

FileBacked == medium.kind = "file"

Stages == {"idle", "waiting", "command", "loading", "receiving", "awaiting", "storing",
           "ejecting", "sending", "status", "ended", "panicked"}

NoVerdict == [status |-> "Good", residue |-> 0]
TypeOK ==
  /\ medium \in [kind : {"memory", "file"}, blocks : [Blocks -> Content], present : BOOLEAN,
                 readOnly : BOOLEAN, removable : BOOLEAN]
  /\ FileBacked => medium.present /\ ~medium.removable
  /\ pc \in Stages
  /\ cbw \in Commands \union {Absent} /\ current \in Commands \union {Absent}
  /\ tag \in 0 .. issued /\ issued \in 0 .. MaxCommands
  /\ sense \in Senses /\ owed \in Commands \union {Absent}
  /\ buf \in [0 .. BufferBlocks - 1 -> Content]
  /\ total \in Nat
  /\ pc = "sending" => reply \in Reply
  /\ verdict \in [status : Statuses, residue : Residues]
  /\ bound \in BOOLEAN /\ up \in BOOLEAN /\ cancelled \in BOOLEAN
  /\ outPipe \in Seq(OutItem) /\ inPipe \in Seq(InItem)
  /\ host \in {"idle", "sending", "reading"}
  /\ sent \in Seq(Nat \X Nat)
  /\ received \in InItem \union {Absent}
  /\ stored \in [Blocks -> Content]
  /\ troubles \in 0 .. MaxTroubles

Init ==
  /\ medium \in [kind : {"memory", "file"}, blocks : {[b \in Blocks |-> Garbage]}, present : {TRUE},
                 readOnly : BOOLEAN, removable : BOOLEAN]
  /\ FileBacked => ~medium.removable
  /\ pc = "idle" /\ cbw = Absent /\ tag = 0
  /\ sense = "NoSense"
  /\ buf = [i \in 0 .. BufferBlocks - 1 |-> Garbage] /\ total = 0
  /\ reply = Absent
  /\ verdict = NoVerdict
  /\ bound = TRUE /\ up = TRUE /\ cancelled = FALSE
  /\ outPipe = <<>> /\ inPipe = <<>>
  /\ host = "idle" /\ current = Absent /\ issued = 0
  /\ sent = <<>> /\ received = Absent /\ answer = Absent
  /\ stored = [b \in Blocks |-> Garbage]
  /\ owed = Absent
  /\ troubles = 0

-----------------------------------------------------------------------------
(* A call of the stack is refused while the device is not configured and   *)
(* fails when the context is done or the HAL reports an error.             *)
Trouble == troubles < MaxTroubles /\ troubles' = troubles + 1

Goto(stage) == pc' = stage
Finish(status, residue, code) ==
  /\ verdict' = [status |-> status, residue |-> residue % Word]
  /\ sense' = code
  /\ Goto("status")

Return == total' = 0 /\ reply' = Absent /\ verdict' = NoVerdict

(* Run and the first half of processCBW.                                   *)
Listen ==
  /\ pc = "idle" /\ ~cancelled /\ bound /\ up
  /\ Goto("waiting")
  /\ UNCHANGED <<medium, cbw, tag, sense, buf, total, reply, verdict, wiringVars, outPipe, inPipe, hostVars, troubles>>

RunEnds ==
  /\ pc \in {"idle", "waiting"} /\ cancelled
  /\ Goto("ended")
  /\ UNCHANGED <<medium, cbw, tag, sense, buf, total, reply, verdict, wiringVars, outPipe, inPipe, hostVars, troubles>>

ReadFails ==
  /\ pc = "waiting" /\ ~cancelled
  /\ Trouble
  /\ Goto("idle")
  /\ UNCHANGED <<medium, cbw, tag, sense, buf, total, reply, verdict, wiringVars, outPipe, inPipe, hostVars>>

(* Anything but a whole command block is dropped.                          *)
ReadCBW ==
  /\ pc = "waiting" /\ outPipe # <<>>
  /\ outPipe' = Tail(outPipe)
  /\ IF Head(outPipe).kind = "cbw"
     THEN /\ cbw' = Head(outPipe).command
          /\ tag' = Head(outPipe).tag
          /\ Goto("command")
     ELSE Goto("idle") /\ UNCHANGED <<cbw, tag>>
  /\ UNCHANGED <<medium, sense, buf, total, reply, verdict, wiringVars, inPipe, hostVars, troubles>>

-----------------------------------------------------------------------------
(* handleSCSICommand: one operator per handler, up to its first call that  *)
(* may block.                                                              *)
Least(a, b) == IF a < b THEN a ELSE b
AllocLength == IF cbw.op = "requestSense" /\ cbw.alloc = 0 THEN FixedLength.requestSense ELSE cbw.alloc

(* Commands answered at once: the failures and those without data.         *)
RefuseBadLUN ==
  /\ cbw.lun > 0
  /\ Finish("Failed", cbw.dtl, "InvalidFieldInCDB")

RefuseUnsupported ==
  /\ cbw.op = "unsupported"
  /\ Finish("Failed", cbw.dtl, "InvalidCommand")

handleTestUnitReady ==
  /\ cbw.op = "testUnitReady"
  /\ IF medium.present THEN Finish("Good", 0, "NoSense") ELSE Finish("Failed", 0, "MediumNotPresent")

Acknowledge ==
  /\ cbw.op \in Acknowledged \/ (cbw.op = "startStopUnit" /\ ~(cbw.eject /\ medium.removable))
  /\ Finish("Good", 0, "NoSense")

handleSynchronizeCache10 ==
  /\ cbw.op = "synchronizeCache10"
  /\ Finish("Good", 0, "NoSense")

NeedsPresentMedium ==
  /\ cbw.op \in NeedsMedium \union {"read10", "write10"}
  /\ ~medium.present
  /\ Finish("Failed", cbw.dtl, "MediumNotPresent")

NothingAskedFor ==
  /\ \/ cbw.op \in {"inquiry", "modeSense6"} /\ cbw.alloc = 0
     \/ cbw.op = "readFormatCapacities" /\ medium.present /\ cbw.alloc = 0
     \/ cbw.op = "read10" /\ medium.present /\ cbw.blocks = 0
     \/ cbw.op = "write10" /\ medium.present /\ ~medium.readOnly /\ cbw.blocks = 0
  /\ Finish("Good", 0, sense)

WriteProtect ==
  /\ cbw.op = "write10" /\ medium.present /\ medium.readOnly
  /\ Finish("Failed", cbw.dtl, "WriteProtected")

Ready    == medium.present /\ cbw.blocks > 0 /\ (cbw.op = "write10" => ~medium.readOnly)
InRange  == cbw.lba + cbw.blocks <= BlockCount
OutOfRangeQuietly ==
  /\ cbw.op \in {"read10", "write10"} /\ Ready /\ ~InRange
  /\ Finish("Failed", cbw.dtl, sense)

OutOfRange ==
  /\ cbw.op \in {"read10", "write10"} /\ Ready /\ ~InRange
  /\ Finish("Failed", cbw.dtl, "LBAOutOfRange")

Decided ==
  \/ RefuseBadLUN
  \/ cbw.lun = 0 /\ \/ RefuseUnsupported \/ handleTestUnitReady \/ Acknowledge
                    \/ handleSynchronizeCache10 \/ NeedsPresentMedium \/ NothingAskedFor
                    \/ WriteProtect \/ OutOfRange
HandleAtOnce ==
  /\ pc = "command"
  /\ Decided
  /\ UNCHANGED <<medium, cbw, tag, buf, total, reply, wiringVars, outPipe, inPipe, hostVars, troubles>>

(* FileStorage.Sync may fail.                                              *)
SyncFails ==
  /\ pc = "command" /\ cbw.lun = 0
  /\ cbw.op = "synchronizeCache10" /\ FileBacked /\ ~medium.readOnly
  /\ Trouble
  /\ Finish("Failed", 0, "HardwareError")
  /\ UNCHANGED <<medium, cbw, tag, buf, total, reply, wiringVars, outPipe, inPipe, hostVars>>

(* Responses of fixed length, cut at the allocation length.  READ CAPACITY *)
(* (10) has none in its command.                                           *)
SendLength == IF cbw.op = "readCapacity10" THEN FixedLength.readCapacity10
              ELSE Least(AllocLength, FixedLength[cbw.op])
HandleResponse ==
  /\ pc = "command" /\ cbw.lun = 0
  /\ cbw.op \in DOMAIN FixedLength
  /\ cbw.op \in NeedsMedium => medium.present
  /\ cbw.op \in {"inquiry", "modeSense6", "readFormatCapacities"} => cbw.alloc > 0
  /\ reply' = [len |-> SendLength, body |-> IF cbw.op = "requestSense" THEN <<sense>> ELSE <<>>]
  /\ Goto("sending")
  /\ UNCHANGED <<medium, cbw, tag, sense, buf, total, verdict, wiringVars, outPipe, inPipe, hostVars, troubles>>

(* A command larger than dataBuf panics when the buffer is sliced.         *)
HandleTransfer ==
  /\ pc = "command" /\ cbw.lun = 0
  /\ cbw.op \in {"read10", "write10"} /\ Ready /\ InRange
  /\ Goto(IF cbw.blocks > BufferBlocks THEN "panicked"
          ELSE IF cbw.op = "read10" THEN "loading" ELSE "receiving")
  /\ total' = 0
  /\ UNCHANGED <<medium, cbw, tag, sense, buf, reply, verdict, wiringVars, outPipe, inPipe, hostVars, troubles>>

HandleEject ==
  /\ pc = "command" /\ cbw.lun = 0
  /\ cbw.op = "startStopUnit" /\ cbw.eject /\ medium.removable
  /\ Goto("ejecting")
  /\ UNCHANGED <<medium, cbw, tag, sense, buf, total, reply, verdict, wiringVars, outPipe, inPipe, hostVars, troubles>>

-----------------------------------------------------------------------------
(* READ (10): Storage.Read, then the data.                                 *)
Length   == cbw.blocks * BlockSize
Read(i)  == medium.blocks[cbw.lba + i]
LoadAnyway ==
  /\ pc = "loading"
  /\ buf' = [i \in DOMAIN buf |-> IF i < cbw.blocks /\ medium.present THEN Read(i) ELSE buf[i]]
  /\ reply' = [len |-> Length, body |-> [i \in 1 .. cbw.blocks |-> buf'[i - 1]]]
  /\ Goto("sending")
  /\ UNCHANGED <<medium, cbw, tag, sense, total, verdict, wiringVars, outPipe, inPipe, hostVars, troubles>>

Load ==
  /\ pc = "loading" /\ medium.present
  /\ buf' = [i \in DOMAIN buf |-> IF i < cbw.blocks THEN Read(i) ELSE buf[i]]
  /\ reply' = [len |-> Length, body |-> [i \in 1 .. cbw.blocks |-> Read(i - 1)]]
  /\ Goto("sending")
  /\ UNCHANGED <<medium, cbw, tag, sense, total, verdict, wiringVars, outPipe, inPipe, hostVars, troubles>>

LoadFails ==
  /\ pc = "loading"
  /\ IF medium.present THEN FileBacked /\ Trouble ELSE UNCHANGED troubles
  /\ Finish("Failed", cbw.dtl, "MediumError")
  /\ UNCHANGED <<medium, cbw, tag, buf, total, reply, wiringVars, outPipe, inPipe, hostVars>>

(* WRITE (10): receiveData, one call of the stack after the other, until   *)
(* the length the command asks for is there.  A transfer that is longer    *)
(* than the rest of the buffer is an error or is cut, as the HAL likes.    *)
CanCall == up /\ ~cancelled /\ (total = 0 => bound)
ReceiveOneMore ==
  /\ pc = "receiving"
  /\ IF total > Length THEN Goto("storing") ELSE CanCall /\ Goto("awaiting")
  /\ UNCHANGED <<medium, cbw, tag, sense, buf, total, reply, verdict, wiringVars, outPipe, inPipe, hostVars, troubles>>

Receive ==
  /\ pc = "receiving"
  /\ IF total = Length THEN Goto("storing") ELSE CanCall /\ Goto("awaiting")
  /\ UNCHANGED <<medium, cbw, tag, sense, buf, total, reply, verdict, wiringVars, outPipe, inPipe, hostVars, troubles>>

ReceiveFails ==
  /\ \/ pc = "receiving" /\ total < Length /\ ~CanCall /\ UNCHANGED troubles
     \/ pc = "awaiting" /\ (IF cancelled THEN UNCHANGED troubles ELSE Trouble)
  /\ Finish("Failed", cbw.dtl, "HardwareError")
  /\ UNCHANGED <<medium, cbw, tag, buf, total, reply, wiringVars, outPipe, inPipe, hostVars>>

PacketLength(p) == IF p.kind = "cbw" THEN CBWSize ELSE BlockSize
Taken(p)        == Least(PacketLength(p), Length - total)
Filled(p) ==
  IF p.kind = "data" /\ total % BlockSize = 0 /\ Taken(p) = BlockSize
  THEN [buf EXCEPT ![total \div BlockSize] = p.value]
  ELSE [i \in DOMAIN buf |-> IF i * BlockSize < total + Taken(p) /\ (i + 1) * BlockSize > total
                             THEN Garbage ELSE buf[i]]
ReceiveData ==
  /\ pc = "awaiting" /\ outPipe # <<>>
  /\ outPipe' = Tail(outPipe)
  /\ buf' = Filled(Head(outPipe))
  /\ total' = total + Taken(Head(outPipe))
  /\ Goto("receiving")
  /\ UNCHANGED <<medium, cbw, tag, sense, reply, verdict, wiringVars, inPipe, hostVars, troubles>>

ReceiveTooMuch ==
  /\ pc = "awaiting" /\ outPipe # <<>>
  /\ PacketLength(Head(outPipe)) > Length - total
  /\ outPipe' = Tail(outPipe)
  /\ Finish("Failed", cbw.dtl, "HardwareError")
  /\ UNCHANGED <<medium, cbw, tag, buf, total, reply, wiringVars, inPipe, hostVars, troubles>>

(* Storage.Write: MemoryStorage writes all or nothing, FileStorage may     *)
(* have written some blocks when it fails.                                 *)
Overwritten(n) == [b \in Blocks |-> IF b \in cbw.lba .. cbw.lba + n - 1 THEN buf[b - cbw.lba]
                                    ELSE medium.blocks[b]]
Writable == medium.present /\ ~medium.readOnly
StoreAlwaysGood ==
  /\ pc = "storing"
  /\ medium' = IF Writable THEN [medium EXCEPT !.blocks = Overwritten(cbw.blocks)] ELSE medium
  /\ Finish("Good", cbw.dtl - Length, sense)
  /\ UNCHANGED <<cbw, tag, buf, total, reply, wiringVars, outPipe, inPipe, hostVars, troubles>>

Store ==
  /\ pc = "storing" /\ Writable
  /\ medium' = [medium EXCEPT !.blocks = Overwritten(cbw.blocks)]
  /\ Finish("Good", cbw.dtl - Length, sense)
  /\ UNCHANGED <<cbw, tag, buf, total, reply, wiringVars, outPipe, inPipe, hostVars, troubles>>

StoreFails ==
  /\ pc = "storing"
  /\ IF Writable
     THEN /\ FileBacked /\ Trouble
          /\ \E n \in 0 .. cbw.blocks : medium' = [medium EXCEPT !.blocks = Overwritten(n)]
     ELSE UNCHANGED <<medium, troubles>>
  /\ Finish("Failed", cbw.dtl, "MediumError")
  /\ UNCHANGED <<cbw, tag, buf, total, reply, wiringVars, outPipe, inPipe, hostVars>>

(* START STOP UNIT with LOEJ: Eject looks at the removable flag again.     *)
Eject ==
  /\ pc = "ejecting"
  /\ IF medium.removable
     THEN medium' = [medium EXCEPT !.present = FALSE] /\ Finish("Good", 0, "NoSense")
     ELSE UNCHANGED medium /\ Finish("Failed", 0, "InvalidFieldInCDB")
  /\ UNCHANGED <<cbw, tag, buf, total, reply, wiringVars, outPipe, inPipe, hostVars, troubles>>

-----------------------------------------------------------------------------
(* sendData and the rest of the handler; sendCSW.                          *)
SendAllocResidue ==
  /\ pc = "sending" /\ bound /\ up /\ ~cancelled
  /\ inPipe' = Append(inPipe, [kind |-> "data", tag |-> tag, len |-> reply.len, body |-> reply.body])
  /\ Finish("Good", cbw.dtl - AllocLength, IF cbw.op = "requestSense" THEN "NoSense" ELSE sense)
  /\ UNCHANGED <<medium, cbw, tag, buf, total, reply, wiringVars, outPipe, hostVars, troubles>>

Send ==
  /\ pc = "sending" /\ bound /\ up /\ ~cancelled
  /\ inPipe' = Append(inPipe, [kind |-> "data", tag |-> tag, len |-> reply.len, body |-> reply.body])
  /\ Finish("Good", cbw.dtl - reply.len, IF cbw.op = "requestSense" THEN "NoSense" ELSE sense)
  /\ UNCHANGED <<medium, cbw, tag, buf, total, reply, wiringVars, outPipe, hostVars, troubles>>

SendFails ==
  /\ pc = "sending"
  /\ IF bound /\ up /\ ~cancelled THEN Trouble ELSE UNCHANGED troubles
  /\ Finish("Failed", cbw.dtl, IF cbw.op = "requestSense" THEN sense ELSE "HardwareError")
  /\ UNCHANGED <<medium, cbw, tag, buf, total, reply, wiringVars, outPipe, inPipe, hostVars>>

sendCSW ==
  /\ pc = "status" /\ bound /\ up /\ ~cancelled
  /\ inPipe' = Append(inPipe, [kind |-> "csw", tag |-> tag, status |-> verdict.status, residue |-> verdict.residue])
  /\ Goto("idle")
  /\ Return
  /\ UNCHANGED <<medium, cbw, tag, sense, buf, wiringVars, outPipe, hostVars, troubles>>

sendCSWFails ==
  /\ pc = "status"
  /\ IF bound /\ up /\ ~cancelled THEN Trouble ELSE UNCHANGED troubles
  /\ Goto("idle")
  /\ Return
  /\ UNCHANGED <<medium, cbw, tag, sense, buf, wiringVars, outPipe, inPipe, hostVars>>

-----------------------------------------------------------------------------
(* The host: one command at a time.  It drops what belongs to an older tag *)
(* and resets the interface (handleReset) when it gives a command up.      *)
WriteOf(c)  == IF c.op = "write10" THEN {b \in Blocks : b \in c.lba .. c.lba + c.blocks - 1} ELSE {}
HasData(c)  == c.op = "write10" /\ c.dtl > 0
HostSend(c) ==
  /\ host = "idle" /\ issued < MaxCommands
  /\ issued' = issued + 1
  /\ current' = c
  /\ outPipe' = Append(outPipe, [kind |-> "cbw", command |-> c, tag |-> issued + 1])
  /\ host' = IF HasData(c) THEN "sending" ELSE "reading"
  /\ sent' = <<>> /\ received' = Absent /\ answer' = Absent
  /\ stored' = [b \in Blocks |-> IF b \in WriteOf(c) THEN Garbage ELSE stored[b]]
  /\ UNCHANGED <<medium, driverVars, wiringVars, inPipe, owed, troubles>>

HostSendData ==
  /\ host = "sending"
  /\ outPipe' = Append(outPipe, [kind |-> "data", value |-> <<issued, Len(sent)>>])
  /\ sent' = Append(sent, <<issued, Len(sent)>>)
  /\ host' = IF (Len(sent) + 1) * BlockSize < current.dtl THEN "sending" ELSE "reading"
  /\ UNCHANGED <<medium, driverVars, wiringVars, inPipe, current, issued, received, answer, stored, owed, troubles>>

HostReadData ==
  /\ host = "reading" /\ inPipe # <<>>
  /\ ~(Head(inPipe).kind = "csw" /\ Head(inPipe).tag = issued)
  /\ inPipe' = Tail(inPipe)
  /\ received' = IF Head(inPipe).kind = "data" THEN Head(inPipe) ELSE Absent
  /\ UNCHANGED <<medium, driverVars, wiringVars, outPipe, host, current, issued, sent, answer, stored, owed, troubles>>

HostReadStatus ==
  /\ host = "reading" /\ inPipe # <<>>
  /\ Head(inPipe).kind = "csw" /\ Head(inPipe).tag = issued
  /\ inPipe' = Tail(inPipe)
  /\ host' = "idle"
  /\ answer' = [status |-> Head(inPipe).status, residue |-> Head(inPipe).residue, after |-> owed]
  /\ owed' = IF Head(inPipe).status = "Failed" THEN current ELSE Absent
  /\ stored' = IF Head(inPipe).status = "Good" /\ current.dtl = current.blocks * BlockSize
               THEN [b \in Blocks |-> IF b \in WriteOf(current) THEN sent[b - current.lba + 1] ELSE stored[b]]
               ELSE stored
  /\ UNCHANGED <<medium, driverVars, wiringVars, outPipe, current, issued, sent, received, troubles>>

HostGivesUp ==
  /\ host # "idle" /\ Trouble
  /\ host' = "idle" /\ answer' = Absent /\ owed' = Absent
  /\ sense' = "NoSense"
  /\ UNCHANGED <<medium, pc, cbw, tag, buf, total, reply, verdict, wiringVars, outPipe, inPipe, current, issued, sent, received, stored>>

(* The application changes the medium of a MemoryStorage, the bus takes    *)
(* the configuration away and gives it back, and the driver is closed and  *)
(* attached again.                                                         *)
ChangeMedium ==
  /\ ~FileBacked /\ Trouble
  /\ \E b \in BOOLEAN : \/ medium' = [medium EXCEPT !.present = b]
                        \/ medium' = [medium EXCEPT !.readOnly = b]
                        \/ medium' = [medium EXCEPT !.removable = b]
  /\ UNCHANGED <<driverVars, wiringVars, outPipe, inPipe, hostVars>>

Rewire ==
  /\ Trouble
  /\ \/ up' = ~up /\ UNCHANGED bound
     \/ bound' = ~bound /\ UNCHANGED up
  /\ UNCHANGED <<medium, driverVars, cancelled, outPipe, inPipe, hostVars>>

Cancel ==
  /\ ~cancelled /\ Trouble
  /\ cancelled' = TRUE
  /\ UNCHANGED <<medium, driverVars, bound, up, outPipe, inPipe, hostVars>>

-----------------------------------------------------------------------------
DriverStep ==
  \/ Listen \/ RunEnds \/ ReadCBW \/ HandleAtOnce \/ HandleResponse \/ HandleTransfer \/ HandleEject
  \/ Load \/ LoadFails \/ Receive \/ ReceiveData \/ Store \/ StoreFails \/ Eject
  \/ Send \/ SendFails \/ sendCSW \/ sendCSWFails \/ ReceiveFails
DriverFails == ReadFails \/ SyncFails \/ ReceiveTooMuch
HostWorks   == HostSendData \/ HostReadData \/ HostReadStatus
Next ==
  \/ DriverStep \/ DriverFails \/ HostWorks
  \/ (\E c \in Commands : HostSend(c)) \/ HostGivesUp
  \/ ChangeMedium \/ Rewire \/ Cancel

Spec == Init /\ [][Next]_vars

(* The driver's goroutine keeps running and its calls return when their    *)
(* context is done or a transfer is there; the host carries its command on *)
(* and reads what is sent.  No call is bound to fail.                      *)
FairSpec == Spec /\ WF_vars(DriverStep /\ UNCHANGED troubles) /\ WF_vars(HostWorks)

-----------------------------------------------------------------------------
(* What the host was told is stored is on the medium: a WRITE that was     *)
(* acknowledged is not lost to a late, failed or abandoned one.            *)
StoredIsOnMedium == \A b \in Blocks : stored[b] # Garbage => medium.blocks[b] = stored[b]

(* A READ that ends well has brought the blocks the host has stored.       *)
ReadsAreTrue ==
  answer # Absent /\ answer.status = "Good" /\ current.op = "read10" /\ current.blocks > 0 =>
    /\ received # Absent /\ Len(received.body) = current.blocks
    /\ \A i \in 1 .. current.blocks :
         stored[current.lba + i - 1] # Garbage => received.body[i] = stored[current.lba + i - 1]

(* The residue is what the host expected minus what was moved, for a host  *)
(* that expects no less than the command calls for, and nothing of one     *)
(* that moves nothing.                                                     *)
Silent(c) ==
  \/ c.op \in Acknowledged \union {"testUnitReady", "startStopUnit", "synchronizeCache10"}
  \/ c.op \in {"inquiry", "modeSense6", "readFormatCapacities"} /\ c.alloc = 0
  \/ c.op \in {"read10", "write10"} /\ c.blocks = 0
Moved ==
  IF current.op = "write10"
  THEN IF answer.status = "Good" THEN BlockSize * Least(Len(sent), current.blocks) ELSE 0
  ELSE IF received # Absent /\ received.tag = issued THEN received.len ELSE 0
ResidueExact ==
  answer # Absent /\ (Silent(current) => current.dtl = 0) /\ current.dtl >= Moved
    => answer.residue = current.dtl - Moved

(* REQUEST SENSE right after a failed command names a cause that command   *)
(* can have, whatever the control endpoint and the application do.         *)
CausesOf(c) ==
  IF c.lun > 0 THEN {"InvalidFieldInCDB"}
  ELSE CASE c.op = "unsupported"       -> {"InvalidCommand"}
         [] c.op = "startStopUnit"     -> {"InvalidFieldInCDB"}
         [] c.op = "testUnitReady"     -> {"MediumNotPresent"}
         [] c.op = "synchronizeCache10" -> {"HardwareError"}
         [] c.op \in {"inquiry", "modeSense6"} -> {"HardwareError"}
         [] c.op = "requestSense"      -> Senses
         [] OTHER -> {"MediumNotPresent", "HardwareError", "MediumError"}
                     \union (IF c.op = "write10" THEN {"WriteProtected"} ELSE {})
                     \union (IF c.lba + c.blocks > BlockCount THEN {"LBAOutOfRange"} ELSE {})
SenseReported ==
  answer # Absent /\ answer.after # Absent /\ answer.status = "Good" /\ current.op = "requestSense"
    => received.body[1] \in CausesOf(answer.after)

(* Every command is answered, as long as nothing fails, is changed or is   *)
(* given up, and no command is larger than the driver's buffer.            *)
Undisturbed == troubles = 0 /\ pc # "panicked"
CommandAnswered == (host # "idle" /\ Undisturbed) ~> (host = "idle" \/ ~Undisturbed)
=============================================================================
