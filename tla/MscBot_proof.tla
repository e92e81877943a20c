---------------------------- MODULE MscBot_proof ----------------------------
(***************************************************************************)
(* Proofs about MscBot: its type invariant, that what the host was told is *)
(* stored is on the medium, that reads bring it, that residues are exact,  *)
(* and that sense data name the cause of a failure.                        *)
(*                                                                         *)
(* A command's status is right if what led to it was: the block is the     *)
(* command's own, the data are its data in their order, the medium has     *)
(* them, and nothing old comes between.  BotInv says this of every stage   *)
(* the command passes through and of all that waits in the two pipes.      *)
(***************************************************************************)
EXTENDS MscBot, SequenceTheorems, TLAPS

(* Data are counted in bytes: one multiple of the block size exceeds       *)
(* another by a whole block or not at all.                                 *)
LEMMA MultiplesDiffer ==
  ASSUME NEW m \in Nat \ {0}, NEW a \in Nat, NEW b \in Nat, a < b
  PROVE  a * m + m <= b * m
<1>1. (b - a - 1) * m >= 0
  <2> DEFINE d == b - a - 1
  <2>1. d \in Nat
    OBVIOUS
  <2> HIDE DEF d
  <2>2. d * m >= 0
    BY <2>1
  <2> QED BY <2>2 DEF d
<1>2. (b - a - 1) * m = b * m - a * m - m
  OBVIOUS
<1>3. a * m \in Int /\ b * m \in Int
  OBVIOUS
<1> QED BY <1>1, <1>2, <1>3

LEMMA MultipleDivides ==
  ASSUME NEW m \in Nat \ {0}, NEW n \in Nat
  PROVE  (n * m) % m = 0 /\ (n * m) \div m = n
<1> DEFINE x == n * m
           q == x \div m
           r == x % m
<1>1. x \in Nat
  OBVIOUS
<1> HIDE DEF x
<1>2. q \in Nat /\ r \in 0 .. m - 1 /\ x = m * q + r
  BY <1>1
<1> HIDE DEF q, r
<1>3. n * m = q * m + r
  BY <1>2 DEF x
<1>4. n = q
  <2>1. n < q => n * m + m <= q * m
    BY <1>2, MultiplesDiffer
  <2>2. q < n => q * m + m <= n * m
    BY <1>2, MultiplesDiffer
  <2>3. n * m \in Int /\ q * m \in Int
    BY <1>2
  <2> QED BY <1>2, <1>3, <2>1, <2>2, <2>3
<1>5. r = 0
  BY <1>2, <1>3, <1>4
<1> QED BY <1>4, <1>5 DEF x, q, r

(* The stages of a command.                                                *)
Deciding  == pc = "command"
Working   == pc \in {"command", "loading", "receiving", "awaiting", "storing", "ejecting", "sending"}
InCommand == Working \/ pc = "status"

(* What a stage says of its command.                                       *)
InBuffer == cbw.blocks > 0 /\ cbw.lba + cbw.blocks <= BlockCount /\ cbw.blocks <= BufferBlocks
StageInv ==
  /\ InCommand => cbw \in Commands
  /\ Working /\ ~Deciding => cbw.lun = 0
  /\ pc = "loading" => cbw.op = "read10" /\ InBuffer
  /\ pc \in {"receiving", "awaiting", "storing"} => cbw.op = "write10" /\ InBuffer
  /\ pc = "receiving" => total <= Length
  /\ pc = "awaiting" => total < Length
  /\ pc = "storing" => total = Length
  /\ pc = "ejecting" => cbw.op = "startStopUnit"
  /\ pc = "sending" => \/ cbw.op \in DOMAIN FixedLength /\ ~Silent(cbw)
                       \/ cbw.op = "read10" /\ cbw.blocks > 0

(* Tags grow along the pipes: what waits is younger than the command the   *)
(* driver has, what was answered is not.                                   *)
Younger(i) == outPipe[i].kind = "cbw" => tag < outPipe[i].tag /\ outPipe[i].tag <= issued
CommandTags ==
  /\ tag <= issued
  /\ issued > 0 => current \in Commands
  /\ tag = issued /\ issued > 0 => cbw = current
  /\ host # "idle" \/ InCommand => issued > 0
  /\ InCommand => tag > 0
OutTags ==
  /\ \A i \in DOMAIN outPipe : Younger(i)
  /\ \A i \in DOMAIN outPipe : outPipe[i].kind = "cbw" /\ outPipe[i].tag = issued => outPipe[i].command = current
  /\ \A i, j \in DOMAIN outPipe :
       i < j /\ outPipe[i].kind = "cbw" /\ outPipe[j].kind = "cbw" => outPipe[i].tag < outPipe[j].tag
InTags ==
  /\ \A i \in DOMAIN inPipe : inPipe[i].tag <= tag
  /\ \A i \in DOMAIN inPipe : Working \/ (InCommand /\ inPipe[i].kind = "csw") => inPipe[i].tag < tag
  /\ \A i, j \in DOMAIN inPipe : i < j /\ inPipe[i].kind = "csw" => inPipe[i].tag < inPipe[j].tag
AnswerTags ==
  /\ received # Absent => received.kind = "data" /\ received.tag <= tag
  /\ received # Absent /\ Working => received.tag < tag
  /\ answer # Absent => host = "idle" /\ issued > 0 /\ tag = issued /\ ~InCommand
TagInv == CommandTags /\ OutTags /\ InTags /\ AnswerTags

(* The data of the current command follow its block, until the driver has  *)
(* taken the first n of them.                                              *)
DataOf(i) == [kind |-> "data", value |-> <<issued, i>>]
Follows(k, n) == Len(outPipe) + n = k + Len(sent) /\ \A j \in 1 .. Len(outPipe) - k : outPipe[k + j] = DataOf(n + j - 1)
Taking(n) ==
  /\ total = n * BlockSize /\ Follows(0, n)
  /\ \A i \in 0 .. n - 1 : buf[i] = <<issued, i>>
Collecting == pc \in {"receiving", "awaiting", "storing"}
SentInv == \A i \in DOMAIN sent : sent[i] = <<issued, i - 1>>
DataInv ==
  /\ SentInv
  /\ \A k \in DOMAIN outPipe : outPipe[k].kind = "cbw" /\ outPipe[k].tag = issued => Follows(k, 0)
  /\ tag = issued /\ Deciding => Follows(0, 0)
  /\ tag = issued /\ Collecting => \E n \in 0 .. cbw.blocks : Taking(n)

(* No command under way can overwrite what the host relies on.             *)
Clears(c) == \A b \in WriteOf(c) : stored[b] = Garbage
MediumInv ==
  /\ \A b \in Blocks : stored[b] # Garbage => medium.blocks[b] = stored[b]
  /\ Working => Clears(cbw)
  /\ \A i \in DOMAIN outPipe : outPipe[i].kind = "cbw" => Clears(outPipe[i].command)

(* What the data p the host has last and a verdict v have to say of a       *)
(* command c: t is its tag, d the data sent for it, m the medium, s what   *)
(* the host relies on, o the failure it asks about, h and k the state of   *)
(* the host and the sense the driver keeps.                                *)
IsData(p, t)      == p # Absent /\ p.kind = "data" /\ p.tag = t
IsStored(c, d, m) == Len(d) >= c.blocks /\ \A b \in WriteOf(c) : m[b] = d[b - c.lba + 1]
IsRead(c, body, s) ==
  Len(body) = c.blocks /\ \A i \in 1 .. c.blocks : s[c.lba + i - 1] # Garbage => body[i] = s[c.lba + i - 1]
MovedBy(c, p, v, t, d) ==
  IF c.op = "write10" THEN IF v.status = "Good" THEN BlockSize * Least(Len(d), c.blocks) ELSE 0
  ELSE IF IsData(p, t) THEN p.len ELSE 0
Wrote(c, v, d, m) == v.status = "Good" /\ c.op = "write10" => IsStored(c, d, m)
Brought(c, p, v, t, s) ==
  v.status = "Good" /\ c.op = "read10" /\ c.blocks > 0 => IsData(p, t) /\ IsRead(c, p.body, s)
Counted(c, p, v, t, d) ==
  (Silent(c) => c.dtl = 0) /\ c.dtl >= MovedBy(c, p, v, t, d) => v.residue = c.dtl - MovedBy(c, p, v, t, d)
Excused(c, p, v, t, o) ==
  v.status = "Good" /\ c.op = "requestSense" /\ o # Absent => IsData(p, t) /\ p.body[1] \in CausesOf(o)
Blamed(c, v, h, k) == h # "idle" /\ v.status = "Failed" => k \in CausesOf(c)
Result(p, v) ==
  /\ Wrote(current, v, sent, medium.blocks) /\ Brought(current, p, v, issued, stored)
  /\ Counted(current, p, v, issued, sent) /\ Excused(current, p, v, issued, owed)
  /\ Blamed(current, v, host, sense)

Prior(i) == IF i = 1 THEN received ELSE inPipe[i - 1]
Latest   == IF inPipe = <<>> THEN received ELSE inPipe[Len(inPipe)]
ReplyInv ==
  pc = "sending" /\ tag = issued =>
    /\ cbw.op = "read10" => IsRead(cbw, reply.body, stored)
    /\ cbw.op = "requestSense" /\ owed # Absent => reply.body[1] \in CausesOf(owed)
VerdictInv == pc = "status" /\ tag = issued => Result(Latest, verdict)
StatusInv  == \A i \in DOMAIN inPipe : inPipe[i].kind = "csw" /\ inPipe[i].tag = issued => Result(Prior(i), inPipe[i])
AnswerInv ==
  answer # Absent =>
    /\ Brought(current, received, answer, issued, stored) /\ Counted(current, received, answer, issued, sent)
    /\ Excused(current, received, answer, issued, answer.after)
ResultInv == ReplyInv /\ VerdictInv /\ StatusInv /\ AnswerInv

(* A failure whose cause was not asked for yet is kept until it is.        *)
SenseInv ==
  owed # Absent =>
    \/ host = "idle" /\ tag = issued /\ ~InCommand /\ sense \in CausesOf(owed)
    \/ host # "idle" /\ tag + 1 = issued /\ ~InCommand /\ sense \in CausesOf(owed)
    \/ host # "idle" /\ tag = issued /\ (Working => sense \in CausesOf(owed))

LEMMA CommandFields ==
  ASSUME NEW c \in Commands
  PROVE  /\ c.op \in Operations /\ c.lun \in Nat /\ c.lba \in Nat /\ c.blocks \in Nat /\ c.alloc \in Nat
         /\ c.dtl \in Nat /\ c.dtl < Word /\ c.eject \in BOOLEAN
         /\ c # Absent
  BY BotAssumption DEF CommandType

(* A command ends with a residue of 32 bits, whatever it is computed from. *)
LEMMA FinishType ==
  ASSUME NEW s \in Statuses, NEW r \in Int, NEW k \in Senses, Finish(s, r, k)
  PROVE  verdict' \in [status : Statuses, residue : Residues] /\ sense' \in Senses /\ pc' = "status"
<1>1. Word \in Nat \ {0}
  BY BotAssumption
<1>2. r % Word \in 0 .. Word - 1
  BY <1>1
<1> QED BY <1>2 DEF Finish, Residues, Goto


(* The types in parts, by who changes them.                                *)
MediumType ==
  /\ medium \in [kind : {"memory", "file"}, blocks : [Blocks -> Content], present : BOOLEAN,
                 readOnly : BOOLEAN, removable : BOOLEAN]
  /\ FileBacked => medium.present /\ ~medium.removable
DriverType ==
  /\ pc \in Stages /\ cbw \in Commands \union {Absent} /\ tag \in Nat /\ sense \in Senses
  /\ buf \in [0 .. BufferBlocks - 1 -> Content] /\ total \in Nat
  /\ pc = "sending" => reply \in Reply
  /\ verdict \in [status : Statuses, residue : Residues]
WiringType ==
  /\ bound \in BOOLEAN /\ up \in BOOLEAN /\ cancelled \in BOOLEAN
  /\ troubles \in 0 .. MaxTroubles
PipeType == outPipe \in Seq(OutItem) /\ inPipe \in Seq(InItem)
HostType ==
  /\ host \in {"idle", "sending", "reading"}
  /\ current \in Commands \union {Absent} /\ owed \in Commands \union {Absent}
  /\ issued \in 0 .. MaxCommands
  /\ sent \in Seq(Nat \X Nat)
  /\ received \in InItem \union {Absent}
  /\ stored \in [Blocks -> Content]
TypeInv == MediumType /\ DriverType /\ WiringType /\ PipeType /\ HostType

LEMMA InitType == Init => TypeInv
<1> SUFFICES ASSUME Init PROVE TypeInv
  OBVIOUS
<1>1. BlockCount \in Nat \ {0} /\ BufferBlocks \in Nat \ {0} /\ Word \in Nat \ {0} /\ MaxCommands \in Nat /\ MaxTroubles \in Nat
  BY BotAssumption
<1>2. <<>> \in Seq(OutItem) /\ <<>> \in Seq(InItem) /\ <<>> \in Seq(Nat \X Nat)
  OBVIOUS
<1>3. NoVerdict \in [status : Statuses, residue : Residues]
  BY <1>1 DEF NoVerdict, Statuses, Residues
<1>4. MediumType
  <2> DEFINE blank == [b \in Blocks |-> Garbage]
  <2>2. medium \in [kind : {"memory", "file"}, blocks : {blank}, present : {TRUE}, readOnly : BOOLEAN, removable : BOOLEAN]
    BY DEF Init
  <2>1. blank \in [Blocks -> Content]
    BY DEF Content
  <2> HIDE DEF blank
  <2>4. medium \in [kind : {"memory", "file"}, blocks : [Blocks -> Content], present : BOOLEAN,
                    readOnly : BOOLEAN, removable : BOOLEAN] /\ medium.present
    BY <2>1, <2>2
  <2>3. FileBacked => ~medium.removable
    BY DEF Init
  <2> QED BY <2>3, <2>4 DEF MediumType, FileBacked
<1>5. DriverType
  BY <1>3 DEF Init, DriverType, Content, Stages, Senses
<1>6. WiringType
  <2>1. bound = TRUE /\ up = TRUE /\ cancelled = FALSE /\ troubles = 0
    BY DEF Init
  <2>2. troubles \in 0 .. MaxTroubles
    BY <1>1, <2>1
  <2> QED BY <2>1, <2>2, Zenon DEF WiringType
<1>7. PipeType
  BY <1>2 DEF Init, PipeType
<1>8. HostType
  <2>1. [b \in Blocks |-> Garbage] \in [Blocks -> Content]
    BY DEF Content
  <2>2. issued \in 0 .. MaxCommands
    BY <1>1 DEF Init
  <2> QED BY <1>2, <2>1, <2>2 DEF Init, HostType
<1> QED BY <1>4, <1>5, <1>6, <1>7, <1>8 DEF TypeInv

LEMMA TroubleType == WiringType /\ (Trouble \/ UNCHANGED troubles) => troubles' \in 0 .. MaxTroubles
  BY BotAssumption DEF WiringType, Trouble

(* The medium is written by Store and StoreFails, ejected, and changed by  *)
(* the application.                                                        *)
LEMMA OverwrittenType ==
  ASSUME MediumType, DriverType, StageInv, pc = "storing", NEW n \in 0 .. cbw.blocks
  PROVE  Overwritten(n) \in [Blocks -> Content]
<1>1. cbw \in Commands /\ InBuffer
  BY DEF StageInv, InCommand, Working
<1>2. cbw.blocks \in Nat /\ cbw.lba \in Nat
  BY <1>1, CommandFields
<1>3. BufferBlocks \in Nat
  BY BotAssumption
<1> SUFFICES ASSUME NEW b \in Blocks
             PROVE  (IF b \in cbw.lba .. cbw.lba + n - 1 THEN buf[b - cbw.lba] ELSE medium.blocks[b]) \in Content
  BY DEF Overwritten
<1>4. b \in cbw.lba .. cbw.lba + n - 1 => b - cbw.lba \in 0 .. BufferBlocks - 1
  BY <1>1, <1>2, <1>3 DEF Blocks, InBuffer
<1> QED BY <1>4 DEF MediumType, DriverType

LEMMA MediumTyped ==
  ASSUME TypeInv, StageInv, [Next]_vars
  PROVE  MediumType'
<1> USE DEF TypeInv
<1>1. CASE UNCHANGED medium
  BY <1>1 DEF MediumType, FileBacked
<1>2. ASSUME NEW n \in 0 .. cbw.blocks, pc = "storing", medium' = [medium EXCEPT !.blocks = Overwritten(n)]
      PROVE  MediumType'
  BY <1>2, OverwrittenType DEF MediumType, FileBacked
<1>3. CASE Store
  <2>1. cbw.blocks \in Nat
    BY <1>3, CommandFields DEF Store, StageInv, InCommand, Working
  <2> QED BY <1>2, <1>3, <2>1 DEF Store
<1>4. CASE StoreFails
  BY <1>1, <1>2, <1>4 DEF StoreFails
<1>5. CASE Eject
  BY <1>1, <1>5 DEF Eject, MediumType, FileBacked
<1>6. CASE ChangeMedium
  BY <1>6 DEF ChangeMedium, MediumType, FileBacked
<1>7. ASSUME DriverStep PROVE UNCHANGED medium \/ Store \/ StoreFails \/ Eject
  BY <1>7 DEF DriverStep, Listen, RunEnds, ReadCBW, HandleAtOnce, HandleResponse, HandleTransfer, HandleEject,
     Load, LoadFails, Receive, ReceiveData, Send, SendFails, sendCSW, sendCSWFails, ReceiveFails
<1>8. ASSUME DriverFails \/ HostWorks \/ (\E c \in Commands : HostSend(c)) \/ HostGivesUp \/ Rewire \/ Cancel
      PROVE  UNCHANGED medium
  BY <1>8 DEF DriverFails, ReadFails, SyncFails, ReceiveTooMuch, HostWorks, HostSendData, HostReadData,
     HostReadStatus, HostSend, HostGivesUp, Rewire, Cancel
<1> QED BY <1>1, <1>3, <1>4, <1>5, <1>6, <1>7, <1>8 DEF Next, vars

(* The steps by what they do: some change nothing a command depends on,    *)
(* some carry the command on, and some end it with a verdict.              *)
QuietSteps   == Listen \/ RunEnds \/ ReadFails \/ Rewire \/ Cancel \/ ChangeMedium \/ UNCHANGED vars
AdvanceSteps == HandleResponse \/ HandleTransfer \/ HandleEject \/ Load \/ Receive
FinishSteps  == HandleAtOnce \/ SyncFails \/ LoadFails \/ ReceiveFails \/ ReceiveTooMuch
                \/ Store \/ StoreFails \/ Eject \/ Send \/ SendFails
StatusSteps  == sendCSW \/ sendCSWFails

LEMMA StepCases ==
  [Next]_vars =>
    \/ QuietSteps \/ AdvanceSteps \/ FinishSteps \/ StatusSteps \/ ReadCBW \/ ReceiveData
    \/ HostSendData \/ HostReadData \/ HostReadStatus \/ HostGivesUp \/ \E c \in Commands : HostSend(c)
  BY DEF Next, DriverStep, DriverFails, HostWorks, QuietSteps, AdvanceSteps, FinishSteps, StatusSteps

Quiet ==
  /\ UNCHANGED <<cbw, tag, sense, buf, total, reply, verdict, outPipe, inPipe, hostVars>>
  /\ medium'.blocks = medium.blocks
  /\ pc' = pc \/ (~InCommand /\ pc' \in {"idle", "waiting", "ended"})
Advance ==
  /\ Working /\ pc' \in Stages \ {"command", "status", "idle", "waiting", "ended"}
  /\ UNCHANGED <<medium, cbw, tag, sense, verdict, outPipe, inPipe, hostVars>>
Ends ==
  /\ Working /\ pc' = "status"
  /\ UNCHANGED <<cbw, tag, buf, total, reply, hostVars>>

LEMMA QuietFrame ==
  ASSUME MediumType, QuietSteps
  PROVE  Quiet
<1>1. CASE Listen \/ RunEnds \/ ReadFails
  BY <1>1 DEF Listen, RunEnds, ReadFails, Quiet, InCommand, Working, Goto, hostVars
<1>2. CASE Rewire \/ Cancel \/ UNCHANGED vars
  BY <1>2 DEF Rewire, Cancel, vars, Quiet, driverVars, hostVars
<1>3. CASE ChangeMedium
  <2>1. medium'.blocks = medium.blocks
    BY <1>3 DEF ChangeMedium, MediumType
  <2> QED BY <1>3, <2>1 DEF ChangeMedium, Quiet, driverVars, hostVars
<1> QED BY <1>1, <1>2, <1>3 DEF QuietSteps

LEMMA AdvanceFrame ==
  ASSUME AdvanceSteps
  PROVE  Advance
  BY DEF AdvanceSteps, HandleResponse, HandleTransfer, HandleEject, Load, Receive, Advance, Working, Goto, hostVars, Stages

LEMMA FinishFrame ==
  ASSUME FinishSteps
  PROVE  Ends
<1>1. CASE HandleAtOnce
  <2>1. pc' = "status"
    BY <1>1 DEF HandleAtOnce, Decided, RefuseBadLUN, RefuseUnsupported, handleTestUnitReady, Acknowledge,
       handleSynchronizeCache10, NeedsPresentMedium, NothingAskedFor, WriteProtect, OutOfRange, Finish, Goto
  <2> QED BY <1>1, <2>1 DEF HandleAtOnce, Ends, Working, hostVars
<1>2. CASE SyncFails \/ LoadFails \/ ReceiveFails \/ ReceiveTooMuch
  BY <1>2 DEF SyncFails, LoadFails, ReceiveFails, ReceiveTooMuch, Finish, Goto, Ends, Working, hostVars
<1>3. CASE Store \/ StoreFails \/ Eject
  BY <1>3 DEF Store, StoreFails, Eject, Finish, Goto, Ends, Working, hostVars
<1>4. CASE Send \/ SendFails
  BY <1>4 DEF Send, SendFails, Finish, Goto, Ends, Working, hostVars
<1> QED BY <1>1, <1>2, <1>3, <1>4 DEF FinishSteps

LEMMA ReplyTyped ==
  ASSUME TypeInv, StageInv, AdvanceSteps
  PROVE  pc' = "sending" => reply' \in Reply
<1> USE DEF TypeInv
<1>1. CASE HandleResponse
  <2>1. cbw \in Commands
    BY <1>1 DEF HandleResponse, StageInv, InCommand, Working
  <2>2. SendLength \in Nat
    BY <1>1, <2>1, CommandFields DEF HandleResponse, SendLength, AllocLength, Least, FixedLength
  <2>3. (IF cbw.op = "requestSense" THEN <<sense>> ELSE <<>>) \in Seq(Content \union Senses)
    <3>1. sense \in Content \union Senses
      BY DEF DriverType
    <3>2. <<sense>> \in Seq(Content \union Senses)
      BY <3>1
    <3>3. <<>> \in Seq(Content \union Senses)
      OBVIOUS
    <3> QED BY <3>2, <3>3
  <2> QED BY <1>1, <2>2, <2>3 DEF HandleResponse, Reply
<1>2. CASE Load
  <2>1. cbw \in Commands /\ InBuffer
    BY <1>2 DEF Load, StageInv, InCommand, Working
  <2>2. cbw.blocks \in Nat /\ cbw.lba \in Nat /\ BlockCount \in Nat /\ BlockSize \in Nat
    BY <2>1, CommandFields, BotAssumption
  <2>3. Length \in Nat
    BY <2>2 DEF Length
  <2>4. ASSUME NEW i \in 1 .. cbw.blocks PROVE Read(i - 1) \in Content
    <3>1. cbw.lba + (i - 1) \in Blocks
      BY <2>1, <2>2 DEF InBuffer, Blocks
    <3> QED BY <3>1 DEF Read, MediumType
  <2>5. [i \in 1 .. cbw.blocks |-> Read(i - 1)] \in Seq(Content \union Senses)
    BY <2>2, <2>4
  <2> QED BY <1>2, <2>3, <2>5 DEF Load, Reply
<1>3. CASE HandleTransfer \/ HandleEject \/ Receive
  BY <1>3 DEF HandleTransfer, HandleEject, Receive, Goto
<1> QED BY <1>1, <1>2, <1>3 DEF AdvanceSteps

LEMMA BufTyped ==
  ASSUME TypeInv, StageInv, AdvanceSteps \/ ReceiveData
  PROVE  buf' \in [0 .. BufferBlocks - 1 -> Content] /\ total' \in Nat
<1> USE DEF TypeInv
<1>1. CASE Load
  <2>1. cbw \in Commands /\ InBuffer
    BY <1>1 DEF Load, StageInv, InCommand, Working
  <2>2. cbw.blocks \in Nat /\ cbw.lba \in Nat /\ BlockCount \in Nat
    BY <2>1, CommandFields, BotAssumption
  <2>3. ASSUME NEW i \in 0 .. BufferBlocks - 1, i < cbw.blocks PROVE Read(i) \in Content
    <3>1. cbw.lba + i \in Blocks
      BY <2>1, <2>2, <2>3, BotAssumption DEF InBuffer, Blocks
    <3> QED BY <3>1 DEF Read, MediumType
  <2>4. DOMAIN buf = 0 .. BufferBlocks - 1 /\ \A i \in 0 .. BufferBlocks - 1 : buf[i] \in Content
    BY DEF DriverType
  <2>5. buf' = [i \in 0 .. BufferBlocks - 1 |-> IF i < cbw.blocks THEN Read(i) ELSE buf[i]]
    BY <1>1, <2>4 DEF Load
  <2> QED BY <1>1, <2>3, <2>4, <2>5 DEF Load, DriverType
<1>2. CASE ReceiveData
  <2> DEFINE p == Head(outPipe)
  <2>1. p \in OutItem
    BY <1>2 DEF ReceiveData, PipeType
  <2> HIDE DEF p
  <2>2. cbw \in Commands /\ total < Length
    BY <1>2 DEF ReceiveData, StageInv, InCommand, Working
  <2>3. PacketLength(p) \in Nat /\ Length \in Nat /\ total \in Nat
    BY <2>2, CommandFields, BotAssumption DEF PacketLength, CBWSize, Length, DriverType
  <2>4. Taken(p) \in Nat
    BY <2>2, <2>3 DEF Taken, Least
  <2>5. total' \in Nat
    BY <1>2, <2>3, <2>4 DEF ReceiveData, p
  <2>6. Filled(p) \in [0 .. BufferBlocks - 1 -> Content]
    <3>1. p.kind = "data" => p.value \in Content
      BY <2>1 DEF OutItem, Content
    <3>2. buf \in [0 .. BufferBlocks - 1 -> Content]
      BY DEF DriverType
    <3>3. Garbage \in Content
      BY DEF Content
    <3>4. CASE p.kind = "data"
      <4>1. [buf EXCEPT ![total \div BlockSize] = p.value] \in [0 .. BufferBlocks - 1 -> Content]
        BY <3>1, <3>2, <3>4
      <4>2. [i \in DOMAIN buf |-> IF i * BlockSize < total + Taken(p) /\ (i + 1) * BlockSize > total
                                  THEN Garbage ELSE buf[i]] \in [0 .. BufferBlocks - 1 -> Content]
        BY <3>2, <3>3
      <4> QED BY <4>1, <4>2 DEF Filled
    <3>5. CASE p.kind # "data"
      <4>1. Filled(p) = [i \in DOMAIN buf |-> IF i * BlockSize < total + Taken(p) /\ (i + 1) * BlockSize > total
                                  THEN Garbage ELSE buf[i]]
        BY <3>5 DEF Filled
      <4> QED BY <3>2, <3>3, <4>1
    <3> QED BY <3>4, <3>5
  <2> QED BY <1>2, <2>5, <2>6 DEF ReceiveData, p
<1>3. CASE HandleTransfer
  BY <1>3 DEF HandleTransfer, DriverType
<1>4. CASE HandleResponse \/ HandleEject \/ Receive
  BY <1>4 DEF HandleResponse, HandleEject, Receive, DriverType
<1> QED BY <1>1, <1>2, <1>3, <1>4 DEF AdvanceSteps

LEMMA VerdictTyped ==
  ASSUME TypeInv, StageInv, FinishSteps
  PROVE  verdict' \in [status : Statuses, residue : Residues] /\ sense' \in Senses
<1> USE DEF TypeInv
<1>1. \A s \in Statuses, r \in Int, k \in Senses :
        Finish(s, r, k) => verdict' \in [status : Statuses, residue : Residues] /\ sense' \in Senses
  BY FinishType
<1>2. cbw \in Commands
  BY FinishFrame DEF StageInv, InCommand, Ends
<1>3. cbw.dtl \in Int /\ Length \in Int /\ sense \in Senses /\ 0 \in Int
  BY <1>2, CommandFields, BotAssumption DEF Length, DriverType
<1>4. "Good" \in Statuses /\ "Failed" \in Statuses
  BY DEF Statuses
<1>5. {"NoSense", "MediumNotPresent", "InvalidFieldInCDB", "InvalidCommand",
       "LBAOutOfRange", "WriteProtected", "MediumError", "HardwareError"} \subseteq Senses
  BY DEF Senses
<1>7. CASE HandleAtOnce
  BY <1>1, <1>3, <1>4, <1>5, <1>7 DEF HandleAtOnce, Decided, RefuseBadLUN, RefuseUnsupported, handleTestUnitReady,
     Acknowledge, handleSynchronizeCache10, NeedsPresentMedium, NothingAskedFor, WriteProtect, OutOfRange
<1>8. CASE SyncFails \/ LoadFails \/ ReceiveFails \/ ReceiveTooMuch
  BY <1>1, <1>3, <1>4, <1>5, <1>8 DEF SyncFails, LoadFails, ReceiveFails, ReceiveTooMuch
<1>9. CASE Store \/ StoreFails \/ Eject
  <2>1. cbw.dtl - Length \in Int
    BY <1>3
  <2> QED BY <1>1, <1>3, <1>4, <1>5, <1>9, <2>1 DEF Store, StoreFails, Eject
<1>10. CASE Send
  <2>1. reply \in Reply
    BY <1>10 DEF Send, DriverType
  <2>2. cbw.dtl - reply.len \in Int
    BY <1>3, <2>1 DEF Reply
  <2> QED BY <1>1, <1>3, <1>4, <1>5, <1>10, <2>2 DEF Send
<1>11. CASE SendFails
  BY <1>1, <1>3, <1>4, <1>5, <1>11 DEF SendFails
<1> QED BY <1>7, <1>8, <1>9, <1>10, <1>11 DEF FinishSteps

LEMMA DriverTyped ==
  ASSUME TypeInv, StageInv, TagInv, [Next]_vars
  PROVE  DriverType'
<1> USE DEF TypeInv
<1>1. CASE QuietSteps
  <2>1. Quiet
    BY <1>1, QuietFrame
  <2>2. pc' \in Stages /\ (pc' = "sending" => pc = "sending")
    BY <2>1 DEF Quiet, DriverType, Stages
  <2>3. UNCHANGED <<cbw, tag, sense, buf, total, reply, verdict>>
    BY <2>1 DEF Quiet
  <2> QED BY <2>2, <2>3 DEF DriverType
<1>2. CASE AdvanceSteps
  <2>1. Advance
    BY <1>2, AdvanceFrame
  <2>2. pc' \in Stages /\ UNCHANGED <<cbw, tag, sense, verdict>>
    BY <2>1 DEF Advance
  <2> QED BY <1>2, <2>2, BufTyped, ReplyTyped DEF DriverType
<1>3. CASE FinishSteps
  <2>1. Ends
    BY <1>3, FinishFrame
  <2>2. pc' = "status" /\ UNCHANGED <<cbw, tag, buf, total>>
    BY <2>1 DEF Ends
  <2> QED BY <1>3, <2>2, VerdictTyped DEF DriverType, Stages
<1>4. CASE StatusSteps
  <2>1. NoVerdict \in [status : Statuses, residue : Residues]
    BY BotAssumption DEF NoVerdict, Statuses, Residues
  <2> QED BY <1>4, <2>1 DEF StatusSteps, sendCSW, sendCSWFails, Return, Goto, DriverType, Stages
<1>5. CASE ReadCBW
  <2>1. Head(outPipe) \in OutItem
    BY <1>5 DEF ReadCBW, PipeType
  <2>2. cbw' \in Commands \union {Absent} /\ tag' \in Nat
    BY <1>5, <2>1 DEF ReadCBW, OutItem, DriverType
  <2>3. pc' \in {"command", "idle"} /\ UNCHANGED <<sense, buf, total, reply, verdict>>
    BY <1>5 DEF ReadCBW, Goto
  <2> QED BY <2>2, <2>3 DEF DriverType, Stages
<1>6. CASE ReceiveData
  <2>1. pc' = "receiving" /\ UNCHANGED <<cbw, tag, sense, reply, verdict>>
    BY <1>6 DEF ReceiveData, Goto
  <2> QED BY <1>6, <2>1, BufTyped DEF DriverType, Stages
<1>7. CASE HostSendData \/ HostReadData \/ HostReadStatus \/ \E c \in Commands : HostSend(c)
  <2>1. UNCHANGED driverVars
    BY <1>7 DEF HostSendData, HostReadData, HostReadStatus, HostSend
  <2> QED BY <2>1 DEF driverVars, DriverType
<1>8. CASE HostGivesUp
  BY <1>8 DEF HostGivesUp, DriverType, Senses
<1> QED BY <1>1, <1>2, <1>3, <1>4, <1>5, <1>6, <1>7, <1>8, StepCases

LEMMA WiringTyped ==
  ASSUME TypeInv, [Next]_vars
  PROVE  WiringType'
<1>1. WiringType
  BY DEF TypeInv
<1>2. Trouble \/ UNCHANGED troubles
  <2>1. CASE QuietSteps
    BY <2>1 DEF QuietSteps, Listen, RunEnds, ReadFails, Rewire, Cancel, ChangeMedium, vars
  <2>2. CASE AdvanceSteps \/ ReadCBW \/ ReceiveData \/ StatusSteps
    BY <2>2 DEF AdvanceSteps, HandleResponse, HandleTransfer, HandleEject, Load, Receive, ReadCBW, ReceiveData,
       StatusSteps, sendCSW, sendCSWFails
  <2>3. CASE FinishSteps
    BY <2>3 DEF FinishSteps, HandleAtOnce, SyncFails, LoadFails, ReceiveFails, ReceiveTooMuch, Store, StoreFails,
       Eject, Send, SendFails
  <2>4. CASE HostSendData \/ HostReadData \/ HostReadStatus \/ HostGivesUp \/ \E c \in Commands : HostSend(c)
    BY <2>4 DEF HostSendData, HostReadData, HostReadStatus, HostGivesUp, HostSend
  <2> QED BY <2>1, <2>2, <2>3, <2>4, StepCases
<1>3. troubles' \in 0 .. MaxTroubles
  BY <1>1, <1>2, TroubleType
<1>4. bound' \in BOOLEAN /\ up' \in BOOLEAN /\ cancelled' \in BOOLEAN
  <2>1. CASE UNCHANGED wiringVars
    BY <1>1, <2>1, Zenon DEF wiringVars, WiringType
  <2>2. CASE Rewire
    BY <1>1, <2>2, Zenon DEF Rewire, WiringType
  <2>3. CASE Cancel
    BY <1>1, <2>3, Zenon DEF Cancel, WiringType
  <2>4. CASE QuietSteps
    BY <2>1, <2>2, <2>3, <2>4 DEF QuietSteps, Listen, RunEnds, ReadFails, ChangeMedium, vars
  <2>5. CASE AdvanceSteps \/ ReadCBW \/ ReceiveData \/ StatusSteps
    BY <2>1, <2>5 DEF AdvanceSteps, HandleResponse, HandleTransfer, HandleEject, Load, Receive, ReadCBW, ReceiveData,
       StatusSteps, sendCSW, sendCSWFails
  <2>6. CASE FinishSteps
    BY <2>1, <2>6 DEF FinishSteps, HandleAtOnce, SyncFails, LoadFails, ReceiveFails, ReceiveTooMuch, Store, StoreFails,
       Eject, Send, SendFails
  <2>7. CASE HostSendData \/ HostReadData \/ HostReadStatus \/ HostGivesUp \/ \E c \in Commands : HostSend(c)
    BY <2>1, <2>7 DEF HostSendData, HostReadData, HostReadStatus, HostGivesUp, HostSend
  <2> QED BY <2>4, <2>5, <2>6, <2>7, StepCases
<1> QED BY <1>3, <1>4, Zenon DEF WiringType

(* The pipes: who takes from them and who adds to them.                    *)
Status(v) == [kind |-> "csw", tag |-> tag, status |-> v.status, residue |-> v.residue]
Data      == [kind |-> "data", tag |-> tag, len |-> reply.len, body |-> reply.body]
Block(c)  == [kind |-> "cbw", command |-> c, tag |-> issued + 1]

LEMMA OutPipeSteps ==
  ASSUME TypeInv, [Next]_vars
  PROVE  \/ UNCHANGED outPipe
         \/ (ReadCBW \/ ReceiveData \/ ReceiveTooMuch) /\ outPipe # <<>> /\ outPipe' = Tail(outPipe)
         \/ HostSendData /\ outPipe' = Append(outPipe, DataOf(Len(sent)))
         \/ \E c \in Commands : HostSend(c) /\ outPipe' = Append(outPipe, Block(c))
<1>1. CASE QuietSteps
  BY <1>1, QuietFrame DEF Quiet, TypeInv
<1>2. CASE AdvanceSteps
  BY <1>2, AdvanceFrame DEF Advance
<1>3. CASE FinishSteps
  BY <1>3 DEF FinishSteps, HandleAtOnce, SyncFails, LoadFails, ReceiveFails, ReceiveTooMuch, Store, StoreFails,
       Eject, Send, SendFails
<1>4. CASE StatusSteps
  BY <1>4 DEF StatusSteps, sendCSW, sendCSWFails
<1>5. CASE ReadCBW \/ ReceiveData
  BY <1>5 DEF ReadCBW, ReceiveData
<1>6. CASE HostSendData \/ HostReadData \/ HostReadStatus \/ HostGivesUp
  BY <1>6 DEF HostSendData, HostReadData, HostReadStatus, HostGivesUp, DataOf
<1>7. CASE \E c \in Commands : HostSend(c)
  BY <1>7 DEF HostSend, Block
<1> QED BY <1>1, <1>2, <1>3, <1>4, <1>5, <1>6, <1>7, StepCases

LEMMA InPipeSteps ==
  ASSUME TypeInv, [Next]_vars
  PROVE  \/ UNCHANGED inPipe
         \/ Send /\ inPipe' = Append(inPipe, Data)
         \/ sendCSW /\ inPipe' = Append(inPipe, Status(verdict))
         \/ (HostReadData \/ HostReadStatus) /\ inPipe # <<>> /\ inPipe' = Tail(inPipe)
<1>1. CASE QuietSteps
  BY <1>1, QuietFrame DEF Quiet, TypeInv
<1>2. CASE AdvanceSteps
  BY <1>2, AdvanceFrame DEF Advance
<1>3. CASE FinishSteps
  BY <1>3 DEF FinishSteps, HandleAtOnce, SyncFails, LoadFails, ReceiveFails, ReceiveTooMuch, Store, StoreFails,
       Eject, Send, SendFails, Data
<1>4. CASE StatusSteps
  BY <1>4 DEF StatusSteps, sendCSW, sendCSWFails, Status
<1>5. CASE ReadCBW \/ ReceiveData
  BY <1>5 DEF ReadCBW, ReceiveData
<1>6. CASE HostSendData \/ HostReadData \/ HostReadStatus \/ HostGivesUp
  BY <1>6 DEF HostSendData, HostReadData, HostReadStatus, HostGivesUp
<1>7. CASE \E c \in Commands : HostSend(c)
  BY <1>7 DEF HostSend
<1> QED BY <1>1, <1>2, <1>3, <1>4, <1>5, <1>6, <1>7, StepCases

LEMMA PipeTyped ==
  ASSUME TypeInv, [Next]_vars
  PROVE  PipeType'
<1>1. outPipe \in Seq(OutItem) /\ inPipe \in Seq(InItem) /\ issued \in Nat /\ sent \in Seq(Nat \X Nat)
  BY BotAssumption DEF TypeInv, PipeType, HostType
<1>2. outPipe' \in Seq(OutItem)
  <2>1. DataOf(Len(sent)) \in OutItem
    BY <1>1 DEF DataOf, OutItem
  <2>2. ASSUME NEW c \in Commands PROVE Block(c) \in OutItem
    BY <1>1 DEF Block, OutItem
  <2>3. outPipe # <<>> => Tail(outPipe) \in Seq(OutItem)
    BY <1>1
  <2>4. \A x \in OutItem : Append(outPipe, x) \in Seq(OutItem)
    BY <1>1
  <2>5. CASE UNCHANGED outPipe
    BY <1>1, <2>5
  <2>6. CASE outPipe # <<>> /\ outPipe' = Tail(outPipe)
    BY <2>3, <2>6
  <2>7. CASE outPipe' = Append(outPipe, DataOf(Len(sent)))
    BY <2>1, <2>4, <2>7
  <2>8. CASE \E c \in Commands : outPipe' = Append(outPipe, Block(c))
    BY <2>2, <2>4, <2>8
  <2> QED BY <2>5, <2>6, <2>7, <2>8, OutPipeSteps
<1>3. inPipe' \in Seq(InItem)
  <2>1. tag \in Nat /\ verdict \in [status : Statuses, residue : Residues]
    BY DEF TypeInv, DriverType
  <2>2. Send => Data \in InItem
    <3>1. Send => reply \in Reply
      BY DEF Send, TypeInv, DriverType
    <3> QED BY <2>1, <3>1 DEF Data, Reply, InItem
  <2>3. Status(verdict) \in InItem
    BY <2>1 DEF Status, InItem
  <2>4. inPipe # <<>> => Tail(inPipe) \in Seq(InItem)
    BY <1>1
  <2>5. \A x \in InItem : Append(inPipe, x) \in Seq(InItem)
    BY <1>1
  <2>6. CASE UNCHANGED inPipe
    BY <1>1, <2>6
  <2>7. CASE Send /\ inPipe' = Append(inPipe, Data)
    BY <2>2, <2>5, <2>7
  <2>8. CASE inPipe' = Append(inPipe, Status(verdict))
    BY <2>3, <2>5, <2>8
  <2>9. CASE inPipe # <<>> /\ inPipe' = Tail(inPipe)
    BY <2>4, <2>9
  <2> QED BY <2>6, <2>7, <2>8, <2>9, InPipeSteps
<1> QED BY <1>2, <1>3 DEF PipeType

LEMMA HostTyped ==
  ASSUME TypeInv, DataInv, TagInv, MediumInv, ResultInv, [Next]_vars
  PROVE  HostType'
<1> USE DEF TypeInv
<1>1. CASE UNCHANGED hostVars
  BY <1>1 DEF hostVars, HostType
<1>2. CASE ~(HostSendData \/ HostReadData \/ HostReadStatus \/ HostGivesUp \/ \E c \in Commands : HostSend(c))
  <2>1. UNCHANGED hostVars
    <3>1. CASE QuietSteps
      BY <3>1, QuietFrame DEF Quiet
    <3>2. CASE AdvanceSteps \/ FinishSteps
      BY <3>2, AdvanceFrame, FinishFrame DEF Advance, Ends
    <3>3. CASE StatusSteps \/ ReadCBW \/ ReceiveData
      BY <3>3 DEF StatusSteps, sendCSW, sendCSWFails, ReadCBW, ReceiveData
    <3> QED BY <1>2, <3>1, <3>2, <3>3, StepCases
  <2> QED BY <1>1, <2>1
<1>3. CASE HostSendData
  <2>1. <<issued, Len(sent)>> \in Nat \X Nat
    BY BotAssumption DEF HostType
  <2>2. sent' \in Seq(Nat \X Nat)
    BY <1>3, <2>1 DEF HostSendData, HostType
  <2> QED BY <1>3, <2>2 DEF HostSendData, HostType
<1>4. CASE HostReadData
  <2>1. Head(inPipe) \in InItem
    BY <1>4 DEF HostReadData, PipeType
  <2> QED BY <1>4, <2>1 DEF HostReadData, HostType
<1>5. CASE HostReadStatus
  <2>1. stored' \in [Blocks -> Content]
    <3>1. CASE UNCHANGED stored
      BY <3>1 DEF HostType
    <3>2. CASE stored' # stored
      <4>1. Head(inPipe) = inPipe[1] /\ 1 \in DOMAIN inPipe /\ inPipe[1].kind = "csw" /\ inPipe[1].tag = issued
        BY <1>5 DEF HostReadStatus, PipeType
      <4>2. Wrote(current, inPipe[1], sent, medium.blocks)
        BY <4>1 DEF ResultInv, StatusInv, Result
      <4>3. /\ inPipe[1].status = "Good"
            /\ stored' = [b \in Blocks |-> IF b \in WriteOf(current) THEN sent[b - current.lba + 1] ELSE stored[b]]
        BY <1>5, <3>2, <4>1 DEF HostReadStatus
      <4>4. ASSUME NEW b \in Blocks, b \in WriteOf(current) PROVE sent[b - current.lba + 1] \in Content
        <5>1. current.op = "write10"
          BY <4>4 DEF WriteOf
        <5>2. medium.blocks[b] = sent[b - current.lba + 1]
          BY <4>2, <4>3, <4>4, <5>1 DEF Wrote, IsStored
        <5>3. medium.blocks[b] \in Content
          BY DEF MediumType
        <5> QED BY <5>2, <5>3
      <4> QED BY <4>3, <4>4 DEF HostType
    <3> QED BY <3>1, <3>2
  <2>2. host' = "idle" /\ (owed' = current \/ owed' = Absent) /\ UNCHANGED <<current, issued, sent, received>>
    BY <1>5 DEF HostReadStatus
  <2> QED BY <2>1, <2>2 DEF HostType
<1>6. CASE HostGivesUp
  BY <1>6 DEF HostGivesUp, HostType
<1>7. ASSUME NEW c \in Commands, HostSend(c) PROVE HostType'
  <2>1. issued' \in 0 .. MaxCommands
    BY <1>7, BotAssumption DEF HostSend, HostType
  <2>2. stored' \in [Blocks -> Content]
    <3>1. stored \in [Blocks -> Content] /\ Garbage \in Content
      BY DEF HostType, Content
    <3> QED BY <1>7, <3>1 DEF HostSend
  <2>3. sent' \in Seq(Nat \X Nat)
    BY <1>7 DEF HostSend
  <2> QED BY <1>7, <2>1, <2>2, <2>3 DEF HostSend, HostType
<1> QED BY <1>2, <1>3, <1>4, <1>5, <1>6, <1>7

LEMMA TypeNext ==
  ASSUME TypeInv, StageInv, TagInv, DataInv, MediumInv, ResultInv, [Next]_vars
  PROVE  TypeInv'
  BY MediumTyped, DriverTyped, WiringTyped, PipeTyped, HostTyped DEF TypeInv

(***************************************************************************)
(* The stages.                                                             *)
(***************************************************************************)
LEMMA StageInit == Init => StageInv
  BY DEF Init, StageInv, InCommand, Working

LEMMA Lengths ==
  ASSUME TypeInv, StageInv, InCommand
  PROVE  /\ cbw \in Commands /\ Length \in Nat /\ total \in Nat /\ cbw.blocks \in Nat /\ cbw.lba \in Nat
         /\ BlockSize \in Nat \ {0} /\ BlockSize > CBWSize /\ CBWSize \in Nat
         /\ BlockCount \in Nat /\ BufferBlocks \in Nat
<1>1. cbw \in Commands
  BY DEF StageInv
<1>2. BlockSize \in Nat \ {0} /\ BlockSize > CBWSize /\ CBWSize \in Nat /\ BlockCount \in Nat /\ BufferBlocks \in Nat
  BY BotAssumption DEF CBWSize
<1>3. cbw.blocks \in Nat /\ cbw.lba \in Nat
  BY <1>1, CommandFields
<1> QED BY <1>1, <1>2, <1>3 DEF Length, TypeInv, DriverType

LEMMA StageNext ==
  ASSUME TypeInv, StageInv, [Next]_vars
  PROVE  StageInv'
<1>1. CASE UNCHANGED <<pc, cbw, total>>
  BY <1>1 DEF StageInv, InCommand, Working, Deciding, InBuffer, Length, Silent
<1>2. CASE ~InCommand'
  BY <1>2 DEF StageInv, InCommand, Working
<1>3. CASE QuietSteps
  <2>1. Quiet
    BY <1>3, QuietFrame DEF TypeInv
  <2> QED BY <1>1, <1>2, <2>1 DEF Quiet, InCommand, Working
<1>4. CASE AdvanceSteps
  <2>0. Advance /\ InCommand
    BY <1>4, AdvanceFrame DEF Advance, InCommand
  <2>1. cbw \in Commands /\ cbw' = cbw /\ Length' = Length
    BY <2>0, Lengths DEF Advance, Length
  <2>2. CASE HandleResponse
    <3>1. ~Silent(cbw)
      BY <2>2 DEF HandleResponse, Silent, FixedLength, Acknowledged
    <3> QED BY <2>1, <2>2, <3>1 DEF HandleResponse, StageInv, InCommand, Working, Deciding, Goto
  <2>3. CASE HandleTransfer
    <3>1. cbw.blocks > 0 /\ cbw.lba + cbw.blocks <= BlockCount /\ cbw.lun = 0 /\ cbw.op \in {"read10", "write10"}
      BY <2>3 DEF HandleTransfer, Ready, InRange
    <3>2. \/ pc' = "panicked"
          \/ cbw.blocks <= BufferBlocks /\ pc' = "loading" /\ cbw.op = "read10"
          \/ cbw.blocks <= BufferBlocks /\ pc' = "receiving" /\ cbw.op = "write10"
      <4>1. cbw.blocks \in Nat /\ BufferBlocks \in Nat
        BY <2>0, Lengths
      <4> QED BY <2>3, <3>1, <4>1 DEF HandleTransfer, Goto
    <3>3. total' <= Length'
      BY <2>0, <2>1, <2>3, Lengths DEF HandleTransfer
    <3> QED BY <2>1, <3>1, <3>2, <3>3 DEF StageInv, InCommand, Working, Deciding, InBuffer
  <2>4. CASE HandleEject
    BY <2>1, <2>4 DEF HandleEject, StageInv, InCommand, Working, Deciding, Goto
  <2>5. CASE Load
    <3>1. cbw.op = "read10" /\ InBuffer /\ cbw.lun = 0
      BY <2>5 DEF Load, StageInv, InCommand, Working, Deciding
    <3>2. pc' = "sending"
      BY <2>5 DEF Load, Goto
    <3> QED BY <2>1, <3>1, <3>2 DEF StageInv, InCommand, Working, Deciding, InBuffer
  <2>6. CASE Receive
    <3>1. cbw.op = "write10" /\ InBuffer /\ cbw.lun = 0 /\ total <= Length /\ total' = total
      BY <2>6 DEF Receive, StageInv, InCommand, Working, Deciding
    <3>2. InBuffer'
      BY <2>1, <3>1 DEF InBuffer
    <3>3. (pc' = "storing" /\ total = Length) \/ (pc' = "awaiting" /\ total < Length)
      BY <2>0, <2>6, <3>1, Lengths DEF Receive, Goto
    <3> QED BY <2>1, <3>1, <3>2, <3>3 DEF StageInv, InCommand, Working, Deciding
  <2> QED BY <1>4, <2>2, <2>3, <2>4, <2>5, <2>6 DEF AdvanceSteps
<1>5. CASE FinishSteps
  <2>1. Ends
    BY <1>5, FinishFrame
  <2> QED BY <2>1 DEF Ends, StageInv, InCommand, Working, Deciding
<1>6. CASE StatusSteps
  BY <1>2, <1>6 DEF StatusSteps, sendCSW, sendCSWFails, Goto, InCommand, Working
<1>7. CASE ReadCBW
  <2>1. Head(outPipe) \in OutItem
    BY <1>7 DEF ReadCBW, TypeInv, PipeType
  <2>2. CASE Head(outPipe).kind = "cbw"
    <3>1. cbw' \in Commands /\ pc' = "command"
      BY <1>7, <2>1, <2>2 DEF ReadCBW, OutItem, Goto
    <3> QED BY <3>1 DEF StageInv, InCommand, Working, Deciding
  <2>3. CASE Head(outPipe).kind # "cbw"
    BY <1>2, <1>7, <2>3 DEF ReadCBW, InCommand, Working, Goto
  <2> QED BY <2>2, <2>3
<1>8. CASE ReceiveData
  <2> DEFINE p == Head(outPipe)
  <2>0. InCommand /\ cbw' = cbw /\ pc' = "receiving" /\ Length' = Length /\ total' = total + Taken(p)
    BY <1>8 DEF ReceiveData, InCommand, Working, Goto, Length
  <2>1. cbw.op = "write10" /\ InBuffer /\ cbw.lun = 0 /\ total < Length
    BY <1>8 DEF ReceiveData, StageInv, InCommand, Working, Deciding
  <2>2. PacketLength(p) \in Nat
    BY <2>0, Lengths DEF PacketLength
  <2> HIDE DEF p
  <2>3. total' <= Length'
    BY <2>0, <2>1, <2>2, Lengths DEF Taken, Least
  <2>4. InBuffer'
    BY <2>0, <2>1 DEF InBuffer
  <2> QED BY <2>0, <2>1, <2>3, <2>4, Lengths DEF StageInv, InCommand, Working, Deciding
<1>9. CASE HostSendData \/ HostReadData \/ HostReadStatus \/ HostGivesUp \/ \E c \in Commands : HostSend(c)
  <2>1. UNCHANGED <<pc, cbw, total>>
    BY <1>9 DEF HostSendData, HostReadData, HostReadStatus, HostGivesUp, HostSend, driverVars
  <2> QED BY <1>1, <2>1
<1> QED BY <1>3, <1>4, <1>5, <1>6, <1>7, <1>8, <1>9, StepCases

(***************************************************************************)
(* The tags.                                                               *)
(***************************************************************************)
(* What is left of a pipe after its first element was taken.               *)
LEMMA Tails ==
  ASSUME NEW S, NEW s \in Seq(S), s # <<>>
  PROVE  /\ Len(Tail(s)) = Len(s) - 1 /\ Len(s) \in Nat \ {0} /\ DOMAIN Tail(s) = 1 .. Len(s) - 1
         /\ \A i \in 1 .. Len(s) - 1 : Tail(s)[i] = s[i + 1]
         /\ \A i \in DOMAIN Tail(s) : i + 1 \in DOMAIN s /\ Tail(s)[i] = s[i + 1]
         /\ Head(s) = s[1] /\ 1 \in DOMAIN s /\ DOMAIN s = 1 .. Len(s)
<1>1. Len(s) \in Nat \ {0} /\ DOMAIN s = 1 .. Len(s) /\ Head(s) = s[1]
  OBVIOUS
<1>2. Len(Tail(s)) = Len(s) - 1 /\ Tail(s) \in Seq(S)
  OBVIOUS
<1>3. DOMAIN Tail(s) = 1 .. Len(s) - 1
  BY <1>2
<1>4. \A i \in 1 .. Len(s) - 1 : Tail(s)[i] = s[i + 1]
  OBVIOUS
<1> QED BY <1>1, <1>2, <1>3, <1>4

LEMMA Appends ==
  ASSUME NEW S, NEW s \in Seq(S), NEW x
  PROVE  /\ Len(Append(s, x)) = Len(s) + 1 /\ Len(s) \in Nat
         /\ DOMAIN s = 1 .. Len(s) /\ DOMAIN Append(s, x) = 1 .. Len(s) + 1
         /\ \A i \in 1 .. Len(s) : Append(s, x)[i] = s[i]
         /\ Append(s, x)[Len(s) + 1] = x
<1>1. DOMAIN s = 1 .. Len(s) /\ Len(s) \in Nat
  OBVIOUS
<1>2. s \in Seq(S \union {x})
  OBVIOUS
<1>3. Append(s, x) \in Seq(S \union {x}) /\ Len(Append(s, x)) = Len(s) + 1
  BY <1>2
<1>4. DOMAIN Append(s, x) = 1 .. Len(s) + 1
  BY <1>3
<1> QED BY <1>1, <1>3, <1>4

(* Only ReadCBW gives the driver another command.                          *)
LEMMA TagFrame ==
  ASSUME TypeInv, [Next]_vars
  PROVE  ReadCBW \/ UNCHANGED <<cbw, tag>>
<1>1. CASE QuietSteps
  BY <1>1, QuietFrame DEF Quiet, TypeInv
<1>2. CASE AdvanceSteps \/ FinishSteps
  BY <1>2, AdvanceFrame, FinishFrame DEF Advance, Ends
<1>3. CASE StatusSteps \/ ReceiveData
  BY <1>3 DEF StatusSteps, sendCSW, sendCSWFails, ReceiveData
<1>4. CASE HostSendData \/ HostReadData \/ HostReadStatus \/ HostGivesUp \/ \E c \in Commands : HostSend(c)
  BY <1>4 DEF HostSendData, HostReadData, HostReadStatus, HostGivesUp, HostSend, driverVars
<1> QED BY <1>1, <1>2, <1>3, <1>4, StepCases

HostSteps == HostSendData \/ HostReadData \/ HostReadStatus \/ HostGivesUp \/ \E c \in Commands : HostSend(c)

(* Only the steps of the host change what it knows.                        *)
LEMMA HostFrame ==
  ASSUME TypeInv, [Next]_vars
  PROVE  HostSteps \/ UNCHANGED hostVars
<1>1. CASE QuietSteps
  BY <1>1, QuietFrame DEF Quiet, TypeInv
<1>2. CASE AdvanceSteps \/ FinishSteps
  BY <1>2, AdvanceFrame, FinishFrame DEF Advance, Ends
<1>3. CASE StatusSteps \/ ReceiveData \/ ReadCBW
  BY <1>3 DEF StatusSteps, sendCSW, sendCSWFails, ReceiveData, ReadCBW
<1> QED BY <1>1, <1>2, <1>3, StepCases DEF HostSteps

LEMMA IssuedFrame ==
  ASSUME TypeInv, [Next]_vars
  PROVE  (\E c \in Commands : HostSend(c)) \/ UNCHANGED <<issued, current>>
  BY HostFrame DEF HostSteps, hostVars, HostSendData, HostReadData, HostReadStatus, HostGivesUp

(* Whether the driver works on a command changes with its own steps only.  *)
LEMMA StageFrame ==
  ASSUME TypeInv, [Next]_vars
  PROVE  /\ InCommand' => InCommand \/ (ReadCBW /\ pc' = "command")
         /\ Working' => Working \/ (ReadCBW /\ pc' = "command")
<1>1. CASE QuietSteps
  BY <1>1, QuietFrame DEF Quiet, InCommand, Working, TypeInv
<1>2. CASE AdvanceSteps \/ FinishSteps
  BY <1>2, AdvanceFrame, FinishFrame DEF Advance, Ends, InCommand, Working
<1>3. CASE StatusSteps \/ ReceiveData
  BY <1>3 DEF StatusSteps, sendCSW, sendCSWFails, ReceiveData, Goto, InCommand, Working
<1>4. CASE ReadCBW
  BY <1>4 DEF ReadCBW, Goto, InCommand, Working
<1>5. CASE HostSteps
  <2>1. UNCHANGED pc
    BY <1>5 DEF HostSteps, HostSendData, HostReadData, HostReadStatus, HostGivesUp, HostSend, driverVars
  <2> QED BY <2>1 DEF InCommand, Working
<1> QED BY <1>1, <1>2, <1>3, <1>4, <1>5, StepCases DEF HostSteps

LEMMA Numbers ==
  ASSUME TypeInv
  PROVE  /\ tag \in Nat /\ issued \in Nat
         /\ \A i \in DOMAIN outPipe : outPipe[i] \in OutItem
         /\ \A i \in DOMAIN inPipe : inPipe[i] \in InItem /\ inPipe[i].tag \in Nat
         /\ \A i \in DOMAIN outPipe : outPipe[i].kind = "cbw" => outPipe[i].tag \in Nat /\ outPipe[i].command \in Commands
         /\ outPipe \in Seq(OutItem) /\ inPipe \in Seq(InItem) /\ sent \in Seq(Nat \X Nat)
         /\ received # Absent => received \in InItem /\ received.tag \in Nat
<1>1. \A x \in InItem : x.tag \in Nat
  BY DEF InItem
<1>2. \A x \in OutItem : x.kind = "cbw" => x.tag \in Nat /\ x.command \in Commands
  BY DEF OutItem
<1> QED BY <1>1, <1>2, BotAssumption DEF TypeInv, DriverType, HostType, PipeType

(* What ReadCBW takes.                                                     *)
LEMMA TakesBlock ==
  ASSUME TypeInv, TagInv, ReadCBW, Head(outPipe).kind = "cbw"
  PROVE  /\ 1 \in DOMAIN outPipe /\ outPipe[1].kind = "cbw" /\ outPipe[1].tag = tag' /\ outPipe[1].command = cbw'
         /\ tag' \in Nat /\ tag < tag' /\ tag' <= issued /\ cbw' \in Commands /\ pc' = "command"
         /\ tag' = issued => cbw' = current
<1>1. outPipe # <<>> /\ cbw' = Head(outPipe).command /\ tag' = Head(outPipe).tag /\ pc' = "command"
  BY DEF ReadCBW, Goto
<1>2. 1 \in DOMAIN outPipe /\ Head(outPipe) = outPipe[1]
  BY <1>1, Numbers, Tails
<1>3. Younger(1) /\ (outPipe[1].tag = issued => outPipe[1].command = current)
  BY <1>2 DEF TagInv, OutTags
<1> QED BY <1>1, <1>2, <1>3, Numbers DEF Younger

LEMMA DropsBlock ==
  ASSUME ReadCBW, Head(outPipe).kind # "cbw"
  PROVE  UNCHANGED <<cbw, tag>> /\ pc' = "idle"
  BY DEF ReadCBW, Goto

LEMMA CommandTagsNext ==
  ASSUME TypeInv, TagInv, [Next]_vars
  PROVE  CommandTags'
<1> USE DEF TagInv
<1>1. CASE ReadCBW
  <2>1. UNCHANGED <<issued, current, host>>
    BY <1>1 DEF ReadCBW, hostVars
  <2>2. CASE Head(outPipe).kind = "cbw"
    <3>1. tag' \in Nat /\ tag < tag' /\ tag' <= issued /\ (tag' = issued => cbw' = current)
      BY <1>1, <2>2, TakesBlock
    <3> QED BY <2>1, <3>1, Numbers DEF CommandTags
  <2>3. CASE Head(outPipe).kind # "cbw"
    <3>1. ~InCommand'
      BY <1>1, <2>3, DropsBlock DEF InCommand, Working
    <3> QED BY <1>1, <2>1, <2>3, <3>1, DropsBlock DEF CommandTags
  <2> QED BY <2>2, <2>3
<1>2. ASSUME NEW c \in Commands, HostSend(c) PROVE CommandTags'
  <2>1. UNCHANGED <<tag, cbw, pc>> /\ issued' = issued + 1 /\ current' = c
    BY <1>2 DEF HostSend, driverVars
  <2>2. InCommand' = InCommand
    BY <2>1 DEF InCommand, Working
  <2> QED BY <2>1, <2>2, Numbers DEF CommandTags
<1>3. CASE UNCHANGED <<tag, cbw, issued, current>> /\ (InCommand' => InCommand) /\ (host' # "idle" => host # "idle")
  BY <1>3 DEF CommandTags
<1>4. ~(\E c \in Commands : HostSend(c)) => (host' # "idle" => host # "idle")
  BY HostFrame DEF HostSteps, HostSendData, HostReadData, HostReadStatus, HostGivesUp, hostVars
<1> QED BY <1>1, <1>2, <1>3, <1>4, TagFrame, IssuedFrame, StageFrame

(* The host numbers its commands one after the other and waits for each.   *)
LEMMA OutTagsNext ==
  ASSUME TypeInv, TagInv, [Next]_vars
  PROVE  OutTags'
<1> USE DEF TagInv
<1>1. ASSUME NEW c \in Commands, HostSend(c) PROVE OutTags'
  <2>1. outPipe' = Append(outPipe, Block(c)) /\ tag' = tag /\ issued' = issued + 1 /\ current' = c
    BY <1>1 DEF HostSend, driverVars, Block
  <2>2. /\ DOMAIN outPipe = 1 .. Len(outPipe) /\ DOMAIN outPipe' = 1 .. Len(outPipe) + 1 /\ Len(outPipe) \in Nat
        /\ \A i \in 1 .. Len(outPipe) : outPipe'[i] = outPipe[i]
        /\ outPipe'[Len(outPipe) + 1] = Block(c)
    BY <2>1, Numbers, Appends
  <2>3. Block(c).kind = "cbw" /\ Block(c).tag = issued + 1 /\ Block(c).command = c
    BY DEF Block
  <2>4. \A i \in DOMAIN outPipe : outPipe[i].kind = "cbw" => tag < outPipe[i].tag /\ outPipe[i].tag <= issued
    BY DEF OutTags, Younger
  <2>5. tag <= issued
    BY DEF CommandTags
  <2>6. \A i \in DOMAIN outPipe' : Younger(i)'
    BY <2>1, <2>2, <2>3, <2>4, <2>5, Numbers DEF Younger
  <2>7. \A i \in DOMAIN outPipe' :
           outPipe'[i].kind = "cbw" /\ outPipe'[i].tag = issued' => outPipe'[i].command = current'
    BY <2>1, <2>2, <2>3, <2>4, Numbers
  <2>8. \A i, j \in DOMAIN outPipe' :
           i < j /\ outPipe'[i].kind = "cbw" /\ outPipe'[j].kind = "cbw" => outPipe'[i].tag < outPipe'[j].tag
    <3> TAKE i, j \in DOMAIN outPipe'
    <3> HAVE i < j /\ outPipe'[i].kind = "cbw" /\ outPipe'[j].kind = "cbw"
    <3>1. i \in DOMAIN outPipe /\ outPipe'[i] = outPipe[i]
      BY <2>2
    <3>2. CASE j = Len(outPipe) + 1
      BY <2>2, <2>3, <2>4, <3>1, <3>2, Numbers
    <3>3. CASE j \in DOMAIN outPipe
      BY <2>2, <3>1, <3>3 DEF OutTags
    <3> QED BY <2>2, <3>2, <3>3
  <2> QED BY <2>6, <2>7, <2>8 DEF OutTags
<1>2. ASSUME UNCHANGED <<issued, current>>, outPipe # <<>>, outPipe' = Tail(outPipe),
             UNCHANGED tag \/ (ReadCBW /\ Head(outPipe).kind = "cbw")
      PROVE  OutTags'
  <2>1. /\ DOMAIN outPipe' = 1 .. Len(outPipe) - 1 /\ DOMAIN outPipe = 1 .. Len(outPipe) /\ Len(outPipe) \in Nat \ {0}
        /\ \A i \in DOMAIN outPipe' : i + 1 \in DOMAIN outPipe /\ outPipe'[i] = outPipe[i + 1]
        /\ Head(outPipe) = outPipe[1] /\ 1 \in DOMAIN outPipe
    BY <1>2, Numbers, Tails
  <2>2. \A i \in DOMAIN outPipe' : Younger(i)'
    <3> SUFFICES ASSUME NEW i \in DOMAIN outPipe', outPipe'[i].kind = "cbw"
                 PROVE  tag' < outPipe'[i].tag /\ outPipe'[i].tag <= issued'
      BY DEF Younger
    <3>1. Younger(i + 1)
      BY <2>1 DEF OutTags
    <3>2. CASE UNCHANGED tag
      BY <1>2, <2>1, <3>1, <3>2 DEF Younger
    <3>3. CASE ReadCBW /\ Head(outPipe).kind = "cbw"
      <4>1. outPipe[1].kind = "cbw" /\ outPipe[1].tag = tag'
        BY <3>3, TakesBlock
      <4>2. 1 < i + 1
        BY <2>1
      <4>3. outPipe[1].tag < outPipe[i + 1].tag
        BY <2>1, <4>1, <4>2 DEF OutTags
      <4> QED BY <1>2, <2>1, <3>1, <4>1, <4>3 DEF Younger
    <3> QED BY <1>2, <3>2, <3>3
  <2>3. \A i \in DOMAIN outPipe' :
           outPipe'[i].kind = "cbw" /\ outPipe'[i].tag = issued' => outPipe'[i].command = current'
    BY <1>2, <2>1 DEF OutTags
  <2>4. \A i, j \in DOMAIN outPipe' :
           i < j /\ outPipe'[i].kind = "cbw" /\ outPipe'[j].kind = "cbw" => outPipe'[i].tag < outPipe'[j].tag
    <3> TAKE i, j \in DOMAIN outPipe'
    <3>1. i < j => i + 1 < j + 1
      BY <2>1
    <3> QED BY <2>1, <3>1 DEF OutTags
  <2> QED BY <2>2, <2>3, <2>4 DEF OutTags
<1>3. ASSUME HostSendData, outPipe' = Append(outPipe, DataOf(Len(sent))) PROVE OutTags'
  <2>1. UNCHANGED <<tag, issued, current>>
    BY <1>3 DEF HostSendData, driverVars
  <2>2. /\ DOMAIN outPipe = 1 .. Len(outPipe) /\ DOMAIN outPipe' = 1 .. Len(outPipe) + 1 /\ Len(outPipe) \in Nat
        /\ \A i \in 1 .. Len(outPipe) : outPipe'[i] = outPipe[i]
        /\ outPipe'[Len(outPipe) + 1] = DataOf(Len(sent))
    BY <1>3, Numbers, Appends
  <2>3. \A i \in DOMAIN outPipe' : outPipe'[i].kind = "cbw" => i \in DOMAIN outPipe /\ outPipe'[i] = outPipe[i]
    <3>1. DataOf(Len(sent)).kind # "cbw"
      BY DEF DataOf
    <3> QED BY <2>2, <3>1
  <2> QED BY <2>1, <2>3 DEF OutTags, Younger
<1>4. CASE UNCHANGED <<outPipe, tag, issued, current>>
  BY <1>4 DEF OutTags, Younger
<1>5. CASE ReadCBW
  <2>1. UNCHANGED <<issued, current>> /\ outPipe # <<>> /\ outPipe' = Tail(outPipe)
    BY <1>5 DEF ReadCBW, hostVars
  <2>2. UNCHANGED tag \/ Head(outPipe).kind = "cbw"
    BY <1>5 DEF ReadCBW
  <2> QED BY <1>2, <1>5, <2>1, <2>2
<1>6. CASE ReceiveData \/ ReceiveTooMuch
  <2>1. UNCHANGED <<issued, current, tag>> /\ outPipe # <<>> /\ outPipe' = Tail(outPipe)
    BY <1>6 DEF ReceiveData, ReceiveTooMuch, hostVars
  <2> QED BY <1>2, <2>1
<1> QED BY <1>1, <1>3, <1>4, <1>5, <1>6, OutPipeSteps, TagFrame, IssuedFrame

(* The driver answers with the number of the block it took last.           *)
LEMMA InTagsNext ==
  ASSUME TypeInv, TagInv, [Next]_vars
  PROVE  InTags'
<1> USE DEF TagInv
<1>1. CASE UNCHANGED inPipe
  <2>1. CASE UNCHANGED tag /\ (Working' => Working) /\ (InCommand' => InCommand)
    BY <1>1, <2>1 DEF InTags
  <2>2. CASE ReadCBW
    <3>1. CASE Head(outPipe).kind = "cbw"
      <4>1. tag' \in Nat /\ tag < tag'
        BY <2>2, <3>1, TakesBlock
      <4>2. \A i \in DOMAIN inPipe : inPipe[i].tag \in Nat /\ inPipe[i].tag <= tag /\ tag \in Nat
        BY Numbers DEF InTags
      <4>3. \A i \in DOMAIN inPipe : inPipe[i].tag < tag'
        BY <4>1, <4>2
      <4> QED BY <1>1, <4>1, <4>2, <4>3 DEF InTags
    <3>2. CASE Head(outPipe).kind # "cbw"
      <4>1. UNCHANGED tag /\ ~Working' /\ ~InCommand'
        BY <2>2, <3>2, DropsBlock DEF InCommand, Working
      <4> QED BY <2>1, <4>1
    <3> QED BY <3>1, <3>2
  <2> QED BY <2>1, <2>2, TagFrame, StageFrame
<1>2. ASSUME NEW x, inPipe' = Append(inPipe, x), UNCHANGED tag, x.tag = tag,
             Working, ~Working', x.kind # "csw"
      PROVE  InTags'
  <2>1. /\ DOMAIN inPipe = 1 .. Len(inPipe) /\ DOMAIN inPipe' = 1 .. Len(inPipe) + 1 /\ Len(inPipe) \in Nat
        /\ \A i \in 1 .. Len(inPipe) : inPipe'[i] = inPipe[i]
        /\ inPipe'[Len(inPipe) + 1] = x
    BY <1>2, Numbers, Appends
  <2>2. \A i \in DOMAIN inPipe : inPipe[i].tag \in Nat /\ inPipe[i].tag < tag /\ tag \in Nat
    BY <1>2, Numbers DEF InTags
  <2>3. \A i \in DOMAIN inPipe' : inPipe'[i].tag <= tag'
    BY <1>2, <2>1, <2>2, Numbers
  <2>4. \A i \in DOMAIN inPipe' : inPipe'[i].kind = "csw" => inPipe'[i].tag < tag'
    BY <1>2, <2>1, <2>2
  <2>5. \A i, j \in DOMAIN inPipe' : i < j /\ inPipe'[i].kind = "csw" => inPipe'[i].tag < inPipe'[j].tag
    <3> SUFFICES ASSUME NEW i \in DOMAIN inPipe', NEW j \in DOMAIN inPipe', i < j, inPipe'[i].kind = "csw"
                 PROVE  inPipe'[i].tag < inPipe'[j].tag
      OBVIOUS
    <3>1. i \in DOMAIN inPipe /\ inPipe'[i] = inPipe[i]
      BY <2>1
    <3>2. CASE j = Len(inPipe) + 1
      BY <1>2, <2>1, <2>2, <3>1, <3>2
    <3>3. CASE j \in DOMAIN inPipe
      BY <2>1, <3>1, <3>3 DEF InTags
    <3> QED BY <2>1, <3>2, <3>3
  <2> QED BY <1>2, <2>3, <2>4, <2>5 DEF InTags
<1>3. CASE Send /\ inPipe' = Append(inPipe, Data)
  <2>1. Ends
    BY <1>3, FinishFrame DEF FinishSteps
  <2>2. UNCHANGED tag /\ Working /\ ~Working'
    BY <2>1 DEF Ends, Working
  <2>3. Data.tag = tag /\ Data.kind # "csw"
    BY DEF Data
  <2> QED BY <1>2, <1>3, <2>2, <2>3
<1>4. CASE sendCSW /\ inPipe' = Append(inPipe, Status(verdict))
  <2>1. UNCHANGED tag /\ pc = "status" /\ InCommand /\ ~InCommand' /\ ~Working'
    BY <1>4 DEF sendCSW, InCommand, Working, Goto
  <2>2. /\ DOMAIN inPipe = 1 .. Len(inPipe) /\ DOMAIN inPipe' = 1 .. Len(inPipe) + 1 /\ Len(inPipe) \in Nat
        /\ \A i \in 1 .. Len(inPipe) : inPipe'[i] = inPipe[i]
        /\ inPipe'[Len(inPipe) + 1] = Status(verdict) /\ Status(verdict).tag = tag
    BY <1>4, Numbers, Appends DEF Status
  <2>3. \A i \in DOMAIN inPipe : inPipe[i].tag \in Nat /\ inPipe[i].tag <= tag /\ tag \in Nat
    BY Numbers DEF InTags
  <2>4. \A i \in DOMAIN inPipe : inPipe[i].kind = "csw" => inPipe[i].tag < tag
    BY <2>1 DEF InTags
  <2>5. \A i \in DOMAIN inPipe' : inPipe'[i].tag <= tag'
    <3> TAKE i \in DOMAIN inPipe'
    <3>1. CASE i = Len(inPipe) + 1
      BY <2>1, <2>2, <3>1, Numbers
    <3>2. CASE i \in DOMAIN inPipe
      BY <2>1, <2>2, <2>3, <3>2
    <3> QED BY <2>2, <3>1, <3>2
  <2>6. \A i, j \in DOMAIN inPipe' : i < j /\ inPipe'[i].kind = "csw" => inPipe'[i].tag < inPipe'[j].tag
    <3> SUFFICES ASSUME NEW i \in DOMAIN inPipe', NEW j \in DOMAIN inPipe', i < j, inPipe'[i].kind = "csw"
                 PROVE  inPipe'[i].tag < inPipe'[j].tag
      OBVIOUS
    <3>1. i \in DOMAIN inPipe /\ inPipe'[i] = inPipe[i]
      BY <2>2
    <3>2. CASE j = Len(inPipe) + 1
      BY <2>2, <2>4, <3>1, <3>2
    <3>3. CASE j \in DOMAIN inPipe
      BY <2>2, <3>1, <3>3 DEF InTags
    <3> QED BY <2>2, <3>2, <3>3
  <2> QED BY <2>1, <2>5, <2>6 DEF InTags
<1>5. CASE (HostReadData \/ HostReadStatus) /\ inPipe # <<>> /\ inPipe' = Tail(inPipe)
  <2>1. UNCHANGED <<tag, pc>>
    BY <1>5 DEF HostReadData, HostReadStatus, driverVars
  <2>2. \A i \in DOMAIN inPipe' : i + 1 \in DOMAIN inPipe /\ inPipe'[i] = inPipe[i + 1] /\ i \in Nat
    BY <1>5, Numbers, Tails
  <2>3. \A i, j \in DOMAIN inPipe' : i < j => i + 1 < j + 1
    BY <2>2
  <2>4. \A i, j \in DOMAIN inPipe' : i < j /\ inPipe'[i].kind = "csw" => inPipe'[i].tag < inPipe'[j].tag
    BY <2>2, <2>3 DEF InTags
  <2> QED BY <2>1, <2>2, <2>4 DEF InTags, InCommand, Working
<1> QED BY <1>1, <1>3, <1>4, <1>5, InPipeSteps

LEMMA AnswerTagsNext ==
  ASSUME TypeInv, TagInv, [Next]_vars
  PROVE  AnswerTags'
<1> USE DEF TagInv
<1>1. CASE ReadCBW
  <2>1. UNCHANGED <<received, answer, host, issued>>
    BY <1>1 DEF ReadCBW, hostVars
  <2>2. CASE Head(outPipe).kind = "cbw"
    <3>1. tag' \in Nat /\ tag < tag' /\ tag' <= issued
      BY <1>1, <2>2, TakesBlock
    <3>2. answer = Absent
      BY <3>1, Numbers DEF AnswerTags
    <3> QED BY <2>1, <3>1, <3>2, Numbers DEF AnswerTags
  <2>3. CASE Head(outPipe).kind # "cbw"
    <3>1. ~InCommand' /\ ~Working' /\ UNCHANGED tag
      BY <1>1, <2>3, DropsBlock DEF InCommand, Working
    <3> QED BY <2>1, <3>1 DEF AnswerTags
  <2> QED BY <2>2, <2>3
<1>2. CASE UNCHANGED hostVars /\ UNCHANGED tag /\ (InCommand' => InCommand) /\ (Working' => Working)
  BY <1>2 DEF hostVars, AnswerTags
<1>3. CASE HostSteps
  <2>1. UNCHANGED <<tag, pc>>
    BY <1>3 DEF HostSteps, HostSendData, HostReadData, HostReadStatus, HostGivesUp, HostSend, driverVars
  <2>2. (InCommand' = InCommand) /\ (Working' = Working)
    BY <2>1 DEF InCommand, Working
  <2>3. CASE HostSendData
    BY <2>1, <2>2, <2>3 DEF HostSendData, AnswerTags
  <2>4. CASE HostReadData \/ HostReadStatus
    <3>1. Head(inPipe) = inPipe[1] /\ 1 \in DOMAIN inPipe
      BY <2>4, Numbers, Tails DEF HostReadData, HostReadStatus
    <3>2. inPipe[1].tag <= tag /\ (Working \/ (InCommand /\ inPipe[1].kind = "csw") => inPipe[1].tag < tag)
      BY <3>1 DEF InTags
    <3>3. CASE HostReadData
      BY <2>1, <2>2, <3>1, <3>2, <3>3 DEF HostReadData, AnswerTags
    <3>4. CASE HostReadStatus
      <4>1. inPipe[1].kind = "csw" /\ inPipe[1].tag = issued /\ host' = "idle" /\ UNCHANGED <<issued, received>>
        BY <3>1, <3>4 DEF HostReadStatus
      <4>2. issued > 0
        BY <3>4 DEF HostReadStatus, CommandTags
      <4>3. tag = issued /\ ~InCommand
        BY <3>2, <4>1, Numbers DEF CommandTags
      <4> QED BY <2>1, <2>2, <4>1, <4>2, <4>3 DEF AnswerTags
    <3> QED BY <2>4, <3>3, <3>4
  <2>5. CASE HostGivesUp \/ \E c \in Commands : HostSend(c)
    BY <2>1, <2>2, <2>5 DEF HostGivesUp, HostSend, AnswerTags
  <2> QED BY <1>3, <2>3, <2>4, <2>5 DEF HostSteps
<1> QED BY <1>1, <1>2, <1>3, HostFrame, TagFrame, StageFrame

LEMMA TagNext ==
  ASSUME TypeInv, TagInv, [Next]_vars
  PROVE  TagInv'
  BY CommandTagsNext, OutTagsNext, InTagsNext, AnswerTagsNext DEF TagInv

LEMMA TagInit == Init => TagInv
  BY DEF Init, TagInv, CommandTags, OutTags, InTags, AnswerTags, InCommand, Working

(***************************************************************************)
(* The data of the current command.                                        *)
(***************************************************************************)
(* Data put into the pipe, and taken out of it, keep the rest in order.    *)
LEMMA FollowsAppend ==
  ASSUME TypeInv, HostSendData, NEW k \in 0 .. Len(outPipe), NEW n \in Nat, Follows(k, n)
  PROVE  Follows(k, n)'
<1>1. outPipe' = Append(outPipe, DataOf(Len(sent))) /\ UNCHANGED issued /\ sent' = Append(sent, <<issued, Len(sent)>>)
  BY DEF HostSendData, DataOf
<1>2. /\ Len(outPipe') = Len(outPipe) + 1 /\ Len(outPipe) \in Nat
      /\ \A i \in 1 .. Len(outPipe) : outPipe'[i] = outPipe[i]
      /\ outPipe'[Len(outPipe) + 1] = DataOf(Len(sent))
  BY <1>1, Numbers, Appends
<1>3. Len(sent') = Len(sent) + 1 /\ Len(sent) \in Nat
  BY <1>1, Numbers, Appends
<1>4. Len(outPipe') + n = k + Len(sent')
  BY <1>2, <1>3 DEF Follows
<1>5. ASSUME NEW j \in 1 .. Len(outPipe') - k PROVE outPipe'[k + j] = DataOf(n + j - 1)'
  <2>1. DataOf(n + j - 1)' = DataOf(n + j - 1)
    BY <1>1 DEF DataOf
  <2>2. CASE j = Len(outPipe') - k
    <3>1. k + j = Len(outPipe) + 1 /\ n + j - 1 = Len(sent)
      BY <1>2, <1>3, <2>2 DEF Follows
    <3> QED BY <1>2, <2>1, <3>1
  <2>3. CASE j # Len(outPipe') - k
    <3>1. j \in 1 .. Len(outPipe) - k /\ k + j \in 1 .. Len(outPipe)
      BY <1>2, <2>3
    <3> QED BY <1>2, <2>1, <3>1 DEF Follows
  <2> QED BY <2>2, <2>3
<1> QED BY <1>4, <1>5 DEF Follows

LEMMA FollowsTail ==
  ASSUME TypeInv, outPipe # <<>>, outPipe' = Tail(outPipe), UNCHANGED <<sent, issued>>,
         NEW k \in Nat, NEW n \in Nat, Follows(k, n), k <= Len(outPipe)
  PROVE  /\ k > 0 => Follows(k - 1, n)'
         /\ k = 0 => Follows(0, n + 1)' /\ outPipe[1] = DataOf(n)
<1>1. /\ Len(outPipe') = Len(outPipe) - 1 /\ Len(outPipe) \in Nat \ {0}
      /\ \A i \in 1 .. Len(outPipe) - 1 : outPipe'[i] = outPipe[i + 1]
  BY Numbers, Tails
<1>2. Len(sent) \in Nat
  BY Numbers, Appends
<1>3. \A i : DataOf(i)' = DataOf(i)
  BY DEF DataOf
<1>4. Len(outPipe) + n = k + Len(sent) /\ \A j \in 1 .. Len(outPipe) - k : outPipe[k + j] = DataOf(n + j - 1)
  BY DEF Follows
<1>5. ASSUME k > 0 PROVE Follows(k - 1, n)'
  <2>1. Len(outPipe') + n = (k - 1) + Len(sent')
    BY <1>1, <1>2, <1>4
  <2>2. ASSUME NEW j \in 1 .. Len(outPipe') - (k - 1) PROVE outPipe'[(k - 1) + j] = DataOf(n + j - 1)'
    <3>1. j \in 1 .. Len(outPipe) - k /\ (k - 1) + j \in 1 .. Len(outPipe) - 1 /\ ((k - 1) + j) + 1 = k + j
      BY <1>1, <1>5
    <3> QED BY <1>1, <1>3, <1>4, <3>1
  <2> QED BY <2>1, <2>2 DEF Follows
<1>6. ASSUME k = 0 PROVE Follows(0, n + 1)' /\ outPipe[1] = DataOf(n)
  <2>1. Len(outPipe') + (n + 1) = 0 + Len(sent')
    BY <1>1, <1>2, <1>4, <1>6
  <2>2. ASSUME NEW j \in 1 .. Len(outPipe') - 0 PROVE outPipe'[0 + j] = DataOf((n + 1) + j - 1)'
    <3>1. j \in 1 .. Len(outPipe) - 1 /\ 0 + j = j /\ j + 1 \in 1 .. Len(outPipe) - k /\ k + (j + 1) = j + 1
          /\ (n + 1) + j - 1 = n + (j + 1) - 1
      BY <1>1, <1>6
    <3> QED BY <1>1, <1>3, <1>4, <3>1
  <2>3. outPipe[1] = DataOf(n)
    <3>1. 1 \in 1 .. Len(outPipe) - k /\ k + 1 = 1 /\ n + 1 - 1 = n
      BY <1>1, <1>6
    <3> QED BY <1>4, <3>1
  <2> QED BY <2>1, <2>2, <2>3 DEF Follows
<1> QED BY <1>5, <1>6

LEMMA QueuedNext ==
  ASSUME TypeInv, TagInv, DataInv, [Next]_vars
  PROVE  SentInv' /\ \A k \in DOMAIN outPipe' : outPipe'[k].kind = "cbw" /\ outPipe'[k].tag = issued' => Follows(k, 0)'
<1> DEFINE Queued == \A k \in DOMAIN outPipe : outPipe[k].kind = "cbw" /\ outPipe[k].tag = issued => Follows(k, 0)
<1>1. ASSUME outPipe # <<>>, outPipe' = Tail(outPipe), UNCHANGED <<issued, sent>>
      PROVE  SentInv' /\ Queued'
  <2>1. SentInv'
    BY <1>1 DEF DataInv, SentInv
  <2>2. ASSUME NEW k \in DOMAIN outPipe', outPipe'[k].kind = "cbw", outPipe'[k].tag = issued'
        PROVE  Follows(k, 0)'
    <3>1. k \in Nat /\ k + 1 \in DOMAIN outPipe /\ outPipe'[k] = outPipe[k + 1] /\ k + 1 <= Len(outPipe) /\ k + 1 > 0
          /\ (k + 1) - 1 = k
      BY <1>1, Numbers, Tails
    <3>2. Follows(k + 1, 0)
      BY <1>1, <2>2, <3>1 DEF DataInv
    <3>3. Follows((k + 1) - 1, 0)'
      BY <1>1, <3>1, <3>2, FollowsTail
    <3> QED BY <3>1, <3>3
  <2> QED BY <2>1, <2>2
<1>2. CASE UNCHANGED <<outPipe, issued, sent>>
  BY <1>2 DEF DataInv, SentInv, Follows, DataOf
<1>3. CASE HostSendData /\ outPipe' = Append(outPipe, DataOf(Len(sent)))
  <2>1. UNCHANGED issued /\ sent' = Append(sent, <<issued, Len(sent)>>)
    BY <1>3 DEF HostSendData
  <2>2. SentInv'
    <3>1. /\ DOMAIN sent' = 1 .. Len(sent) + 1 /\ DOMAIN sent = 1 .. Len(sent) /\ Len(sent) \in Nat
          /\ \A i \in 1 .. Len(sent) : sent'[i] = sent[i]
          /\ sent'[Len(sent) + 1] = <<issued, Len(sent)>>
      BY <2>1, Numbers, Appends
    <3> SUFFICES ASSUME NEW i \in DOMAIN sent' PROVE sent'[i] = <<issued, i - 1>>
      BY <2>1 DEF SentInv
    <3>2. CASE i = Len(sent) + 1
      <4>1. i - 1 = Len(sent)
        BY <3>1, <3>2
      <4> QED BY <3>1, <3>2, <4>1
    <3>3. CASE i \in DOMAIN sent
      BY <3>1, <3>3 DEF DataInv, SentInv
    <3> QED BY <3>1, <3>2, <3>3
  <2>3. ASSUME NEW k \in DOMAIN outPipe', outPipe'[k].kind = "cbw", outPipe'[k].tag = issued'
        PROVE  Follows(k, 0)'
    <3>1. /\ DOMAIN outPipe = 1 .. Len(outPipe) /\ DOMAIN outPipe' = 1 .. Len(outPipe) + 1 /\ Len(outPipe) \in Nat
          /\ \A i \in 1 .. Len(outPipe) : outPipe'[i] = outPipe[i]
          /\ outPipe'[Len(outPipe) + 1] = DataOf(Len(sent))
      BY <1>3, Numbers, Appends
    <3>2. DataOf(Len(sent)).kind # "cbw"
      BY DEF DataOf
    <3>3. k \in DOMAIN outPipe /\ outPipe'[k] = outPipe[k] /\ k \in 0 .. Len(outPipe)
      BY <2>3, <3>1, <3>2
    <3>4. Follows(k, 0)
      BY <2>1, <2>3, <3>3 DEF DataInv
    <3> QED BY <1>3, <3>3, <3>4, FollowsAppend
  <2> QED BY <2>2, <2>3
<1>4. ASSUME NEW c \in Commands, HostSend(c), outPipe' = Append(outPipe, Block(c)) PROVE SentInv' /\ Queued'
  <2>1. issued' = issued + 1 /\ sent' = <<>>
    BY <1>4 DEF HostSend
  <2>2. SentInv'
    BY <2>1 DEF SentInv
  <2>3. ASSUME NEW k \in DOMAIN outPipe', outPipe'[k].kind = "cbw", outPipe'[k].tag = issued'
        PROVE  Follows(k, 0)'
    <3>1. /\ DOMAIN outPipe = 1 .. Len(outPipe) /\ DOMAIN outPipe' = 1 .. Len(outPipe) + 1 /\ Len(outPipe) \in Nat
          /\ \A i \in 1 .. Len(outPipe) : outPipe'[i] = outPipe[i]
          /\ Len(outPipe') = Len(outPipe) + 1
      BY <1>4, Numbers, Appends
    <3>2. \A i \in DOMAIN outPipe : outPipe[i].kind = "cbw" => outPipe[i].tag \in Nat /\ outPipe[i].tag <= issued
      BY Numbers DEF TagInv, OutTags, Younger
    <3>3. k = Len(outPipe')
      <4>1. ASSUME k \in DOMAIN outPipe PROVE FALSE
        <5>1. outPipe[k].kind = "cbw" /\ outPipe[k].tag = issued + 1
          BY <2>1, <2>3, <3>1, <4>1
        <5> QED BY <3>2, <4>1, <5>1, Numbers
      <4> QED BY <3>1, <4>1
    <3>4. Len(sent') = 0
      BY <2>1
    <3>5. k \in Nat /\ Len(outPipe') + 0 = k + Len(sent') /\ 1 .. Len(outPipe') - k = {}
      BY <3>1, <3>3, <3>4
    <3> QED BY <3>5 DEF Follows
  <2> QED BY <2>2, <2>3
<1>5. CASE ReadCBW \/ ReceiveData \/ ReceiveTooMuch
  <2>1. outPipe # <<>> /\ outPipe' = Tail(outPipe) /\ UNCHANGED <<issued, sent>>
    BY <1>5 DEF ReadCBW, ReceiveData, ReceiveTooMuch, hostVars
  <2> QED BY <1>1, <2>1
<1>6. (\E c \in Commands : HostSend(c)) \/ HostSendData \/ UNCHANGED <<issued, sent>>
  BY HostFrame DEF HostSteps, hostVars, HostReadData, HostReadStatus, HostGivesUp
<1>7. CASE HostSendData
  BY <1>3, <1>7 DEF HostSendData, DataOf
<1>8. CASE \E c \in Commands : HostSend(c)
  <2>1. PICK c \in Commands : HostSend(c)
    BY <1>8
  <2>2. outPipe' = Append(outPipe, Block(c))
    BY <2>1 DEF HostSend, Block
  <2> QED BY <1>4, <2>1, <2>2
<1>9. CASE UNCHANGED <<issued, sent>>
  BY <1>2, <1>5, <1>7, <1>8, <1>9, OutPipeSteps
<1> QED BY <1>6, <1>7, <1>8, <1>9

(* A block the driver takes for its own command is the next one of it, and *)
(* fits into the buffer at its place.                                      *)
LEMMA TakesNext ==
  ASSUME TypeInv, StageInv, DataInv, ReceiveData, NEW n \in 0 .. cbw.blocks, Taking(n)
  PROVE  n + 1 \in 0 .. cbw.blocks /\ Taking(n + 1)'
<1> DEFINE p == Head(outPipe)
<1>1. InCommand /\ InBuffer /\ total < Length
  BY DEF ReceiveData, StageInv, InCommand, Working
<1>2. cbw.blocks \in Nat /\ BlockSize \in Nat \ {0} /\ total \in Nat /\ Length \in Nat /\ BufferBlocks \in Nat /\ n \in Nat
  BY <1>1, Lengths
<1>3. outPipe # <<>> /\ outPipe' = Tail(outPipe) /\ UNCHANGED <<sent, issued>> /\ total' = total + Taken(p) /\ buf' = Filled(p)
  BY DEF ReceiveData, hostVars
<1>4. Follows(0, n + 1)' /\ outPipe[1] = DataOf(n)
  <2>1. 0 \in Nat /\ 0 <= Len(outPipe)
    BY Numbers, Appends
  <2> QED BY <1>2, <1>3, <2>1, FollowsTail DEF Taking
<1>5. p.kind = "data" /\ p.value = <<issued, n>>
  BY <1>3, <1>4, Numbers, Tails DEF DataOf
<1> HIDE DEF p
<1>6. total = n * BlockSize /\ Length = cbw.blocks * BlockSize
  BY DEF Taking, Length
<1>7. n < cbw.blocks /\ n * BlockSize + BlockSize <= Length
  <2>1. n # cbw.blocks
    BY <1>1, <1>2, <1>6
  <2>2. n < cbw.blocks
    BY <1>2, <2>1
  <2> QED BY <1>2, <1>6, <2>2, MultiplesDiffer
<1>8. Taken(p) = BlockSize
  <2>1. PacketLength(p) = BlockSize
    BY <1>5 DEF PacketLength
  <2>2. BlockSize <= Length - total
    BY <1>2, <1>6, <1>7
  <2> QED BY <1>2, <2>1, <2>2 DEF Taken, Least
<1>9. total % BlockSize = 0 /\ total \div BlockSize = n
  BY <1>2, <1>6, MultipleDivides
<1>10. buf' = [buf EXCEPT ![n] = <<issued, n>>]
  BY <1>3, <1>5, <1>8, <1>9 DEF Filled
<1>11. total' = (n + 1) * BlockSize
  BY <1>2, <1>3, <1>6, <1>8
<1>12. \A i \in 0 .. n : buf'[i] = <<issued, i>>
  <2>1. n \in 0 .. BufferBlocks - 1 /\ DOMAIN buf = 0 .. BufferBlocks - 1
    BY <1>1, <1>2, <1>7 DEF InBuffer, TypeInv, DriverType
  <2> TAKE i \in 0 .. n
  <2>2. CASE i = n
    BY <1>10, <2>1, <2>2
  <2>3. CASE i # n
    <3>1. i \in 0 .. n - 1
      BY <1>2, <2>3
    <3> QED BY <1>10, <2>1, <2>3, <3>1 DEF Taking
  <2> QED BY <2>2, <2>3
<1>13. \A i \in 0 .. (n + 1) - 1 : buf'[i] = <<issued', i>>
  BY <1>2, <1>3, <1>12
<1>14. n + 1 \in 0 .. cbw.blocks
  BY <1>2, <1>7
<1> QED BY <1>4, <1>11, <1>13, <1>14 DEF Taking

LEMMA TakingNext ==
  ASSUME TypeInv, StageInv, TagInv, DataInv, [Next]_vars
  PROVE  /\ tag' = issued' /\ Deciding' => Follows(0, 0)'
         /\ tag' = issued' /\ Collecting' => \E n \in 0 .. cbw'.blocks : Taking(n)'
<1>1. CASE \E c \in Commands : HostSend(c)
  <2>1. tag' # issued'
    BY <1>1, Numbers DEF HostSend, driverVars, TagInv, CommandTags
  <2> QED BY <2>1
<1>2. CASE HostSendData
  <2>1. UNCHANGED <<pc, cbw, tag, total, buf, issued>>
    BY <1>2 DEF HostSendData, driverVars
  <2>2. Len(outPipe) \in Nat
    BY Numbers, Appends
  <2>3. \A n \in Nat : Follows(0, n) => Follows(0, n)'
    BY <1>2, <2>2, FollowsAppend
  <2>4. tag = issued /\ Deciding => Follows(0, 0)'
    BY <2>3 DEF DataInv
  <2>5. ASSUME tag = issued, Collecting PROVE \E n \in 0 .. cbw'.blocks : Taking(n)'
    <3>1. PICK n \in 0 .. cbw.blocks : Taking(n)
      BY <2>5 DEF DataInv
    <3>2. n \in Nat
      OBVIOUS
    <3>3. Taking(n)'
      BY <2>1, <2>3, <3>1, <3>2 DEF Taking
    <3> QED BY <2>1, <3>3
  <2> QED BY <2>1, <2>4, <2>5 DEF Deciding, Collecting
<1>3. CASE UNCHANGED <<pc, cbw, tag, total, buf, outPipe, sent, issued>>
  BY <1>3 DEF DataInv, Deciding, Collecting, Taking, Follows, DataOf
<1>4. CASE ~Deciding' /\ ~Collecting'
  BY <1>4
<1>5. CASE QuietSteps
  <2>1. Quiet
    BY <1>5, QuietFrame DEF TypeInv
  <2> QED BY <1>3, <1>4, <2>1 DEF Quiet, hostVars, Deciding, Collecting
<1>6. CASE FinishSteps \/ StatusSteps
  <2>1. FinishSteps => pc' = "status"
    BY FinishFrame DEF Ends
  <2>2. StatusSteps => pc' = "idle"
    BY DEF StatusSteps, sendCSW, sendCSWFails, Goto
  <2> QED BY <1>4, <1>6, <2>1, <2>2 DEF Deciding, Collecting
<1>7. CASE AdvanceSteps
  <2>1. UNCHANGED <<cbw, tag, outPipe, sent, issued>> /\ InCommand
    BY <1>7, AdvanceFrame DEF Advance, hostVars, InCommand
  <2>2. CASE HandleResponse \/ HandleEject \/ Load
    BY <1>4, <2>2 DEF HandleResponse, HandleEject, Load, Goto, Deciding, Collecting
  <2>3. CASE HandleTransfer
    <3>1. Deciding /\ ~Deciding' /\ total' = 0
      BY <2>3 DEF HandleTransfer, Goto, Deciding
    <3>2. ASSUME tag = issued PROVE Taking(0)'
      <4>1. Follows(0, 0)'
        BY <2>1, <3>1, <3>2 DEF DataInv, Follows, DataOf
      <4>2. total' = 0 * BlockSize /\ 0 .. 0 - 1 = {}
        BY <2>1, <3>1, Lengths
      <4> QED BY <4>1, <4>2 DEF Taking
    <3>3. 0 \in 0 .. cbw'.blocks
      BY <2>1, Lengths
    <3> QED BY <2>1, <3>1, <3>2, <3>3
  <2>4. CASE Receive
    <3>1. Collecting /\ ~Deciding' /\ UNCHANGED <<total, buf>>
      BY <2>4 DEF Receive, Goto, Deciding, Collecting
    <3> QED BY <2>1, <3>1 DEF DataInv, Taking, Follows, DataOf
  <2> QED BY <1>7, <2>2, <2>3, <2>4 DEF AdvanceSteps
<1>8. CASE ReceiveData
  <2>1. UNCHANGED <<cbw, tag, issued>> /\ Collecting /\ ~Deciding'
    BY <1>8 DEF ReceiveData, hostVars, Collecting, Deciding, Goto
  <2>2. ASSUME tag = issued PROVE \E n \in 0 .. cbw'.blocks : Taking(n)'
    <3>1. PICK n \in 0 .. cbw.blocks : Taking(n)
      BY <2>1, <2>2 DEF DataInv
    <3>2. n + 1 \in 0 .. cbw.blocks /\ Taking(n + 1)'
      BY <1>8, <3>1, TakesNext
    <3> QED BY <2>1, <3>2
  <2> QED BY <2>1, <2>2
<1>9. CASE ReadCBW
  <2>1. outPipe # <<>> /\ outPipe' = Tail(outPipe) /\ UNCHANGED <<sent, issued>>
    BY <1>9 DEF ReadCBW, hostVars
  <2>2. CASE Head(outPipe).kind = "cbw"
    <3>1. 1 \in DOMAIN outPipe /\ outPipe[1].kind = "cbw" /\ outPipe[1].tag = tag' /\ pc' = "command"
      BY <1>9, <2>2, TakesBlock
    <3>2. ASSUME tag' = issued' PROVE Follows(0, 0)'
      <4>1. Follows(1, 0)
        BY <2>1, <3>1, <3>2 DEF DataInv
      <4>2. 1 <= Len(outPipe) /\ 1 - 1 = 0
        BY <2>1, Numbers, Tails
      <4>3. Follows(1 - 1, 0)'
        BY <2>1, <4>1, <4>2, FollowsTail
      <4> QED BY <4>2, <4>3
    <3> QED BY <3>1, <3>2 DEF Collecting
  <2>3. CASE Head(outPipe).kind # "cbw"
    BY <1>4, <1>9, <2>3, DropsBlock DEF Deciding, Collecting
  <2> QED BY <2>2, <2>3
<1>10. CASE HostReadData \/ HostReadStatus \/ HostGivesUp
  <2>1. UNCHANGED <<pc, cbw, tag, total, buf, outPipe, sent, issued>>
    BY <1>10 DEF HostReadData, HostReadStatus, HostGivesUp, driverVars
  <2> QED BY <1>3, <2>1
<1> QED BY <1>1, <1>2, <1>5, <1>6, <1>7, <1>8, <1>9, <1>10, StepCases

LEMMA DataNext ==
  ASSUME TypeInv, StageInv, TagInv, DataInv, [Next]_vars
  PROVE  DataInv'
  BY QueuedNext, TakingNext DEF DataInv

LEMMA DataInit == Init => DataInv
  BY DEF Init, DataInv, SentInv, Deciding, Collecting

(***************************************************************************)
(* The medium.                                                             *)
(***************************************************************************)
(* The status of the current command is the last thing in the pipes.       *)
LEMMA ReadsStatus ==
  ASSUME TypeInv, TagInv, HostReadStatus
  PROVE  /\ 1 \in DOMAIN inPipe /\ Head(inPipe) = inPipe[1] /\ inPipe[1].kind = "csw" /\ inPipe[1].tag = issued
         /\ tag = issued /\ ~InCommand /\ issued > 0 /\ current \in Commands
         /\ inPipe' = <<>>
         /\ \A i \in DOMAIN outPipe : outPipe[i].kind # "cbw"
<1> USE DEF TagInv
<1>1. inPipe # <<>> /\ Head(inPipe).kind = "csw" /\ Head(inPipe).tag = issued /\ inPipe' = Tail(inPipe) /\ host # "idle"
  BY DEF HostReadStatus
<1>2. 1 \in DOMAIN inPipe /\ Head(inPipe) = inPipe[1]
  BY <1>1, Numbers, Tails
<1>3. tag = issued /\ ~InCommand
  BY <1>1, <1>2, Numbers DEF InTags, CommandTags
<1>4. issued > 0 /\ current \in Commands
  BY <1>1 DEF CommandTags
<1>5. Len(inPipe) = 1
  <2>1. Len(inPipe) \in Nat \ {0} /\ DOMAIN inPipe = 1 .. Len(inPipe)
    BY <1>1, Numbers, Tails
  <2>2. ASSUME Len(inPipe) # 1 PROVE FALSE
    <3>1. 2 \in DOMAIN inPipe
      BY <2>1, <2>2
    <3>2. inPipe[1].tag < inPipe[2].tag
      BY <1>1, <1>2, <3>1 DEF InTags
    <3>3. inPipe[2].tag <= tag /\ inPipe[2].tag \in Nat
      BY <3>1, Numbers DEF InTags
    <3> QED BY <1>1, <1>2, <1>3, <3>2, <3>3, Numbers
  <2> QED BY <2>2
<1>6. inPipe' = <<>>
  <2>1. Tail(inPipe) \in Seq(InItem) /\ Len(Tail(inPipe)) = 0
    BY <1>1, <1>5, Numbers
  <2> QED BY <1>1, <2>1
<1>7. \A i \in DOMAIN outPipe : outPipe[i].kind # "cbw"
  BY <1>3, Numbers DEF OutTags, Younger
<1> QED BY <1>1, <1>2, <1>3, <1>4, <1>6, <1>7

LEMMA BlocksFrame ==
  ASSUME TypeInv, StageInv, [Next]_vars
  PROVE  \/ medium'.blocks = medium.blocks
         \/ /\ pc = "storing" /\ pc' = "status"
            /\ \E n \in Nat : n <= cbw.blocks /\ medium'.blocks = Overwritten(n)
            /\ Store \/ StoreFails
<1>0. \A m : [medium EXCEPT !.blocks = m].blocks = m
  BY DEF TypeInv, MediumType
<1>1. CASE QuietSteps
  BY <1>1, QuietFrame DEF Quiet, TypeInv
<1>2. CASE AdvanceSteps
  BY <1>2, AdvanceFrame DEF Advance
<1>3. CASE StatusSteps \/ ReceiveData \/ ReadCBW
  BY <1>3 DEF StatusSteps, sendCSW, sendCSWFails, ReceiveData, ReadCBW
<1>4. CASE HostSteps
  BY <1>4 DEF HostSteps, HostSendData, HostReadData, HostReadStatus, HostGivesUp, HostSend
<1>5. CASE Store
  <2>0. cbw \in Commands
    BY <1>5 DEF Store, StageInv, InCommand, Working
  <2>1. cbw.blocks \in Nat /\ cbw.blocks <= cbw.blocks
    BY <2>0, CommandFields
  <2>2. medium'.blocks = Overwritten(cbw.blocks)
    BY <1>0, <1>5 DEF Store
  <2>3. pc = "storing" /\ pc' = "status"
    BY <1>5 DEF Store, Finish, Goto
  <2> QED BY <1>5, <2>1, <2>2, <2>3
<1>6. CASE StoreFails
  <2>0. cbw \in Commands
    BY <1>6 DEF StoreFails, StageInv, InCommand, Working
  <2>1. pc = "storing" /\ pc' = "status"
    BY <1>6 DEF StoreFails, Finish, Goto
  <2>2. CASE ~Writable
    BY <1>6, <2>2 DEF StoreFails
  <2>3. CASE Writable
    <3>1. PICK n \in 0 .. cbw.blocks : medium' = [medium EXCEPT !.blocks = Overwritten(n)]
      BY <1>6, <2>3 DEF StoreFails
    <3>2. n \in Nat /\ n <= cbw.blocks
      BY <2>0, CommandFields
    <3> QED BY <1>0, <1>6, <2>1, <3>1, <3>2
  <2> QED BY <2>2, <2>3
<1>7. CASE Eject
  BY <1>7 DEF Eject, TypeInv, MediumType
<1>8. CASE FinishSteps /\ ~Store /\ ~StoreFails /\ ~Eject
  BY <1>8 DEF FinishSteps, HandleAtOnce, SyncFails, LoadFails, ReceiveFails, ReceiveTooMuch, Send, SendFails
<1> QED BY <1>1, <1>2, <1>3, <1>4, <1>5, <1>6, <1>7, <1>8, StepCases DEF HostSteps

(* The blocks of the medium stay as they are but for those the command     *)
(* under way asks to write.                                                *)
LEMMA BlocksKept ==
  ASSUME TypeInv, StageInv, [Next]_vars, NEW b \in Blocks,
         ~(pc = "storing" /\ b \in WriteOf(cbw))
  PROVE  medium'.blocks[b] = medium.blocks[b]
<1>1. CASE medium'.blocks = medium.blocks
  BY <1>1
<1>2. CASE pc = "storing" /\ \E n \in Nat : n <= cbw.blocks /\ medium'.blocks = Overwritten(n)
  <2>1. PICK n \in Nat : n <= cbw.blocks /\ medium'.blocks = Overwritten(n)
    BY <1>2
  <2>2. InCommand /\ cbw.op = "write10"
    BY <1>2 DEF StageInv, InCommand, Working
  <2>3. cbw.lba \in Nat /\ cbw.blocks \in Nat
    BY <2>2, Lengths
  <2>4. b \notin cbw.lba .. cbw.lba + cbw.blocks - 1
    BY <1>2, <2>2 DEF WriteOf
  <2>5. b \notin cbw.lba .. cbw.lba + n - 1
    BY <2>1, <2>3, <2>4
  <2> QED BY <2>1, <2>5 DEF Overwritten
<1> QED BY <1>1, <1>2, BlocksFrame

LEMMA StoredFrame ==
  ASSUME TypeInv, [Next]_vars
  PROVE  (\E c \in Commands : HostSend(c)) \/ HostReadStatus \/ UNCHANGED stored
  BY HostFrame DEF HostSteps, hostVars, HostSendData, HostReadData, HostGivesUp

(* What the host reads from a good status is on the medium.                *)
LEMMA StoredByStatus ==
  ASSUME TypeInv, TagInv, MediumInv, ResultInv, HostReadStatus, NEW b \in Blocks, stored'[b] # Garbage
  PROVE  medium'.blocks[b] = stored'[b]
<1>1. UNCHANGED medium
  BY DEF HostReadStatus
<1>2. CASE UNCHANGED stored
  BY <1>1, <1>2 DEF MediumInv
<1>3. CASE stored' # stored
  <2>1. 1 \in DOMAIN inPipe /\ Head(inPipe) = inPipe[1] /\ inPipe[1].kind = "csw" /\ inPipe[1].tag = issued
    BY ReadsStatus
  <2>2. Wrote(current, inPipe[1], sent, medium.blocks)
    BY <2>1 DEF ResultInv, StatusInv, Result
  <2>3. inPipe[1].status = "Good"
        /\ stored' = [x \in Blocks |-> IF x \in WriteOf(current) THEN sent[x - current.lba + 1] ELSE stored[x]]
    BY <1>3, <2>1 DEF HostReadStatus
  <2>4. CASE b \in WriteOf(current)
    <3>1. current.op = "write10"
      BY <2>4 DEF WriteOf
    <3>2. medium.blocks[b] = sent[b - current.lba + 1]
      BY <2>2, <2>3, <2>4, <3>1 DEF Wrote, IsStored
    <3> QED BY <1>1, <2>3, <2>4, <3>2
  <2>5. CASE b \notin WriteOf(current)
    BY <1>1, <2>3, <2>5 DEF MediumInv
  <2> QED BY <2>4, <2>5
<1> QED BY <1>2, <1>3

(* Only the command under way writes, and only where the host stopped      *)
(* relying on the medium when it sent the command.                         *)
LEMMA MediumNext ==
  ASSUME TypeInv, StageInv, TagInv, MediumInv, ResultInv, [Next]_vars
  PROVE  MediumInv'
<1>1. ASSUME NEW c \in Commands, HostSend(c) PROVE MediumInv'
  <2>1. UNCHANGED <<medium, cbw, pc>> /\ outPipe' = Append(outPipe, Block(c))
        /\ stored' = [b \in Blocks |-> IF b \in WriteOf(c) THEN Garbage ELSE stored[b]]
    BY <1>1 DEF HostSend, driverVars, Block
  <2>2. Working' = Working
    BY <2>1 DEF Working
  <2>3. \A b \in Blocks : stored'[b] = Garbage \/ stored'[b] = stored[b]
    BY <2>1
  <2>4. \A d : WriteOf(d) \subseteq Blocks
    BY DEF WriteOf
  <2>5. \A d : Clears(d) => \A b \in WriteOf(d) : stored'[b] = Garbage
    BY <2>3, <2>4 DEF Clears
  <2>6. \A b \in WriteOf(c) : stored'[b] = Garbage
    BY <2>1, <2>4
  <2>7. \A i \in DOMAIN outPipe' : outPipe'[i] = Block(c) \/ (i \in DOMAIN outPipe /\ outPipe'[i] = outPipe[i])
    <3>1. DOMAIN outPipe' = 1 .. Len(outPipe) + 1 /\ DOMAIN outPipe = 1 .. Len(outPipe) /\ Len(outPipe) \in Nat
          /\ (\A i \in 1 .. Len(outPipe) : outPipe'[i] = outPipe[i])
          /\ outPipe'[Len(outPipe) + 1] = Block(c)
      BY <2>1, Numbers, Appends
    <3> QED BY <3>1
  <2>8. Block(c).command = c
    BY DEF Block
  <2>9. ASSUME NEW i \in DOMAIN outPipe', outPipe'[i].kind = "cbw"
        PROVE  \A b \in WriteOf(outPipe'[i].command) : stored'[b] = Garbage
    <3>1. CASE outPipe'[i] = Block(c)
      BY <2>6, <2>8, <3>1
    <3>2. CASE i \in DOMAIN outPipe /\ outPipe'[i] = outPipe[i]
      <4>1. Clears(outPipe[i].command)
        BY <2>9, <3>2 DEF MediumInv
      <4> QED BY <2>5, <3>2, <4>1
    <3> QED BY <2>7, <3>1, <3>2
  <2>10. \A b \in Blocks : stored'[b] # Garbage => medium'.blocks[b] = stored'[b]
    BY <2>1, <2>3 DEF MediumInv
  <2>11. Working' => \A b \in WriteOf(cbw') : stored'[b] = Garbage
    BY <2>1, <2>2, <2>5 DEF MediumInv
  <2> QED BY <2>9, <2>10, <2>11 DEF MediumInv, Clears, WriteOf
<1>2. CASE HostReadStatus
  <2>1. ~Working' /\ UNCHANGED outPipe
    BY <1>2, ReadsStatus DEF HostReadStatus, InCommand, Working, driverVars
  <2>2. \A b \in Blocks : stored'[b] # Garbage => medium'.blocks[b] = stored'[b]
    BY <1>2, StoredByStatus
  <2>3. \A i \in DOMAIN outPipe' : outPipe'[i].kind # "cbw"
    BY <1>2, <2>1, ReadsStatus
  <2> QED BY <2>1, <2>2, <2>3 DEF MediumInv
<1>3. CASE UNCHANGED stored /\ ~\E c \in Commands : HostSend(c)
  <2>1. \A b \in Blocks : stored'[b] # Garbage => medium'.blocks[b] = stored'[b]
    <3> SUFFICES ASSUME NEW b \in Blocks, stored[b] # Garbage PROVE medium'.blocks[b] = stored[b]
      BY <1>3
    <3>1. ~(pc = "storing" /\ b \in WriteOf(cbw))
      BY DEF MediumInv, Clears, Working
    <3>2. medium'.blocks[b] = medium.blocks[b]
      BY <3>1, BlocksKept
    <3> QED BY <3>2 DEF MediumInv
  <2>2. Working' => \A b \in WriteOf(cbw') : stored[b] = Garbage
    <3>1. CASE ReadCBW /\ pc' = "command"
      <4>1. Head(outPipe).kind = "cbw"
        BY <3>1 DEF ReadCBW, Goto
      <4>2. 1 \in DOMAIN outPipe /\ outPipe[1].kind = "cbw" /\ outPipe[1].command = cbw'
        BY <3>1, <4>1, TakesBlock
      <4>3. Clears(outPipe[1].command)
        BY <4>2 DEF MediumInv
      <4> QED BY <4>2, <4>3 DEF Clears
    <3>2. CASE UNCHANGED cbw /\ (Working' => Working)
      BY <3>2 DEF MediumInv, Clears
    <3>3. CASE ReadCBW /\ pc' # "command"
      BY <3>3 DEF ReadCBW, Goto, Working
    <3> QED BY <3>1, <3>2, <3>3, TagFrame, StageFrame
  <2>3. \A i \in DOMAIN outPipe' : outPipe'[i].kind = "cbw" => \E j \in DOMAIN outPipe : outPipe'[i] = outPipe[j]
    <3>1. CASE UNCHANGED outPipe
      BY <3>1
    <3>2. CASE outPipe # <<>> /\ outPipe' = Tail(outPipe)
      BY <3>2, Numbers, Tails
    <3>3. CASE outPipe' = Append(outPipe, DataOf(Len(sent)))
      <4>1. DOMAIN outPipe' = 1 .. Len(outPipe) + 1 /\ DOMAIN outPipe = 1 .. Len(outPipe) /\ Len(outPipe) \in Nat
            /\ (\A i \in 1 .. Len(outPipe) : outPipe'[i] = outPipe[i])
            /\ outPipe'[Len(outPipe) + 1] = DataOf(Len(sent)) /\ DataOf(Len(sent)).kind # "cbw"
        BY <3>3, Numbers, Appends DEF DataOf
      <4>2. \A i \in DOMAIN outPipe' : outPipe'[i].kind = "cbw" => i \in DOMAIN outPipe /\ outPipe'[i] = outPipe[i]
        BY <4>1
      <4> QED BY <4>2
    <3>4. \/ UNCHANGED outPipe \/ outPipe' = Append(outPipe, DataOf(Len(sent)))
          \/ outPipe # <<>> /\ outPipe' = Tail(outPipe)
      BY <1>3, OutPipeSteps
    <3> QED BY <3>1, <3>2, <3>3, <3>4
  <2>4. ASSUME NEW i \in DOMAIN outPipe', outPipe'[i].kind = "cbw"
        PROVE  \A b \in WriteOf(outPipe'[i].command) : stored[b] = Garbage
    BY <2>3, <2>4 DEF MediumInv, Clears
  <2> QED BY <1>3, <2>1, <2>2, <2>4 DEF MediumInv, Clears, WriteOf
<1>4. (\E c \in Commands : HostSend(c)) \/ HostReadStatus \/ UNCHANGED stored
  BY StoredFrame
<1> QED BY <1>1, <1>2, <1>3, <1>4

LEMMA MediumInit == Init => MediumInv
  BY DEF Init, MediumInv, Working

(***************************************************************************)
(* The causes and the results.                                             *)
(***************************************************************************)
LEMMA Causes ==
  ASSUME NEW c \in Commands
  PROVE  /\ c.lun > 0 => "InvalidFieldInCDB" \in CausesOf(c)
         /\ c.lun = 0 /\ c.op = "unsupported" => "InvalidCommand" \in CausesOf(c)
         /\ c.lun = 0 /\ c.op = "testUnitReady" => "MediumNotPresent" \in CausesOf(c)
         /\ c.lun = 0 /\ c.op = "synchronizeCache10" => "HardwareError" \in CausesOf(c)
         /\ c.lun = 0 /\ c.op = "startStopUnit" => "InvalidFieldInCDB" \in CausesOf(c)
         /\ c.lun = 0 /\ c.op = "requestSense" => CausesOf(c) = Senses
         /\ c.lun = 0 /\ c.op \in NeedsMedium \union {"read10", "write10"} =>
              {"MediumNotPresent", "HardwareError", "MediumError"} \subseteq CausesOf(c)
         /\ c.lun = 0 /\ c.op \in {"inquiry", "modeSense6"} => "HardwareError" \in CausesOf(c)
         /\ c.lun = 0 /\ c.op = "write10" => "WriteProtected" \in CausesOf(c)
         /\ c.lun = 0 /\ c.op \in {"read10", "write10"} /\ c.lba + c.blocks > BlockCount => "LBAOutOfRange" \in CausesOf(c)
<1>1. c.lun \in Nat /\ (c.lun = 0 => ~(c.lun > 0))
  BY CommandFields
<1>2. ASSUME c.lun > 0 PROVE "InvalidFieldInCDB" \in CausesOf(c)
  BY <1>2 DEF CausesOf
<1>3. ASSUME c.lun = 0, c.op \in {"unsupported", "testUnitReady", "synchronizeCache10", "startStopUnit", "requestSense"}
      PROVE  /\ c.op = "unsupported" => "InvalidCommand" \in CausesOf(c)
             /\ c.op = "testUnitReady" => "MediumNotPresent" \in CausesOf(c)
             /\ c.op = "synchronizeCache10" => "HardwareError" \in CausesOf(c)
             /\ c.op = "startStopUnit" => "InvalidFieldInCDB" \in CausesOf(c)
             /\ c.op = "requestSense" => CausesOf(c) = Senses
  BY <1>1, <1>3 DEF CausesOf
<1>4. ASSUME c.lun = 0, c.op \in {"inquiry", "modeSense6"} PROVE "HardwareError" \in CausesOf(c)
  BY <1>1, <1>4 DEF CausesOf
<1>5. ASSUME c.lun = 0, c.op \in NeedsMedium \union {"read10", "write10"}
      PROVE  /\ {"MediumNotPresent", "HardwareError", "MediumError"} \subseteq CausesOf(c)
             /\ c.op = "write10" => "WriteProtected" \in CausesOf(c)
             /\ c.lba + c.blocks > BlockCount => "LBAOutOfRange" \in CausesOf(c)
  BY <1>1, <1>5 DEF CausesOf, NeedsMedium
<1> QED BY <1>2, <1>3, <1>4, <1>5

(* Sense data last until the next command has been decided.                *)
LEMMA SenseNext ==
  ASSUME TypeInv, StageInv, TagInv, ResultInv, SenseInv, [Next]_vars
  PROVE  SenseInv'
<1> DEFINE Known == sense \in CausesOf(owed)
<1>0. issued \in Nat /\ tag \in Nat /\ tag <= issued
  BY Numbers DEF TagInv, CommandTags
<1>1. CASE UNCHANGED <<owed, host, tag, issued>> /\ (Working' => Working) /\ (InCommand' => InCommand)
           /\ (UNCHANGED sense \/ (InCommand /\ ~Working'))
  BY <1>0, <1>1 DEF SenseInv, InCommand
<1>2. CASE QuietSteps
  <2>1. Quiet
    BY <1>2, QuietFrame DEF TypeInv
  <2> QED BY <1>1, <2>1 DEF Quiet, hostVars, InCommand, Working
<1>3. CASE AdvanceSteps \/ FinishSteps
  <2>1. Advance \/ Ends
    BY <1>3, AdvanceFrame, FinishFrame
  <2> QED BY <1>1, <2>1 DEF Advance, Ends, hostVars, InCommand, Working
<1>4. CASE StatusSteps \/ ReceiveData
  <2>1. UNCHANGED <<owed, host, tag, issued, sense>>
    BY <1>4 DEF StatusSteps, sendCSW, sendCSWFails, ReceiveData, hostVars
  <2>2. (Working' => Working) /\ (InCommand' => InCommand)
    BY <1>4 DEF StatusSteps, sendCSW, sendCSWFails, ReceiveData, Goto, InCommand, Working
  <2> QED BY <1>1, <2>1, <2>2
<1>5. CASE ReadCBW
  <2>1. UNCHANGED <<owed, host, issued, sense>> /\ ~InCommand
    BY <1>5 DEF ReadCBW, hostVars, InCommand, Working
  <2>2. CASE Head(outPipe).kind = "cbw"
    <3>1. tag' \in Nat /\ tag < tag' /\ tag' <= issued /\ pc' = "command"
      BY <1>5, <2>2, TakesBlock
    <3>2. ASSUME owed # Absent PROVE host # "idle" /\ tag' = issued /\ Known
      BY <1>0, <2>1, <3>1, <3>2 DEF SenseInv
    <3> QED BY <2>1, <3>2 DEF SenseInv
  <2>3. CASE Head(outPipe).kind # "cbw"
    <3>1. UNCHANGED tag /\ ~InCommand' /\ ~Working'
      BY <1>5, <2>3, DropsBlock DEF InCommand, Working
    <3> QED BY <1>1, <2>1, <3>1
  <2> QED BY <2>2, <2>3
<1>6. CASE HostSendData \/ HostReadData
  <2>1. UNCHANGED <<owed, tag, issued, sense, pc>> /\ host # "idle" /\ host' # "idle"
    BY <1>6 DEF HostSendData, HostReadData, driverVars
  <2>2. Working' = Working /\ InCommand' = InCommand
    BY <2>1 DEF InCommand, Working
  <2> QED BY <2>1, <2>2 DEF SenseInv
<1>7. CASE HostReadStatus
  <2>1. 1 \in DOMAIN inPipe /\ Head(inPipe) = inPipe[1] /\ inPipe[1].kind = "csw" /\ inPipe[1].tag = issued
        /\ tag = issued /\ ~InCommand
    BY <1>7, ReadsStatus
  <2>2. UNCHANGED <<tag, issued, sense, pc>> /\ host # "idle" /\ host' = "idle"
        /\ owed' = (IF inPipe[1].status = "Failed" THEN current ELSE Absent)
    BY <1>7, <2>1 DEF HostReadStatus, driverVars
  <2>3. inPipe[1].status = "Failed" => sense \in CausesOf(current)
    BY <2>1, <2>2 DEF ResultInv, StatusInv, Result, Blamed
  <2>4. ~InCommand'
    BY <2>1, <2>2 DEF InCommand, Working
  <2> QED BY <2>1, <2>2, <2>3, <2>4 DEF SenseInv
<1>8. CASE HostGivesUp
  BY <1>8 DEF HostGivesUp, SenseInv
<1>9. ASSUME NEW c \in Commands, HostSend(c) PROVE SenseInv'
  <2>1. UNCHANGED <<owed, tag, sense, pc>> /\ host = "idle" /\ host' # "idle" /\ issued' = issued + 1
    BY <1>9 DEF HostSend, driverVars
  <2>2. InCommand' = InCommand
    BY <2>1 DEF InCommand, Working
  <2> QED BY <1>0, <2>1, <2>2 DEF SenseInv
<1> QED BY <1>2, <1>3, <1>4, <1>5, <1>6, <1>7, <1>8, <1>9, StepCases

LEMMA SenseInit == Init => SenseInv
  BY DEF Init, SenseInv

(* The driver's answer to the current command, before it is sent.          *)
(* The driver has not answered the current command while it works on it.   *)
LEMMA NothingYet ==
  ASSUME TypeInv, TagInv, Working, tag = issued
  PROVE  ~IsData(Latest, issued)
<1> USE DEF TagInv
<1>1. CASE inPipe = <<>>
  BY <1>1, Numbers DEF Latest, IsData, AnswerTags
<1>2. CASE inPipe # <<>>
  <2>1. Len(inPipe) \in DOMAIN inPipe
    BY <1>2, Numbers, Tails
  <2>2. inPipe[Len(inPipe)].tag < tag /\ inPipe[Len(inPipe)].tag \in Nat
    BY <2>1, Numbers DEF InTags
  <2> QED BY <1>2, <2>2, Numbers DEF Latest, IsData
<1> QED BY <1>1, <1>2

LEMMA CurrentCommand ==
  ASSUME TypeInv, StageInv, TagInv, InCommand, tag = issued
  PROVE  cbw = current /\ cbw \in Commands
  BY DEF StageInv, TagInv, CommandTags

LEMMA ResidueFits ==
  ASSUME NEW c \in Commands, NEW x \in Nat, x <= c.dtl
  PROVE  (c.dtl - x) % Word = c.dtl - x
<1>1. c.dtl \in Nat /\ c.dtl < Word /\ Word \in Nat \ {0}
  BY CommandFields, BotAssumption
<1>2. c.dtl - x \in 0 .. Word - 1
  BY <1>1
<1> QED BY <1>1, <1>2

LEMMA ZeroResidue == 0 % Word = 0
  BY BotAssumption

(* A failed command leaves its cause and moved no data that counts.        *)
LEMMA FailsWith ==
  ASSUME TypeInv, StageInv, TagInv, FinishSteps, tag = issued, UNCHANGED inPipe, NEW r \in Int,
         verdict' = [status |-> "Failed", residue |-> r % Word], sense' \in CausesOf(cbw),
         r = cbw.dtl \/ (r = 0 /\ Silent(cbw))
  PROVE  Result(Latest, verdict)'
<1>1. Ends
  BY FinishFrame
<1>2. Working /\ InCommand /\ UNCHANGED <<cbw, tag, hostVars>>
  BY <1>1 DEF Ends, InCommand
<1>3. cbw = current /\ cbw \in Commands
  BY <1>2, CurrentCommand
<1>4. UNCHANGED <<current, issued, sent, stored, owed, host, received>>
  BY <1>2 DEF hostVars
<1>5. Latest' = Latest /\ ~IsData(Latest, issued)
  BY <1>2, <1>4, NothingYet DEF Latest
<1>6. verdict'.status # "Good" /\ verdict'.residue = r % Word
  OBVIOUS
<1>7. MovedBy(current, Latest, verdict', issued, sent) = 0
  BY <1>5, <1>6 DEF MovedBy
<1>8. cbw.dtl \in Nat /\ cbw.dtl % Word = cbw.dtl /\ cbw.dtl - 0 = cbw.dtl
  <2>1. cbw.dtl \in Nat /\ 0 <= cbw.dtl
    BY <1>3, CommandFields
  <2>2. cbw.dtl - 0 = cbw.dtl
    BY <2>1
  <2> QED BY <1>3, <2>1, <2>2, ResidueFits
<1>9. Counted(current, Latest, verdict', issued, sent)
  BY <1>3, <1>6, <1>7, <1>8, ZeroResidue DEF Counted
<1>10. Blamed(current, verdict', host, sense')
  BY <1>3 DEF Blamed
<1> QED BY <1>4, <1>5, <1>6, <1>9, <1>10 DEF Result, Wrote, Brought, Excused

(* A command that ends well before any data did not call for any.          *)
LEMMA MovesNothing ==
  ASSUME TypeInv, StageInv, TagInv, FinishSteps, tag = issued, UNCHANGED inPipe, Silent(cbw),
         verdict' = [status |-> "Good", residue |-> 0 % Word]
  PROVE  Result(Latest, verdict)'
<1>1. Ends
  BY FinishFrame
<1>2. Working /\ InCommand /\ UNCHANGED <<cbw, tag, hostVars>>
  BY <1>1 DEF Ends, InCommand
<1>3. cbw = current /\ cbw \in Commands
  BY <1>2, CurrentCommand
<1>4. UNCHANGED <<current, issued, sent, stored, owed, host, received>>
  BY <1>2 DEF hostVars
<1>5. Latest' = Latest /\ ~IsData(Latest, issued)
  BY <1>2, <1>4, NothingYet DEF Latest
<1>6. verdict'.status = "Good" /\ verdict'.residue = 0
  BY ZeroResidue
<1>7. current.blocks \in Nat /\ current.lba \in Nat /\ current.dtl \in Nat /\ BlockSize \in Nat /\ Len(sent) \in Nat
  BY <1>3, CommandFields, BotAssumption, Numbers, Appends
<1>8. current.op \in {"read10", "write10"} => current.blocks = 0
  BY <1>3 DEF Silent, Acknowledged
<1>9. MovedBy(current, Latest, verdict', issued, sent) = 0
  <2>1. current.op = "write10" => BlockSize * Least(Len(sent), current.blocks) = 0
    BY <1>7, <1>8 DEF Least
  <2> QED BY <1>5, <2>1 DEF MovedBy
<1>10. Counted(current, Latest, verdict', issued, sent)
  BY <1>3, <1>6, <1>7, <1>9 DEF Counted
<1>11. Wrote(current, verdict', sent, medium'.blocks)
  <2> SUFFICES ASSUME current.op = "write10" PROVE IsStored(current, sent, medium'.blocks)
    BY DEF Wrote
  <2>1. current.blocks = 0 /\ current.lba .. current.lba + current.blocks - 1 = {}
    BY <1>7, <1>8
  <2>2. WriteOf(current) = {}
    BY <2>1 DEF WriteOf
  <2> QED BY <1>7, <2>1, <2>2 DEF IsStored
<1>12. Brought(current, Latest, verdict', issued, stored)
  BY <1>7, <1>8 DEF Brought
<1>13. Excused(current, Latest, verdict', issued, owed)
  <2>1. current.op # "requestSense"
    BY <1>3 DEF Silent, Acknowledged
  <2> QED BY <2>1 DEF Excused
<1> QED BY <1>4, <1>5, <1>6, <1>10, <1>11, <1>12, <1>13 DEF Result, Blamed

LEMMA AtOnceResult ==
  ASSUME TypeInv, StageInv, TagInv, HandleAtOnce, tag = issued
  PROVE  Result(Latest, verdict)'
<1>1. FinishSteps /\ UNCHANGED inPipe /\ InCommand /\ pc = "command"
  BY DEF HandleAtOnce, FinishSteps, InCommand, Working
<1>2. cbw \in Commands /\ cbw.lun \in Nat
  BY <1>1, CommandFields DEF StageInv
<1>3. cbw.dtl \in Int /\ cbw.lba \in Nat /\ cbw.blocks \in Nat /\ BlockCount \in Nat /\ cbw.alloc \in Nat
  BY <1>2, CommandFields, BotAssumption
<1>4. ASSUME NEW k \in CausesOf(cbw), Finish("Failed", cbw.dtl, k) PROVE Result(Latest, verdict)'
  BY <1>1, <1>3, <1>4, FailsWith DEF Finish
<1>5. ASSUME NEW k, Silent(cbw), Finish("Good", 0, k) PROVE Result(Latest, verdict)'
  BY <1>1, <1>5, MovesNothing DEF Finish
<1>6. CASE RefuseBadLUN
  BY <1>2, <1>4, <1>6, Causes DEF RefuseBadLUN
<1>7. CASE cbw.lun = 0 /\ RefuseUnsupported
  BY <1>2, <1>4, <1>7, Causes DEF RefuseUnsupported
<1>8. CASE cbw.lun = 0 /\ handleTestUnitReady
  <2>1. Silent(cbw) /\ "MediumNotPresent" \in CausesOf(cbw)
    BY <1>2, <1>8, Causes DEF handleTestUnitReady, Silent
  <2>2. CASE medium.present
    BY <1>5, <1>8, <2>1, <2>2 DEF handleTestUnitReady
  <2>3. CASE ~medium.present
    BY <1>1, <1>8, <2>1, <2>3, FailsWith DEF handleTestUnitReady, Finish
  <2> QED BY <2>2, <2>3
<1>9. CASE cbw.lun = 0 /\ Acknowledge
  <2>1. Silent(cbw)
    BY <1>9 DEF Acknowledge, Silent
  <2> QED BY <1>5, <1>9, <2>1 DEF Acknowledge
<1>10. CASE cbw.lun = 0 /\ handleSynchronizeCache10
  <2>1. Silent(cbw)
    BY <1>10 DEF handleSynchronizeCache10, Silent
  <2> QED BY <1>5, <1>10, <2>1 DEF handleSynchronizeCache10
<1>11. CASE cbw.lun = 0 /\ NeedsPresentMedium
  BY <1>2, <1>4, <1>11, Causes DEF NeedsPresentMedium
<1>12. CASE cbw.lun = 0 /\ NothingAskedFor
  <2>1. Silent(cbw)
    BY <1>12 DEF NothingAskedFor, Silent
  <2> QED BY <1>5, <1>12, <2>1 DEF NothingAskedFor
<1>13. CASE cbw.lun = 0 /\ WriteProtect
  BY <1>2, <1>4, <1>13, Causes DEF WriteProtect
<1>14. CASE cbw.lun = 0 /\ OutOfRange
  <2>1. cbw.lba + cbw.blocks > BlockCount
    BY <1>3, <1>14 DEF OutOfRange, InRange
  <2>2. "LBAOutOfRange" \in CausesOf(cbw)
    BY <1>2, <1>14, <2>1, Causes DEF OutOfRange
  <2> QED BY <1>4, <1>14, <2>2 DEF OutOfRange
<1>15. Decided
  BY DEF HandleAtOnce
<1> QED BY <1>6, <1>7, <1>8, <1>9, <1>10, <1>11, <1>12, <1>13, <1>14, <1>15 DEF Decided

LEMMA FailureResult ==
  ASSUME TypeInv, StageInv, TagInv, tag = issued,
         SyncFails \/ LoadFails \/ ReceiveFails \/ ReceiveTooMuch \/ StoreFails \/ Eject \/ SendFails
  PROVE  Result(Latest, verdict)'
<1>1. FinishSteps /\ UNCHANGED inPipe
  BY DEF FinishSteps, SyncFails, LoadFails, ReceiveFails, ReceiveTooMuch, StoreFails, Eject, SendFails
<1>2. InCommand /\ cbw \in Commands
  BY <1>1, FinishFrame DEF Ends, StageInv, InCommand
<1>3. cbw.dtl \in Int /\ 0 \in Int
  BY <1>2, CommandFields
<1>4. ASSUME NEW k \in CausesOf(cbw), Finish("Failed", cbw.dtl, k) PROVE Result(Latest, verdict)'
  BY <1>1, <1>3, <1>4, FailsWith DEF Finish
<1>5. ASSUME NEW k \in CausesOf(cbw), Silent(cbw), Finish("Failed", 0, k) PROVE Result(Latest, verdict)'
  BY <1>1, <1>3, <1>5, FailsWith DEF Finish
<1>6. CASE SyncFails
  <2>1. Silent(cbw)
    BY <1>6 DEF SyncFails, Silent
  <2> QED BY <1>2, <1>5, <1>6, <2>1, Causes DEF SyncFails
<1>7. CASE LoadFails
  <2>1. cbw.lun = 0 /\ cbw.op = "read10"
    BY <1>7 DEF LoadFails, StageInv, Working, Deciding
  <2>2. "MediumError" \in CausesOf(cbw)
    BY <1>2, <2>1, Causes
  <2> QED BY <1>4, <1>7, <2>2 DEF LoadFails
<1>8. CASE ReceiveFails \/ ReceiveTooMuch
  <2>1. cbw.lun = 0 /\ cbw.op = "write10"
    BY <1>8 DEF ReceiveFails, ReceiveTooMuch, StageInv, Working, Deciding
  <2>2. "HardwareError" \in CausesOf(cbw)
    BY <1>2, <2>1, Causes
  <2> QED BY <1>4, <1>8, <2>2 DEF ReceiveFails, ReceiveTooMuch
<1>9. CASE StoreFails
  <2>1. cbw.lun = 0 /\ cbw.op = "write10"
    BY <1>9 DEF StoreFails, StageInv, Working, Deciding
  <2>2. "MediumError" \in CausesOf(cbw)
    BY <1>2, <2>1, Causes
  <2> QED BY <1>4, <1>9, <2>2 DEF StoreFails
<1>10. CASE Eject
  <2>1. cbw.lun = 0 /\ cbw.op = "startStopUnit"
    BY <1>10 DEF Eject, StageInv, Working, Deciding
  <2>2. Silent(cbw) /\ "InvalidFieldInCDB" \in CausesOf(cbw)
    BY <1>2, <2>1, Causes DEF Silent
  <2>3. CASE medium.removable
    BY <1>1, <1>10, <2>2, <2>3, MovesNothing DEF Eject, Finish
  <2>4. CASE ~medium.removable
    BY <1>5, <1>10, <2>2, <2>4 DEF Eject
  <2> QED BY <2>3, <2>4
<1>11. CASE SendFails
  <2>1. cbw.lun = 0 /\ cbw.op \in DOMAIN FixedLength \union {"read10"}
    BY <1>11 DEF SendFails, StageInv, Working, Deciding
  <2>2. sense \in Senses
    BY DEF TypeInv, DriverType
  <2>3. CASE cbw.op = "requestSense"
    <3>1. sense \in CausesOf(cbw)
      BY <1>2, <2>1, <2>2, <2>3, Causes
    <3> QED BY <1>4, <1>11, <2>3, <3>1 DEF SendFails
  <2>4. CASE cbw.op # "requestSense"
    <3>1. "HardwareError" \in CausesOf(cbw)
      BY <1>2, <2>1, <2>4, Causes DEF FixedLength, NeedsMedium
    <3> QED BY <1>4, <1>11, <2>4, <3>1 DEF SendFails
  <2> QED BY <2>3, <2>4
<1> QED BY <1>6, <1>7, <1>8, <1>9, <1>10, <1>11

(* A write that ends well has its blocks on the medium.                    *)
LEMMA StoreResult ==
  ASSUME TypeInv, StageInv, TagInv, DataInv, Store, tag = issued
  PROVE  Result(Latest, verdict)'
<1>1. FinishSteps /\ UNCHANGED inPipe /\ Collecting /\ InCommand
  BY DEF FinishSteps, Store, Collecting, InCommand, Working
<1>2. UNCHANGED <<current, issued, sent, stored, owed, host, received>>
  BY <1>1, FinishFrame DEF Ends, hostVars
<1>3. cbw = current /\ cbw \in Commands
  BY <1>1, CurrentCommand
<1>4. cbw.op = "write10" /\ InBuffer /\ total = Length
  BY DEF Store, StageInv
<1>5. /\ cbw.blocks \in Nat /\ cbw.lba \in Nat /\ BlockSize \in Nat \ {0} /\ Length \in Nat /\ Len(sent) \in Nat
      /\ Len(outPipe) \in Nat /\ cbw.dtl \in Nat /\ BufferBlocks \in Nat
  BY <1>1, <1>3, Lengths, CommandFields, Numbers, Appends
<1>6. PICK n \in 0 .. cbw.blocks : Taking(n)
  BY <1>1 DEF DataInv
<1>7. n = cbw.blocks
  <2>1. n * BlockSize = cbw.blocks * BlockSize
    BY <1>4, <1>6 DEF Taking, Length
  <2>2. n < cbw.blocks => n * BlockSize + BlockSize <= cbw.blocks * BlockSize
    BY <1>5, MultiplesDiffer
  <2> QED BY <1>5, <2>1, <2>2
<1>8. Len(sent) >= cbw.blocks
  BY <1>5, <1>6, <1>7 DEF Taking, Follows
<1>9. medium'.blocks = Overwritten(cbw.blocks)
  BY DEF Store, TypeInv, MediumType
<1>10. ASSUME NEW b \in WriteOf(cbw) PROVE medium'.blocks[b] = sent[b - cbw.lba + 1]
  <2>1. b \in Blocks /\ b \in cbw.lba .. cbw.lba + cbw.blocks - 1
    BY <1>4 DEF WriteOf
  <2>2. medium'.blocks[b] = buf[b - cbw.lba]
    BY <1>9, <2>1 DEF Overwritten
  <2>3. b - cbw.lba \in 0 .. n - 1 /\ b - cbw.lba + 1 \in 1 .. Len(sent) /\ (b - cbw.lba + 1) - 1 = b - cbw.lba
    <3>1. b \in Int /\ cbw.lba <= b /\ b <= cbw.lba + cbw.blocks - 1
      BY <1>5, <2>1
    <3>2. b - cbw.lba \in 0 .. cbw.blocks - 1
      BY <1>5, <3>1
    <3>3. b - cbw.lba + 1 \in 1 .. Len(sent)
      BY <1>5, <1>8, <3>1
    <3>4. (b - cbw.lba + 1) - 1 = b - cbw.lba
      BY <1>5, <3>1
    <3> QED BY <1>7, <3>2, <3>3, <3>4
  <2>4. buf[b - cbw.lba] = <<issued, b - cbw.lba>>
    BY <1>6, <2>3 DEF Taking
  <2>5. b - cbw.lba + 1 \in DOMAIN sent
    BY <2>3, Numbers, Appends
  <2>6. sent[b - cbw.lba + 1] = <<issued, (b - cbw.lba + 1) - 1>>
    BY <2>5 DEF DataInv, SentInv
  <2> QED BY <2>2, <2>3, <2>4, <2>6
<1>11. verdict' = [status |-> "Good", residue |-> (cbw.dtl - Length) % Word]
  BY DEF Store, Finish
<1>12. Wrote(current, verdict', sent, medium'.blocks)
  BY <1>3, <1>8, <1>10 DEF Wrote, IsStored
<1>13. ASSUME NEW p PROVE Counted(current, p, verdict', issued, sent)
  <2>1. MovedBy(current, p, verdict', issued, sent) = BlockSize * cbw.blocks
    <3>1. Least(Len(sent), cbw.blocks) = cbw.blocks
      BY <1>5, <1>8 DEF Least
    <3> QED BY <1>3, <1>4, <1>11, <3>1 DEF MovedBy
  <2>2. BlockSize * cbw.blocks = Length
    BY <1>5 DEF Length
  <2>3. cbw.dtl >= Length => (cbw.dtl - Length) % Word = cbw.dtl - Length
    BY <1>3, <1>5, ResidueFits
  <2> QED BY <1>3, <1>11, <2>1, <2>2, <2>3 DEF Counted
<1>14. ASSUME NEW p PROVE Brought(current, p, verdict', issued, stored) /\ Excused(current, p, verdict', issued, owed)
  BY <1>3, <1>4 DEF Brought, Excused
<1>15. Blamed(current, verdict', host, sense')
  BY <1>11 DEF Blamed
<1>16. Counted(current, Latest', verdict', issued, sent) /\ Brought(current, Latest', verdict', issued, stored)
       /\ Excused(current, Latest', verdict', issued, owed)
  BY <1>13, <1>14
<1> QED BY <1>2, <1>12, <1>15, <1>16 DEF Result

(* The reply to a read is what the medium has, its length what was moved.  *)
LEMMA SendResult ==
  ASSUME TypeInv, StageInv, TagInv, ResultInv, Send, tag = issued
  PROVE  Result(Latest, verdict)'
<1>1. FinishSteps /\ InCommand /\ pc = "sending" /\ UNCHANGED medium
  BY DEF FinishSteps, Send, InCommand, Working
<1>2. UNCHANGED <<current, issued, sent, stored, owed, host, received>>
  BY <1>1, FinishFrame DEF Ends, hostVars
<1>3. cbw = current /\ cbw \in Commands
  BY <1>1, CurrentCommand
<1>4. inPipe' = Append(inPipe, Data)
  BY DEF Send, Data
<1>5. Latest' = Data
  <2>1. Len(inPipe') = Len(inPipe) + 1 /\ Len(inPipe) \in Nat /\ inPipe'[Len(inPipe) + 1] = Data
    BY <1>4, Numbers, Appends
  <2>2. inPipe' # <<>>
    BY <2>1
  <2> QED BY <2>1, <2>2 DEF Latest
<1>6. reply \in Reply
  BY <1>1 DEF TypeInv, DriverType
<1>7. Data \in InItem /\ IsData(Data, issued) /\ Data.len = reply.len /\ Data.body = reply.body /\ reply.len \in Nat
  <2>1. Data \in InItem
    BY <1>6, Numbers DEF Data, InItem, Reply
  <2>2. Data # Absent
    BY <2>1, BotAssumption
  <2> QED BY <1>6, <2>1, <2>2 DEF IsData, Data, Reply
<1>8. verdict' = [status |-> "Good", residue |-> (cbw.dtl - reply.len) % Word]
  BY DEF Send, Finish
<1>9. cbw.op \in DOMAIN FixedLength \union {"read10"} /\ cbw.op # "write10"
  BY <1>1 DEF StageInv, FixedLength
<1>10. Wrote(current, verdict', sent, medium'.blocks) /\ Blamed(current, verdict', host, sense')
  BY <1>3, <1>8, <1>9 DEF Wrote, Blamed
<1>11. Brought(current, Data, verdict', issued, stored)
  BY <1>1, <1>3, <1>7 DEF Brought, ResultInv, ReplyInv
<1>12. Excused(current, Data, verdict', issued, owed)
  BY <1>1, <1>3, <1>7 DEF Excused, ResultInv, ReplyInv
<1>13. Counted(current, Data, verdict', issued, sent)
  <2>1. MovedBy(current, Data, verdict', issued, sent) = reply.len
    BY <1>3, <1>7, <1>9 DEF MovedBy
  <2>2. cbw.dtl >= reply.len => (cbw.dtl - reply.len) % Word = cbw.dtl - reply.len
    <3>1. cbw.dtl \in Nat
      BY <1>3, CommandFields
    <3> QED BY <1>3, <1>7, <3>1, ResidueFits
  <2> QED BY <1>3, <1>8, <2>1, <2>2 DEF Counted
<1> QED BY <1>2, <1>5, <1>10, <1>11, <1>12, <1>13 DEF Result

LEMMA FinishResult ==
  ASSUME TypeInv, StageInv, TagInv, DataInv, ResultInv, FinishSteps, tag = issued
  PROVE  Result(Latest, verdict)'
  BY AtOnceResult, FailureResult, StoreResult, SendResult DEF FinishSteps

(* The result of a command stays what it is while nothing it is about      *)
(* changes.                                                                *)
LEMMA ResultKept ==
  ASSUME medium'.blocks = medium.blocks,
         UNCHANGED <<current, issued, sent, stored, owed, host, sense, received, inPipe, answer>>
  PROVE  /\ UNCHANGED verdict => (Result(Latest, verdict)' <=> Result(Latest, verdict))
         /\ StatusInv => StatusInv'
         /\ AnswerInv => AnswerInv'
<1>1. Latest' = Latest /\ \A i : Prior(i)' = Prior(i)
  BY DEF Latest, Prior
<1>2. UNCHANGED verdict => (Result(Latest, verdict)' <=> Result(Latest, verdict))
  BY <1>1 DEF Result
<1>3. StatusInv => StatusInv'
  BY <1>1 DEF StatusInv, Result
<1>4. AnswerInv => AnswerInv'
  BY DEF AnswerInv
<1> QED BY <1>2, <1>3, <1>4

(* Once the driver is at work on the current command there is no status of *)
(* it, and the host has no answer.                                         *)
LEMMA NoStatusYet ==
  ASSUME TypeInv, TagInv, InCommand
  PROVE  /\ \A i \in DOMAIN inPipe : ~(inPipe[i].kind = "csw" /\ inPipe[i].tag = issued)
         /\ answer = Absent
<1>1. ASSUME NEW i \in DOMAIN inPipe, inPipe[i].kind = "csw", inPipe[i].tag = issued PROVE FALSE
  <2>1. inPipe[i].tag < tag /\ tag <= issued
    BY <1>1 DEF TagInv, InTags, CommandTags
  <2> QED BY <1>1, <2>1, Numbers
<1> QED BY <1>1 DEF TagInv, AnswerTags

LEMMA AdvanceResult ==
  ASSUME TypeInv, StageInv, TagInv, MediumInv, SenseInv, ResultInv, AdvanceSteps
  PROVE  ResultInv'
<1>1. Advance /\ InCommand
  BY AdvanceFrame DEF Advance, InCommand
<1>2. UNCHANGED <<medium, cbw, tag, sense, verdict, inPipe, current, issued, sent, stored, owed, host, received, answer>>
  BY <1>1 DEF Advance, hostVars
<1>3. StatusInv' /\ AnswerInv'
  BY <1>2, ResultKept DEF ResultInv
<1>4. VerdictInv'
  BY <1>1 DEF Advance, VerdictInv
<1>5. ReplyInv'
  <2> SUFFICES ASSUME pc' = "sending", tag = issued
               PROVE  /\ cbw.op = "read10" => IsRead(cbw, reply'.body, stored)
                      /\ cbw.op = "requestSense" /\ owed # Absent => reply'.body[1] \in CausesOf(owed)
    BY <1>2 DEF ReplyInv
  <2>1. CASE HandleResponse
    <3>1. cbw.op # "read10" /\ pc = "command"
      BY <2>1 DEF HandleResponse, FixedLength
    <3>2. cbw.op = "requestSense" => reply'.body = <<sense>>
      BY <2>1 DEF HandleResponse
    <3>3. owed # Absent => sense \in CausesOf(owed)
      BY <1>1, <3>1 DEF SenseInv, Working
    <3> QED BY <3>1, <3>2, <3>3
  <2>2. CASE Load
    <3>1. cbw.op = "read10" /\ InBuffer
      BY <2>2 DEF Load, StageInv
    <3>2. cbw.blocks \in Nat /\ cbw.lba \in Nat /\ BlockCount \in Nat
      BY <1>1, Lengths
    <3>3. reply'.body = [i \in 1 .. cbw.blocks |-> Read(i - 1)]
      BY <2>2 DEF Load
    <3>4. Len(reply'.body) = cbw.blocks
      BY <3>2, <3>3
    <3>5. ASSUME NEW i \in 1 .. cbw.blocks, stored[cbw.lba + i - 1] # Garbage
          PROVE  reply'.body[i] = stored[cbw.lba + i - 1]
      <4>1. cbw.lba + i - 1 \in Blocks /\ cbw.lba + (i - 1) = cbw.lba + i - 1
        BY <3>1, <3>2 DEF InBuffer, Blocks
      <4>2. reply'.body[i] = medium.blocks[cbw.lba + i - 1]
        BY <3>3, <4>1 DEF Read
      <4> QED BY <3>5, <4>1, <4>2 DEF MediumInv
    <3> QED BY <3>1, <3>4, <3>5 DEF IsRead
  <2>3. CASE HandleTransfer \/ HandleEject \/ Receive
    BY <2>3 DEF HandleTransfer, HandleEject, Receive, Goto
  <2> QED BY <2>1, <2>2, <2>3 DEF AdvanceSteps
<1> QED BY <1>3, <1>4, <1>5 DEF ResultInv

LEMMA FinishedResult ==
  ASSUME TypeInv, StageInv, TagInv, DataInv, ResultInv, FinishSteps, [Next]_vars
  PROVE  ResultInv'
<1>1. Ends /\ InCommand
  BY FinishFrame DEF Ends, InCommand
<1>2. pc' = "status" /\ UNCHANGED <<cbw, tag, issued, answer>>
  BY <1>1 DEF Ends, hostVars
<1>3. VerdictInv'
  BY <1>2, FinishResult DEF VerdictInv
<1>4. ReplyInv' /\ AnswerInv'
  BY <1>1, <1>2, NoStatusYet DEF ReplyInv, AnswerInv
<1>5. StatusInv'
  <2>1. \A i \in DOMAIN inPipe' : ~(inPipe'[i].kind = "csw" /\ inPipe'[i].tag = issued)
    <3>1. CASE UNCHANGED inPipe
      BY <1>1, <3>1, NoStatusYet
    <3>2. CASE inPipe' = Append(inPipe, Data)
      <4>1. /\ DOMAIN inPipe = 1 .. Len(inPipe) /\ DOMAIN inPipe' = 1 .. Len(inPipe) + 1 /\ Len(inPipe) \in Nat
            /\ \A i \in 1 .. Len(inPipe) : inPipe'[i] = inPipe[i]
            /\ inPipe'[Len(inPipe) + 1] = Data
        BY <3>2, Numbers, Appends
      <4>2. Data.kind # "csw"
        BY DEF Data
      <4>3. \A i \in DOMAIN inPipe' : inPipe'[i] = Data \/ (i \in DOMAIN inPipe /\ inPipe'[i] = inPipe[i])
        BY <4>1
      <4> QED BY <1>1, <4>2, <4>3, NoStatusYet
    <3>3. UNCHANGED inPipe \/ inPipe' = Append(inPipe, Data)
      BY DEF FinishSteps, HandleAtOnce, SyncFails, LoadFails, ReceiveFails, ReceiveTooMuch, Store, StoreFails,
         Eject, Send, SendFails, Data
    <3> QED BY <3>1, <3>2, <3>3
  <2> QED BY <1>2, <2>1 DEF StatusInv
<1> QED BY <1>3, <1>4, <1>5 DEF ResultInv

(* The verdict of a command becomes the status behind its data.            *)
LEMMA StatusResult ==
  ASSUME TypeInv, StageInv, TagInv, ResultInv, StatusSteps
  PROVE  ResultInv'
<1>1. pc = "status" /\ pc' = "idle" /\ InCommand
      /\ UNCHANGED <<medium, cbw, tag, sense, current, issued, sent, stored, owed, host, received, answer>>
  BY DEF StatusSteps, sendCSW, sendCSWFails, Goto, hostVars, InCommand
<1>2. ReplyInv' /\ VerdictInv' /\ AnswerInv'
  BY <1>1, NoStatusYet DEF ReplyInv, VerdictInv, AnswerInv
<1>3. StatusInv'
  <2>1. CASE sendCSWFails
    BY <1>1, <2>1, ResultKept DEF sendCSWFails, ResultInv
  <2>2. CASE sendCSW
    <3>1. inPipe' = Append(inPipe, Status(verdict))
      BY <2>2 DEF sendCSW, Status
    <3>2. /\ DOMAIN inPipe = 1 .. Len(inPipe) /\ DOMAIN inPipe' = 1 .. Len(inPipe) + 1 /\ Len(inPipe) \in Nat
          /\ \A i \in 1 .. Len(inPipe) : inPipe'[i] = inPipe[i]
          /\ inPipe'[Len(inPipe) + 1] = Status(verdict)
          /\ inPipe = <<>> <=> Len(inPipe) = 0
      BY <3>1, Numbers, Appends
    <3>3. Status(verdict).tag = tag /\ Status(verdict).status = verdict.status /\ Status(verdict).residue = verdict.residue
      BY DEF Status
    <3>4. PICK n \in Nat : n = Len(inPipe) + 1
      BY <3>2
    <3>5. Prior(n)' = Latest
      BY <1>1, <3>2, <3>4 DEF Prior, Latest
    <3>6. tag = issued => Result(Latest, Status(verdict))
      BY <1>1, <3>3 DEF ResultInv, VerdictInv, Result, Wrote, Brought, Counted, Excused, Blamed, MovedBy
    <3> SUFFICES ASSUME NEW i \in DOMAIN inPipe', inPipe'[i].kind = "csw", inPipe'[i].tag = issued
                 PROVE  Result(Prior(i), inPipe[i])'
      BY <1>1 DEF StatusInv
    <3>7. i = n
      BY <1>1, <3>2, <3>4, NoStatusYet
    <3>8. tag = issued /\ inPipe'[i] = Status(verdict) /\ Prior(i)' = Latest
      BY <3>2, <3>3, <3>4, <3>5, <3>7
    <3> QED BY <1>1, <3>6, <3>8 DEF Result
  <2> QED BY <2>1, <2>2 DEF StatusSteps
<1> QED BY <1>2, <1>3 DEF ResultInv

LEMMA DriverResult ==
  ASSUME TypeInv, StageInv, ResultInv, QuietSteps \/ ReadCBW \/ ReceiveData
  PROVE  ResultInv'
<1>1. medium'.blocks = medium.blocks
      /\ UNCHANGED <<reply, verdict, sense, inPipe, current, issued, sent, stored, owed, host, received, answer>>
  BY QuietFrame DEF Quiet, TypeInv, ReadCBW, ReceiveData, hostVars
<1>2. StatusInv' /\ AnswerInv' /\ (Result(Latest, verdict)' <=> Result(Latest, verdict))
  BY <1>1, ResultKept DEF ResultInv
<1>3. (UNCHANGED <<pc, cbw, tag>>) \/ (pc' # "sending" /\ pc' # "status")
  BY QuietFrame DEF Quiet, TypeInv, ReadCBW, ReceiveData, Goto
<1>4. ReplyInv'
  BY <1>1, <1>3 DEF ResultInv, ReplyInv
<1>5. VerdictInv'
  BY <1>1, <1>2, <1>3 DEF ResultInv, VerdictInv
<1> QED BY <1>2, <1>4, <1>5 DEF ResultInv

LEMMA SendDataResult ==
  ASSUME TypeInv, TagInv, ResultInv, HostSendData
  PROVE  ResultInv'
<1>1. UNCHANGED <<medium, pc, cbw, tag, reply, verdict, sense, inPipe, current, issued, stored, owed, received, answer>>
      /\ host # "idle" /\ host' # "idle" /\ sent' = Append(sent, <<issued, Len(sent)>>)
  BY DEF HostSendData, driverVars
<1>2. answer = Absent /\ issued > 0
  BY <1>1 DEF TagInv, AnswerTags, CommandTags
<1>3. current \in Commands
  BY <1>2 DEF TagInv, CommandTags
<1>4. current.blocks \in Nat /\ current.lba \in Nat
  BY <1>3, CommandFields
<1>5. Len(sent') = Len(sent) + 1 /\ Len(sent) \in Nat /\ \A i \in 1 .. Len(sent) : sent'[i] = sent[i]
  BY <1>1, Numbers, Appends
<1>6. ASSUME NEW p, NEW v, Result(p, v) PROVE Result(p, v)'
  <2>1. Wrote(current, v, sent', medium.blocks)
    <3> SUFFICES ASSUME v.status = "Good", current.op = "write10" PROVE IsStored(current, sent', medium.blocks)
      BY DEF Wrote
    <3>1. IsStored(current, sent, medium.blocks)
      BY <1>6 DEF Result, Wrote
    <3>2. ASSUME NEW b \in WriteOf(current) PROVE medium.blocks[b] = sent'[b - current.lba + 1]
      <4>1. b \in current.lba .. current.lba + current.blocks - 1
        BY <3>2 DEF WriteOf
      <4>2. b - current.lba + 1 \in 1 .. Len(sent)
        <5>1. b \in Int /\ current.lba <= b /\ b <= current.lba + current.blocks - 1
          BY <1>4, <4>1
        <5> QED BY <1>4, <1>5, <3>1, <5>1 DEF IsStored
      <4> QED BY <1>5, <3>1, <4>2 DEF IsStored
    <3> QED BY <1>4, <1>5, <3>1, <3>2 DEF IsStored
  <2>2. MovedBy(current, p, v, issued, sent') = MovedBy(current, p, v, issued, sent)
    <3>1. CASE current.op = "write10" /\ v.status = "Good"
      <4>1. Len(sent) >= current.blocks
        BY <1>6, <3>1 DEF Result, Wrote, IsStored
      <4>2. Least(Len(sent'), current.blocks) = Least(Len(sent), current.blocks)
        BY <1>4, <1>5, <4>1 DEF Least
      <4> QED BY <4>2 DEF MovedBy
    <3>2. CASE ~(current.op = "write10" /\ v.status = "Good")
      BY <3>2 DEF MovedBy
    <3> QED BY <3>1, <3>2
  <2>3. Counted(current, p, v, issued, sent')
    BY <1>6, <2>2 DEF Result, Counted
  <2>4. Blamed(current, v, host', sense)
    BY <1>1, <1>6 DEF Result, Blamed
  <2> QED BY <1>1, <1>6, <2>1, <2>3, <2>4 DEF Result
<1>7. Latest' = Latest /\ \A i : Prior(i)' = Prior(i)
  BY <1>1 DEF Latest, Prior
<1>9. VerdictInv'
  <2> SUFFICES ASSUME pc = "status", tag = issued PROVE Result(Latest, verdict)'
    BY <1>1 DEF VerdictInv
  <2>1. Result(Latest, verdict)
    BY DEF ResultInv, VerdictInv
  <2>2. PICK p, v : p = Latest /\ v = verdict
    OBVIOUS
  <2>3. Result(p, v)'
    BY <1>6, <2>1, <2>2
  <2> QED BY <1>1, <1>7, <2>2, <2>3 DEF Result
<1>10. StatusInv'
  <2> SUFFICES ASSUME NEW i \in DOMAIN inPipe, inPipe[i].kind = "csw", inPipe[i].tag = issued
               PROVE  Result(Prior(i), inPipe[i])'
    BY <1>1 DEF StatusInv
  <2>1. Result(Prior(i), inPipe[i])
    BY DEF ResultInv, StatusInv
  <2>2. PICK p, v : p = Prior(i) /\ v = inPipe[i]
    OBVIOUS
  <2>3. Result(p, v)'
    BY <1>6, <2>1, <2>2
  <2> QED BY <1>1, <1>7, <2>2, <2>3 DEF Result
<1>11. ReplyInv' /\ AnswerInv'
  BY <1>1, <1>2 DEF ResultInv, ReplyInv, AnswerInv
<1> QED BY <1>9, <1>10, <1>11 DEF ResultInv

(* What is not the data of the command says the same of it, whatever it is. *)
LEMMA SameWithoutData ==
  ASSUME NEW p, NEW q, NEW v, ~IsData(p, issued), ~IsData(q, issued), Result(p, v)
  PROVE  Result(q, v)
  BY DEF Result, Brought, Counted, Excused, MovedBy

(* The host takes the data of a command, then its status.                  *)
LEMMA ReadDataResult ==
  ASSUME TypeInv, TagInv, ResultInv, HostReadData
  PROVE  ResultInv'
<1>1. UNCHANGED <<medium, pc, cbw, tag, reply, verdict, sense, current, issued, sent, stored, owed, answer, host>>
      /\ host # "idle" /\ inPipe # <<>> /\ inPipe' = Tail(inPipe)
  BY DEF HostReadData, driverVars
<1>2. answer = Absent
  BY <1>1 DEF TagInv, AnswerTags
<1>3. /\ Len(inPipe) \in Nat \ {0} /\ Len(inPipe') = Len(inPipe) - 1 /\ DOMAIN inPipe' = 1 .. Len(inPipe) - 1
      /\ \A i \in DOMAIN inPipe' : i + 1 \in DOMAIN inPipe /\ inPipe'[i] = inPipe[i + 1]
      /\ Head(inPipe) = inPipe[1] /\ 1 \in DOMAIN inPipe
      /\ inPipe' = <<>> <=> Len(inPipe) = 1
  <2>1. Tail(inPipe) \in Seq(InItem)
    BY <1>1, Numbers
  <2>2. /\ Len(inPipe) \in Nat \ {0} /\ Len(inPipe') = Len(inPipe) - 1 /\ DOMAIN inPipe' = 1 .. Len(inPipe) - 1
        /\ \A i \in DOMAIN inPipe' : i + 1 \in DOMAIN inPipe /\ inPipe'[i] = inPipe[i + 1]
        /\ Head(inPipe) = inPipe[1] /\ 1 \in DOMAIN inPipe
    BY <1>1, Numbers, Tails
  <2>3. (Tail(inPipe) = <<>>) <=> (Len(Tail(inPipe)) = 0)
    BY <2>1, EmptySeq
  <2>4. (Len(inPipe) - 1 = 0) <=> (Len(inPipe) = 1)
    BY <2>2
  <2> QED BY <1>1, <2>2, <2>3, <2>4
<1>4. inPipe[1].kind = "data" => received' = inPipe[1]
  BY <1>3 DEF HostReadData
<1>5. inPipe[1].kind # "data" => received' = Absent
  BY <1>3 DEF HostReadData
<1>6. ASSUME NEW v, Result(inPipe[1], v) PROVE Result(received', v)
  <2>1. CASE inPipe[1].kind = "data"
    BY <1>4, <1>6, <2>1
  <2>2. CASE inPipe[1].kind # "data"
    <3>1. ~IsData(inPipe[1], issued) /\ ~IsData(Absent, issued)
      BY <2>2 DEF IsData
    <3>2. Result(Absent, v)
      BY <1>6, <3>1, SameWithoutData
    <3> QED BY <1>5, <2>2, <3>2
  <2> QED BY <2>1, <2>2
<1>7. ASSUME NEW p, NEW v, Result(p, v) PROVE Result(p, v)'
  BY <1>1, <1>7 DEF Result
<1>8. VerdictInv'
  <2> SUFFICES ASSUME pc = "status", tag = issued PROVE Result(Latest, verdict)'
    BY <1>1 DEF VerdictInv
  <2>1. Result(Latest, verdict)
    BY DEF ResultInv, VerdictInv
  <2>2. Result(Latest', verdict)
    <3>1. CASE Len(inPipe) = 1
      <4>1. Latest = inPipe[1] /\ Latest' = received'
        BY <1>1, <1>3, <3>1 DEF Latest
      <4> QED BY <1>6, <2>1, <4>1
    <3>2. CASE Len(inPipe) # 1
      <4>1. Len(inPipe') \in DOMAIN inPipe' /\ Len(inPipe') + 1 = Len(inPipe) /\ inPipe' # <<>>
        BY <1>3, <3>2
      <4>2. Latest' = Latest
        BY <1>1, <1>3, <4>1 DEF Latest
      <4> QED BY <2>1, <4>2
    <3> QED BY <3>1, <3>2
  <2> QED BY <1>1, <2>2 DEF Result
<1>9. StatusInv'
  <2> SUFFICES ASSUME NEW i \in DOMAIN inPipe', inPipe'[i].kind = "csw", inPipe'[i].tag = issued
               PROVE  Result(Prior(i), inPipe[i])'
    BY <1>1 DEF StatusInv
  <2>1. i + 1 \in DOMAIN inPipe /\ inPipe'[i] = inPipe[i + 1] /\ i \in Nat \ {0}
    BY <1>3
  <2>2. Result(Prior(i + 1), inPipe[i + 1])
    BY <2>1 DEF ResultInv, StatusInv
  <2>3. Prior(i + 1) = inPipe[i]
    BY <2>1 DEF Prior
  <2>4. Result(Prior(i)', inPipe[i + 1])
    <3>1. CASE i = 1
      <4>1. Prior(i)' = received'
        BY <3>1 DEF Prior
      <4> QED BY <1>6, <2>2, <2>3, <3>1, <4>1
    <3>2. CASE i # 1
      <4>1. i - 1 \in DOMAIN inPipe' /\ (i - 1) + 1 = i
        BY <1>3, <2>1, <3>2
      <4>2. Prior(i)' = inPipe[i]
        BY <1>3, <3>2, <4>1 DEF Prior
      <4> QED BY <2>2, <2>3, <4>2
    <3> QED BY <3>1, <3>2
  <2> QED BY <1>1, <2>1, <2>4 DEF Result
<1>10. ReplyInv' /\ AnswerInv'
  BY <1>1, <1>2 DEF ResultInv, ReplyInv, AnswerInv
<1> QED BY <1>8, <1>9, <1>10 DEF ResultInv

(* An answer says of the command what its status said in the pipe.         *)
LEMMA ReadStatusResult ==
  ASSUME TypeInv, TagInv, ResultInv, HostReadStatus
  PROVE  ResultInv'
<1>1. /\ 1 \in DOMAIN inPipe /\ Head(inPipe) = inPipe[1] /\ inPipe[1].kind = "csw" /\ inPipe[1].tag = issued
      /\ ~InCommand /\ inPipe' = <<>>
  BY ReadsStatus
<1>2. /\ UNCHANGED <<pc, current, issued, sent, received>>
      /\ answer' = [status |-> inPipe[1].status, residue |-> inPipe[1].residue, after |-> owed]
      /\ stored' # stored =>
           stored' = [b \in Blocks |-> IF b \in WriteOf(current) THEN sent[b - current.lba + 1] ELSE stored[b]]
  BY <1>1 DEF HostReadStatus, driverVars
<1>3. ReplyInv' /\ VerdictInv'
  BY <1>1, <1>2 DEF ReplyInv, VerdictInv, InCommand, Working
<1>4. DOMAIN inPipe' = {}
  BY <1>1
<1>5. StatusInv'
  BY <1>4 DEF StatusInv
<1>6. Result(received, inPipe[1])
  BY <1>1 DEF ResultInv, StatusInv, Prior
<1>7. answer'.status = inPipe[1].status /\ answer'.residue = inPipe[1].residue /\ answer'.after = owed
  BY <1>2
<1>8. current.op = "read10" => stored' = stored
  <2>1. current.op = "read10" => WriteOf(current) = {}
    BY DEF WriteOf
  <2>2. stored = [b \in Blocks |-> stored[b]]
    BY DEF TypeInv, HostType
  <2> QED BY <1>2, <2>1, <2>2
<1>9. Brought(current, received, answer', issued, stored')
  BY <1>6, <1>7, <1>8 DEF Result, Brought
<1>10. Counted(current, received, answer', issued, sent)
  BY <1>6, <1>7 DEF Result, Counted, MovedBy
<1>11. Excused(current, received, answer', issued, owed)
  BY <1>6, <1>7 DEF Result, Excused
<1>12. AnswerInv'
  BY <1>2, <1>7, <1>9, <1>10, <1>11 DEF AnswerInv
<1> QED BY <1>3, <1>5, <1>12 DEF ResultInv

LEMMA GiveUpResult ==
  ASSUME TypeInv, TagInv, ResultInv, HostGivesUp
  PROVE  ResultInv'
<1>1. /\ UNCHANGED <<medium, pc, cbw, tag, reply, verdict, inPipe, current, issued, sent, stored, received>>
      /\ host' = "idle" /\ owed' = Absent /\ answer' = Absent
  BY DEF HostGivesUp
<1>2. Latest' = Latest /\ \A i : Prior(i)' = Prior(i)
  BY <1>1 DEF Latest, Prior
<1>3. VerdictInv'
  BY <1>1, <1>2 DEF ResultInv, VerdictInv, Result, Excused, Blamed
<1>4. StatusInv'
  BY <1>1, <1>2 DEF ResultInv, StatusInv, Result, Excused, Blamed
<1>5. ReplyInv' /\ AnswerInv'
  BY <1>1 DEF ResultInv, ReplyInv, AnswerInv
<1> QED BY <1>3, <1>4, <1>5 DEF ResultInv

LEMMA SendResultInv ==
  ASSUME TypeInv, TagInv, NEW c \in Commands, HostSend(c)
  PROVE  ResultInv'
<1>1. UNCHANGED <<tag, inPipe>> /\ issued' = issued + 1 /\ answer' = Absent
  BY DEF HostSend, driverVars
<1>2. tag \in Nat /\ issued \in Nat /\ tag <= issued
  BY Numbers DEF TagInv, CommandTags
<1>3. \A i \in DOMAIN inPipe : inPipe[i].tag \in Nat /\ inPipe[i].tag <= tag
  BY Numbers DEF TagInv, InTags
<1>4. tag' # issued' /\ \A i \in DOMAIN inPipe' : inPipe'[i].tag # issued'
  BY <1>1, <1>2, <1>3
<1> QED BY <1>1, <1>4 DEF ResultInv, ReplyInv, VerdictInv, StatusInv, AnswerInv

LEMMA ResultNext ==
  ASSUME TypeInv, StageInv, TagInv, DataInv, MediumInv, ResultInv, SenseInv, [Next]_vars
  PROVE  ResultInv'
  BY StepCases, DriverResult, AdvanceResult, FinishedResult, StatusResult, SendDataResult, ReadDataResult,
     ReadStatusResult, GiveUpResult, SendResultInv

LEMMA ResultInit == Init => ResultInv
  BY DEF Init, ResultInv, ReplyInv, VerdictInv, StatusInv, AnswerInv

(***************************************************************************)
(* The theorems.                                                           *)
(***************************************************************************)
BotInv == TypeInv /\ StageInv /\ TagInv /\ DataInv /\ MediumInv /\ ResultInv /\ SenseInv

(* The inductive invariant.                                                *)
LEMMA BotInvariant == Spec => []BotInv
<1>1. Init => BotInv
  BY InitType, StageInit, TagInit, DataInit, MediumInit, ResultInit, SenseInit DEF BotInv
<1>2. BotInv /\ [Next]_vars => BotInv'
  BY TypeNext, StageNext, TagNext, DataNext, MediumNext, ResultNext, SenseNext DEF BotInv
<1> QED BY <1>1, <1>2, PTL DEF Spec

(* Every variable keeps its type, for any commands, medium and buffer.     *)
THEOREM TypeCorrect == Spec => []TypeOK
<1>1. BotInv => TypeOK
  <2> SUFFICES ASSUME BotInv PROVE TypeOK
    OBVIOUS
  <2>1. tag \in 0 .. issued
    BY Numbers DEF BotInv, TagInv, CommandTags
  <2>2. bound \in BOOLEAN /\ up \in BOOLEAN /\ cancelled \in BOOLEAN /\ troubles \in 0 .. MaxTroubles
    BY Zenon DEF BotInv, TypeInv, WiringType
  <2> QED BY <2>1, <2>2 DEF BotInv, TypeInv, MediumType, DriverType, PipeType, HostType, TypeOK
<1> QED BY <1>1, BotInvariant, PTL

(* A block the host was told is stored is on the medium with the value it  *)
(* sent, through late data, failed writes, resets and swapped media.       *)
THEOREM StoredIsOnTheMedium == Spec => []StoredIsOnMedium
<1>1. BotInv => StoredIsOnMedium
  BY DEF BotInv, MediumInv, StoredIsOnMedium
<1> QED BY <1>1, BotInvariant, PTL

(* A READ (10) that ends well brought every block the host has stored.     *)
THEOREM ReadsBringWhatIsStored == Spec => []ReadsAreTrue
<1>1. BotInv => ReadsAreTrue
  BY DEF BotInv, ResultInv, AnswerInv, Brought, IsData, IsRead, ReadsAreTrue
<1> QED BY <1>1, BotInvariant, PTL

(* The residue a host reads is what it expected less what was moved, if    *)
(* that is not negative and a command that moves nothing was not expected  *)
(* to: no status of an older command and no wrap of the 32 bit field gets  *)
(* in between.                                                             *)
THEOREM ResiduesAreExact == Spec => []ResidueExact
<1>1. BotInv => ResidueExact
  <2> SUFFICES ASSUME BotInv, answer # Absent, Silent(current) => current.dtl = 0, current.dtl >= Moved
               PROVE  answer.residue = current.dtl - Moved
    BY DEF ResidueExact
  <2>1. Counted(current, received, answer, issued, sent)
    BY DEF BotInv, ResultInv, AnswerInv
  <2>2. received # Absent => received.kind = "data"
    BY DEF BotInv, TagInv, AnswerTags
  <2>3. Moved = MovedBy(current, received, answer, issued, sent)
    BY <2>2 DEF Moved, MovedBy, IsData
  <2> QED BY <2>1, <2>3 DEF Counted
<1> QED BY <1>1, BotInvariant, PTL

(* REQUEST SENSE right after a failure names a cause of that failure.      *)
THEOREM SenseNamesTheCause == Spec => []SenseReported
<1>1. BotInv => SenseReported
  BY DEF BotInv, ResultInv, AnswerInv, Excused, SenseReported
<1> QED BY <1>1, BotInvariant, PTL
====
