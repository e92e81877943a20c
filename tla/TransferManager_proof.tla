------------------------- MODULE TransferManager_proof -------------------------
(***************************************************************************)
(* Proofs about TransferManager: its type invariant, that an accepted      *)
(* transfer calls back exactly once, and that it is not pending then.      *)
(***************************************************************************)
EXTENDS TransferManager, SequenceTheorems, TLAPS

(* A channel without duplicates, seen as the set of what is in it.         *)
Has(s, t)   == \E i \in 1..Len(s) : s[i] = t
Distinct(s) == \A i, j \in 1..Len(s) : s[i] = s[j] => i = j

LEMMA SendQueue ==
  ASSUME NEW T, NEW s \in Seq(T), NEW x \in T, Distinct(s), ~Has(s, x)
  PROVE  /\ Append(s, x) \in Seq(T) /\ Len(Append(s, x)) = Len(s) + 1
         /\ Distinct(Append(s, x))
         /\ \A t : Has(Append(s, x), t) <=> Has(s, t) \/ t = x
<1> DEFINE r == Append(s, x)
<1>1. /\ r \in Seq(T) /\ Len(s) \in Nat /\ Len(r) = Len(s) + 1
      /\ \A i \in 1..Len(s) : r[i] = s[i]
      /\ r[Len(s) + 1] = x
  BY AppendProperties
<1> HIDE DEF r
<1>2. Distinct(r)
  BY <1>1 DEF Distinct, Has
<1>3. ASSUME NEW t PROVE Has(r, t) <=> Has(s, t) \/ t = x
  <2>1. CASE Has(r, t)
    <3>1. PICK i \in 1..Len(r) : r[i] = t
      BY <2>1 DEF Has
    <3>2. i \in 1..Len(s) \/ i = Len(s) + 1
      BY <1>1, <3>1
    <3> QED BY <1>1, <2>1, <3>1, <3>2 DEF Has
  <2>2. CASE Has(s, t)
    <3>1. PICK i \in 1..Len(s) : s[i] = t
      BY <2>2 DEF Has
    <3>2. i \in 1..Len(r) /\ r[i] = t
      BY <1>1, <3>1
    <3> QED BY <2>2, <3>2 DEF Has
  <2>3. CASE t = x
    <3>1. Len(s) + 1 \in 1..Len(r) /\ r[Len(s) + 1] = t
      BY <1>1, <2>3
    <3> QED BY <2>3, <3>1 DEF Has
  <2> QED BY <2>1, <2>2, <2>3
<1> QED BY <1>1, <1>2, <1>3 DEF r

LEMMA ReceiveQueue ==
  ASSUME NEW T, NEW s \in Seq(T), s # <<>>, Distinct(s)
  PROVE  /\ Head(s) \in T /\ Has(s, Head(s))
         /\ Tail(s) \in Seq(T) /\ Len(Tail(s)) = Len(s) - 1
         /\ Distinct(Tail(s))
         /\ \A t : Has(Tail(s), t) <=> Has(s, t) /\ t # Head(s)
<1> DEFINE r == Tail(s)
           h == Head(s)
<1>1. /\ r \in Seq(T) /\ Len(s) \in Nat /\ Len(s) >= 1 /\ Len(r) = Len(s) - 1
      /\ \A i \in 1..Len(r) : r[i] = s[i + 1]
      /\ h = s[1] /\ h \in T
  <2>1. Len(s) \in Nat /\ Len(s) # 0
    BY EmptySeq, LenProperties
  <2> QED BY <2>1, HeadTailProperties
<1> HIDE DEF r, h
<1>2. Has(s, h)
  BY <1>1 DEF Has
<1>3. Distinct(r)
  <2> SUFFICES ASSUME NEW i \in 1..Len(r), NEW j \in 1..Len(r), r[i] = r[j] PROVE i = j
    BY DEF Distinct
  <2>1. i + 1 \in 1..Len(s) /\ j + 1 \in 1..Len(s) /\ s[i + 1] = s[j + 1]
    BY <1>1
  <2>2. i + 1 = j + 1
    BY <2>1 DEF Distinct
  <2> QED BY <2>2
<1>4. ASSUME NEW t, Has(r, t) PROVE Has(s, t) /\ t # h
  <2>1. PICK i \in 1..Len(r) : r[i] = t
    BY <1>4 DEF Has
  <2>2. i + 1 \in 1..Len(s) /\ s[i + 1] = t /\ 1 \in 1..Len(s) /\ i + 1 # 1
    BY <1>1, <2>1
  <2>3. s[i + 1] # s[1]
    BY <2>2 DEF Distinct
  <2> QED BY <1>1, <2>2, <2>3 DEF Has
<1>5. ASSUME NEW t, Has(s, t), t # h PROVE Has(r, t)
  <2>1. PICK i \in 1..Len(s) : s[i] = t
    BY <1>5 DEF Has
  <2>2. i # 1
    BY <1>1, <1>5, <2>1
  <2>3. i - 1 \in 1..Len(r) /\ r[i - 1] = t
    BY <1>1, <2>1, <2>2
  <2> QED BY <2>3 DEF Has
<1> QED BY <1>1, <1>2, <1>3, <1>4, <1>5 DEF r, h

-----------------------------------------------------------------------------
(* The type invariant in parts, and that a goroutine has a transfer        *)
(* exactly when it is busy with one.                                       *)
ManagerInv ==
  /\ running \in BOOLEAN /\ ctxDone \in BOOLEAN /\ closed \in BOOLEAN
  /\ app \in {"idle", "cancelled", "stopped"}
  /\ stops \in Nat
  /\ panicked \in BOOLEAN

QueueInv == jobs \in Seq(Transfers) /\ Len(jobs) <= JobCapacity

ObjectInv ==
  /\ completed \in [Transfers -> BOOLEAN]
  /\ outcome \in [Transfers -> Outcomes]
  /\ ownDone \subseteq OwnContext

Busy == {"starting", "hal", "removing", "calling"}
WorkerInv ==
  /\ at \in [Workers -> WorkerStages]
  /\ moving \in [Workers -> Transfers \union {NoTransfer}]
  /\ \A w \in Workers : at[w] \in Busy <=> moving[w] \in Transfers

CallerInv ==
  /\ doing \in [Callers -> CallerStages]
  /\ todo \in [Callers -> Transfers \union {NoTransfer}]
  /\ \A c \in Callers : doing[c] # "idle" => todo[c] \in Transfers

PastInv ==
  /\ pending \subseteq Transfers
  /\ offered \subseteq Transfers /\ accepted \subseteq Transfers
  /\ calls \in [Transfers -> Nat]

TypeInv == ManagerInv /\ QueueInv /\ ObjectInv /\ WorkerInv /\ CallerInv /\ PastInv

LEMMA InitType == Init => TypeInv
<1> SUFFICES ASSUME Init PROVE TypeInv
  OBVIOUS
<1> USE ManagerAssumption DEF Init
<1>1. ManagerInv
  BY DEF ManagerInv
<1>2. QueueInv
  <2>1. <<>> \in Seq(Transfers) /\ Len(<<>>) = 0
    OBVIOUS
  <2> QED BY <2>1 DEF QueueInv
<1>3. ObjectInv
  BY DEF ObjectInv, Outcomes
<1>4. WorkerInv
  BY DEF WorkerInv, WorkerStages, Busy
<1>5. CallerInv
  BY DEF CallerInv, CallerStages
<1>6. PastInv
  BY DEF PastInv
<1> QED BY <1>1, <1>2, <1>3, <1>4, <1>5, <1>6 DEF TypeInv

LEMMA DoType ==
  ASSUME CallerInv, NEW c \in Callers, NEW stage \in CallerStages,
         NEW t \in Transfers \union {NoTransfer}, stage # "idle" => t \in Transfers,
         Do(c, stage, t)
  PROVE  CallerInv'
  BY DEF CallerInv, Do

LEMMA GotoType ==
  ASSUME WorkerInv, NEW w \in Workers, NEW stage \in WorkerStages,
         NEW t \in Transfers \union {NoTransfer}, stage \in Busy <=> t \in Transfers,
         Goto(w, stage, t)
  PROVE  WorkerInv'
  BY DEF WorkerInv, Goto

(* Start, Stop and the contexts.                                           *)
LEMMA ManagerType ==
  ASSUME TypeInv, Start \/ StopCancel \/ AppStep \/ \E t \in Transfers : EndContext(t)
  PROVE  TypeInv'
<1> USE ManagerAssumption DEF TypeInv, QueueInv, ObjectInv, CallerInv, PastInv
<1> USE DEF objectVars, workerVars, callerVars, pastVars
<1>1. CASE Start
  <2>1. WorkerInv'
    <3>1. \A w \in Workers : moving[w] \notin Transfers
      BY <1>1 DEF Start, WorkerInv, Busy
    <3> QED BY <1>1, <3>1 DEF Start, WorkerInv, WorkerStages, Busy
  <2> QED BY <1>1, <2>1 DEF Start, ManagerInv
<1>2. CASE StopCancel
  BY <1>2 DEF StopCancel, ManagerInv, WorkerInv
<1>3. CASE AppStep
  BY <1>3 DEF AppStep, StopRunning, StopClose, ManagerInv, WorkerInv
<1>4. ASSUME NEW t \in Transfers, EndContext(t) PROVE TypeInv'
  BY <1>4 DEF EndContext, managerVars, ManagerInv, WorkerInv
<1> QED BY <1>1, <1>2, <1>3, <1>4

LEMMA SubmitType ==
  ASSUME TypeInv, NEW c \in Callers,
         SubmitStep(c) \/ CancelStep(c) \/ \E t \in Transfers : SubmitCheck(c, t) \/ Cancel(c, t)
  PROVE  TypeInv'
<1> USE ManagerAssumption DEF TypeInv, managerVars, objectVars, workerVars, callerVars, pastVars
<1>1. ASSUME NEW t \in Transfers, SubmitCheck(c, t) PROVE TypeInv'
  <2>1. CallerInv'
    BY <1>1, DoType DEF SubmitCheck, CallerStages
  <2> QED BY <1>1, <2>1 DEF SubmitCheck, ManagerInv, QueueInv, ObjectInv, WorkerInv, PastInv
<1>2. CASE SubmitRegister(c)
  <2>1. todo[c] \in Transfers
    BY <1>2 DEF SubmitRegister, CallerInv
  <2>2. CallerInv'
    BY <1>2, <2>1, DoType DEF SubmitRegister, CallerStages
  <2> QED BY <1>2, <2>1, <2>2 DEF SubmitRegister, ManagerInv, QueueInv, ObjectInv, WorkerInv, PastInv
<1>3. CASE SubmitSend(c)
  <2>1. todo[c] \in Transfers
    BY <1>3 DEF SubmitSend, CallerInv
  <2>2. CallerInv'
    BY <1>3, DoType DEF SubmitSend, CallerStages
  <2>3. QueueInv'
    BY <1>3, <2>1, AppendProperties DEF SubmitSend, QueueInv
  <2> QED BY <1>3, <2>1, <2>2, <2>3 DEF SubmitSend, ManagerInv, ObjectInv, WorkerInv, PastInv
<1>4. CASE SubmitCancelled(c)
  <2>1. CallerInv'
    BY <1>4, DoType DEF SubmitCancelled, CallerStages
  <2> QED BY <1>4, <2>1 DEF SubmitCancelled, ManagerInv, QueueInv, ObjectInv, WorkerInv, PastInv
<1>5. CASE SubmitPanics(c)
  BY <1>5 DEF SubmitPanics, ManagerInv, QueueInv, ObjectInv, WorkerInv, CallerInv, PastInv
<1>6. ASSUME NEW t \in Transfers, Cancel(c, t) PROVE TypeInv'
  <2>1. CallerInv'
    BY <1>6, DoType DEF Cancel, CallerStages
  <2> QED BY <1>6, <2>1 DEF Cancel, ManagerInv, QueueInv, ObjectInv, WorkerInv, PastInv
<1>7. CASE CancelMark(c)
  <2>1. CallerInv'
    BY <1>7, DoType DEF CancelMark, CallerStages, CallerInv
  <2> QED BY <1>7, <2>1 DEF CancelMark, ManagerInv, QueueInv, ObjectInv, WorkerInv, PastInv
<1>8. CASE CancelWrite(c)
  <2>1. CallerInv'
    BY <1>8, DoType DEF CancelWrite, CallerStages
  <2> QED BY <1>8, <2>1 DEF CancelWrite, ManagerInv, QueueInv, ObjectInv, Outcomes, WorkerInv, PastInv
<1> QED BY <1>1, <1>2, <1>3, <1>4, <1>5, <1>6, <1>7, <1>8 DEF SubmitStep, CancelStep

LEMMA FinishType ==
  ASSUME WorkerInv, NEW w \in Workers, at[w] \in Busy, NEW r \in Outcomes, ObjectInv,
         Finish(w, r), UNCHANGED ownDone
  PROVE  WorkerInv' /\ ObjectInv'
<1>1. moving[w] \in Transfers /\ "removing" \in WorkerStages /\ "removing" \in Busy
  BY DEF WorkerInv, WorkerStages, Busy
<1>2. WorkerInv'
  BY <1>1, GotoType DEF Finish
<1>3. ObjectInv'
  BY DEF Finish, ObjectInv
<1> QED BY <1>2, <1>3

LEMMA WorkerType ==
  ASSUME TypeInv, NEW w \in Workers, WorkerStep(w) \/ HalReturns(w)
  PROVE  TypeInv'
<1> USE ManagerAssumption DEF TypeInv, managerVars, objectVars, workerVars, callerVars, pastVars
<1>1. CASE Receive(w)
  <2>1. Head(jobs) \in Transfers /\ Tail(jobs) \in Seq(Transfers) /\ Len(Tail(jobs)) = Len(jobs) - 1
    BY <1>1, HeadTailProperties DEF Receive, QueueInv
  <2>2. WorkerInv'
    BY <1>1, <2>1, GotoType DEF Receive, WorkerStages, Busy
  <2>3. QueueInv'
    <3>1. Len(jobs) \in Nat
      BY LenProperties DEF QueueInv
    <3> QED BY <1>1, <2>1, <3>1 DEF Receive, QueueInv
  <2> QED BY <1>1, <2>2, <2>3 DEF Receive, ManagerInv, ObjectInv, CallerInv, PastInv
<1>2. CASE WorkerEnds(w)
  <2>1. WorkerInv'
    BY <1>2, GotoType DEF WorkerEnds, WorkerStages, Busy
  <2> QED BY <1>2, <2>1 DEF WorkerEnds, ManagerInv, QueueInv, ObjectInv, CallerInv, PastInv
<1>3. CASE Execute(w)
  <2>1. WorkerInv' /\ ObjectInv'
    <3>1. CASE moving[w] \in ownDone
      BY <1>3, <3>1, FinishType DEF Execute, Outcomes, Busy
    <3>2. CASE moving[w] \notin ownDone
      <4>1. Goto(w, "hal", moving[w]) /\ UNCHANGED <<completed, outcome, ownDone>> /\ moving[w] \in Transfers
        BY <1>3, <3>2 DEF Execute, WorkerInv, Busy
      <4>2. WorkerInv'
        BY <4>1, GotoType DEF WorkerStages, Busy
      <4> QED BY <4>1, <4>2 DEF ObjectInv
    <3> QED BY <3>1, <3>2
  <2> QED BY <1>3, <2>1 DEF Execute, ManagerInv, QueueInv, CallerInv, PastInv
<1>4. CASE HalReturns(w) \/ HalCancelled(w)
  <2>1. /\ at[w] \in Busy /\ UNCHANGED <<managerVars, panicked, pending, jobs, ownDone, callerVars, pastVars>>
        /\ \E r \in Outcomes : Finish(w, r)
    BY <1>4 DEF HalReturns, HalCancelled, Outcomes, Busy
  <2>2. WorkerInv' /\ ObjectInv'
    BY <2>1, FinishType
  <2> QED BY <2>1, <2>2 DEF ManagerInv, QueueInv, CallerInv, PastInv
<1>5. CASE completeTransfer(w)
  <2>1. WorkerInv'
    <3>1. moving[w] \in Transfers
      BY <1>5 DEF completeTransfer, WorkerInv, Busy
    <3> QED BY <1>5, <3>1, GotoType DEF completeTransfer, WorkerStages, Busy
  <2> QED BY <1>5, <2>1 DEF completeTransfer, ManagerInv, QueueInv, ObjectInv, CallerInv, PastInv
<1>6. CASE Callback(w)
  <2>1. WorkerInv'
    BY <1>6, GotoType DEF Callback, WorkerStages, Busy
  <2>2. calls' \in [Transfers -> Nat]
    <3>1. calls \in [Transfers -> Nat] /\ calls' = [calls EXCEPT ![moving[w]] = calls[moving[w]] + 1]
      BY <1>6 DEF Callback, PastInv
    <3>2. moving[w] \in Transfers
      BY <1>6 DEF Callback, WorkerInv, Busy
    <3>3. PICK n \in Nat : n = calls[moving[w]] + 1
      BY <3>1, <3>2
    <3> QED BY <3>1, <3>3
  <2>3. UNCHANGED <<managerVars, panicked, pending, jobs, objectVars, ownDone, callerVars, offered, accepted>>
    BY <1>6 DEF Callback
  <2> QED BY <2>1, <2>2, <2>3 DEF ManagerInv, QueueInv, ObjectInv, CallerInv, PastInv
<1> QED BY <1>1, <1>2, <1>3, <1>4, <1>5, <1>6 DEF WorkerStep

LEMMA TypeStep == ASSUME TypeInv, [Next]_vars PROVE TypeInv'
<1>1. CASE UNCHANGED vars
  BY <1>1 DEF vars, managerVars, objectVars, workerVars, callerVars, pastVars, TypeInv,
     ManagerInv, QueueInv, ObjectInv, WorkerInv, CallerInv, PastInv
<1>2. CASE Next
  BY <1>2, ManagerType, SubmitType, WorkerType DEF Next, Running
<1> QED BY <1>1, <1>2

LEMMA TypeInvariant == Spec => []TypeInv
<1>1. Init => TypeInv
  BY InitType
<1>2. TypeInv /\ [Next]_vars => TypeInv'
  BY TypeStep
<1> QED BY <1>1, <1>2, PTL DEF Spec

(* The state of the manager, its queue and its goroutines keeps its type,  *)
(* and the channel is never over its capacity.                             *)
THEOREM TypeCorrect == Spec => []TypeOK
<1>1. TypeInv => TypeOK
  BY DEF TypeInv, TypeOK, ManagerInv, QueueInv, ObjectInv, WorkerInv, CallerInv, PastInv
<1> QED BY <1>1, TypeInvariant, PTL

-----------------------------------------------------------------------------
(* Each transfer is in one place: with the caller that submits it, in the  *)
(* channel, with a worker, or past its callback.                           *)
Submitting(c) == doing[c] \in {"checked", "sending"}

CallerPlace ==
  /\ \A c \in Callers : Submitting(c) => todo[c] \in offered /\ todo[c] \notin accepted
  /\ \A c, d \in Callers : Submitting(c) /\ Submitting(d) /\ todo[c] = todo[d] => c = d
  /\ accepted \subseteq offered

WorkerPlace ==
  /\ \A w \in Workers : at[w] \in Busy => moving[w] \in accepted /\ ~Has(jobs, moving[w])
  /\ \A w, v \in Workers : at[w] \in Busy /\ at[v] \in Busy /\ moving[w] = moving[v] => w = v

QueuePlace ==
  /\ Distinct(jobs)
  /\ \A t \in Transfers : Has(jobs, t) => t \in accepted

CalledPlace ==
  \A t \in Transfers :
    calls[t] = IF t \in accepted /\ ~Has(jobs, t) /\ ~Executed(t) THEN 1 ELSE 0

PendingPlace ==
  /\ \A w \in Workers : at[w] = "calling" => moving[w] \notin pending
  /\ \A t \in Transfers : calls[t] > 0 => t \notin pending

Place == CallerPlace /\ WorkerPlace /\ QueuePlace /\ CalledPlace /\ PendingPlace
Inv   == TypeInv /\ Place

LEMMA InitInv == Init => Inv
<1> SUFFICES ASSUME Init PROVE Inv
  OBVIOUS
<1>1. TypeInv
  BY InitType
<1>2. Len(jobs) = 0 /\ \A t : ~Has(jobs, t)
  BY DEF Init, Has
<1>3. CallerPlace /\ WorkerPlace /\ PendingPlace
  BY DEF Init, CallerPlace, Submitting, WorkerPlace, PendingPlace, Busy
<1>4. QueuePlace
  BY <1>2 DEF QueuePlace, Distinct
<1>5. CalledPlace
  BY DEF Init, CalledPlace
<1> QED BY <1>1, <1>3, <1>4, <1>5 DEF Inv, Place

(* Steps that move no transfer and no goroutine between these places.      *)
PlacePart == <<pending, jobs, moving, offered, accepted, calls>>

LEMMA PlaceStutter ==
  ASSUME TypeInv, Place, UNCHANGED PlacePart,
         \A c \in Callers : Submitting(c)' => Submitting(c) /\ todo'[c] = todo[c],
         \A w \in Workers : at'[w] \in Busy => at[w] \in Busy,
         \A w \in Workers : at'[w] = "calling" => at[w] = "calling"
  PROVE  Place'
<1> USE DEF Place, PlacePart
<1>1. CallerPlace'
  BY DEF CallerPlace
<1>2. WorkerPlace'
  BY DEF WorkerPlace, Has
<1>3. QueuePlace'
  BY DEF QueuePlace, Has, Distinct
<1>4. CalledPlace'
  BY DEF CalledPlace, Has, Executed
<1>5. PendingPlace'
  BY DEF PendingPlace
<1> QED BY <1>1, <1>2, <1>3, <1>4, <1>5

LEMMA SubmitPlace ==
  ASSUME TypeInv, Place, NEW c \in Callers,
         SubmitStep(c) \/ CancelStep(c) \/ \E t \in Transfers : SubmitCheck(c, t) \/ Cancel(c, t)
  PROVE  Place'
<1> USE DEF TypeInv, Place, workerVars, callerVars, pastVars
<1>1. ASSUME NEW t \in Transfers, SubmitCheck(c, t) PROVE Place'
  <2>1. /\ doing' = [doing EXCEPT ![c] = "checked"] /\ todo' = [todo EXCEPT ![c] = t]
        /\ t \notin offered /\ offered' = offered \union {t}
        /\ UNCHANGED <<pending, jobs, at, moving, accepted, calls>>
    BY <1>1 DEF SubmitCheck, Do
  <2>2. CallerPlace'
    BY <2>1 DEF CallerPlace, Submitting, CallerInv
  <2>3. WorkerPlace' /\ QueuePlace' /\ PendingPlace'
    BY <2>1 DEF WorkerPlace, QueuePlace, PendingPlace, Has, Distinct
  <2>4. CalledPlace'
    BY <2>1 DEF CalledPlace, Has, Executed
  <2> QED BY <2>2, <2>3, <2>4
<1>2. CASE SubmitRegister(c)
  <2>1. /\ doing[c] = "checked" /\ doing' = [doing EXCEPT ![c] = "sending"] /\ todo' = todo
        /\ pending' = pending \union {todo[c]}
        /\ UNCHANGED <<jobs, at, moving, offered, accepted, calls>>
    BY <1>2 DEF SubmitRegister, Do, CallerInv
  <2>2. todo[c] \in Transfers /\ todo[c] \notin accepted
    BY <2>1 DEF CallerInv, CallerPlace, Submitting
  <2>3. CallerPlace'
    BY <2>1 DEF CallerPlace, Submitting, CallerInv
  <2>4. WorkerPlace' /\ QueuePlace'
    BY <2>1 DEF WorkerPlace, QueuePlace, Has, Distinct
  <2>5. CalledPlace'
    BY <2>1 DEF CalledPlace, Has, Executed
  <2>6. PendingPlace'
    <3>1. calls[todo[c]] = 0
      BY <2>2 DEF CalledPlace
    <3>2. \A w \in Workers : at[w] = "calling" => moving[w] # todo[c]
      BY <2>2 DEF WorkerPlace, Busy
    <3> QED BY <2>1, <3>1, <3>2 DEF PendingPlace
  <2> QED BY <2>3, <2>4, <2>5, <2>6
<1>3. CASE SubmitSend(c)
  <2> DEFINE t == todo[c]
  <2>1. /\ doing[c] = "sending" /\ doing' = [doing EXCEPT ![c] = "idle"]
        /\ todo' = [todo EXCEPT ![c] = NoTransfer]
        /\ jobs' = Append(jobs, t) /\ accepted' = accepted \union {t}
        /\ UNCHANGED <<pending, at, moving, offered, calls>>
    BY <1>3 DEF SubmitSend, Do
  <2>2. t \in Transfers /\ t \in offered /\ t \notin accepted
    BY <2>1 DEF CallerInv, CallerPlace, Submitting
  <2>3. /\ Distinct(jobs')
        /\ \A x : Has(jobs', x) <=> Has(jobs, x) \/ x = t
    <3>1. jobs \in Seq(Transfers) /\ Distinct(jobs) /\ ~Has(jobs, t)
      BY <2>2 DEF QueueInv, QueuePlace
    <3> QED BY <2>1, <2>2, <3>1, SendQueue
  <2>4. CallerPlace'
    <3>1. \A d \in Callers : Submitting(d)' => d # c /\ Submitting(d) /\ todo'[d] = todo[d]
      BY <2>1 DEF Submitting, CallerInv
    <3>2. \A d \in Callers : Submitting(d)' => todo[d] # t
      BY <2>1, <3>1 DEF CallerPlace, Submitting
    <3> QED BY <2>1, <2>2, <3>1, <3>2 DEF CallerPlace
  <2>5. WorkerPlace'
    BY <2>1, <2>2, <2>3 DEF WorkerPlace
  <2>6. QueuePlace'
    BY <2>1, <2>3 DEF QueuePlace
  <2>7. CalledPlace'
    <3>1. calls[t] = 0
      BY <2>2 DEF CalledPlace
    <3> QED BY <2>1, <2>3, <3>1 DEF CalledPlace, Executed
  <2>8. PendingPlace'
    BY <2>1 DEF PendingPlace
  <2> QED BY <2>4, <2>5, <2>6, <2>7, <2>8
<1>4. CASE SubmitCancelled(c) \/ SubmitPanics(c) \/ CancelStep(c)
  <2>1. UNCHANGED PlacePart /\ UNCHANGED at
    BY <1>4 DEF SubmitCancelled, SubmitPanics, CancelStep, CancelMark, CancelWrite, PlacePart
  <2>2. \A d \in Callers : Submitting(d)' => Submitting(d) /\ todo'[d] = todo[d]
    BY <1>4 DEF SubmitCancelled, SubmitPanics, CancelStep, CancelMark, CancelWrite, Do, Submitting, CallerInv
  <2> QED BY <2>1, <2>2, PlaceStutter
<1>5. ASSUME NEW t \in Transfers, Cancel(c, t) PROVE Place'
  <2>1. /\ doing[c] = "idle" /\ doing' = [doing EXCEPT ![c] = "marking"] /\ todo' = [todo EXCEPT ![c] = t]
        /\ pending' = pending \ {t}
        /\ UNCHANGED <<jobs, at, moving, offered, accepted, calls>>
    BY <1>5 DEF Cancel, Do
  <2>2. CallerPlace'
    BY <2>1 DEF CallerPlace, Submitting, CallerInv
  <2>3. WorkerPlace' /\ QueuePlace' /\ PendingPlace'
    BY <2>1 DEF WorkerPlace, QueuePlace, PendingPlace, Has, Distinct
  <2>4. CalledPlace'
    BY <2>1 DEF CalledPlace, Has, Executed
  <2> QED BY <2>2, <2>3, <2>4
<1> QED BY <1>1, <1>2, <1>3, <1>4, <1>5 DEF SubmitStep

(* A worker takes a transfer from the channel.                             *)
LEMMA ReceivePlace ==
  ASSUME TypeInv, Place, NEW w \in Workers, Receive(w)
  PROVE  Place'
<1> USE DEF TypeInv, Place
<1> DEFINE t == Head(jobs)
<1>1. /\ at[w] = "receiving" /\ at' = [at EXCEPT ![w] = "starting"]
      /\ moving' = [moving EXCEPT ![w] = t]
      /\ jobs # <<>> /\ jobs' = Tail(jobs)
      /\ UNCHANGED <<pending, doing, todo, offered, accepted, calls>>
  BY DEF Receive, Goto, callerVars, pastVars
<1>2. /\ t \in Transfers /\ Has(jobs, t)
      /\ Distinct(jobs')
      /\ \A x : Has(jobs', x) <=> Has(jobs, x) /\ x # t
  <2>1. jobs \in Seq(Transfers) /\ Distinct(jobs)
    BY DEF QueueInv, QueuePlace
  <2> QED BY <1>1, <2>1, ReceiveQueue
<1> HIDE DEF t
<1>3. /\ at'[w] = "starting" /\ moving'[w] = t
      /\ \A v \in Workers : v # w => at'[v] = at[v] /\ moving'[v] = moving[v]
  BY <1>1 DEF WorkerInv
<1>4. CallerPlace'
  BY <1>1 DEF CallerPlace, Submitting
<1>5. \A v \in Workers : at[v] \in Busy => moving[v] # t
  BY <1>2 DEF WorkerPlace
<1>6. WorkerPlace'
  <2>1. t \in accepted
    BY <1>2 DEF QueuePlace
  <2> QED BY <1>1, <1>2, <1>3, <1>5, <2>1 DEF WorkerPlace
<1>7. QueuePlace'
  BY <1>1, <1>2 DEF QueuePlace
<1>8. CalledPlace'
  <2> SUFFICES ASSUME NEW x \in Transfers
               PROVE  (~Has(jobs', x) /\ ~Executed(x)') <=> (~Has(jobs, x) /\ ~Executed(x))
    BY <1>1 DEF CalledPlace
  <2>1. moving[w] \notin Transfers
    BY <1>1 DEF WorkerInv, Busy
  <2>2. CASE x = t
    BY <1>2, <1>3, <2>2 DEF Executed
  <2>3. CASE x # t
    BY <1>2, <1>3, <2>1, <2>3 DEF Executed
  <2> QED BY <2>2, <2>3
<1>9. PendingPlace'
  BY <1>1, <1>3 DEF PendingPlace
<1> QED BY <1>4, <1>6, <1>7, <1>8, <1>9

(* A worker gives its transfer up after the callback.                      *)
LEMMA CallbackPlace ==
  ASSUME TypeInv, Place, NEW w \in Workers, Callback(w)
  PROVE  Place'
<1> USE DEF TypeInv, Place
<1>0. PICK t \in Transfers : t = moving[w]
  BY DEF Callback, WorkerInv, Busy
<1>1. /\ at[w] = "calling" /\ at' = [at EXCEPT ![w] = "receiving"]
      /\ moving' = [moving EXCEPT ![w] = NoTransfer]
      /\ calls' = [calls EXCEPT ![t] = calls[t] + 1]
      /\ UNCHANGED <<pending, jobs, doing, todo, offered, accepted>>
  BY <1>0 DEF Callback, Goto, callerVars
<1>2. /\ at[w] \in Busy /\ t \in accepted /\ ~Has(jobs, t) /\ t \notin pending
      /\ t # NoTransfer
  BY <1>0, <1>1, ManagerAssumption DEF WorkerInv, WorkerPlace, PendingPlace, Busy
<1>3. /\ at'[w] = "receiving" /\ moving'[w] = NoTransfer
      /\ \A v \in Workers : v # w => at'[v] = at[v] /\ moving'[v] = moving[v]
  BY <1>1 DEF WorkerInv
<1>4. \A v \in Workers : v # w => moving[v] # t
  BY <1>0, <1>2 DEF WorkerInv, WorkerPlace
<1>5. calls[t] = 0
  BY <1>0, <1>2 DEF CalledPlace, Executed
<1>6. calls'[t] = 1 /\ \A x \in Transfers : x # t => calls'[x] = calls[x]
  <2>1. calls \in [Transfers -> Nat]
    BY DEF PastInv
  <2> QED BY <1>1, <1>2, <1>5, <2>1
<1>7. CallerPlace' /\ QueuePlace'
  BY <1>1 DEF CallerPlace, Submitting, QueuePlace, Has, Distinct
<1>8. WorkerPlace'
  BY <1>1, <1>3 DEF WorkerPlace, Has, Busy
<1>9. CalledPlace'
  <2>1. ~Executed(t)'
    BY <1>2, <1>3, <1>4 DEF Executed
  <2>2. \A x \in Transfers : x # t => (Executed(x)' <=> Executed(x))
    <3>1. \A x \in Transfers : x # NoTransfer
      BY ManagerAssumption
    <3> QED BY <1>0, <1>3, <3>1 DEF Executed
  <2>3. \A x : Has(jobs', x) <=> Has(jobs, x)
    BY <1>1
  <2> QED BY <1>1, <1>2, <1>6, <2>1, <2>2, <2>3 DEF CalledPlace
<1>10. PendingPlace'
  BY <1>1, <1>2, <1>3, <1>6 DEF PendingPlace
<1> QED BY <1>7, <1>8, <1>9, <1>10

LEMMA WorkerPlaceStep ==
  ASSUME TypeInv, Place, NEW w \in Workers, WorkerStep(w) \/ HalReturns(w)
  PROVE  Place'
<1> USE DEF TypeInv, managerVars, objectVars, callerVars, pastVars
<1>1. CASE Execute(w) \/ HalReturns(w) \/ HalCancelled(w)
  <2>1. at[w] \in Busy /\ \E s \in {"hal", "removing"} : Goto(w, s, moving[w])
    BY <1>1 DEF Execute, HalReturns, HalCancelled, Finish, Busy
  <2>2. UNCHANGED PlacePart /\ UNCHANGED <<doing, todo>>
    BY <1>1, <2>1 DEF Execute, HalReturns, HalCancelled, PlacePart, Goto, WorkerInv
  <2>3. \A v \in Workers : (at'[v] \in Busy => at[v] \in Busy) /\ (at'[v] = "calling" => at[v] = "calling")
    BY <2>1 DEF Goto, WorkerInv, Busy
  <2> QED BY <2>2, <2>3, PlaceStutter DEF Submitting
<1>2. CASE WorkerEnds(w)
  <2>1. /\ at[w] = "receiving" /\ at' = [at EXCEPT ![w] = "ended"]
        /\ moving' = [moving EXCEPT ![w] = NoTransfer]
        /\ UNCHANGED <<pending, jobs, doing, todo, offered, accepted, calls>>
    BY <1>2 DEF WorkerEnds, Goto
  <2>2. moving[w] = NoTransfer
    BY <2>1 DEF WorkerInv, Busy
  <2>3. UNCHANGED PlacePart
    BY <2>1, <2>2 DEF PlacePart, WorkerInv
  <2>4. \A v \in Workers : (at'[v] \in Busy => at[v] \in Busy) /\ (at'[v] = "calling" => at[v] = "calling")
    BY <2>1 DEF WorkerInv, Busy
  <2> QED BY <2>1, <2>3, <2>4, PlaceStutter DEF Submitting
<1>3. CASE completeTransfer(w)
  <2>1. /\ at[w] = "removing" /\ at' = [at EXCEPT ![w] = "calling"]
        /\ moving' = moving /\ pending' = pending \ {moving[w]}
        /\ UNCHANGED <<jobs, doing, todo, offered, accepted, calls>>
    BY <1>3 DEF completeTransfer, Goto, WorkerInv
  <2>2. CallerPlace' /\ QueuePlace'
    BY <2>1 DEF Place, CallerPlace, Submitting, QueuePlace, Has, Distinct
  <2>3. WorkerPlace'
    BY <2>1 DEF Place, WorkerPlace, WorkerInv, Has, Busy
  <2>4. CalledPlace'
    BY <2>1 DEF Place, CalledPlace, Has, Executed
  <2>5. PendingPlace'
    BY <2>1 DEF Place, PendingPlace, WorkerInv
  <2> QED BY <2>2, <2>3, <2>4, <2>5 DEF Place
<1> QED BY <1>1, <1>2, <1>3, ReceivePlace, CallbackPlace DEF WorkerStep

LEMMA InvStep == ASSUME Inv, [Next]_vars PROVE Inv'
<1>1. TypeInv'
  BY TypeStep DEF Inv
<1>2. Place'
  <2> USE DEF Inv
  <2>1. CASE UNCHANGED vars \/ StopCancel \/ AppStep \/ \E t \in Transfers : EndContext(t)
    <3>1. UNCHANGED PlacePart /\ UNCHANGED <<at, doing, todo>>
      BY <2>1 DEF vars, PlacePart, StopCancel, AppStep, StopRunning, StopClose, EndContext,
         workerVars, callerVars, pastVars
    <3> QED BY <3>1, PlaceStutter DEF Submitting
  <2>2. CASE Start
    <3>1. UNCHANGED PlacePart /\ UNCHANGED <<doing, todo>> /\ at' = [w \in Workers |-> "receiving"]
      BY <2>2 DEF Start, PlacePart, callerVars, pastVars
    <3>2. \A v \in Workers : at'[v] \notin Busy /\ at'[v] # "calling"
      BY <3>1 DEF Busy
    <3> QED BY <3>1, <3>2, PlaceStutter DEF Submitting
  <2> QED BY <2>1, <2>2, SubmitPlace, WorkerPlaceStep DEF Next, Running
<1> QED BY <1>1, <1>2 DEF Inv

LEMMA Invariance == Spec => []Inv
<1>1. Init => Inv
  BY InitInv
<1>2. Inv /\ [Next]_vars => Inv'
  BY InvStep
<1> QED BY <1>1, <1>2, PTL DEF Spec

(* Every transfer whose Submit returned an id calls back exactly once, for *)
(* any number of workers and callers, whatever is cancelled and whenever   *)
(* the manager is stopped; no other transfer calls back.                   *)
THEOREM ExactlyOneCallback == Spec => []OneCallback
<1>1. Inv => OneCallback
  BY DEF Inv, Place, CalledPlace, OneCallback, Queued, Has
<1> QED BY <1>1, Invariance, PTL

(* Once a transfer has called back, it is out of the map for good.         *)
THEOREM CalledIsGone == Spec => []CalledIsNotPending
<1>1. Inv => CalledIsNotPending
  BY DEF Inv, Place, PendingPlace, CalledIsNotPending
<1> QED BY <1>1, Invariance, PTL
=============================================================================
