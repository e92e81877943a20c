----------------------------- MODULE Stack_proof -----------------------------
(***************************************************************************)
(* Theorems about the two modules of device/stack.go.  StackTransfers: its *)
(* type invariant, that every submission calls back exactly once, that no  *)
(* slot of a pending list is leaked, and that CancelTransfers reaches the  *)
(* data of a first submission.  StackLifecycle: who holds the HAL.         *)
(***************************************************************************)
EXTENDS StackTransfers, StackLifecycle, SequenceTheorems, FiniteSetTheorems, TLAPS

(* Taking one element out of a sequence leaves a shorter sequence of the   *)
(* same set (the copy in removeTransfer).                                  *)
LEMMA RemoveAtType ==
  ASSUME NEW T, NEW s \in Seq(T), NEW i \in 1..Len(s)
  PROVE  RemoveAt(s, i) \in Seq(T) /\ Len(RemoveAt(s, i)) = Len(s) - 1
<1> DEFINE a == SubSeq(s, 1, i - 1)
           b == SubSeq(s, i + 1, Len(s))
<1>1. Len(s) \in Nat /\ i \in Int /\ \A j \in 1..Len(s) : s[j] \in T
  OBVIOUS
<1>2. a \in Seq(T) /\ Len(a) = i - 1
  <2>1. \A j \in 1..(i - 1) : s[j] \in T
    BY <1>1
  <2> QED BY <1>1, <2>1, SubSeqProperties
<1>3. b \in Seq(T) /\ Len(b) = Len(s) - i
  <2>1. \A j \in (i + 1)..Len(s) : s[j] \in T
    BY <1>1
  <2> QED BY <1>1, <2>1, SubSeqProperties
<1>4. RemoveAt(s, i) = a \o b
  BY DEF RemoveAt
<1> HIDE DEF a, b
<1>5. a \o b \in Seq(T) /\ Len(a \o b) = Len(a) + Len(b)
  BY <1>2, <1>3, ConcatProperties
<1> QED BY <1>1, <1>2, <1>3, <1>4, <1>5

(* removeTransfer takes one entry out and keeps the others in their order. *)
LEMMA RemoveAtElements ==
  ASSUME NEW T, NEW s \in Seq(T), NEW i \in 1..Len(s)
  PROVE  \A j \in 1..(Len(s) - 1) : RemoveAt(s, i)[j] = s[IF j < i THEN j ELSE j + 1]
<1> DEFINE a == SubSeq(s, 1, i - 1)
           b == SubSeq(s, i + 1, Len(s))
<1>1. Len(s) \in Nat /\ i \in Int /\ \A j \in 1..Len(s) : s[j] \in T
  OBVIOUS
<1>2. a \in Seq(T) /\ Len(a) = i - 1 /\ \A j \in 1..(i - 1) : a[j] = s[j]
  <2>1. \A j \in 1..(i - 1) : s[j] \in T
    BY <1>1
  <2> QED BY <1>1, <2>1, SubSeqProperties
<1>3. b \in Seq(T) /\ Len(b) = Len(s) - i /\ \A j \in 1..(Len(s) - i) : b[j] = s[i + j]
  <2>1. \A j \in (i + 1)..Len(s) : s[j] \in T
    BY <1>1
  <2> QED BY <1>1, <2>1, SubSeqProperties
<1>4. RemoveAt(s, i) = a \o b
  BY DEF RemoveAt
<1> HIDE DEF a, b
<1>5. \A j \in 1..(Len(a) + Len(b)) : (a \o b)[j] = IF j <= Len(a) THEN a[j] ELSE b[j - Len(a)]
  BY <1>2, <1>3, ConcatProperties
<1> SUFFICES ASSUME NEW j \in 1..(Len(s) - 1) PROVE (a \o b)[j] = s[IF j < i THEN j ELSE j + 1]
  BY <1>4
<1>6. CASE j < i
  BY <1>1, <1>2, <1>3, <1>5, <1>6
<1>7. CASE ~(j < i)
  <2>1. (a \o b)[j] = b[j - (i - 1)] /\ j - (i - 1) \in 1..(Len(s) - i)
    BY <1>1, <1>2, <1>3, <1>5, <1>7
  <2>2. b[j - (i - 1)] = s[i + (j - (i - 1))] /\ i + (j - (i - 1)) = j + 1
    BY <1>1, <1>3, <2>1
  <2> QED BY <1>7, <2>1, <2>2
<1> QED BY <1>6, <1>7

(* removeTransfer finds an entry of the transfer if there is one.          *)
LEMMA RemoveFirstIndex ==
  ASSUME NEW T, NEW s \in Seq(T), NEW x, \E i \in 1..Len(s) : s[i] = x
  PROVE  \E i \in 1..Len(s) : s[i] = x /\ RemoveFirst(s, x) = RemoveAt(s, i)
<1> DEFINE I == {i \in 1..Len(s) : s[i] = x}
<1>1. SelectInSeq(s, LAMBDA v : v = x) = Min(I)
  BY DEF SelectInSeq
<1>2. I # {} /\ I \in SUBSET Nat
  OBVIOUS
<1>3. PICK n \in I : \A m \in I : <<m, n>> \notin OpToRel(<, Nat)
  BY <1>2, NatLessThanWellFounded, WFMin
<1>4. \A m \in I : ~(m < n)
  BY <1>2, <1>3 DEF OpToRel
<1>5. \E k \in I : \A m \in I : k <= m
  BY <1>2, <1>4
<1>6. Min(I) \in I
  BY <1>5 DEF Min
<1>7. RemoveFirst(s, x) = RemoveAt(s, Min(I))
  BY <1>1 DEF RemoveFirst
<1> QED BY <1>6, <1>7

(* removeTransfer leaves a pending list of transfers, no longer than it was*)
(* and with no transfer that was not there.                                *)
LEMMA RemoveFirstType ==
  ASSUME NEW T, NEW s \in Seq(T), NEW x
  PROVE  RemoveFirst(s, x) \in Seq(T) /\ Len(RemoveFirst(s, x)) <= Len(s)
<1>1. CASE \E i \in 1..Len(s) : s[i] = x
  <2>1. PICK i \in 1..Len(s) : RemoveFirst(s, x) = RemoveAt(s, i)
    BY <1>1, RemoveFirstIndex
  <2>2. RemoveAt(s, i) \in Seq(T) /\ Len(RemoveAt(s, i)) = Len(s) - 1 /\ Len(s) \in Nat
    BY RemoveAtType
  <2> QED BY <2>1, <2>2
<1>2. CASE ~ \E i \in 1..Len(s) : s[i] = x
  BY <1>2 DEF RemoveFirst
<1> QED BY <1>1, <1>2
LEMMA RemoveFirstRange ==
  ASSUME NEW T, NEW s \in Seq(T), NEW x
  PROVE  Range(RemoveFirst(s, x)) \subseteq Range(s)
<1>1. CASE \E i \in 1..Len(s) : s[i] = x
  <2>1. PICK i \in 1..Len(s) : RemoveFirst(s, x) = RemoveAt(s, i)
    BY <1>1, RemoveFirstIndex
  <2>2. RemoveAt(s, i) \in Seq(T) /\ Len(RemoveAt(s, i)) = Len(s) - 1 /\ Len(s) \in Nat
    BY RemoveAtType
  <2>3. \A j \in 1..(Len(s) - 1) : RemoveAt(s, i)[j] \in Range(s)
    <3>1. DOMAIN s = 1..Len(s)
      OBVIOUS
    <3>2. \A j \in 1..(Len(s) - 1) : j \in 1..Len(s) /\ j + 1 \in 1..Len(s)
      BY <2>2
    <3> QED BY <3>1, <3>2, RemoveAtElements DEF Range
  <2>4. DOMAIN RemoveAt(s, i) = 1..(Len(s) - 1)
    BY <2>2
  <2> QED BY <2>1, <2>3, <2>4 DEF Range
<1>2. CASE ~ \E i \in 1..Len(s) : s[i] = x
  <2>1. RemoveFirst(s, x) = s
    BY <1>2 DEF RemoveFirst
  <2> QED BY <2>1
<1> QED BY <1>1, <1>2

(* The entries of a pending list for one transfer.                         *)
EntriesOf(s, x) == {i \in DOMAIN s : s[i] = x}

LEMMA EntriesFinite ==
  ASSUME NEW T, NEW s \in Seq(T), NEW x
  PROVE  IsFiniteSet(EntriesOf(s, x)) /\ Cardinality(EntriesOf(s, x)) \in Nat
<1>1. Len(s) \in Nat /\ DOMAIN s = 1..Len(s)
  OBVIOUS
<1>2. IsFiniteSet(1..Len(s))
  BY <1>1, FS_Interval
<1> QED BY <1>1, <1>2, FS_Subset, FS_CardinalityType DEF EntriesOf

(* Taking an entry out takes it from its transfer and from no other.       *)
LEMMA RemoveAtEntries ==
  ASSUME NEW T, NEW s \in Seq(T), NEW i \in 1..Len(s), NEW x
  PROVE  Cardinality(EntriesOf(RemoveAt(s, i), x)) = Cardinality(EntriesOf(s, x) \ {i})
<1> DEFINE r == RemoveAt(s, i)
           f == [j \in EntriesOf(r, x) |-> IF j < i THEN j ELSE j + 1]
<1>1. r \in Seq(T) /\ Len(r) = Len(s) - 1 /\ Len(s) \in Nat /\ i \in Int
  BY RemoveAtType
<1>2. \A j \in 1..(Len(s) - 1) : r[j] = s[IF j < i THEN j ELSE j + 1]
  BY RemoveAtElements
<1> HIDE DEF r
<1>3. DOMAIN r = 1..(Len(s) - 1) /\ DOMAIN s = 1..Len(s)
  BY <1>1
<1>4. f \in [EntriesOf(r, x) -> EntriesOf(s, x) \ {i}]
  <2> SUFFICES ASSUME NEW j \in EntriesOf(r, x)
               PROVE  (IF j < i THEN j ELSE j + 1) \in EntriesOf(s, x) \ {i}
    OBVIOUS
  <2> QED BY <1>1, <1>2, <1>3 DEF EntriesOf
<1>5. \A j, k \in EntriesOf(r, x) : f[j] = f[k] => j = k
  BY <1>1, <1>3 DEF EntriesOf
<1>6. \A k \in EntriesOf(s, x) \ {i} : \E j \in EntriesOf(r, x) : f[j] = k
  <2> SUFFICES ASSUME NEW k \in EntriesOf(s, x) \ {i}
               PROVE  \E j \in EntriesOf(r, x) : f[j] = k
    OBVIOUS
  <2> DEFINE j == IF k < i THEN k ELSE k - 1
  <2>1. k \in 1..Len(s) /\ s[k] = x /\ k # i
    BY <1>3 DEF EntriesOf
  <2>2. j \in 1..(Len(s) - 1) /\ (IF j < i THEN j ELSE j + 1) = k
    BY <1>1, <2>1
  <2>3. j \in EntriesOf(r, x)
    BY <1>2, <1>3, <2>1, <2>2 DEF EntriesOf
  <2> QED BY <2>2, <2>3
<1> HIDE DEF f
<1>7. f \in Bijection(EntriesOf(r, x), EntriesOf(s, x) \ {i})
  BY <1>4, <1>5, <1>6 DEF Bijection, Injection, Surjection, IsInjective
<1>8. ExistsBijection(EntriesOf(r, x), EntriesOf(s, x) \ {i})
  BY <1>7 DEF ExistsBijection
<1>9. IsFiniteSet(EntriesOf(r, x))
  BY <1>1, EntriesFinite
<1> QED BY <1>8, <1>9, FS_Bijection DEF r

(* removeTransfer gives one entry of its transfer back if there is any,    *)
(* and keeps the entries of every other transfer.                          *)
LEMMA RemoveFirstEntries ==
  ASSUME NEW T, NEW s \in Seq(T), NEW x
  PROVE  /\ EntriesOf(s, x) = {} => RemoveFirst(s, x) = s
         /\ EntriesOf(s, x) # {} =>
              Cardinality(EntriesOf(RemoveFirst(s, x), x)) = Cardinality(EntriesOf(s, x)) - 1
         /\ \A y : y # x =>
              Cardinality(EntriesOf(RemoveFirst(s, x), y)) = Cardinality(EntriesOf(s, y))
<1>1. CASE EntriesOf(s, x) = {}
  <2>1. ~ \E i \in 1..Len(s) : s[i] = x
    <3>1. DOMAIN s = 1..Len(s)
      OBVIOUS
    <3> QED BY <1>1, <3>1 DEF EntriesOf
  <2>2. RemoveFirst(s, x) = s
    BY <2>1 DEF RemoveFirst
  <2> QED BY <1>1, <2>2
<1>2. CASE EntriesOf(s, x) # {}
  <2>1. \E i \in 1..Len(s) : s[i] = x
    <3>1. DOMAIN s = 1..Len(s)
      OBVIOUS
    <3> QED BY <1>2, <3>1 DEF EntriesOf
  <2>2. PICK i \in 1..Len(s) : s[i] = x /\ RemoveFirst(s, x) = RemoveAt(s, i)
    BY <2>1, RemoveFirstIndex
  <2>3. i \in EntriesOf(s, x) /\ \A y : y # x => EntriesOf(s, y) \ {i} = EntriesOf(s, y)
    BY <2>2 DEF EntriesOf
  <2>4. \A y : Cardinality(EntriesOf(RemoveFirst(s, x), y)) = Cardinality(EntriesOf(s, y) \ {i})
    BY <2>2, RemoveAtEntries
  <2>5. Cardinality(EntriesOf(s, x) \ {i}) = Cardinality(EntriesOf(s, x)) - 1
    BY <2>3, EntriesFinite, FS_RemoveElement
  <2> QED BY <1>2, <2>3, <2>4, <2>5
<1> QED BY <1>1, <1>2

-----------------------------------------------------------------------------
(* The type invariant in three parts, and that a busy goroutine has a      *)
(* transfer to work on.                                                    *)
WorkerInv ==
  /\ at \in [Workers -> BeforeRemoval \union BeforeCompletion \union {"idle"}]
  /\ moving \in [Workers -> Transfers \union {NoTransfer}]
  /\ result \in [Workers -> Statuses]
  /\ \A w \in Workers : at[w] # "idle" => moving[w] \in Transfers

CallerInv ==
  /\ doing \in [Callers -> {"idle", "submitting", "cancelling", "writing"}]
  /\ todo \in [Callers -> Seq(Transfers)]
  /\ \A c \in Callers : doing[c] # "idle" => todo[c] # <<>>
  /\ \A c \in Callers : doing[c] = "submitting" => \E t \in Transfers : todo[c] = <<t>>

ListInv ==
  /\ pending \in [Endpoints -> Seq(Transfers)]
  /\ \A e \in Endpoints : Len(pending[e]) <= MaxPending

ObjectInv ==
  /\ configured \in BOOLEAN
  /\ completed \in [Transfers -> BOOLEAN]
  /\ cancelled \in [Transfers -> BOOLEAN]
  /\ status \in [Transfers -> Statuses]
  /\ ctxDone \in [Transfers -> BOOLEAN]
  /\ submitted \in [Transfers -> Nat]
  /\ callbacks \in [Transfers -> Nat]

TypeInv == WorkerInv /\ CallerInv /\ ListInv /\ ObjectInv

LEMMA InitType == Init => TypeInv
<1> SUFFICES ASSUME Init PROVE TypeInv
  OBVIOUS
<1> USE TransferAssumption DEF Init
<1>1. WorkerInv
  BY DEF WorkerInv, Statuses
<1>2. CallerInv
  BY DEF CallerInv
<1>3. ListInv
  <2>1. <<>> \in Seq(Transfers) /\ Len(<<>>) = 0
    OBVIOUS
  <2> QED BY <2>1 DEF ListInv
<1>4. ObjectInv
  BY DEF ObjectInv, Statuses
<1> QED BY <1>1, <1>2, <1>3, <1>4 DEF TypeInv

LEMMA DoType ==
  ASSUME CallerInv, NEW c \in Callers,
         NEW d \in {"idle", "submitting", "cancelling", "writing"}, NEW ts \in Seq(Transfers),
         d # "idle" => ts # <<>>, d = "submitting" => \E t \in Transfers : ts = <<t>>,
         Do(c, d, ts)
  PROVE  CallerInv'
  BY DEF CallerInv, Do

LEMMA GotoType ==
  ASSUME WorkerInv, NEW w \in Workers,
         NEW a \in BeforeRemoval \union BeforeCompletion \union {"idle"},
         NEW t \in Transfers \union {NoTransfer}, NEW r \in Statuses,
         a # "idle" => t \in Transfers,
         Goto(w, a, t, r)
  PROVE  WorkerInv'
  BY DEF WorkerInv, Goto

(* The rest of a list of transfers to cancel.                              *)
LEMMA DoNextType ==
  ASSUME CallerInv, NEW c \in Callers, doing[c] # "idle"
  PROVE  Head(todo[c]) \in Transfers /\ (DoNext(c) => CallerInv')
<1>1. todo[c] \in Seq(Transfers) /\ todo[c] # <<>>
  BY DEF CallerInv
<1>2. /\ Head(todo[c]) \in Transfers
      /\ Tail(todo[c]) \in Seq(Transfers)
      /\ Len(Tail(todo[c])) = Len(todo[c]) - 1
  BY <1>1, HeadTailProperties
<1>3. Len(todo[c]) # 1 => Tail(todo[c]) # <<>>
  <2>1. Len(<<>>) = 0 /\ Len(todo[c]) \in Nat
    BY <1>1, EmptySeq, LenProperties
  <2>2. Tail(todo[c]) = <<>> => Len(Tail(todo[c])) = 0
    BY <2>1, Zenon
  <2> QED BY <1>2, <2>1, <2>2
<1>4. ASSUME DoNext(c) PROVE CallerInv'
  <2>1. CASE Len(todo[c]) = 1
    <3>1. Do(c, "idle", Tail(todo[c]))
      BY <1>4, <2>1 DEF DoNext
    <3> QED BY <1>2, <3>1, DoType
  <2>2. CASE Len(todo[c]) # 1
    <3>1. Do(c, "cancelling", Tail(todo[c]))
      BY <1>4, <2>2 DEF DoNext
    <3> QED BY <1>2, <1>3, <2>2, <3>1, DoType
  <2> QED BY <2>1, <2>2
<1> QED BY <1>2, <1>4

(* The steps of the application and of the control loop.                   *)
LEMMA CallerType ==
  ASSUME TypeInv,
         \/ Configure
         \/ \E c \in Callers : CallerStep(c)
         \/ \E t \in Transfers : ResetTransfer(t) \/ EndContext(t)
  PROVE  TypeInv'
<1> USE TransferAssumption DEF TypeInv, objectVars, workerVars, callerVars
<1> USE DEF WorkerInv, CallerInv, ListInv, ObjectInv
<1>1. CASE Configure
  BY <1>1 DEF Configure
<1>2. ASSUME NEW t \in Transfers, ResetTransfer(t) PROVE TypeInv'
  BY <1>2 DEF ResetTransfer, Statuses
<1>3. ASSUME NEW t \in Transfers, EndContext(t) PROVE TypeInv'
  BY <1>3 DEF EndContext
<1>4. ASSUME NEW c \in Callers, CallerStep(c) PROVE TypeInv'
  <2>1. ASSUME NEW t \in Transfers, SubmitCheck(c, t) PROVE TypeInv'
    <3>1. <<t>> \in Seq(Transfers) /\ <<t>> # <<>>
      OBVIOUS
    <3>2. CallerInv'
      BY <2>1, <3>1, DoType DEF SubmitCheck
    <3>3. WorkerInv' /\ ListInv' /\ ObjectInv'
      BY <2>1 DEF SubmitCheck
    <3> QED BY <3>2, <3>3
  <2>2. ASSUME NEW t \in Transfers, CancelOne(c, t) PROVE TypeInv'
    BY <2>2 DEF CancelOne, Do
  <2>3. ASSUME NEW e \in Endpoints, CancelTransfers(c, e) PROVE TypeInv'
    <3>1. CallerInv'
      BY <2>3, DoType DEF CancelTransfers
    <3>2. ListInv'
      <4>1. <<>> \in Seq(Transfers) /\ Len(<<>>) = 0
        BY EmptySeq
      <4> QED BY <2>3, <4>1 DEF CancelTransfers
    <3>3. WorkerInv' /\ ObjectInv'
      BY <2>3 DEF CancelTransfers
    <3> QED BY <3>1, <3>2, <3>3
  <2>4. CASE SubmitTransfer(c)
    <3> DEFINE t == Head(todo[c])
               e == EndpointOf[t]
    <3>1. t \in Transfers /\ e \in Endpoints
      BY <2>4, DoNextType DEF SubmitTransfer
    <3>2. CallerInv'
      <4>1. <<>> \in Seq(Transfers)
        BY EmptySeq
      <4> QED BY <2>4, <4>1, DoType DEF SubmitTransfer
    <3>3. CASE Len(pending[e]) >= MaxPending
      <4>1. UNCHANGED <<pending, workerVars, submitted, callbacks, configured, objectVars>>
        BY <2>4, <3>3 DEF SubmitTransfer
      <4> QED BY <3>2, <4>1
    <3>4. CASE ~(Len(pending[e]) >= MaxPending)
      <4>1. PICK w \in Workers :
              /\ Goto(w, "start", t, "None")
              /\ pending' = [pending EXCEPT ![e] = Append(@, t)]
              /\ submitted' = [submitted EXCEPT ![t] = @ + 1]
              /\ callbacks' = [callbacks EXCEPT ![t] = 0]
        BY <2>4, <3>4 DEF SubmitTransfer
      <4>2. ListInv'
        BY <3>1, <3>4, <4>1
      <4>3. WorkerInv'
        BY <3>1, <4>1, GotoType DEF BeforeRemoval, Statuses
      <4>4. ObjectInv'
        BY <2>4, <3>1, <4>1 DEF SubmitTransfer
      <4> QED BY <3>2, <4>2, <4>3, <4>4
    <3> QED BY <3>3, <3>4
  <2>5. CASE Cancel(c)
    <3>1. Head(todo[c]) \in Transfers
      BY <2>5, DoNextType DEF Cancel
    <3>2. WorkerInv' /\ ListInv'
      BY <2>5 DEF Cancel
    <3>3. CallerInv'
      BY <2>5, DoNextType, DoType DEF Cancel
    <3>4. ObjectInv'
      BY <2>5, <3>1 DEF Cancel
    <3> QED BY <3>2, <3>3, <3>4
  <2>6. CASE CancelStatus(c)
    <3>1. Head(todo[c]) \in Transfers
      BY <2>6, DoNextType DEF CancelStatus
    <3>2. CallerInv'
      BY <2>6, DoNextType DEF CancelStatus
    <3> QED BY <2>6, <3>1, <3>2 DEF CancelStatus, Statuses
  <2> QED BY <1>4, <2>1, <2>2, <2>3, <2>4, <2>5, <2>6 DEF CallerStep
<1> QED BY <1>1, <1>2, <1>3, <1>4

(* The steps of processTransfer.                                           *)
LEMMA WorkerType ==
  ASSUME TypeInv, NEW w \in Workers, WorkerStep(w) \/ HalReturns(w) \/ HalSends(w)
  PROVE  TypeInv'
<1> USE TransferAssumption DEF TypeInv, objectVars, workerVars, callerVars,
      BeforeRemoval, BeforeCompletion, Statuses, WorkerInv, CallerInv, ListInv, ObjectInv
<1>1. CASE ProcessStart(w)
  BY <1>1 DEF ProcessStart, Goto
<1>2. CASE HalReturns(w)
  BY <1>2 DEF HalReturns, Goto
<1>2a. CASE HalSends(w)
  BY <1>2a DEF HalSends, Goto
<1>3. CASE HalCancelled(w)
  BY <1>3 DEF HalCancelled, Goto
<1>4. CASE removeTransfer(w)
  <2> DEFINE t == moving[w]
             e == EndpointOf[t]
  <2>1. t \in Transfers /\ e \in Endpoints
    BY <1>4 DEF removeTransfer
  <2>2. pending' = [pending EXCEPT ![e] = RemoveFirst(@, t)]
    BY <1>4 DEF removeTransfer
  <2>3. RemoveFirst(pending[e], t) \in Seq(Transfers) /\ Len(RemoveFirst(pending[e], t)) <= Len(pending[e])
    BY <2>1, RemoveFirstType
  <2>4. ListInv'
    <3>1. Len(pending[e]) \in Nat /\ Len(RemoveFirst(pending[e], t)) \in Nat
      BY <2>1, <2>3
    <3> QED BY <2>1, <2>2, <2>3, <3>1
  <2>5. WorkerInv'
    BY <1>4 DEF removeTransfer, Goto
  <2>6. CallerInv' /\ ObjectInv'
    BY <1>4 DEF removeTransfer
  <2> QED BY <2>4, <2>5, <2>6
<1>5. CASE Complete(w)
  <2>1. WorkerInv'
    <3>1. CASE at[w] = "cancelling"
      <4>1. Goto(w, "lateRemove", moving[w], "None")
        BY <1>5, <3>1 DEF Complete
      <4> QED BY <3>1, <4>1, GotoType
    <3>2. CASE at[w] = "finishing"
      <4>1. Goto(w, "idle", NoTransfer, "None")
        BY <1>5, <3>2 DEF Complete
      <4> QED BY <4>1, GotoType
    <3> QED BY <1>5, <3>1, <3>2 DEF Complete
  <2>2. CallerInv' /\ ListInv'
    BY <1>5 DEF Complete
  <2>3. moving[w] \in Transfers /\ result[w] \in Statuses
    BY <1>5 DEF Complete
  <2>4. CASE completed[moving[w]]
    BY <1>5, <2>1, <2>2, <2>4 DEF Complete
  <2>5. CASE ~completed[moving[w]]
    <3>1. PICK r \in Statuses :
            /\ completed' = [completed EXCEPT ![moving[w]] = TRUE]
            /\ status' = [status EXCEPT ![moving[w]] = r]
            /\ callbacks' = [callbacks EXCEPT ![moving[w]] = @ + 1]
            /\ UNCHANGED <<configured, cancelled, ctxDone, submitted>>
      BY <1>5, <2>3, <2>5 DEF Complete
    <3>2. ObjectInv'
      BY <2>3, <3>1
    <3> QED BY <2>1, <2>2, <3>2
  <2> QED BY <2>4, <2>5
<1> QED BY <1>1, <1>2, <1>2a, <1>3, <1>4, <1>5 DEF WorkerStep

LEMMA TypeInvariant == Spec => []TypeInv
<1>1. TypeInv /\ [Next]_vars => TypeInv'
  <2> SUFFICES ASSUME TypeInv, [Next]_vars PROVE TypeInv'
    OBVIOUS
  <2>1. CASE UNCHANGED vars
    BY <2>1 DEF vars, objectVars, workerVars, callerVars, TypeInv,
                WorkerInv, CallerInv, ListInv, ObjectInv
  <2> QED BY <2>1, CallerType, WorkerType DEF Next
<1> QED BY <1>1, InitType, PTL DEF Spec

(* StackTransfers keeps its types; in particular a pending list never has  *)
(* more than MaxPendingTransfersPerEndpoint entries (SubmitTransfer).      *)
THEOREM TypeCorrect == Spec => []TypeOK
<1>1. TypeInv => TypeOK
  BY DEF TypeInv, TypeOK, WorkerInv, CallerInv, ListInv, ObjectInv
<1> QED BY <1>1, TypeInvariant, PTL

-----------------------------------------------------------------------------
(* Who owns a transfer: at most one goroutine is about to submit it or is  *)
(* processing it, and then it is not completed and has not called back.    *)
Unfinished(w, t) == at[w] \in BeforeCompletion /\ moving[w] = t
Offers(c, t)     == doing[c] = "submitting" /\ todo[c] = <<t>>

OneOwner(t) ==
  /\ \A c, d \in Callers : Offers(c, t) /\ Offers(d, t) => c = d
  /\ \A v, w \in Workers : Unfinished(v, t) /\ Unfinished(w, t) => v = w
  /\ \A c \in Callers, w \in Workers : ~(Offers(c, t) /\ Unfinished(w, t))

Fresh(t) ==
  /\ \A c \in Callers : Offers(c, t) => ~completed[t]
  /\ \A w \in Workers : Unfinished(w, t) => ~completed[t] /\ callbacks[t] = 0

Called(t) == submitted[t] > 0 => callbacks[t] = 1 \/ \E w \in Workers : Unfinished(w, t)

OwnerInv == \A t \in Transfers : OneOwner(t) /\ Fresh(t) /\ Called(t)

LEMMA InitOwner == Init => OwnerInv
  BY DEF Init, OwnerInv, OneOwner, Fresh, Called, Unfinished, Offers, BeforeCompletion

LEMMA ReadyIsFree ==
  ASSUME NEW t, Ready(t)
  PROVE  /\ ~completed[t]
         /\ \A c \in Callers : ~Offers(c, t)
         /\ \A w \in Workers : ~Unfinished(w, t)
  BY DEF Ready, Handed, Submitting, InProgress, Offers, Unfinished

(* A step that makes nobody an owner and changes no completion.            *)
LEMMA OwnerStutter ==
  ASSUME OwnerInv,
         \A t \in Transfers : \A c \in Callers : Offers(c, t)' => Offers(c, t),
         \A t \in Transfers : \A w \in Workers : Unfinished(w, t)' <=> Unfinished(w, t),
         \A t \in Transfers : completed[t]' => completed[t],
         UNCHANGED <<submitted, callbacks>>
  PROVE  OwnerInv'
<1> SUFFICES ASSUME NEW t \in Transfers PROVE OneOwner(t)' /\ Fresh(t)' /\ Called(t)'
  BY DEF OwnerInv
<1>1. OneOwner(t) /\ Fresh(t) /\ Called(t)
  BY DEF OwnerInv
<1>2. OneOwner(t)'
  BY <1>1 DEF OneOwner
<1>3. Fresh(t)'
  BY <1>1 DEF Fresh
<1>4. Called(t)'
  BY <1>1 DEF Called
<1> QED BY <1>2, <1>3, <1>4

(* The application's steps keep one owner per transfer.                    *)
LEMMA CallerOwner ==
  ASSUME TypeInv, OwnerInv, NEW c \in Callers, CallerStep(c)
  PROVE  OwnerInv'
<1> USE DEF TypeInv, objectVars, workerVars, callerVars
<1>0. ASSUME NEW d, NEW ts, Do(c, d, ts), d # "submitting", NEW t \in Transfers, NEW b \in Callers
      PROVE  Offers(b, t)' => Offers(b, t)
  BY <1>0 DEF Do, Offers, CallerInv
<1>1. ASSUME NEW t \in Transfers, SubmitCheck(c, t) PROVE OwnerInv'
  <2>1. /\ Do(c, "submitting", <<t>>) /\ UNCHANGED <<completed, workerVars, submitted, callbacks>>
        /\ Ready(t)
    BY <1>1 DEF SubmitCheck
  <2>2. \A u \in Transfers : \A w \in Workers : Unfinished(w, u)' <=> Unfinished(w, u)
    BY <2>1 DEF Unfinished
  <2>3. \A u \in Transfers : \A b \in Callers : Offers(b, u)' => Offers(b, u) \/ (b = c /\ u = t)
    BY <2>1 DEF Offers, Do, CallerInv
  <2> SUFFICES ASSUME NEW u \in Transfers PROVE OneOwner(u)' /\ Fresh(u)' /\ Called(u)'
    BY DEF OwnerInv
  <2>4. OneOwner(u) /\ Fresh(u) /\ Called(u)
    BY DEF OwnerInv
  <2>5. u = t => ~completed[u] /\ (\A b \in Callers : ~Offers(b, u)) /\ (\A w \in Workers : ~Unfinished(w, u))
    BY <2>1, ReadyIsFree
  <2>6. OneOwner(u)'
    BY <2>2, <2>3, <2>4, <2>5 DEF OneOwner
  <2>7. Fresh(u)'
    BY <2>1, <2>2, <2>3, <2>4, <2>5 DEF Fresh
  <2>8. Called(u)'
    BY <2>1, <2>2, <2>4 DEF Called
  <2> QED BY <2>6, <2>7, <2>8
<1>2. ASSUME NEW t \in Transfers, CancelOne(c, t) PROVE OwnerInv'
  BY <1>0, <1>2, OwnerStutter DEF CancelOne, Unfinished
<1>3. ASSUME NEW e \in Endpoints, CancelTransfers(c, e) PROVE OwnerInv'
  BY <1>0, <1>3, OwnerStutter DEF CancelTransfers, Unfinished
<1>4. CASE SubmitTransfer(c)
  <2> DEFINE t == Head(todo[c])
             e == EndpointOf[t]
  <2>1. t \in Transfers /\ Offers(c, t) /\ Do(c, "idle", <<>>) /\ UNCHANGED <<completed>>
    <3>1. \E u \in Transfers : todo[c] = <<u>>
      BY <1>4 DEF SubmitTransfer, CallerInv
    <3> QED BY <1>4, <3>1 DEF SubmitTransfer, Offers
  <2>2. \A u \in Transfers : \A b \in Callers : Offers(b, u)' => Offers(b, u) /\ b # c
    BY <2>1 DEF Do, Offers, CallerInv
  <2>3. CASE Len(pending[e]) >= MaxPending
    <3>1. UNCHANGED <<workerVars, submitted, callbacks>>
      BY <1>4, <2>3 DEF SubmitTransfer
    <3> QED BY <2>1, <2>2, <3>1, OwnerStutter DEF Unfinished
  <2>4. CASE ~(Len(pending[e]) >= MaxPending)
    <3>1. PICK w \in Workers :
            /\ at[w] = "idle"
            /\ Goto(w, "start", t, "None")
            /\ submitted' = [submitted EXCEPT ![t] = @ + 1]
            /\ callbacks' = [callbacks EXCEPT ![t] = 0]
      BY <1>4, <2>4 DEF SubmitTransfer
    <3>2. \A u \in Transfers : \A v \in Workers :
            Unfinished(v, u)' <=> (Unfinished(v, u) \/ (v = w /\ u = t))
      BY <3>1 DEF Goto, Unfinished, BeforeCompletion, WorkerInv
    <3> SUFFICES ASSUME NEW u \in Transfers PROVE OneOwner(u)' /\ Fresh(u)' /\ Called(u)'
      BY DEF OwnerInv
    <3>3. OneOwner(u) /\ Fresh(u) /\ Called(u) /\ OneOwner(t) /\ Fresh(t)
      BY <2>1 DEF OwnerInv
    <3>4. OneOwner(u)'
      BY <2>1, <2>2, <3>2, <3>3 DEF OneOwner
    <3>5. callbacks'[t] = 0 /\ (u # t => callbacks'[u] = callbacks[u] /\ submitted'[u] = submitted[u])
      BY <2>1, <3>1 DEF ObjectInv
    <3>6. Fresh(u)'
      BY <2>1, <2>2, <3>2, <3>3, <3>5 DEF Fresh
    <3>7. Called(u)'
      BY <3>2, <3>3, <3>5 DEF Called
    <3> QED BY <3>4, <3>6, <3>7
  <2> QED BY <2>3, <2>4
<1>5. CASE Cancel(c)
  <2>1. \A t \in Transfers : \A b \in Callers : Offers(b, t)' => Offers(b, t)
    BY <1>0, <1>5 DEF Cancel, DoNext
  <2> QED BY <1>5, <2>1, OwnerStutter DEF Cancel, Unfinished
<1>6. CASE CancelStatus(c)
  <2>1. \A t \in Transfers : \A b \in Callers : Offers(b, t)' => Offers(b, t)
    BY <1>0, <1>6 DEF CancelStatus, DoNext
  <2> QED BY <1>6, <2>1, OwnerStutter DEF CancelStatus, Unfinished
<1> QED BY <1>1, <1>2, <1>3, <1>4, <1>5, <1>6 DEF CallerStep

(* processTransfer completes what it owns, once.                           *)
LEMMA WorkerOwner ==
  ASSUME TypeInv, OwnerInv, NEW w \in Workers, WorkerStep(w) \/ HalReturns(w) \/ HalSends(w)
  PROVE  OwnerInv'
<1> USE DEF TypeInv, objectVars, workerVars, callerVars
<1>0. ASSUME NEW a, NEW r, Goto(w, a, moving[w], r),
             a \in BeforeCompletion <=> at[w] \in BeforeCompletion,
             NEW t \in Transfers, NEW v \in Workers
      PROVE  Unfinished(v, t)' <=> Unfinished(v, t)
  BY <1>0 DEF Goto, Unfinished, WorkerInv
<1>1. CASE ProcessStart(w) \/ HalReturns(w) \/ HalCancelled(w) \/ HalSends(w)
  <2>1. \A t \in Transfers : \A v \in Workers : Unfinished(v, t)' <=> Unfinished(v, t)
    BY <1>0, <1>1 DEF ProcessStart, HalReturns, HalCancelled, HalSends, BeforeCompletion
  <2> QED BY <1>1, <2>1, OwnerStutter DEF ProcessStart, HalReturns, HalCancelled, HalSends, Offers
<1>2. CASE removeTransfer(w)
  <2>1. \A t \in Transfers : \A v \in Workers : Unfinished(v, t)' <=> Unfinished(v, t)
    <3>1. CASE at[w] = "removing"
      <4>1. Goto(w, "finishing", moving[w], result[w])
        BY <1>2, <3>1 DEF removeTransfer
      <4> QED BY <1>0, <3>1, <4>1 DEF BeforeCompletion
    <3>2. CASE at[w] = "lateRemove"
      <4>1. Goto(w, "idle", NoTransfer, "None")
        BY <1>2, <3>2 DEF removeTransfer
      <4> QED BY <3>2, <4>1 DEF Goto, Unfinished, WorkerInv, BeforeCompletion
    <3> QED BY <1>2, <3>1, <3>2 DEF removeTransfer
  <2> QED BY <1>2, <2>1, OwnerStutter DEF removeTransfer, Offers
<1>3. CASE Complete(w)
  <2> DEFINE t == moving[w]
  <2>1. t \in Transfers /\ Unfinished(w, t) /\ UNCHANGED <<callerVars, submitted>>
    BY <1>3 DEF Complete, WorkerInv, Unfinished, BeforeCompletion
  <2>2. ~completed[t] /\ callbacks[t] = 0
    BY <2>1 DEF OwnerInv, Fresh
  <2>3. /\ completed' = [completed EXCEPT ![t] = TRUE]
        /\ callbacks' = [callbacks EXCEPT ![t] = @ + 1]
    BY <1>3, <2>2 DEF Complete
  <2>4. \A u \in Transfers : \A v \in Workers : Unfinished(v, u)' <=> (Unfinished(v, u) /\ v # w)
    <3>1. CASE at[w] = "cancelling"
      <4>1. Goto(w, "lateRemove", moving[w], "None")
        BY <1>3, <3>1 DEF Complete
      <4> QED BY <4>1 DEF Goto, Unfinished, WorkerInv, BeforeCompletion
    <3>2. CASE at[w] = "finishing"
      <4>1. Goto(w, "idle", NoTransfer, "None")
        BY <1>3, <3>2 DEF Complete
      <4> QED BY <4>1 DEF Goto, Unfinished, WorkerInv, BeforeCompletion
    <3> QED BY <1>3, <3>1, <3>2 DEF Complete
  <2>5. \A u \in Transfers : \A b \in Callers : Offers(b, u)' <=> Offers(b, u)
    BY <2>1 DEF Offers
  <2> SUFFICES ASSUME NEW u \in Transfers PROVE OneOwner(u)' /\ Fresh(u)' /\ Called(u)'
    BY DEF OwnerInv
  <2>6. OneOwner(u) /\ Fresh(u) /\ Called(u)
    BY DEF OwnerInv
  <2>7. OneOwner(u)'
    BY <2>4, <2>5, <2>6 DEF OneOwner
  <2>8. u # t => completed'[u] = completed[u] /\ callbacks'[u] = callbacks[u]
    BY <2>1, <2>3 DEF ObjectInv
  <2>9. /\ callbacks'[t] = 1
        /\ \A b \in Callers : ~Offers(b, t)
        /\ \A v \in Workers : Unfinished(v, t) => v = w
    BY <2>1, <2>2, <2>3 DEF ObjectInv, OwnerInv, OneOwner
  <2>10. Fresh(u)'
    BY <2>1, <2>4, <2>5, <2>6, <2>8, <2>9 DEF Fresh
  <2>11. Called(u)'
    <3>1. CASE u = t
      BY <2>9, <3>1 DEF Called
    <3>2. CASE u # t
      <4>1. \A v \in Workers : Unfinished(v, u) => v # w
        BY <3>2 DEF Unfinished
      <4> QED BY <2>1, <2>4, <2>6, <2>8, <3>2, <4>1 DEF Called
    <3> QED BY <3>1, <3>2
  <2> QED BY <2>7, <2>10, <2>11
<1> QED BY <1>1, <1>2, <1>3 DEF WorkerStep

(* The control loop, Reset and the contexts leave the owners alone.        *)
LEMMA OtherOwner ==
  ASSUME TypeInv, OwnerInv,
         \/ Configure
         \/ \E t \in Transfers : ResetTransfer(t) \/ EndContext(t)
  PROVE  OwnerInv'
<1> USE DEF TypeInv, objectVars, workerVars, callerVars
<1>1. CASE Configure
  BY <1>1, OwnerStutter DEF Configure, Offers, Unfinished
<1>2. ASSUME NEW t \in Transfers, ResetTransfer(t) PROVE OwnerInv'
  <2>1. \A u \in Transfers : completed[u]' => completed[u]
    BY <1>2 DEF ResetTransfer, ObjectInv
  <2> QED BY <1>2, <2>1, OwnerStutter DEF ResetTransfer, Offers, Unfinished
<1>3. ASSUME NEW t \in Transfers, EndContext(t) PROVE OwnerInv'
  BY <1>3, OwnerStutter DEF EndContext, Offers, Unfinished
<1> QED BY <1>1, <1>2, <1>3

LEMMA OwnerInvariant == Spec => []OwnerInv
<1>1. TypeInv /\ OwnerInv /\ [Next]_vars => OwnerInv'
  <2> SUFFICES ASSUME TypeInv, OwnerInv, [Next]_vars PROVE OwnerInv'
    OBVIOUS
  <2>1. CASE UNCHANGED vars
    BY <2>1, OwnerStutter DEF vars, objectVars, workerVars, callerVars, Offers, Unfinished
  <2> QED BY <2>1, CallerOwner, WorkerOwner, OtherOwner DEF Next
<1> QED BY <1>1, InitOwner, TypeInvariant, PTL DEF Spec

(* Every accepted submission calls its callback exactly once: none while a *)
(* goroutine processes it, one from the moment it is completed, whatever   *)
(* is cancelled, reset and submitted again meanwhile (Transfer.Complete).  *)
THEOREM ExactlyOneCallback == Spec => []OneCallback
<1>1. OwnerInv => OneCallback
  BY DEF OwnerInv, OneCallback, Fresh, Called, InProgress, Unfinished
<1> QED BY <1>1, OwnerInvariant, PTL

-----------------------------------------------------------------------------
(* The slots of the pending lists: each entry is with the endpoint of its  *)
(* transfer, and no transfer has more entries than goroutines that are     *)
(* still to remove one.                                                    *)
Filed    == \A e \in Endpoints : \A t \in Range(pending[e]) : EndpointOf[t] = e
Slots(t) == /\ IsFiniteSet(HoldingSlot(t))
            /\ Cardinality(Occurrences(t)) <= Cardinality(HoldingSlot(t))
SlotInv  == Filed /\ \A t \in Transfers : Slots(t)

LEMMA OccurrencesAreEntries ==
  \A t : Occurrences(t) = EntriesOf(pending[EndpointOf[t]], t)
  BY DEF Occurrences, EntriesOf

LEMMA NoEntries == \A x : EntriesOf(<<>>, x) = {}
<1>1. DOMAIN <<>> = {}
  OBVIOUS
<1> QED BY <1>1 DEF EntriesOf

(* A list that a sequence operation only makes smaller stays filed.        *)
LEMMA FiledShrinks ==
  ASSUME Filed, NEW e \in Endpoints, NEW s, Range(s) \subseteq Range(pending[e]),
         pending \in [Endpoints -> Seq(Transfers)],
         pending' = [pending EXCEPT ![e] = s]
  PROVE  Filed'
<1> SUFFICES ASSUME NEW d \in Endpoints, NEW t \in Range(pending'[d]) PROVE EndpointOf[t] = d
  BY DEF Filed
<1>1. t \in Range(pending[d])
  <2>1. d = e => pending'[d] = s
    OBVIOUS
  <2>2. d # e => pending'[d] = pending[d]
    OBVIOUS
  <2> QED BY <2>1, <2>2
<1> QED BY <1>1 DEF Filed

LEMMA InitSlots == Init => SlotInv
<1> SUFFICES ASSUME Init PROVE SlotInv
  OBVIOUS
<1>1. \A e \in Endpoints : pending[e] = <<>>
  BY DEF Init
<1>2. Filed
  <2>1. Range(<<>>) = {}
    <3>1. DOMAIN <<>> = {}
      OBVIOUS
    <3> QED BY <3>1 DEF Range
  <2> QED BY <1>1, <2>1 DEF Filed
<1>3. ASSUME NEW t \in Transfers PROVE Slots(t)
  <2>1. HoldingSlot(t) = {}
    BY DEF Init, HoldingSlot, BeforeRemoval
  <2>2. Occurrences(t) = {}
    <3>1. EndpointOf[t] \in Endpoints
      BY TransferAssumption
    <3> QED BY <1>1, <3>1, OccurrencesAreEntries, NoEntries
  <2> QED BY <2>1, <2>2, FS_EmptySet DEF Slots
<1> QED BY <1>2, <1>3 DEF SlotInv

(* A step that moves no entry and no goroutine past its removal.           *)
LEMMA SlotStutter ==
  ASSUME SlotInv, UNCHANGED pending, \A t \in Transfers : HoldingSlot(t)' = HoldingSlot(t)
  PROVE  SlotInv'
<1>1. Filed'
  BY DEF SlotInv, Filed
<1>2. \A t \in Transfers : Occurrences(t)' = Occurrences(t)
  BY DEF Occurrences
<1> QED BY <1>1, <1>2 DEF SlotInv, Slots

(* SubmitTransfer appends one entry and starts the goroutine that is to    *)
(* remove it.                                                              *)
LEMMA SubmitSlots ==
  ASSUME TypeInv, SlotInv, NEW c \in Callers, SubmitTransfer(c)
  PROVE  SlotInv'
<1> DEFINE t == Head(todo[c])
           e == EndpointOf[t]
<1>1. t \in Transfers /\ e \in Endpoints
  BY DoNextType, TransferAssumption DEF SubmitTransfer, TypeInv, CallerInv
<1>2. CASE Len(pending[e]) >= MaxPending
  <2>1. UNCHANGED <<pending, workerVars>>
    BY <1>2 DEF SubmitTransfer
  <2> QED BY <2>1, SlotStutter DEF HoldingSlot, workerVars
<1>3. CASE ~(Len(pending[e]) >= MaxPending)
  <2>1. PICK w \in Workers :
          /\ at[w] = "idle"
          /\ Goto(w, "start", t, "None")
          /\ pending' = [pending EXCEPT ![e] = Append(@, t)]
    BY <1>3 DEF SubmitTransfer
  <2> HIDE DEF t, e
  <2>2. pending[e] \in Seq(Transfers) /\ pending'[e] = Append(pending[e], t) /\ Len(pending[e]) \in Nat
    BY <1>1, <2>1 DEF TypeInv, ListInv
  <2>3. /\ DOMAIN Append(pending[e], t) = (1..Len(pending[e])) \union {Len(pending[e]) + 1}
        /\ \A i \in 1..Len(pending[e]) : Append(pending[e], t)[i] = pending[e][i]
        /\ Append(pending[e], t)[Len(pending[e]) + 1] = t
        /\ DOMAIN pending[e] = 1..Len(pending[e])
    BY <1>1, <2>2, AppendProperties
  <2>4. Filed'
    <3> SUFFICES ASSUME NEW d \in Endpoints, NEW u \in Range(pending'[d]) PROVE EndpointOf[u] = d
      BY DEF Filed
    <3>1. CASE d = e
      <4>1. u = t \/ u \in Range(pending[e])
        BY <2>2, <2>3, <3>1 DEF Range
      <4> QED BY <1>1, <3>1, <4>1 DEF SlotInv, Filed, e
    <3>2. CASE d # e
      <4>1. u \in Range(pending[d])
        BY <2>1, <3>2 DEF TypeInv, ListInv
      <4> QED BY <4>1 DEF SlotInv, Filed
    <3> QED BY <3>1, <3>2
  <2>5. ASSUME NEW u \in Transfers PROVE Slots(u)'
    <3>1. Slots(u) /\ IsFiniteSet(HoldingSlot(u)) /\ Cardinality(HoldingSlot(u)) \in Nat
      BY FS_CardinalityType DEF SlotInv, Slots
    <3>2. CASE u = t
      <4>1. HoldingSlot(u)' = HoldingSlot(u) \union {w} /\ w \notin HoldingSlot(u)
        BY <2>1, <3>2 DEF HoldingSlot, Goto, BeforeRemoval, TypeInv, WorkerInv
      <4>2. IsFiniteSet(HoldingSlot(u)') /\ Cardinality(HoldingSlot(u)') = Cardinality(HoldingSlot(u)) + 1
        BY <3>1, <4>1, FS_AddElement
      <4>3. Occurrences(u)' = Occurrences(u) \union {Len(pending[e]) + 1}
        <5>1. EndpointOf[u] = e
          BY <3>2 DEF e
        <5> QED BY <2>2, <2>3, <3>2, <5>1 DEF Occurrences
      <4>4. IsFiniteSet(Occurrences(u)) /\ Cardinality(Occurrences(u)) \in Nat
        <5>1. EndpointOf[u] = e
          BY <3>2 DEF e
        <5> QED BY <2>2, <5>1, OccurrencesAreEntries, EntriesFinite
      <4>5. ASSUME NEW k PROVE
              LET S == Occurrences(u) \union {k}
              IN  Cardinality(S) \in Nat /\ Cardinality(S) <= Cardinality(Occurrences(u)) + 1
        <5>1. IsFiniteSet(Occurrences(u) \union {k})
          BY <4>4, FS_AddElement
        <5>2. Cardinality(Occurrences(u) \union {k}) \in Nat
          BY <5>1, FS_CardinalityType
        <5>3. Cardinality(Occurrences(u) \union {k}) =
                IF k \in Occurrences(u) THEN Cardinality(Occurrences(u)) ELSE Cardinality(Occurrences(u)) + 1
          BY <4>4, FS_AddElement
        <5> QED BY <4>4, <5>2, <5>3
      <4>6. Cardinality(Occurrences(u)') \in Nat /\ Cardinality(Occurrences(u)') <= Cardinality(Occurrences(u)) + 1
        BY <4>3, <4>5
      <4> QED BY <3>1, <4>2, <4>4, <4>6 DEF Slots
    <3>3. CASE u # t
      <4>1. HoldingSlot(u)' = HoldingSlot(u)
        BY <2>1, <3>3 DEF HoldingSlot, Goto, BeforeRemoval, TypeInv, WorkerInv
      <4>2. Occurrences(u)' = Occurrences(u)
        <5>1. CASE EndpointOf[u] = e
          <6>1. Occurrences(u)' = {i \in DOMAIN Append(pending[e], t) : Append(pending[e], t)[i] = u}
            BY <2>2, <5>1 DEF Occurrences
          <6>2. Occurrences(u) = {i \in 1..Len(pending[e]) : pending[e][i] = u}
            BY <2>3, <5>1 DEF Occurrences
          <6> QED BY <2>2, <2>3, <3>3, <6>1, <6>2
        <5>2. CASE EndpointOf[u] # e
          BY <2>1, <5>2, TransferAssumption DEF Occurrences, TypeInv, ListInv
        <5> QED BY <5>1, <5>2
      <4> QED BY <3>1, <4>1, <4>2 DEF Slots
    <3> QED BY <3>2, <3>3
  <2> QED BY <2>4, <2>5 DEF SlotInv
<1> QED BY <1>2, <1>3

(* CancelTransfers clears a list; the goroutines that were to remove its   *)
(* entries find nothing.                                                   *)
LEMMA CancelSlots ==
  ASSUME TypeInv, SlotInv, NEW c \in Callers, NEW e \in Endpoints, CancelTransfers(c, e)
  PROVE  SlotInv'
<1>1. pending' = [pending EXCEPT ![e] = <<>>] /\ UNCHANGED <<at, moving>>
  BY DEF CancelTransfers, workerVars
<1>2. Filed'
  <2>1. Range(<<>>) \subseteq Range(pending[e])
    <3>1. DOMAIN <<>> = {}
      OBVIOUS
    <3> QED BY <3>1 DEF Range
  <2> QED BY <1>1, <2>1, FiledShrinks DEF SlotInv, TypeInv, ListInv
<1>3. ASSUME NEW t \in Transfers PROVE Slots(t)'
  <2>1. Slots(t) /\ HoldingSlot(t)' = HoldingSlot(t)
    BY <1>1 DEF SlotInv, HoldingSlot
  <2>2. CASE EndpointOf[t] = e
    <3>1. Occurrences(t)' = {}
      <4>1. pending'[e] = <<>>
        BY <1>1 DEF TypeInv, ListInv
      <4> QED BY <2>2, <4>1, NoEntries DEF Occurrences, EntriesOf
    <3>2. Cardinality(HoldingSlot(t)) \in Nat
      BY <2>1, FS_CardinalityType DEF Slots
    <3> QED BY <2>1, <3>1, <3>2, FS_EmptySet DEF Slots
  <2>3. CASE EndpointOf[t] # e
    <3>1. Occurrences(t)' = Occurrences(t)
      BY <1>1, <2>3, TransferAssumption DEF Occurrences, TypeInv, ListInv
    <3> QED BY <2>1, <3>1 DEF Slots
  <2> QED BY <2>2, <2>3
<1> QED BY <1>2, <1>3 DEF SlotInv

(* removeTransfer takes away the goroutine and, if CancelTransfers has not *)
(* taken them all, one entry of its transfer.                              *)
LEMMA RemoveSlots ==
  ASSUME TypeInv, SlotInv, NEW w \in Workers, removeTransfer(w)
  PROVE  SlotInv'
<1> DEFINE t == moving[w]
           e == EndpointOf[t]
<1>1. t \in Transfers /\ e \in Endpoints /\ at[w] \in {"removing", "lateRemove"}
  BY TransferAssumption DEF removeTransfer, TypeInv, WorkerInv
<1>2. pending' = [pending EXCEPT ![e] = RemoveFirst(@, t)]
  BY DEF removeTransfer
<1>3. \A u \in Transfers : HoldingSlot(u)' = HoldingSlot(u) \ {w}
  <2>1. CASE at[w] = "removing"
    <3>1. Goto(w, "finishing", moving[w], result[w])
      BY <2>1 DEF removeTransfer
    <3> QED BY <3>1 DEF Goto, HoldingSlot, BeforeRemoval, TypeInv, WorkerInv
  <2>2. CASE at[w] = "lateRemove"
    <3>1. Goto(w, "idle", NoTransfer, "None")
      BY <2>2 DEF removeTransfer
    <3> QED BY <3>1, TransferAssumption DEF Goto, HoldingSlot, BeforeRemoval, TypeInv, WorkerInv
  <2> QED BY <1>1, <2>1, <2>2
<1> HIDE DEF e
<1>4. pending[e] \in Seq(Transfers) /\ pending'[e] = RemoveFirst(pending[e], t)
  BY <1>1, <1>2 DEF TypeInv, ListInv
<1>5. Filed'
  <2>1. Range(RemoveFirst(pending[e], t)) \subseteq Range(pending[e])
    BY <1>4, RemoveFirstRange
  <2> QED BY <1>1, <1>2, <2>1, FiledShrinks DEF SlotInv, TypeInv, ListInv
<1>6. ASSUME NEW u \in Transfers PROVE Slots(u)'
  <2>1. /\ IsFiniteSet(HoldingSlot(u)) /\ Cardinality(HoldingSlot(u)) \in Nat
        /\ Cardinality(Occurrences(u)) <= Cardinality(HoldingSlot(u))
    BY FS_CardinalityType DEF SlotInv, Slots
  <2>2. IsFiniteSet(HoldingSlot(u)')
    BY <1>3, <2>1, FS_RemoveElement
  <2>3. CASE u = t
    <3>0. EndpointOf[u] = e
      BY <2>3 DEF e
    <3>1. w \in HoldingSlot(u)
      BY <1>1, <2>3 DEF HoldingSlot, BeforeRemoval
    <3>2. Cardinality(HoldingSlot(u)') = Cardinality(HoldingSlot(u)) - 1
      BY <1>3, <2>1, <3>1, FS_RemoveElement
    <3>3. Occurrences(u) = EntriesOf(pending[e], u) /\ Occurrences(u)' = EntriesOf(RemoveFirst(pending[e], u), u)
      BY <1>4, <2>3, <3>0 DEF Occurrences, EntriesOf
    <3>4. CASE EntriesOf(pending[e], u) = {}
      <4>1. Cardinality(Occurrences(u)') = 0
        BY <1>4, <3>3, <3>4, RemoveFirstEntries, FS_EmptySet
      <4>2. Cardinality(HoldingSlot(u)') \in Nat
        BY <2>2, FS_CardinalityType
      <4> QED BY <2>2, <4>1, <4>2 DEF Slots
    <3>5. CASE EntriesOf(pending[e], u) # {}
      <4>1. Cardinality(Occurrences(u)') = Cardinality(Occurrences(u)) - 1
        BY <1>4, <3>3, <3>5, RemoveFirstEntries
      <4>2. Cardinality(Occurrences(u)) \in Nat
        BY <1>4, <3>3, EntriesFinite
      <4> QED BY <2>1, <2>2, <3>2, <4>1, <4>2 DEF Slots
    <3> QED BY <3>4, <3>5
  <2>4. CASE u # t
    <3>1. HoldingSlot(u)' = HoldingSlot(u)
      BY <1>3, <2>4 DEF HoldingSlot
    <3>2. CASE EndpointOf[u] = e
      <4>1. Occurrences(u) = EntriesOf(pending[e], u) /\ Occurrences(u)' = EntriesOf(RemoveFirst(pending[e], t), u)
        BY <1>4, <3>2 DEF Occurrences, EntriesOf
      <4>2. Cardinality(Occurrences(u)') = Cardinality(Occurrences(u))
        BY <1>4, <2>4, <4>1, RemoveFirstEntries
      <4> QED BY <2>1, <3>1, <4>2 DEF Slots
    <3>3. CASE EndpointOf[u] # e
      <4>1. Occurrences(u)' = Occurrences(u)
        BY <1>2, <3>3, TransferAssumption DEF Occurrences, TypeInv, ListInv
      <4> QED BY <2>1, <3>1, <4>1 DEF Slots
    <3> QED BY <3>2, <3>3
  <2> QED BY <2>3, <2>4
<1> QED BY <1>5, <1>6 DEF SlotInv

(* The other steps of processTransfer leave the slot to be removed later,  *)
(* or come after its removal.                                              *)
LEMMA WorkerSlots ==
  ASSUME TypeInv, SlotInv, NEW w \in Workers, WorkerStep(w) \/ HalReturns(w) \/ HalSends(w)
  PROVE  SlotInv'
<1>0. ASSUME NEW a, NEW r, Goto(w, a, moving[w], r), at[w] \in BeforeRemoval, a \in BeforeRemoval,
             NEW t \in Transfers
      PROVE  HoldingSlot(t)' = HoldingSlot(t)
  BY <1>0 DEF Goto, HoldingSlot, TypeInv, WorkerInv
<1>1. CASE ProcessStart(w) \/ HalReturns(w) \/ HalCancelled(w) \/ HalSends(w)
  <2>1. UNCHANGED pending /\ \A t \in Transfers : HoldingSlot(t)' = HoldingSlot(t)
    BY <1>0, <1>1 DEF ProcessStart, HalReturns, HalCancelled, HalSends, BeforeRemoval
  <2> QED BY <2>1, SlotStutter
<1>2. CASE removeTransfer(w)
  BY <1>2, RemoveSlots
<1>3. CASE Complete(w)
  <2>1. UNCHANGED pending /\ at[w] \in {"finishing", "cancelling"}
    BY <1>3 DEF Complete
  <2>2. CASE at[w] = "cancelling"
    <3>1. Goto(w, "lateRemove", moving[w], "None")
      BY <1>3, <2>2 DEF Complete
    <3> QED BY <1>0, <2>1, <2>2, <3>1, SlotStutter DEF BeforeRemoval
  <2>3. CASE at[w] = "finishing"
    <3>1. Goto(w, "idle", NoTransfer, "None")
      BY <1>3, <2>3 DEF Complete
    <3>2. \A t \in Transfers : HoldingSlot(t)' = HoldingSlot(t)
      BY <2>3, <3>1 DEF Goto, HoldingSlot, BeforeRemoval, TypeInv, WorkerInv
    <3> QED BY <2>1, <3>2, SlotStutter
  <2> QED BY <2>1, <2>2, <2>3
<1> QED BY <1>1, <1>2, <1>3 DEF WorkerStep

LEMMA StepSlots ==
  ASSUME TypeInv, SlotInv, [Next]_vars
  PROVE  SlotInv'
<1>1. ASSUME UNCHANGED <<pending, workerVars>> PROVE SlotInv'
  BY <1>1, SlotStutter DEF HoldingSlot, workerVars
<1>2. ASSUME NEW c \in Callers, CallerStep(c) PROVE SlotInv'
  <2>1. CASE \/ \E t \in Transfers : SubmitCheck(c, t) \/ CancelOne(c, t)
             \/ Cancel(c) \/ CancelStatus(c)
    BY <1>1, <2>1 DEF SubmitCheck, CancelOne, Cancel, CancelStatus
  <2> QED BY <1>2, <2>1, SubmitSlots, CancelSlots DEF CallerStep
<1>3. CASE Configure \/ (\E t \in Transfers : ResetTransfer(t) \/ EndContext(t)) \/ UNCHANGED vars
  BY <1>1, <1>3 DEF Configure, ResetTransfer, EndContext, vars
<1> QED BY <1>2, <1>3, WorkerSlots DEF Next

LEMMA SlotInvariant == Spec => []SlotInv
  BY InitSlots, StepSlots, TypeInvariant, PTL DEF Spec

(* No slot of a pending list is leaked: its entries are for its endpoint,  *)
(* and each has a goroutine that is still to remove it, whatever           *)
(* CancelTransfers clears and whichever equal entry removeTransfer takes.  *)
THEOREM NoLeak == Spec => []NoSlotLeaked
<1>1. SlotInv => NoSlotLeaked
  BY DEF SlotInv, Filed, Slots, NoSlotLeaked
<1> QED BY <1>1, SlotInvariant, PTL

-----------------------------------------------------------------------------
(* The first submission of a transfer.  Until it is accepted nobody works  *)
(* on the transfer or cancels it, and afterwards one goroutine does; whoever *)
(* is to write the status has set the flag; and the transfer is in its list*)
(* or in that of a caller until the goroutine removes it.                  *)
Busy(w, t)    == at[w] # "idle" /\ moving[w] = t
Cancels(c, t) == doing[c] \in {"cancelling", "writing"} /\ t \in Range(todo[c])
FirstRun(t)   == submitted[t] = 1 /\ \E w \in Workers : Unfinished(w, t)
Moving(w, t)  == at[w] \in {"start", "hal", "sending"} /\ moving[w] = t

Untouched(t) ==
  submitted[t] = 0 => (\A w \in Workers : ~Busy(w, t)) /\ (\A c \in Callers : ~Cancels(c, t))
OneWorker(t) ==
  submitted[t] = 1 => \A v, w \in Workers : Busy(v, t) /\ Busy(w, t) => v = w
Marked(t) ==
  \A c \in Callers : doing[c] = "writing" /\ Head(todo[c]) = t /\ FirstRun(t) => cancelled[t]
Listed(t) ==
  \A w \in Workers : Moving(w, t) /\ submitted[t] = 1 => Reachable(t)
First(t) == Untouched(t) /\ OneWorker(t) /\ Marked(t) /\ Listed(t)
FirstInv == \A t \in Transfers : First(t)

LEMMA InitFirst == Init => FirstInv
  BY DEF Init, FirstInv, First, Untouched, OneWorker, Marked, Listed, Busy, Cancels, FirstRun,
         Unfinished, Moving, BeforeCompletion

(* What is Listed in terms of who cancels.                                 *)
LEMMA ReachableBy ==
  \A t : Reachable(t) <=> Occurrences(t) # {} \/ cancelled[t] \/ \E c \in Callers : Cancels(c, t)
  BY DEF Reachable, BeingCancelled, Cancels

(* The list a caller goes through, as it takes the next transfer.          *)
LEMMA HeadOrTail ==
  ASSUME NEW T, NEW s \in Seq(T), s # <<>>
  PROVE  /\ Head(s) \in Range(s)
         /\ Range(s) = {Head(s)} \union Range(Tail(s))
         /\ Len(s) = 1 => Range(Tail(s)) = {}
<1>1. /\ Len(s) \in Nat \ {0} /\ DOMAIN s = 1..Len(s) /\ Head(s) = s[1]
      /\ Len(Tail(s)) = Len(s) - 1 /\ DOMAIN Tail(s) = 1..(Len(s) - 1)
      /\ \A i \in 1..(Len(s) - 1) : Tail(s)[i] = s[i + 1]
  BY HeadTailProperties, EmptySeq
<1>2. \A x : x \in Range(s) <=> \E i \in 1..Len(s) : s[i] = x
  BY <1>1 DEF Range
<1>3. \A x : x \in Range(Tail(s)) <=> \E i \in 1..(Len(s) - 1) : s[i + 1] = x
  BY <1>1 DEF Range
<1>4. \A x : x \in Range(s) <=> x = Head(s) \/ x \in Range(Tail(s))
  <2> SUFFICES ASSUME NEW x PROVE x \in Range(s) <=> x = Head(s) \/ x \in Range(Tail(s))
    OBVIOUS
  <2>1. ASSUME x \in Range(s) PROVE x = Head(s) \/ x \in Range(Tail(s))
    <3>1. PICK i \in 1..Len(s) : s[i] = x
      BY <1>2, <2>1
    <3>2. i # 1 => i - 1 \in 1..(Len(s) - 1) /\ s[(i - 1) + 1] = x
      BY <1>1, <3>1
    <3> QED BY <1>1, <1>3, <3>1, <3>2
  <2>2. ASSUME x = Head(s) PROVE x \in Range(s)
    <3>1. 1 \in 1..Len(s)
      BY <1>1
    <3> QED BY <1>1, <1>2, <2>2, <3>1
  <2>3. ASSUME x \in Range(Tail(s)) PROVE x \in Range(s)
    <3>1. PICK i \in 1..(Len(s) - 1) : s[i + 1] = x
      BY <1>3, <2>3
    <3>2. i + 1 \in 1..Len(s)
      BY <1>1
    <3> QED BY <1>2, <3>1, <3>2
  <2> QED BY <2>1, <2>2, <2>3
<1>5. Len(s) = 1 => Range(Tail(s)) = {}
  BY <1>1 DEF Range
<1> QED BY <1>4, <1>5

(* A step that starts nothing: goroutines may only come further, cancels   *)
(* only get fewer, and what is unmarked or unlisted stays so.              *)
LEMMA FirstStutter ==
  ASSUME FirstInv, NEW t \in Transfers, submitted'[t] = submitted[t],
         \A w \in Workers : Busy(w, t)' => Busy(w, t),
         \A w \in Workers : Unfinished(w, t)' => Unfinished(w, t),
         \A w \in Workers : Moving(w, t)' => Moving(w, t),
         FirstRun(t) => (cancelled[t] => cancelled'[t]),
         \A c \in Callers : Cancels(c, t)' => Cancels(c, t) \/ submitted[t] # 0,
         \A c \in Callers : FirstRun(t) /\ doing'[c] = "writing" /\ Head(todo'[c]) = t =>
                              (doing[c] = "writing" /\ Head(todo[c]) = t) \/ cancelled'[t],
         submitted[t] = 1 /\ (\E w \in Workers : Moving(w, t)') /\ Reachable(t) => Reachable(t)'
  PROVE  First(t)'
<1>1. Untouched(t) /\ OneWorker(t) /\ Marked(t) /\ Listed(t)
  BY DEF FirstInv, First
<1>2. Untouched(t)'
  BY <1>1 DEF Untouched
<1>3. OneWorker(t)'
  BY <1>1 DEF OneWorker
<1>4. Marked(t)'
  BY <1>1 DEF Marked, FirstRun
<1>5. Listed(t)'
  BY <1>1 DEF Listed
<1> QED BY <1>2, <1>3, <1>4, <1>5 DEF First

LEMMA MovingRuns ==
  ASSUME NEW w, NEW t, Moving(w, t)
  PROVE  Unfinished(w, t) /\ Busy(w, t)
  BY DEF Moving, Unfinished, Busy, BeforeCompletion

(* A caller that touches no goroutine and no list.                         *)
LEMMA FirstCaller ==
  ASSUME FirstInv, NEW t \in Transfers, UNCHANGED <<pending, workerVars, submitted>>,
         \A c \in Callers : Cancels(c, t)' => Cancels(c, t) \/ submitted[t] # 0,
         FirstRun(t) => (cancelled[t] => cancelled'[t]),
         \A c \in Callers : FirstRun(t) /\ doing'[c] = "writing" /\ Head(todo'[c]) = t =>
                              (doing[c] = "writing" /\ Head(todo[c]) = t) \/ cancelled'[t],
         FirstRun(t) => \A c \in Callers : Cancels(c, t) => Cancels(c, t)' \/ cancelled'[t]
  PROVE  First(t)'
<1>1. \A w \in Workers : /\ Busy(w, t)' <=> Busy(w, t)
                         /\ Unfinished(w, t)' <=> Unfinished(w, t)
                         /\ Moving(w, t)' <=> Moving(w, t)
  BY DEF Busy, Unfinished, Moving, workerVars
<1>2. submitted[t] = 1 /\ (\E w \in Workers : Moving(w, t)') /\ Reachable(t) => Reachable(t)'
  <2> SUFFICES ASSUME submitted[t] = 1, \E w \in Workers : Moving(w, t)', Reachable(t)
               PROVE  Reachable(t)'
    OBVIOUS
  <2>1. FirstRun(t)
    BY <1>1, MovingRuns DEF FirstRun
  <2>2. Occurrences(t)' = Occurrences(t)
    BY DEF Occurrences
  <2>3. Reachable(t)' <=> Occurrences(t)' # {} \/ cancelled'[t] \/ \E c \in Callers : Cancels(c, t)'
    BY DEF Reachable, BeingCancelled, Cancels
  <2> QED BY <2>1, <2>2, <2>3, ReachableBy
<1>3. submitted'[t] = submitted[t]
  OBVIOUS
<1> QED BY <1>1, <1>2, <1>3, FirstStutter

(* A caller goes on with the rest of its list.                             *)
LEMMA DoNextCancels ==
  ASSUME TypeInv, NEW c \in Callers, doing[c] \in {"cancelling", "writing"}, DoNext(c), NEW t
  PROVE  /\ \A b \in Callers : Cancels(b, t)' => Cancels(b, t)
         /\ \A b \in Callers : Cancels(b, t) => Cancels(b, t)' \/ t = Head(todo[c])
         /\ \A b \in Callers : doing'[b] = "writing" => doing[b] = "writing" /\ todo'[b] = todo[b]
<1>1. todo[c] \in Seq(Transfers) /\ todo[c] # <<>>
  BY DEF TypeInv, CallerInv
<1>2. /\ Range(todo[c]) = {Head(todo[c])} \union Range(Tail(todo[c]))
      /\ Len(todo[c]) = 1 => Range(Tail(todo[c])) = {}
  BY <1>1, HeadOrTail
<1>3. /\ doing'[c] = IF Len(todo[c]) = 1 THEN "idle" ELSE "cancelling"
      /\ todo'[c] = Tail(todo[c])
      /\ \A b \in Callers : b # c => doing'[b] = doing[b] /\ todo'[b] = todo[b]
  BY DEF DoNext, Do, TypeInv, CallerInv
<1> HIDE DEF DoNext
<1> QED BY <1>2, <1>3 DEF Cancels

(* SubmitTransfer starts the one goroutine of a first submission, with its *)
(* transfer in the list.                                                   *)
LEMMA SubmitFirst ==
  ASSUME TypeInv, FirstInv, NEW c \in Callers, SubmitTransfer(c), NEW t \in Transfers
  PROVE  First(t)'
<1> DEFINE u == Head(todo[c])
           e == EndpointOf[u]
<1>1. u \in Transfers /\ e \in Endpoints /\ doing[c] = "submitting" /\ Do(c, "idle", <<>>)
      /\ UNCHANGED cancelled
  BY DoNextType, TransferAssumption DEF SubmitTransfer, TypeInv, CallerInv, objectVars
<1>2. /\ \A b \in Callers : b # c => doing'[b] = doing[b] /\ todo'[b] = todo[b]
      /\ doing'[c] = "idle"
  BY <1>1 DEF Do, TypeInv, CallerInv
<1>3. \A b \in Callers : (Cancels(b, t)' <=> Cancels(b, t)) /\ (doing'[b] = "writing" => b # c)
  BY <1>1, <1>2 DEF Cancels
<1>4. CASE Len(pending[e]) >= MaxPending
  <2>1. UNCHANGED <<pending, workerVars, submitted>>
    BY <1>4 DEF SubmitTransfer
  <2> QED BY <1>1, <1>2, <1>3, <2>1, FirstCaller
<1>5. CASE ~(Len(pending[e]) >= MaxPending)
  <2>1. PICK w \in Workers :
          /\ at[w] = "idle"
          /\ Goto(w, "start", u, "None")
          /\ pending' = [pending EXCEPT ![e] = Append(@, u)]
          /\ submitted' = [submitted EXCEPT ![u] = @ + 1]
    BY <1>5 DEF SubmitTransfer
  <2>2. pending[e] \in Seq(Transfers) /\ pending'[e] = Append(pending[e], u) /\ Len(pending[e]) \in Nat
    BY <1>1, <2>1 DEF TypeInv, ListInv
  <2>3. /\ DOMAIN Append(pending[e], u) = (1..Len(pending[e])) \union {Len(pending[e]) + 1}
        /\ \A i \in 1..Len(pending[e]) : Append(pending[e], u)[i] = pending[e][i]
        /\ Append(pending[e], u)[Len(pending[e]) + 1] = u
        /\ DOMAIN pending[e] = 1..Len(pending[e])
    <3> DEFINE s == pending[e]
               a == Append(s, u)
    <3>1. s \in Seq(Transfers) /\ u \in Transfers
      BY <1>1, <2>2
    <3> HIDE DEF s
    <3>2. /\ a \in Seq(Transfers) /\ Len(a) = Len(s) + 1 /\ Len(s) \in Nat
          /\ \A i \in 1..Len(s) : a[i] = s[i]
          /\ a[Len(s) + 1] = u
      BY <3>1, AppendProperties
    <3>3. DOMAIN s = 1..Len(s) /\ DOMAIN a = 1..(Len(s) + 1)
      BY <3>1, <3>2
    <3>4. 1..(Len(s) + 1) = (1..Len(s)) \union {Len(s) + 1}
      BY <3>2
    <3> QED BY <3>2, <3>3, <3>4 DEF s
  <2>4. Reachable(t)' <=> Occurrences(t)' # {} \/ cancelled'[t] \/ \E b \in Callers : Cancels(b, t)'
    BY DEF Reachable, BeingCancelled, Cancels
  <2>5. \A v \in Workers : v # w => at'[v] = at[v] /\ moving'[v] = moving[v]
    BY <2>1 DEF Goto, TypeInv, WorkerInv
  <2>6. at'[w] = "start" /\ moving'[w] = u
    BY <2>1 DEF Goto, TypeInv, WorkerInv
  <2>7. CASE t = u
    <3>1. submitted'[t] = submitted[t] + 1 /\ submitted[t] \in Nat
      BY <1>1, <2>1, <2>7 DEF TypeInv, ObjectInv
    <3>2. Untouched(t)'
      BY <3>1 DEF Untouched
    <3>3. submitted'[t] = 1 => (\A v \in Workers : ~Busy(v, t)) /\ \A b \in Callers : ~Cancels(b, t)
      BY <3>1 DEF FirstInv, First, Untouched
    <3>4. OneWorker(t)'
      BY <2>5, <3>3 DEF OneWorker, Busy
    <3>5. Marked(t)'
      <4> SUFFICES ASSUME NEW b \in Callers, doing'[b] = "writing", Head(todo'[b]) = t, submitted'[t] = 1
                   PROVE  FALSE
        BY DEF Marked, FirstRun
      <4>1. todo[b] \in Seq(Transfers) /\ todo[b] # <<>> /\ doing[b] = "writing" /\ Head(todo[b]) = t
        BY <1>2 DEF TypeInv, CallerInv
      <4>2. t \in Range(todo[b])
        BY <4>1, HeadOrTail
      <4> QED BY <3>3, <4>1, <4>2 DEF Cancels
    <3>6. Listed(t)'
      <4>1. Len(pending[e]) + 1 \in Occurrences(t)'
        BY <2>2, <2>3, <2>7 DEF Occurrences
      <4> QED BY <2>4, <4>1 DEF Listed
    <3> QED BY <3>2, <3>4, <3>5, <3>6 DEF First
  <2>8. CASE t # u
    <3>1. submitted'[t] = submitted[t]
      BY <1>1, <2>1, <2>8 DEF TypeInv, ObjectInv
    <3>2. \A v \in Workers : /\ Busy(v, t)' => Busy(v, t)
                             /\ Unfinished(v, t)' => Unfinished(v, t)
                             /\ Moving(v, t)' => Moving(v, t)
      BY <2>5, <2>6, <2>8 DEF Busy, Unfinished, Moving
    <3>3. Occurrences(t) # {} => Occurrences(t)' # {}
      <4>1. CASE EndpointOf[t] = e
        BY <2>2, <2>3, <4>1 DEF Occurrences
      <4>2. CASE EndpointOf[t] # e
        BY <2>1, <4>2, TransferAssumption DEF Occurrences, TypeInv, ListInv
      <4> QED BY <4>1, <4>2
    <3>4. Reachable(t) => Reachable(t)'
      BY <1>1, <1>3, <2>4, <3>3, ReachableBy
    <3> QED BY <1>1, <1>2, <1>3, <3>1, <3>2, <3>4, FirstStutter
  <2> QED BY <2>7, <2>8
<1> QED BY <1>4, <1>5

(* The application's steps.                                                *)
LEMMA CallerFirst ==
  ASSUME TypeInv, OwnerInv, SlotInv, FirstInv, NEW c \in Callers, CallerStep(c)
  PROVE  FirstInv'
<1> USE DEF objectVars
<1>1. ASSUME NEW u \in Transfers, SubmitCheck(c, u), NEW t \in Transfers PROVE First(t)'
  <2>1. /\ Do(c, "submitting", <<u>>) /\ doing[c] = "idle"
        /\ UNCHANGED <<pending, workerVars, submitted, cancelled>>
    BY <1>1 DEF SubmitCheck
  <2>2. \A b \in Callers : b # c => doing'[b] = doing[b] /\ todo'[b] = todo[b]
    BY <2>1 DEF Do, TypeInv, CallerInv
  <2>3. doing'[c] = "submitting"
    BY <2>1 DEF Do, TypeInv, CallerInv
  <2> QED BY <2>1, <2>2, <2>3, FirstCaller DEF Cancels
<1>2. ASSUME NEW u \in Transfers, CancelOne(c, u), NEW t \in Transfers PROVE First(t)'
  <2>1. /\ Do(c, "cancelling", <<u>>) /\ doing[c] = "idle" /\ submitted[u] > 0
        /\ UNCHANGED <<pending, workerVars, submitted, cancelled>>
    BY <1>2 DEF CancelOne
  <2>2. \A b \in Callers : b # c => doing'[b] = doing[b] /\ todo'[b] = todo[b]
    BY <2>1 DEF Do, TypeInv, CallerInv
  <2>3. doing'[c] = "cancelling" /\ todo'[c] = <<u>> /\ Range(<<u>>) = {u}
    <3>1. DOMAIN <<u>> = {1} /\ <<u>>[1] = u
      OBVIOUS
    <3> QED BY <2>1, <3>1 DEF Do, TypeInv, CallerInv, Range
  <2>4. submitted[u] # 0
    BY <2>1 DEF TypeInv, ObjectInv
  <2> QED BY <2>1, <2>2, <2>3, <2>4, FirstCaller DEF Cancels
<1>3. ASSUME NEW e \in Endpoints, CancelTransfers(c, e), NEW t \in Transfers PROVE First(t)'
  <2>1. /\ Do(c, "cancelling", pending[e]) /\ doing[c] = "idle"
        /\ pending' = [pending EXCEPT ![e] = <<>>]
        /\ UNCHANGED <<workerVars, submitted, cancelled>>
    BY <1>3 DEF CancelTransfers
  <2>2. \A b \in Callers : b # c => doing'[b] = doing[b] /\ todo'[b] = todo[b]
    BY <2>1 DEF Do, TypeInv, CallerInv
  <2>3. doing'[c] = "cancelling" /\ todo'[c] = pending[e]
    BY <2>1 DEF Do, TypeInv, CallerInv
  <2>4. \A w \in Workers : /\ Busy(w, t)' <=> Busy(w, t)
                           /\ Unfinished(w, t)' <=> Unfinished(w, t)
                           /\ Moving(w, t)' <=> Moving(w, t)
    BY <2>1 DEF Busy, Unfinished, Moving, workerVars
  <2>5. ASSUME t \in Range(pending[e]) PROVE submitted[t] # 0
    <3>1. Occurrences(t) # {}
      BY <2>5 DEF SlotInv, Filed, Occurrences, Range
    <3>2. IsFiniteSet(Occurrences(t)) /\ Cardinality(Occurrences(t)) \in Nat
      BY TransferAssumption, OccurrencesAreEntries, EntriesFinite DEF TypeInv, ListInv
    <3>3. Cardinality(HoldingSlot(t)) # 0
      BY <3>1, <3>2, FS_EmptySet DEF SlotInv, Slots
    <3>4. HoldingSlot(t) # {}
      BY <3>3, FS_EmptySet
    <3>5. \E w \in Workers : Busy(w, t)
      BY <3>4 DEF HoldingSlot, Busy, BeforeRemoval
    <3> QED BY <3>5 DEF FirstInv, First, Untouched
  <2>6. Reachable(t) => Reachable(t)'
    <3>1. Reachable(t)' <=> Occurrences(t)' # {} \/ cancelled'[t] \/ \E b \in Callers : Cancels(b, t)'
      BY DEF Reachable, BeingCancelled, Cancels
    <3>2. \A b \in Callers : Cancels(b, t) => Cancels(b, t)'
      BY <2>1, <2>2 DEF Cancels
    <3>3. Occurrences(t) # {} => Occurrences(t)' # {} \/ Cancels(c, t)'
      <4>1. CASE EndpointOf[t] = e
        <5>1. Occurrences(t) # {} => t \in Range(pending[e])
          BY <4>1 DEF Occurrences, Range
        <5> QED BY <2>3, <5>1 DEF Cancels
      <4>2. CASE EndpointOf[t] # e
        BY <2>1, <4>2, TransferAssumption DEF Occurrences, TypeInv, ListInv
      <4> QED BY <4>1, <4>2
    <3> QED BY <2>1, <3>1, <3>2, <3>3, ReachableBy
  <2>7. \A b \in Callers : Cancels(b, t)' => Cancels(b, t) \/ submitted[t] # 0
    BY <2>2, <2>3, <2>5 DEF Cancels
  <2>8. \A b \in Callers : doing'[b] = "writing" => doing[b] = "writing" /\ todo'[b] = todo[b]
    BY <2>2, <2>3
  <2> QED BY <2>1, <2>4, <2>6, <2>7, <2>8, FirstStutter
<1>4. ASSUME SubmitTransfer(c), NEW t \in Transfers PROVE First(t)'
  BY <1>4, SubmitFirst
<1>5. ASSUME Cancel(c), NEW t \in Transfers PROVE First(t)'
  <2> DEFINE u == Head(todo[c])
  <2>1. todo[c] \in Seq(Transfers) /\ todo[c] # <<>> /\ u \in Transfers
        /\ UNCHANGED <<pending, workerVars, submitted>> /\ doing[c] = "cancelling"
    BY <1>5, DoNextType DEF Cancel, TypeInv, CallerInv
  <2>2. CASE cancelled[u]
    <3>1. DoNext(c) /\ UNCHANGED cancelled
      BY <1>5, <2>2 DEF Cancel
    <3>2. \A b \in Callers : Cancels(b, t)' => Cancels(b, t)
      BY <2>1, <3>1, DoNextCancels
    <3>3. \A b \in Callers : Cancels(b, t) => Cancels(b, t)' \/ t = u
      BY <2>1, <3>1, DoNextCancels
    <3>4. \A b \in Callers : doing'[b] = "writing" => doing[b] = "writing" /\ todo'[b] = todo[b]
      BY <2>1, <3>1, DoNextCancels
    <3> QED BY <2>1, <2>2, <3>1, <3>2, <3>3, <3>4, FirstCaller
  <2>3. CASE ~cancelled[u]
    <3>1. cancelled' = [cancelled EXCEPT ![u] = TRUE] /\ Do(c, "writing", todo[c])
      BY <1>5, <2>3 DEF Cancel
    <3>2. todo' = todo /\ doing' = [doing EXCEPT ![c] = "writing"]
      BY <3>1 DEF Do, TypeInv, CallerInv
    <3>3. cancelled'[u] /\ (cancelled[t] => cancelled'[t])
      BY <2>1, <3>1 DEF TypeInv, ObjectInv
    <3>4. \A b \in Callers : Cancels(b, t)' <=> Cancels(b, t)
      BY <2>1, <3>2 DEF Cancels, TypeInv, CallerInv
    <3>5. \A b \in Callers : doing'[b] = "writing" => doing[b] = "writing" \/ b = c
      BY <3>2 DEF TypeInv, CallerInv
    <3> QED BY <2>1, <3>2, <3>3, <3>4, <3>5, FirstCaller
  <2> QED BY <2>2, <2>3
<1>6. ASSUME CancelStatus(c), NEW t \in Transfers PROVE First(t)'
  <2> DEFINE u == Head(todo[c])
  <2>1. todo[c] \in Seq(Transfers) /\ todo[c] # <<>> /\ DoNext(c)
        /\ UNCHANGED <<pending, workerVars, submitted, cancelled>> /\ doing[c] = "writing"
    BY <1>6 DEF CancelStatus, TypeInv, CallerInv
  <2>2. \A b \in Callers : Cancels(b, t)' => Cancels(b, t)
    BY <2>1, DoNextCancels
  <2>3. \A b \in Callers : Cancels(b, t) => Cancels(b, t)' \/ t = u
    BY <2>1, DoNextCancels
  <2>4. \A b \in Callers : doing'[b] = "writing" => doing[b] = "writing" /\ todo'[b] = todo[b]
    BY <2>1, DoNextCancels
  <2>5. FirstRun(u) /\ t = u => cancelled[u]
    BY <2>1 DEF FirstInv, First, Marked
  <2> QED BY <2>1, <2>2, <2>3, <2>4, <2>5, FirstCaller
<1> QED BY <1>1, <1>2, <1>3, <1>4, <1>5, <1>6 DEF CallerStep, FirstInv

(* processTransfer: only removeTransfer touches a list, and the goroutine  *)
(* of a first submission removes its own transfer.                         *)
LEMMA WorkerFirst ==
  ASSUME TypeInv, SlotInv, FirstInv, NEW w \in Workers, WorkerStep(w) \/ HalReturns(w) \/ HalSends(w),
         NEW t \in Transfers
  PROVE  First(t)'
<1>1. UNCHANGED <<doing, todo, submitted, cancelled>>
  BY DEF WorkerStep, ProcessStart, HalReturns, HalCancelled, HalSends, removeTransfer, Complete, callerVars, objectVars
<1>2. \A v \in Workers : v # w => at'[v] = at[v] /\ moving'[v] = moving[v]
  BY DEF WorkerStep, ProcessStart, HalReturns, HalCancelled, HalSends, removeTransfer, Complete, Goto, TypeInv, WorkerInv
<1>3. /\ Busy(w, t)' => Busy(w, t)
      /\ Unfinished(w, t)' => Unfinished(w, t)
      /\ Moving(w, t)' => Moving(w, t)
  <2>1. CASE ProcessStart(w) \/ HalReturns(w) \/ HalCancelled(w) \/ HalSends(w)
    BY <2>1 DEF ProcessStart, HalReturns, HalCancelled, HalSends, Goto, Busy, Unfinished, Moving,
                BeforeCompletion, TypeInv, WorkerInv
  <2>2. ASSUME NEW a \in {"finishing", "lateRemove"}, NEW r, Goto(w, a, moving[w], r),
               at[w] \in {"removing", "cancelling"}
        PROVE  /\ Busy(w, t)' => Busy(w, t)
               /\ Unfinished(w, t)' => Unfinished(w, t)
               /\ Moving(w, t)' => Moving(w, t)
    BY <2>2 DEF Goto, Busy, Unfinished, Moving, BeforeCompletion, TypeInv, WorkerInv
  <2>3. ASSUME Goto(w, "idle", NoTransfer, "None")
        PROVE  ~Busy(w, t)' /\ ~Unfinished(w, t)' /\ ~Moving(w, t)'
    BY <2>3 DEF Goto, Busy, Unfinished, Moving, BeforeCompletion, TypeInv, WorkerInv
  <2>4. CASE removeTransfer(w)
    <3>1. CASE at[w] = "removing"
      <4>1. Goto(w, "finishing", moving[w], result[w])
        BY <2>4, <3>1 DEF removeTransfer
      <4> QED BY <2>2, <3>1, <4>1
    <3>2. CASE at[w] = "lateRemove"
      <4>1. Goto(w, "idle", NoTransfer, "None")
        BY <2>4, <3>2 DEF removeTransfer
      <4> QED BY <2>3, <4>1
    <3> QED BY <2>4, <3>1, <3>2 DEF removeTransfer
  <2>5. CASE Complete(w)
    <3>1. CASE at[w] = "cancelling"
      <4>1. Goto(w, "lateRemove", moving[w], "None")
        BY <2>5, <3>1 DEF Complete
      <4> QED BY <2>2, <3>1, <4>1
    <3>2. CASE at[w] = "finishing"
      <4>1. Goto(w, "idle", NoTransfer, "None")
        BY <2>5, <3>2 DEF Complete
      <4> QED BY <2>3, <4>1
    <3> QED BY <2>5, <3>1, <3>2 DEF Complete
  <2> QED BY <2>1, <2>4, <2>5 DEF WorkerStep
<1>4. ASSUME submitted[t] = 1, NEW v \in Workers, Moving(v, t)', Occurrences(t) # {}
      PROVE  Occurrences(t)' # {}
  <2>1. CASE UNCHANGED pending
    BY <1>4, <2>1 DEF Occurrences
  <2>2. CASE removeTransfer(w)
    <3> DEFINE u == moving[w]
               e == EndpointOf[u]
    <3>1. u \in Transfers /\ e \in Endpoints /\ at[w] \in {"removing", "lateRemove"}
      BY <2>2, TransferAssumption DEF removeTransfer, TypeInv, WorkerInv
    <3>2. pending' = [pending EXCEPT ![e] = RemoveFirst(@, u)]
      BY <2>2 DEF removeTransfer
    <3>3. t # u
      <4> SUFFICES ASSUME t = u PROVE FALSE
        OBVIOUS
      <4>1. Moving(v, t)
        BY <1>2, <1>3, <1>4 DEF Moving
      <4>2. Busy(w, t) /\ Busy(v, t)
        BY <3>1, <4>1, MovingRuns DEF Busy
      <4>3. v = w
        BY <1>4, <4>2 DEF FirstInv, First, OneWorker
      <4> QED BY <3>1, <4>1, <4>3 DEF Moving
    <3>4. pending[e] \in Seq(Transfers) /\ pending'[e] = RemoveFirst(pending[e], u)
      BY <3>1, <3>2 DEF TypeInv, ListInv
    <3> HIDE DEF u, e
    <3>5. CASE EndpointOf[t] = e
      <4>1. Occurrences(t) = EntriesOf(pending[e], t) /\ Occurrences(t)' = EntriesOf(RemoveFirst(pending[e], u), t)
        BY <3>4, <3>5 DEF Occurrences, EntriesOf
      <4>2. Cardinality(Occurrences(t)') = Cardinality(Occurrences(t))
        BY <3>3, <3>4, <4>1, RemoveFirstEntries
      <4>3. IsFiniteSet(Occurrences(t))
        BY <3>4, <4>1, EntriesFinite
      <4> QED BY <1>4, <4>2, <4>3, FS_EmptySet
    <3>6. CASE EndpointOf[t] # e
      <4>1. Occurrences(t)' = Occurrences(t)
        BY <3>2, <3>6, TransferAssumption DEF Occurrences, TypeInv, ListInv
      <4> QED BY <1>4, <4>1
    <3> QED BY <3>5, <3>6
  <2> QED BY <2>1, <2>2 DEF WorkerStep, ProcessStart, HalReturns, HalCancelled, HalSends, Complete
<1>5. \A c \in Callers : Cancels(c, t)' <=> Cancels(c, t)
  BY <1>1 DEF Cancels
<1>6. Reachable(t)' <=> Occurrences(t)' # {} \/ cancelled'[t] \/ \E b \in Callers : Cancels(b, t)'
  BY DEF Reachable, BeingCancelled, Cancels
<1>7. submitted[t] = 1 /\ (\E v \in Workers : Moving(v, t)') /\ Reachable(t) => Reachable(t)'
  BY <1>1, <1>4, <1>5, <1>6, ReachableBy
<1>8. \A v \in Workers : /\ Busy(v, t)' => Busy(v, t)
                         /\ Unfinished(v, t)' => Unfinished(v, t)
                         /\ Moving(v, t)' => Moving(v, t)
  BY <1>2, <1>3 DEF Busy, Unfinished, Moving
<1> QED BY <1>1, <1>5, <1>7, <1>8, FirstStutter

(* Reset clears the flag of completed transfers only; the rest changes     *)
(* nothing the invariant is about.                                         *)
LEMMA OtherFirst ==
  ASSUME TypeInv, OwnerInv, FirstInv, NEW t \in Transfers,
         \/ Configure
         \/ \E u \in Transfers : ResetTransfer(u) \/ EndContext(u)
         \/ UNCHANGED vars
  PROVE  First(t)'
<1>1. UNCHANGED <<pending, workerVars, callerVars, submitted>>
  BY DEF Configure, ResetTransfer, EndContext, vars
<1>2. FirstRun(t) => (cancelled[t] => cancelled'[t])
  <2>1. FirstRun(t) => ~completed[t]
    BY DEF OwnerInv, Fresh, FirstRun
  <2>2. ASSUME NEW u \in Transfers, ResetTransfer(u) PROVE completed[u] /\ (u # t => cancelled'[t] = cancelled[t])
    BY <2>2 DEF ResetTransfer, TypeInv, ObjectInv
  <2>3. CASE \E u \in Transfers : ResetTransfer(u)
    BY <2>1, <2>2, <2>3
  <2>4. CASE Configure \/ (\E u \in Transfers : EndContext(u)) \/ UNCHANGED vars
    BY <2>4 DEF Configure, EndContext, vars, objectVars
  <2> QED BY <2>3, <2>4
<1>3. \A c \in Callers : Cancels(c, t)' <=> Cancels(c, t)
  BY <1>1 DEF Cancels, callerVars
<1>4. todo' = todo /\ doing' = doing
  BY <1>1 DEF callerVars
<1> QED BY <1>1, <1>2, <1>3, <1>4, FirstCaller

(* CancelTransfers reaches the data of a first submission: until they are  *)
(* moved its transfer is in the endpoint's list, is cancelled, or is in    *)
(* the list a caller cancels; no other goroutine's removeTransfer takes it.*)
THEOREM FirstIsReachable == Spec => []FirstSubmissionReachable
<1>1. TypeInv /\ OwnerInv /\ SlotInv /\ FirstInv /\ [Next]_vars => FirstInv'
  <2> SUFFICES ASSUME TypeInv, OwnerInv, SlotInv, FirstInv, [Next]_vars PROVE FirstInv'
    OBVIOUS
  <2>1. ASSUME NEW w \in Workers, WorkerStep(w) \/ HalReturns(w) \/ HalSends(w) PROVE FirstInv'
    BY <2>1, WorkerFirst DEF FirstInv
  <2>2. ASSUME \/ Configure
               \/ \E u \in Transfers : ResetTransfer(u) \/ EndContext(u)
               \/ UNCHANGED vars
        PROVE FirstInv'
    BY <2>2, OtherFirst DEF FirstInv
  <2> QED BY <2>1, <2>2, CallerFirst DEF Next
<1>2. TypeInv /\ FirstInv => FirstSubmissionReachable
  BY DEF FirstInv, First, Listed, Moving, FirstSubmissionReachable, TypeInv, WorkerInv
<1> QED BY <1>1, <1>2, InitFirst, SlotInvariant, TypeInvariant, OwnerInvariant, PTL DEF Spec

-----------------------------------------------------------------------------
(* The HAL is up as long as somebody holds it, and running says that       *)
(* nobody but the stack does.                                              *)
Held ==
  /\ running \in BOOLEAN /\ up \in BOOLEAN
  /\ callAt \in [Starters -> {"idle", "initialising"} \union Holding]
  /\ \A c \in Starters : callAt[c] \in Holding => up
HeldInv == Held /\ RunningIsUp

LEMMA LifecycleInitHeld == LifecycleInit => HeldInv
<1> SUFFICES ASSUME LifecycleInit PROVE HeldInv
  OBVIOUS
<1>1. \A c \in Starters : callAt[c] = "idle"
  BY DEF LifecycleInit
<1>2. "idle" \notin Holding
  BY DEF Holding
<1>3. Held
  BY <1>1, <1>2 DEF LifecycleInit, Held
<1>4. \A c, d \in Starters : ~({callAt[c], callAt[d]} \subseteq Holding)
  BY <1>1, <1>2
<1>5. RunningIsUp
  BY <1>1, <1>2, <1>4 DEF LifecycleInit, RunningIsUp
<1> QED BY <1>3, <1>5 DEF HeldInv

LEMMA LifecycleCallHeld == \A c \in Starters : HeldInv /\ (Start(c) \/ Stop(c) \/ CallGoesOn(c)) => HeldInv'
<1> SUFFICES ASSUME NEW c \in Starters, HeldInv, Start(c) \/ Stop(c) \/ CallGoesOn(c) PROVE HeldInv'
  OBVIOUS
<1> USE DEF HeldInv, Held, RunningIsUp, Holding, GoesOn
<1>1. CASE Start(c)
  BY <1>1 DEF Start
<1>2. CASE HalInit(c)
  <2>1. CASE ~up /\ up' = TRUE /\ GoesOn(c, "attaching")
    <3>1. \A d \in Starters : callAt[d] \notin Holding
      BY <2>1
    <3>2. running' = FALSE /\ callAt' = [callAt EXCEPT ![c] = "attaching"]
      BY <1>2, <2>1 DEF HalInit
    <3>3. \A d \in Starters : callAt'[d] \in Holding => d = c
      BY <3>1, <3>2
    <3> QED BY <2>1, <3>2, <3>3
  <2>2. CASE GoesOn(c, "idle") /\ UNCHANGED up
    BY <1>2, <2>2 DEF HalInit
  <2> QED BY <1>2, <2>1, <2>2 DEF HalInit
<1>3. CASE HalStart(c)
  BY <1>3 DEF HalStart
<1>4. CASE StartDone(c)
  BY <1>4 DEF StartDone
<1>5. CASE Stop(c)
  BY <1>5 DEF Stop
<1>6. CASE HalClose(c)
  BY <1>6 DEF HalClose
<1>7. CASE HalStop(c)
  BY <1>7 DEF HalStop
<1> QED BY <1>1, <1>2, <1>3, <1>4, <1>5, <1>6, <1>7 DEF CallGoesOn

LEMMA LifecycleLoopHeld == \A l \in Loops : HeldInv /\ (LoopStep(l) \/ SetupComes(l)) => HeldInv'
  BY DEF LoopStep, Look, ReadSetup, ReadFails, Check, Handle, SetupComes, LoopVars, HeldInv, Held, RunningIsUp

LEMMA LifecycleNextHeld == HeldInv /\ [LifecycleNext]_lifecycleVars => HeldInv'
<1> SUFFICES ASSUME HeldInv, [LifecycleNext]_lifecycleVars PROVE HeldInv'
  OBVIOUS
<1>1. CASE UNCHANGED lifecycleVars
  BY <1>1 DEF lifecycleVars, HeldInv, Held, RunningIsUp
<1>2. CASE LifecycleNext
  BY <1>2, LifecycleCallHeld, LifecycleLoopHeld DEF LifecycleNext
<1> QED BY <1>1, <1>2

(* Whatever calls of Start and Stop overlap, a stack that says it runs has *)
(* its HAL, and no two of them are bringing it up or taking it down        *)
(* (Start and Stop of device/stack.go, Init and Stop of the FIFO HAL).     *)
THEOREM HalIsHeldOnce == LifecycleSpec => []RunningIsUp
<1>1. LifecycleInit => HeldInv
  BY LifecycleInitHeld
<1>2. HeldInv /\ [LifecycleNext]_lifecycleVars => HeldInv'
  BY LifecycleNextHeld
<1>3. HeldInv => RunningIsUp
  BY DEF HeldInv
<1> QED BY <1>1, <1>2, <1>3, PTL DEF LifecycleSpec
=============================================================================
