---------------------------- MODULE StackTransfers ----------------------------
(***************************************************************************)
(* Data transfers of the device: Stack.SubmitTransfer, processTransfer,    *)
(* removeTransfer and CancelTransfers (device/stack.go) with the Transfer  *)
(* objects of device/transfer.go.                                          *)
(*                                                                         *)
(* SubmitTransfer appends to the endpoint's pending list and starts one    *)
(* goroutine (here: a worker) that moves the data, removes the transfer    *)
(* from the list and completes it:                                         *)
(*   start -> hal (-> sending) -> removing -> finishing -> idle            *)
(*   start -> cancelling -> lateRemove -> idle  (its context was done)     *)
(* The completion callback runs inside Complete; what an application does  *)
(* in it is a step of a caller, which may come before lateRemove.          *)
(***************************************************************************)
EXTENDS Naturals, Sequences, SequencesExt

CONSTANTS
  Transfers,       (* transfer objects                                      *)
  NoTransfer,      (* the transfer of an idle goroutine                     *)
  Endpoints,       (* endpoint addresses                                    *)
  EndpointOf,      (* Transfer.Endpoint                                     *)
  Workers,         (* goroutines running processTransfer                    *)
  Callers,         (* goroutines of the application                         *)
  MaxPending,      (* MaxPendingTransfersPerEndpoint                        *)
  MaxSubmissions   (* bound on the submissions of one transfer object       *)

ASSUME TransferAssumption ==
  /\ NoTransfer \notin Transfers
  /\ EndpointOf \in [Transfers -> Endpoints]
  /\ MaxPending \in Nat \ {0}
  /\ MaxSubmissions \in Nat \ {0}

Statuses    == {"None", "Success", "Error", "Cancelled"}
BeforeRemoval    == {"start", "hal", "sending", "removing", "cancelling", "lateRemove"}
BeforeCompletion == {"start", "hal", "sending", "removing", "finishing", "cancelling"}

VARIABLES
  configured,   (* the stack runs and the device is configured              *)
  pending,      (* pendingTransfers and pendingTransferCounts               *)
  completed,    (* Transfer.completed                                       *)
  cancelled,    (* Transfer.cancelled                                       *)
  status,       (* Transfer.Status                                          *)
  ctxDone,      (* the transfer's context is done                           *)
  at,           (* where a goroutine of processTransfer is                  *)
  moving,       (* the transfer it processes                                *)
  result,       (* what the HAL operation returned to it                    *)
  doing,        (* where a goroutine of the application is                  *)
  todo,         (* the transfers it has still to submit or cancel           *)
  submitted,    (* submissions accepted per transfer (history)              *)
  callbacks     (* callbacks of the last submission (history)               *)

objectVars == <<completed, cancelled, status, ctxDone>>
workerVars == <<at, moving, result>>
callerVars == <<doing, todo>>
vars == <<configured, pending, objectVars, workerVars, callerVars, submitted, callbacks>>

TypeOK ==
  /\ configured \in BOOLEAN
  /\ pending \in [Endpoints -> Seq(Transfers)]
  /\ \A e \in Endpoints : Len(pending[e]) <= MaxPending
  /\ completed \in [Transfers -> BOOLEAN]
  /\ cancelled \in [Transfers -> BOOLEAN]
  /\ status \in [Transfers -> Statuses]
  /\ ctxDone \in [Transfers -> BOOLEAN]
  /\ at \in [Workers -> BeforeRemoval \union BeforeCompletion \union {"idle"}]
  /\ moving \in [Workers -> Transfers \union {NoTransfer}]
  /\ result \in [Workers -> Statuses]
  /\ doing \in [Callers -> {"idle", "submitting", "cancelling", "writing"}]
  /\ todo \in [Callers -> Seq(Transfers)]
  /\ submitted \in [Transfers -> Nat]
  /\ callbacks \in [Transfers -> Nat]

Init ==
  /\ configured = FALSE
  /\ pending = [e \in Endpoints |-> <<>>]
  /\ completed = [t \in Transfers |-> FALSE]
  /\ cancelled = [t \in Transfers |-> FALSE]
  /\ status = [t \in Transfers |-> "None"]
  /\ ctxDone = [t \in Transfers |-> FALSE]
  /\ at = [w \in Workers |-> "idle"]
  /\ moving = [w \in Workers |-> NoTransfer]
  /\ result = [w \in Workers |-> "None"]
  /\ doing = [c \in Callers |-> "idle"]
  /\ todo = [c \in Callers |-> <<>>]
  /\ submitted = [t \in Transfers |-> 0]
  /\ callbacks = [t \in Transfers |-> 0]

(* A goroutine of the application, and one of processTransfer, moves on.   *)
Do(c, d, ts) == doing' = [doing EXCEPT ![c] = d] /\ todo' = [todo EXCEPT ![c] = ts]
Goto(w, a, t, r) ==
  /\ at' = [at EXCEPT ![w] = a]
  /\ moving' = [moving EXCEPT ![w] = t]
  /\ result' = [result EXCEPT ![w] = r]

-----------------------------------------------------------------------------
(* The application hands a transfer over once, and resets and submits it   *)
(* again only after it has completed.                                      *)
Submitting(t) == \E c \in Callers : doing[c] = "submitting" /\ todo[c] = <<t>>
InProgress(t) == \E w \in Workers : moving[w] = t /\ at[w] \in BeforeCompletion
Handed(t)     == Submitting(t) \/ InProgress(t)
Ready(t)      == ~completed[t] /\ ~Handed(t)

(* The control loop configures the device, or a reset or Stop ends that.   *)
(* Neither touches the transfers.                                          *)
Configure ==
  /\ configured' = ~configured
  /\ UNCHANGED <<pending, objectVars, workerVars, callerVars, submitted, callbacks>>

(* SubmitTransfer, up to the locks of Stack and Device: IsConfigured.      *)
SubmitCheck(c, t) ==
  /\ doing[c] = "idle"
  /\ Ready(t)
  /\ submitted[t] < MaxSubmissions
  /\ configured
  /\ Do(c, "submitting", <<t>>)
  /\ UNCHANGED <<configured, pending, objectVars, workerVars, submitted, callbacks>>

(* SubmitTransfer, under transferMutex: refuse with ErrNoResources, or     *)
(* append and start a goroutine.                                           *)
SubmitTransfer(c) ==
  /\ doing[c] = "submitting"
  /\ Do(c, "idle", <<>>)
  /\ LET t == Head(todo[c])
         e == EndpointOf[t]
     IN  IF Len(pending[e]) >= MaxPending
           THEN UNCHANGED <<pending, workerVars, submitted, callbacks>>
           ELSE \E w \in Workers :
                  /\ at[w] = "idle"
                  /\ Goto(w, "start", t, "None")
                  /\ pending' = [pending EXCEPT ![e] = Append(@, t)]
                  /\ submitted' = [submitted EXCEPT ![t] = @ + 1]
                  /\ callbacks' = [callbacks EXCEPT ![t] = 0]
  /\ UNCHANGED <<configured, objectVars>>

(* Transfer.Reset, before the object is submitted again.                   *)
ResetTransfer(t) ==
  /\ completed[t]
  /\ submitted[t] < MaxSubmissions
  /\ completed' = [completed EXCEPT ![t] = FALSE]
  /\ cancelled' = [cancelled EXCEPT ![t] = FALSE]
  /\ status' = [status EXCEPT ![t] = "None"]
  /\ ctxDone' = [ctxDone EXCEPT ![t] = FALSE]
  /\ UNCHANGED <<configured, pending, workerVars, callerVars, submitted, callbacks>>

(* The application ends the context of a transfer it has submitted.        *)
EndContext(t) ==
  /\ Handed(t)
  /\ ~ctxDone[t]
  /\ ctxDone' = [ctxDone EXCEPT ![t] = TRUE]
  /\ UNCHANGED <<configured, pending, completed, cancelled, status, workerVars, callerVars, submitted, callbacks>>

(* CancelTransfers, under transferMutex: the list is copied and cleared.   *)
CancelTransfers(c, e) ==
  /\ doing[c] = "idle"
  /\ pending[e] # <<>>
  /\ pending' = [pending EXCEPT ![e] = <<>>]
  /\ Do(c, "cancelling", pending[e])
  /\ UNCHANGED <<configured, objectVars, workerVars, submitted, callbacks>>

(* Transfer.Cancel called by the application on one transfer.              *)
CancelOne(c, t) ==
  /\ doing[c] = "idle"
  /\ submitted[t] > 0
  /\ ~cancelled[t]
  /\ Do(c, "cancelling", <<t>>)
  /\ UNCHANGED <<configured, pending, objectVars, workerVars, submitted, callbacks>>

DoNext(c) == Do(c, IF Len(todo[c]) = 1 THEN "idle" ELSE "cancelling", Tail(todo[c]))

(* Transfer.Cancel: the compare-and-swap of the flag ...                   *)
Cancel(c) ==
  /\ doing[c] = "cancelling"
  /\ LET t == Head(todo[c]) IN
       IF cancelled[t]
         THEN /\ DoNext(c)
              /\ UNCHANGED cancelled
         ELSE /\ cancelled' = [cancelled EXCEPT ![t] = TRUE]
              /\ Do(c, "writing", todo[c])
  /\ UNCHANGED <<configured, pending, completed, status, ctxDone, workerVars, submitted, callbacks>>

(* ... and then, under the transfer's mutex, the status.                   *)
CancelStatus(c) ==
  /\ doing[c] = "writing"
  /\ status' = [status EXCEPT ![Head(todo[c])] = "Cancelled"]
  /\ DoNext(c)
  /\ UNCHANGED <<configured, pending, completed, cancelled, ctxDone, workerVars, submitted, callbacks>>

-----------------------------------------------------------------------------
(* processTransfer.                                                        *)

(* Mutant of ProcessStart: Complete is forgotten when the context is done. *)
ProcessStartDrops(w) ==
  /\ at[w] = "start"
  /\ Goto(w, IF ctxDone[moving[w]] THEN "lateRemove" ELSE "hal", moving[w], "None")
  /\ UNCHANGED <<configured, pending, objectVars, callerVars, submitted, callbacks>>

(* The context is looked at once before the data are moved.                *)
ProcessStart(w) ==
  /\ at[w] = "start"
  /\ Goto(w, IF ctxDone[moving[w]] THEN "cancelling" ELSE "hal", moving[w], "None")
  /\ UNCHANGED <<configured, pending, objectVars, callerVars, submitted, callbacks>>

(* The HAL's Read or Write moves the data or fails ...                     *)
HalReturns(w) ==
  /\ at[w] \in {"hal", "sending"}
  /\ \E r \in {"Success", "Error"} : Goto(w, "removing", moving[w], r)
  /\ UNCHANGED <<configured, pending, objectVars, callerVars, submitted, callbacks>>

(* ... or notices that the context is done.  A Read looks at it every      *)
(* 100 ms (readWithContext of the FIFO HAL) ...                            *)
HalCancelled(w) ==
  /\ at[w] = "hal"
  /\ ctxDone[moving[w]]
  /\ Goto(w, "removing", moving[w], "Error")
  /\ UNCHANGED <<configured, pending, objectVars, callerVars, submitted, callbacks>>

(* ... a Write once, before the first byte (sendMessage): after that it    *)
(* blocks for as long as the pipe is full.                                 *)
HalSends(w) ==
  /\ at[w] = "hal"
  /\ Goto(w, "sending", moving[w], "None")
  /\ UNCHANGED <<configured, pending, objectVars, callerVars, submitted, callbacks>>

(* Mutant of removeTransfer: the slot is not given back on an error.       *)
RemoveOnSuccess(w) ==
  /\ at[w] \in {"removing", "lateRemove"}
  /\ LET t == moving[w] IN
       pending' = IF result[w] = "Error" THEN pending
                  ELSE [pending EXCEPT ![EndpointOf[t]] = RemoveFirst(@, t)]
  /\ IF at[w] = "removing" THEN Goto(w, "finishing", moving[w], result[w])
                           ELSE Goto(w, "idle", NoTransfer, "None")
  /\ UNCHANGED <<configured, objectVars, callerVars, submitted, callbacks>>

(* Mutant of removeTransfer: the oldest entry is taken for the transfer's. *)
RemoveOldest(w) ==
  /\ at[w] \in {"removing", "lateRemove"}
  /\ LET e == EndpointOf[moving[w]] IN
       pending' = [pending EXCEPT ![e] = IF @ = <<>> THEN @ ELSE Tail(@)]
  /\ IF at[w] = "removing" THEN Goto(w, "finishing", moving[w], result[w])
                           ELSE Goto(w, "idle", NoTransfer, "None")
  /\ UNCHANGED <<configured, objectVars, callerVars, submitted, callbacks>>

removeTransfer(w) ==
  /\ at[w] \in {"removing", "lateRemove"}
  /\ LET t == moving[w] IN pending' = [pending EXCEPT ![EndpointOf[t]] = RemoveFirst(@, t)]
  /\ IF at[w] = "removing" THEN Goto(w, "finishing", moving[w], result[w])
                           ELSE Goto(w, "idle", NoTransfer, "None")
  /\ UNCHANGED <<configured, objectVars, callerVars, submitted, callbacks>>

(* Mutant of Complete: a cancelled transfer gets no callback.              *)
CompleteQuietly(w) ==
  /\ at[w] \in {"finishing", "cancelling"}
  /\ LET t == moving[w] IN
       IF completed[t]
         THEN UNCHANGED <<completed, status, callbacks>>
         ELSE /\ completed' = [completed EXCEPT ![t] = TRUE]
              /\ status' = [status EXCEPT ![t] = IF at[w] = "cancelling" THEN "Cancelled" ELSE result[w]]
              /\ callbacks' = IF cancelled[t] THEN callbacks ELSE [callbacks EXCEPT ![t] = @ + 1]
  /\ IF at[w] = "cancelling" THEN Goto(w, "lateRemove", moving[w], "None")
                             ELSE Goto(w, "idle", NoTransfer, "None")
  /\ UNCHANGED <<configured, pending, cancelled, ctxDone, callerVars, submitted>>

(* Transfer.Complete with the callback, which never blocks here.           *)
Complete(w) ==
  /\ at[w] \in {"finishing", "cancelling"}
  /\ LET t == moving[w] IN
       IF completed[t]
         THEN UNCHANGED <<completed, status, callbacks>>
         ELSE /\ completed' = [completed EXCEPT ![t] = TRUE]
              /\ status' = [status EXCEPT ![t] = IF at[w] = "cancelling" THEN "Cancelled" ELSE result[w]]
              /\ callbacks' = [callbacks EXCEPT ![t] = @ + 1]
  /\ IF at[w] = "cancelling" THEN Goto(w, "lateRemove", moving[w], "None")
                             ELSE Goto(w, "idle", NoTransfer, "None")
  /\ UNCHANGED <<configured, pending, cancelled, ctxDone, callerVars, submitted>>

-----------------------------------------------------------------------------
CallerStep(c) ==
  \/ \E t \in Transfers : SubmitCheck(c, t) \/ CancelOne(c, t)
  \/ \E e \in Endpoints : CancelTransfers(c, e)
  \/ SubmitTransfer(c)
  \/ Cancel(c)
  \/ CancelStatus(c)

(* What a goroutine does without waiting for the bus.                      *)
WorkerStep(w) ==
  ProcessStart(w) \/ HalCancelled(w) \/ removeTransfer(w) \/ Complete(w)

Next ==
  \/ Configure
  \/ \E c \in Callers : CallerStep(c)
  \/ \E t \in Transfers : ResetTransfer(t) \/ EndContext(t)
  \/ \E w \in Workers : WorkerStep(w) \/ HalReturns(w) \/ HalSends(w)

Spec == Init /\ [][Next]_vars

(* Goroutines run, and a HAL operation that still looks at its context     *)
(* returns once that is done.  Nothing makes the host move data, so        *)
(* HalReturns has no fairness, nor does a Write that is under way have any *)
(* (device/hal/fifo/fifo.go:709-718 has neither deadline nor context).     *)
FairSpec == Spec /\ \A w \in Workers : WF_vars(WorkerStep(w))
-----------------------------------------------------------------------------
Occurrences(t)   == {i \in DOMAIN pending[EndpointOf[t]] : pending[EndpointOf[t]][i] = t}
HoldingSlot(t)   == {w \in Workers : moving[w] = t /\ at[w] \in BeforeRemoval}
BeingCancelled(t) == \E c \in Callers : doing[c] \in {"cancelling", "writing"} /\ t \in Range(todo[c])

(* No slot of a pending list is leaked: every entry is for the endpoint of *)
(* its transfer and some goroutine is still going to remove it, whatever   *)
(* CancelTransfers and resubmissions do in between (removeTransfer).       *)
NoSlotLeaked ==
  /\ \A e \in Endpoints : \A t \in Range(pending[e]) : EndpointOf[t] = e
  /\ \A t \in Transfers : Cardinality(Occurrences(t)) <= Cardinality(HoldingSlot(t))

(* Each accepted submission calls its callback exactly once, when it is    *)
(* completed, also when it is cancelled or its context ends meanwhile.     *)
OneCallback ==
  \A t \in Transfers :
    submitted[t] > 0 => callbacks[t] = (IF InProgress(t) THEN 0 ELSE 1)

(* The data of the first submission are moved with the transfer in the     *)
(* list that CancelTransfers goes through, unless it is cancelled already: *)
(* no other goroutine's removeTransfer takes its entry.                    *)
Reachable(t) == Occurrences(t) # {} \/ cancelled[t] \/ BeingCancelled(t)
FirstSubmissionReachable ==
  \A w \in Workers : at[w] \in {"hal", "sending"} /\ submitted[moving[w]] = 1 => Reachable(moving[w])

(* Ending the context of a submitted transfer completes it, whatever the   *)
(* host does (processTransfer, and the HAL's context argument), unless it  *)
(* is an IN transfer whose Write is under way: that one waits for the host *)
(* to read, or for the HAL to be stopped.                                  *)
Sending(t) == \E w \in Workers : at[w] = "sending" /\ moving[w] = t
ContextEndsTransfer ==
  \A t \in Transfers : ctxDone[t] /\ InProgress(t) ~> completed[t] \/ Sending(t)
=============================================================================
