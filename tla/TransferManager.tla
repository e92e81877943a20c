---------------------------- MODULE TransferManager ----------------------------
(***************************************************************************)
(* The host's asynchronous transfers: TransferManager of host/transfer.go  *)
(* with its map of pending transfers, its channel of jobs and its workers. *)
(*                                                                         *)
(* A submission (Submit) goes through                                      *)
(*   idle -> checked -> sending -> idle                                    *)
(* and a worker (executeTransfer, completeTransfer) through                *)
(*   receiving -> starting -> hal -> removing -> calling -> receiving      *)
(* which ends when the channel is closed and empty.  No lock is held       *)
(* across these steps; Stop takes none at all.                             *)
(***************************************************************************)
EXTENDS Naturals, Sequences, FiniteSets

CONSTANTS
  Transfers,       (* transfer objects, each submitted at most once          *)
  OwnContext,      (* those with a context of their own                      *)
  NoTransfer,      (* the transfer of an idle goroutine                      *)
  Workers,         (* worker goroutines                                      *)
  Callers,         (* goroutines of the application                          *)
  JobCapacity,     (* capacity of the channel of jobs                        *)
  MaxStops         (* bound on the calls of Stop                             *)

ASSUME ManagerAssumption ==
  /\ OwnContext \subseteq Transfers
  /\ NoTransfer \notin Transfers
  /\ JobCapacity \in Nat \ {0}
  /\ MaxStops \in Nat

Outcomes == {"none", "success", "error", "cancelled"}

VARIABLES
  running,     (* TransferManager.running                                   *)
  ctxDone,     (* the manager's context is cancelled                        *)
  closed,      (* the channel of jobs is closed                             *)
  app,         (* the line of Stop to run next, or "idle"                   *)
  stops,       (* calls of Stop                                             *)
  panicked,    (* the program has panicked                                  *)
  pending,     (* TransferManager.pending                                   *)
  jobs,        (* TransferManager.jobs                                      *)
  completed,   (* Transfer.completed                                        *)
  outcome,     (* Transfer.err, with "success" for nil after completion     *)
  ownDone,     (* transfers whose own context is done                       *)
  at,          (* where a worker is                                         *)
  moving,      (* the transfer it executes                                  *)
  doing,       (* where a goroutine of the application is                   *)
  todo,        (* the transfer it submits or cancels                        *)
  offered,     (* transfers whose submission was begun (history)            *)
  accepted,    (* transfers whose Submit returned an id (history)           *)
  calls        (* callbacks per transfer (history)                          *)

managerVars == <<running, ctxDone, closed, app, stops>>
objectVars  == <<completed, outcome>>
workerVars  == <<at, moving>>
callerVars  == <<doing, todo>>
pastVars    == <<offered, accepted, calls>>
vars == <<managerVars, panicked, pending, jobs, objectVars, ownDone, workerVars, callerVars, pastVars>>

WorkerStages == {"unborn", "receiving", "starting", "hal", "removing", "calling", "ended"}
CallerStages == {"idle", "checked", "sending", "marking", "writing"}

TypeOK ==
  /\ running \in BOOLEAN
  /\ ctxDone \in BOOLEAN
  /\ closed \in BOOLEAN
  /\ app \in {"idle", "cancelled", "stopped"}
  /\ stops \in Nat
  /\ panicked \in BOOLEAN
  /\ pending \subseteq Transfers
  /\ jobs \in Seq(Transfers) /\ Len(jobs) <= JobCapacity
  /\ completed \in [Transfers -> BOOLEAN]
  /\ outcome \in [Transfers -> Outcomes]
  /\ ownDone \subseteq OwnContext
  /\ at \in [Workers -> WorkerStages]
  /\ moving \in [Workers -> Transfers \union {NoTransfer}]
  /\ doing \in [Callers -> CallerStages]
  /\ todo \in [Callers -> Transfers \union {NoTransfer}]
  /\ offered \subseteq Transfers
  /\ accepted \subseteq Transfers
  /\ calls \in [Transfers -> Nat]

Init ==
  /\ running = FALSE
  /\ ctxDone = FALSE
  /\ closed = FALSE
  /\ app = "idle"
  /\ stops = 0
  /\ panicked = FALSE
  /\ pending = {}
  /\ jobs = <<>>
  /\ completed = [t \in Transfers |-> FALSE]
  /\ outcome = [t \in Transfers |-> "none"]
  /\ ownDone = {}
  /\ at = [w \in Workers |-> "unborn"]
  /\ moving = [w \in Workers |-> NoTransfer]
  /\ doing = [c \in Callers |-> "idle"]
  /\ todo = [c \in Callers |-> NoTransfer]
  /\ offered = {}
  /\ accepted = {}
  /\ calls = [t \in Transfers |-> 0]

Do(c, stage, t)   == doing' = [doing EXCEPT ![c] = stage] /\ todo' = [todo EXCEPT ![c] = t]
Goto(w, stage, t) == at' = [at EXCEPT ![w] = stage] /\ moving' = [moving EXCEPT ![w] = t]

-----------------------------------------------------------------------------
(* Start, called once, and Stop, statement by statement.                   *)
Start ==
  /\ \A w \in Workers : at[w] = "unborn"
  /\ running' = TRUE
  /\ at' = [w \in Workers |-> "receiving"]
  /\ UNCHANGED <<ctxDone, closed, app, stops, panicked, pending, jobs, objectVars, ownDone, moving, callerVars, pastVars>>

StopCancel ==
  /\ app = "idle"
  /\ \E w \in Workers : at[w] # "unborn"
  /\ stops < MaxStops
  /\ stops' = stops + 1
  /\ ctxDone' = TRUE
  /\ app' = "cancelled"
  /\ UNCHANGED <<running, closed, panicked, pending, jobs, objectVars, ownDone, workerVars, callerVars, pastVars>>

StopRunning ==
  /\ app = "cancelled"
  /\ running' = FALSE
  /\ app' = "stopped"
  /\ UNCHANGED <<ctxDone, closed, stops, panicked, pending, jobs, objectVars, ownDone, workerVars, callerVars, pastVars>>

(* close panics when the channel is closed already.                        *)
StopClose ==
  /\ app = "stopped"
  /\ panicked' = closed
  /\ closed' = TRUE
  /\ app' = "idle"
  /\ UNCHANGED <<running, ctxDone, stops, pending, jobs, objectVars, ownDone, workerVars, callerVars, pastVars>>

-----------------------------------------------------------------------------
(* Submit.                                                                 *)
SubmitCheck(c, t) ==
  /\ doing[c] = "idle"
  /\ running
  /\ t \notin offered
  /\ offered' = offered \union {t}
  /\ Do(c, "checked", t)
  /\ UNCHANGED <<managerVars, panicked, pending, jobs, objectVars, ownDone, workerVars, accepted, calls>>

SubmitRegister(c) ==
  /\ doing[c] = "checked"
  /\ pending' = pending \union {todo[c]}
  /\ Do(c, "sending", todo[c])
  /\ UNCHANGED <<managerVars, panicked, jobs, objectVars, ownDone, workerVars, pastVars>>

(* The select: room in the channel, the context done, or - the channel is  *)
(* closed - a panic; any of them that is possible.                         *)
SubmitSend(c) ==
  /\ doing[c] = "sending"
  /\ ~closed
  /\ Len(jobs) < JobCapacity
  /\ jobs' = Append(jobs, todo[c])
  /\ accepted' = accepted \union {todo[c]}
  /\ Do(c, "idle", NoTransfer)
  /\ UNCHANGED <<managerVars, panicked, pending, objectVars, ownDone, workerVars, offered, calls>>

SubmitCancelled(c) ==
  /\ doing[c] = "sending"
  /\ ctxDone
  /\ Do(c, "idle", NoTransfer)
  /\ UNCHANGED <<managerVars, panicked, pending, jobs, objectVars, ownDone, workerVars, pastVars>>

SubmitPanics(c) ==
  /\ doing[c] = "sending"
  /\ closed
  /\ panicked' = TRUE
  /\ UNCHANGED <<managerVars, pending, jobs, objectVars, ownDone, workerVars, callerVars, pastVars>>

(* Cancel: under the lock, then completed, then err.                       *)
Cancel(c, t) ==
  /\ doing[c] = "idle"
  /\ t \in accepted
  /\ t \in pending
  /\ pending' = pending \ {t}
  /\ Do(c, "marking", t)
  /\ UNCHANGED <<managerVars, panicked, jobs, objectVars, ownDone, workerVars, offered, accepted, calls>>

CancelMark(c) ==
  /\ doing[c] = "marking"
  /\ completed' = [completed EXCEPT ![todo[c]] = TRUE]
  /\ Do(c, "writing", todo[c])
  /\ UNCHANGED <<managerVars, panicked, pending, jobs, outcome, ownDone, workerVars, pastVars>>

CancelWrite(c) ==
  /\ doing[c] = "writing"
  /\ outcome' = [outcome EXCEPT ![todo[c]] = "cancelled"]
  /\ Do(c, "idle", NoTransfer)
  /\ UNCHANGED <<managerVars, panicked, pending, jobs, completed, ownDone, workerVars, pastVars>>

EndContext(t) ==
  /\ t \in OwnContext \ ownDone
  /\ ownDone' = ownDone \union {t}
  /\ UNCHANGED <<managerVars, panicked, pending, jobs, objectVars, workerVars, callerVars, pastVars>>

-----------------------------------------------------------------------------
(* A worker.  Receiving from the closed channel still drains it.           *)
Receive(w) ==
  /\ at[w] = "receiving"
  /\ jobs # <<>>
  /\ jobs' = Tail(jobs)
  /\ Goto(w, "starting", Head(jobs))
  /\ UNCHANGED <<managerVars, panicked, pending, objectVars, ownDone, callerVars, pastVars>>

(* Mutant of WorkerEnds: a worker leaves as soon as the channel is closed. *)
WorkerEndsEarly(w) ==
  /\ at[w] = "receiving"
  /\ closed
  /\ Goto(w, "ended", NoTransfer)
  /\ UNCHANGED <<managerVars, panicked, pending, jobs, objectVars, ownDone, callerVars, pastVars>>

WorkerEnds(w) ==
  /\ at[w] = "receiving"
  /\ closed
  /\ jobs = <<>>
  /\ Goto(w, "ended", NoTransfer)
  /\ UNCHANGED <<managerVars, panicked, pending, jobs, objectVars, ownDone, callerVars, pastVars>>

Finish(w, r) ==
  /\ outcome' = [outcome EXCEPT ![moving[w]] = r]
  /\ completed' = [completed EXCEPT ![moving[w]] = TRUE]
  /\ Goto(w, "removing", moving[w])

(* executeTransfer looks at the transfer's own context only.               *)
Execute(w) ==
  /\ at[w] = "starting"
  /\ IF moving[w] \in ownDone
       THEN Finish(w, "cancelled")
       ELSE Goto(w, "hal", moving[w]) /\ UNCHANGED objectVars
  /\ UNCHANGED <<managerVars, panicked, pending, jobs, ownDone, callerVars, pastVars>>

HalReturns(w) ==
  /\ at[w] = "hal"
  /\ \E r \in {"success", "error"} : Finish(w, r)
  /\ UNCHANGED <<managerVars, panicked, pending, jobs, ownDone, callerVars, pastVars>>

(* The HAL gives up: the context it was called with is done.               *)
HalCancelled(w) ==
  /\ at[w] = "hal"
  /\ IF moving[w] \in OwnContext THEN moving[w] \in ownDone ELSE ctxDone
  /\ Finish(w, "cancelled")
  /\ UNCHANGED <<managerVars, panicked, pending, jobs, ownDone, callerVars, pastVars>>

(* Mutant of completeTransfer: a failed transfer stays in the map.         *)
CompleteSuccess(w) ==
  /\ at[w] = "removing"
  /\ pending' = IF outcome[moving[w]] = "error" THEN pending ELSE pending \ {moving[w]}
  /\ Goto(w, "calling", moving[w])
  /\ UNCHANGED <<managerVars, panicked, jobs, objectVars, ownDone, callerVars, pastVars>>

completeTransfer(w) ==
  /\ at[w] = "removing"
  /\ pending' = pending \ {moving[w]}
  /\ Goto(w, "calling", moving[w])
  /\ UNCHANGED <<managerVars, panicked, jobs, objectVars, ownDone, callerVars, pastVars>>

(* Mutant of Callback: the worker keeps the transfer for another try.      *)
CallbackAgain(w) ==
  /\ at[w] = "calling"
  /\ calls' = [calls EXCEPT ![moving[w]] = @ + 1]
  /\ IF outcome[moving[w]] = "error" /\ calls[moving[w]] = 0
       THEN Goto(w, "starting", moving[w])
       ELSE Goto(w, "receiving", NoTransfer)
  /\ UNCHANGED <<managerVars, panicked, pending, jobs, objectVars, ownDone, callerVars, offered, accepted>>

Callback(w) ==
  /\ at[w] = "calling"
  /\ calls' = [calls EXCEPT ![moving[w]] = @ + 1]
  /\ Goto(w, "receiving", NoTransfer)
  /\ UNCHANGED <<managerVars, panicked, pending, jobs, objectVars, ownDone, callerVars, offered, accepted>>

-----------------------------------------------------------------------------
AppStep == StopRunning \/ StopClose

SubmitStep(c) == SubmitRegister(c) \/ SubmitSend(c) \/ SubmitCancelled(c) \/ SubmitPanics(c)
CancelStep(c) == CancelMark(c) \/ CancelWrite(c)

WorkerStep(w) ==
  \/ Receive(w) \/ WorkerEnds(w) \/ Execute(w) \/ HalCancelled(w)
  \/ completeTransfer(w) \/ Callback(w)

Running ==
  \/ Start \/ StopCancel \/ AppStep
  \/ \E c \in Callers : SubmitStep(c) \/ CancelStep(c)
  \/ \E c \in Callers, t \in Transfers : SubmitCheck(c, t) \/ Cancel(c, t)
  \/ \E t \in Transfers : EndContext(t)
  \/ \E w \in Workers : WorkerStep(w) \/ HalReturns(w)

(* A panic ends the program.                                               *)
Next == ~panicked /\ Running

Spec == Init /\ [][Next]_vars

(* Goroutines run, and a HAL call returns once its context is done, as     *)
(* hal.go would have it (a FIFO write to a full pipe does not); that a     *)
(* device answers is not assumed, so HalReturns has no fairness.           *)
FairSpec ==
  /\ Spec
  /\ WF_vars(~panicked /\ AppStep)
  /\ \A c \in Callers : WF_vars(~panicked /\ SubmitStep(c))
  /\ \A c \in Callers : WF_vars(~panicked /\ CancelStep(c))
  /\ \A w \in Workers : WF_vars(~panicked /\ WorkerStep(w))
-----------------------------------------------------------------------------
Queued(t)   == \E i \in 1..Len(jobs) : jobs[i] = t
Executed(t) == \E w \in Workers : moving[w] = t

(* An accepted transfer calls back exactly once, after it has left the     *)
(* queue and its worker, also when it was cancelled in the meantime.       *)
OneCallback ==
  \A t \in Transfers : calls[t] = (IF t \in accepted /\ ~Queued(t) /\ ~Executed(t) THEN 1 ELSE 0)

(* A transfer that has called back is not pending any more, and never will *)
(* be: Submit registers it before it hands it to the workers.              *)
CalledIsNotPending == \A t \in Transfers : calls[t] > 0 => t \notin pending

(* Stop lets every accepted transfer come to its callback: the workers     *)
(* drain the closed channel.  A transfer with a context of its own may     *)
(* keep a worker as long as it likes, so one worker has to be left.        *)
StopDrains ==
  \A t \in Transfers :
    (closed /\ t \in accepted \ OwnContext) ~> (calls[t] = 1 \/ panicked)
=============================================================================
