---------------------------- MODULE StackLifecycle ----------------------------
(***************************************************************************)
(* Start, Stop and controlLoop of the device stack (device/stack.go) over  *)
(* Init, Start, Stop and ReadSetup of the FIFO HAL (device/hal/fifo).      *)
(*                                                                         *)
(* Start checks running and sets it at the end, with the lock released     *)
(* while the HAL comes up; Stop resets running first and takes the HAL     *)
(* down afterwards.  A Start that fails has replaced the field ctx all the *)
(* same, and a loop of an earlier start reads that field in every turn.    *)
(***************************************************************************)
EXTENDS Naturals, Sequences

CONSTANTS
  Starters,   (* goroutines that start and stop the stack                   *)
  MaxStarts,  (* bound on the calls of Start that pass the guard            *)
  MaxStops    (* bound on the calls of Stop that do                         *)

ASSUME LifecycleAssumption == {MaxStarts, MaxStops} \subseteq Nat

VARIABLES
  running,        (* Stack.running                                          *)
  ctx,            (* Stack.ctx: contexts are numbered as they are made      *)
  cancelledCtxs,  (* the contexts that are cancelled                        *)
  callAt,         (* where a caller is within Start or Stop                 *)
  loops,          (* the control loops so far, with their contexts          *)
  up,             (* HAL.initDone                                           *)
  closed,         (* HAL.closeCh is closed, for good                        *)
  stops           (* the calls of Stop so far                               *)

lifecycleVars == <<running, ctx, cancelledCtxs, callAt, loops, up, closed, stops>>

Loops == DOMAIN loops
LifecycleTypeOK ==
  /\ running \in BOOLEAN /\ up \in BOOLEAN /\ closed \in BOOLEAN
  /\ ctx \in 0 .. MaxStarts /\ cancelledCtxs \subseteq 1 .. ctx /\ stops \in 0 .. MaxStops
  /\ callAt \in [Starters -> {"idle", "initialising", "attaching", "started", "detaching", "cleaning"}]
  /\ loops \in Seq([at : {"looking", "calling", "reading", "handling", "checking", "ended"}, ctx : 0 .. MaxStarts])

LifecycleInit ==
  /\ running = FALSE
  /\ ctx = 0 /\ cancelledCtxs = {}
  /\ callAt = [c \in Starters |-> "idle"]
  /\ loops = <<>>
  /\ up = FALSE /\ closed = FALSE
  /\ stops = 0

-----------------------------------------------------------------------------
GoesOn(c, stage) == callAt' = [callAt EXCEPT ![c] = stage]

Start(c) ==
  /\ callAt[c] = "idle" /\ ~running /\ ctx < MaxStarts
  /\ ctx' = ctx + 1
  /\ GoesOn(c, "initialising")
  /\ UNCHANGED <<running, cancelledCtxs, loops, up, closed, stops>>

(* Mutant of HalInit: a HAL that is up is set up again.                    *)
HalInitAnyway(c) ==
  /\ callAt[c] = "initialising"
  /\ \/ up' = TRUE /\ GoesOn(c, "attaching")
     \/ GoesOn(c, "idle") /\ UNCHANGED up
  /\ UNCHANGED <<running, ctx, cancelledCtxs, loops, closed, stops>>

(* hal.Init refuses a HAL that is up; making its pipes may fail.           *)
HalInit(c) ==
  /\ callAt[c] = "initialising"
  /\ \/ ~up /\ up' = TRUE /\ GoesOn(c, "attaching")
     \/ GoesOn(c, "idle") /\ UNCHANGED up
  /\ UNCHANGED <<running, ctx, cancelledCtxs, loops, closed, stops>>

HalStart(c) ==
  /\ callAt[c] = "attaching"
  /\ GoesOn(c, IF up THEN "started" ELSE "idle")
  /\ UNCHANGED <<running, ctx, cancelledCtxs, loops, up, closed, stops>>

StartDone(c) ==
  /\ callAt[c] = "started"
  /\ running' = TRUE
  /\ loops' = Append(loops, [at |-> "looking", ctx |-> 0])
  /\ GoesOn(c, "idle")
  /\ UNCHANGED <<ctx, cancelledCtxs, up, closed, stops>>

Stop(c) ==
  /\ callAt[c] = "idle" /\ running /\ stops < MaxStops
  /\ stops' = stops + 1
  /\ running' = FALSE
  /\ cancelledCtxs' = cancelledCtxs \union {ctx}
  /\ GoesOn(c, "detaching")
  /\ UNCHANGED <<ctx, loops, up, closed>>

HalClose(c) ==
  /\ callAt[c] = "detaching"
  /\ closed' = TRUE
  /\ GoesOn(c, "cleaning")
  /\ UNCHANGED <<running, ctx, cancelledCtxs, loops, up, stops>>

HalStop(c) ==
  /\ callAt[c] = "cleaning"
  /\ up' = FALSE
  /\ GoesOn(c, "idle")
  /\ UNCHANGED <<running, ctx, cancelledCtxs, loops, closed, stops>>

-----------------------------------------------------------------------------
(* The control loop reads the field ctx to look at it, once more for       *)
(* ReadSetup, and a third time when that fails.                            *)
LoopAt(l, stage) == loops' = [loops EXCEPT ![l].at = stage]
LoopVars == <<running, ctx, cancelledCtxs, callAt, up, closed, stops>>

Look(l) ==
  /\ loops[l].at = "looking"
  /\ LoopAt(l, IF ctx \in cancelledCtxs THEN "ended" ELSE "calling")
  /\ UNCHANGED LoopVars

ReadSetup(l) ==
  /\ loops[l].at = "calling"
  /\ loops' = [loops EXCEPT ![l] =
       [at |-> IF up /\ ~closed /\ ctx \notin cancelledCtxs THEN "reading" ELSE "checking", ctx |-> ctx]]
  /\ UNCHANGED LoopVars

(* A SETUP packet or a bus reset; the read that has it may return late.    *)
SetupComes(l) ==
  /\ loops[l].at = "reading"
  /\ LoopAt(l, "handling")
  /\ UNCHANGED LoopVars

(* Mutant of ReadFails: only the context ends the read.                    *)
ReadWaits(l) ==
  /\ loops[l].at = "reading"
  /\ loops[l].ctx \in cancelledCtxs
  /\ LoopAt(l, "checking")
  /\ UNCHANGED LoopVars

(* readWithContext looks at the context and at closeCh; without its pipe   *)
(* ReadSetup fails at once.                                                *)
ReadFails(l) ==
  /\ loops[l].at = "reading"
  /\ loops[l].ctx \in cancelledCtxs \/ closed \/ ~up
  /\ LoopAt(l, "checking")
  /\ UNCHANGED LoopVars

Check(l) ==
  /\ loops[l].at = "checking"
  /\ LoopAt(l, IF ctx \in cancelledCtxs THEN "ended" ELSE "looking")
  /\ UNCHANGED LoopVars

Handle(l) ==
  /\ loops[l].at = "handling"
  /\ LoopAt(l, "looking")
  /\ UNCHANGED LoopVars

-----------------------------------------------------------------------------
CallGoesOn(c) == HalInit(c) \/ HalStart(c) \/ StartDone(c) \/ HalClose(c) \/ HalStop(c)
LoopStep(l)   == Look(l) \/ ReadSetup(l) \/ ReadFails(l) \/ Check(l) \/ Handle(l)
LifecycleNext ==
  \/ \E c \in Starters : Start(c) \/ Stop(c) \/ CallGoesOn(c)
  \/ \E l \in Loops : LoopStep(l) \/ SetupComes(l)

LifecycleSpec == LifecycleInit /\ [][LifecycleNext]_lifecycleVars

(* Goroutines run; nobody need start or stop the stack, and the host need  *)
(* not send anything.                                                      *)
FairLifecycle ==
  /\ LifecycleSpec
  /\ \A c \in Starters : WF_lifecycleVars(CallGoesOn(c))
  /\ \A l \in 1 .. MaxStarts : WF_lifecycleVars(l \in Loops /\ LoopStep(l))

-----------------------------------------------------------------------------
(* The HAL belongs to one at a time: the Start that has brought it up, the *)
(* running stack, or the Stop that takes it down, although all of them let *)
(* go of the lock in between.  So a stack that runs has its HAL.           *)
Holding == {"attaching", "started", "detaching", "cleaning"}
RunningIsUp ==
  /\ running => up /\ \A c \in Starters : callAt[c] \notin Holding
  /\ \A c, d \in Starters : {callAt[c], callAt[d]} \subseteq Holding => c = d

(* Every control loop ends once the context the field holds is cancelled,  *)
(* whatever contexts it has seen before.                                   *)
LoopsEnd ==
  ctx \in cancelledCtxs ~> (ctx \notin cancelledCtxs \/ \A l \in Loops : loops[l].at = "ended")
=============================================================================
