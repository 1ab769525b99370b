--------------------------- MODULE InstrumentCycle ---------------------------
(***************************************************************************)
(* One market of one instrument as the engine runs it: the operator's      *)
(* controls in Redis, the engine's poll of them (ApplyControls), the       *)
(* trading cycle (runInstrument) and the hot swap of the main loop, over   *)
(* the fault state machine (FaultManager) and the order management with    *)
(* its exchange (Reconciler).                                              *)
(*                                                                         *)
(* The main loop is one goroutine: controls and cycles follow each other,  *)
(* and pc is the next call of the one in progress.  Operators and the      *)
(* exchange act between any two calls.  The market trades live and has     *)
(* passed its preflight.  The snapshots it publishes are left out: nothing *)
(* of the engine reads them.  Of the lease only its refusal is kept: it    *)
(* leaves the market untouched.                                            *)
(***************************************************************************)
EXTENDS Integers, FiniteSets

CONSTANTS
  FailureThreshold, RecoveryThreshold, MaxFailures,
  Ids, Quotes, Targets, Levels, RepriceBPS, Batch, MaxRefreshes, MaxCancelAttempts,
  Faults,
  Reasons   \* the reasons of a pause that operators give

ASSUME ReasonsAssumption == Reasons \subseteq {"manual_pause", "emergency_cancel"}

VARIABLES
  \* FaultManager
  fmem, floaded, fpersisted, fdisk, decision, owed, streak, sinceFail, ackFails,
  \* Reconciler
  ord, omem, oloaded, odisk, cycle, snap, alarm, orphans, doomed,
  \* the engine
  pc,       \* the call to come
  paused,   \* Engine.paused: the reason of the pause it knows of, or "none"
  applied,  \* Engine.pauseApplied
  \* Redis
  want,     \* the pause control: its reason, or "none"
  request   \* a reconcile request is stored

F == INSTANCE FaultManager
       WITH mem <- fmem, loaded <- floaded, persisted <- fpersisted, disk <- fdisk
R == INSTANCE Reconciler
       WITH mem <- omem, loaded <- oloaded, disk <- odisk

faults   == <<fmem, floaded, fpersisted, fdisk, decision, owed, streak, sinceFail, ackFails>>
orders   == <<ord, omem, oloaded, odisk, cycle, snap, alarm, orphans, doomed>>
controls == <<want, request>>
engine   == <<pc, paused, applied>>
vars == <<faults, orders, engine, controls>>

\* A call of the order management that never reached it, or that it abandoned.
NoOrderCall ==
  /\ R!EndCycle
  /\ UNCHANGED <<ord, omem, oloaded, odisk, alarm, orphans, doomed>>

\* The lease is not granted, or the exchange or Redis cannot be read.
Unreadable == Faults \cap {"redis", "cancel"} # {}
Unreached == Unreadable /\ NoOrderCall

-----------------------------------------------------------------------------
(* The operator: controlPause, resumeInstrument and reconcileInstrument.   *)

SetPaused(reason) == want' = reason /\ UNCHANGED <<faults, orders, engine, request>>

Resume == want' = "none" /\ UNCHANGED <<faults, orders, engine, request>>

RequestReconcile == request' = TRUE /\ UNCHANGED <<faults, orders, engine, want>>

-----------------------------------------------------------------------------
(* ApplyControls.  A poll that cannot read the controls changes nothing.   *)

AtPoll == pc \in {"boot", "idle"}

PollFails ==
  /\ pc = "boot"
  /\ "redis" \in Faults
  /\ pc' = "idle"
  /\ UNCHANGED <<faults, orders, paused, applied, controls>>

\* A resumed market is unblocked; its pause is forgotten first.
PollRunning ==
  /\ AtPoll
  /\ want = "none"
  /\ paused' = "none"
  /\ applied' = FALSE
  /\ pc' = IF paused # "none" THEN "unblock" ELSE "requests"
  /\ UNCHANGED <<faults, orders, controls>>

\* Altered form for mutation: an emergency seen before is not canceled again.
MustCancelOnce == want = "emergency_cancel" /\ ~applied /\ paused # want

\* An emergency pause that is not confirmed yet cancels, at every poll.
MustCancel == want = "emergency_cancel" /\ ~applied

(* A pause without cancellation is applied at once; one already applied is *)
(* skipped, whatever its reason has become.                                *)
PollPaused ==
  /\ AtPoll
  /\ want # "none"
  /\ paused' = want
  /\ applied' = (applied \/ want # "emergency_cancel")
  /\ pc' = IF MustCancel THEN "stop" ELSE "requests"
  /\ UNCHANGED <<faults, orders, controls>>

\* cancelInstrument of an emergency pause.
StopCancel ==
  /\ pc = "stop"
  /\ \/ R!CancelSucceeds /\ pc' = "confirm"
     \/ (R!CancelFails \/ Unreached) /\ pc' = "requests"
  /\ UNCHANGED <<faults, paused, applied, controls>>

\* instrumentCancellationConfirmed.
Confirm ==
  /\ pc = "confirm"
  /\ \/ applied' = (R!Open = {})
     \/ Unreadable /\ UNCHANGED applied
  /\ pc' = "requests"
  /\ UNCHANGED <<faults, orders, paused, controls>>

(* clearInstrumentBlocks, after a resume or for a reconcile request: the   *)
(* fault state is reset even when the block cannot be cleared.             *)
ClearInstrumentBlocks ==
  \E w, wReset \in R!Outcomes, unread \in BOOLEAN :
    /\ pc \in {"unblock", "reconciled"}
    /\ IF unread
         THEN "redis" \in Faults /\ ~oloaded /\ UNCHANGED orders
         ELSE R!ClearBlocked(w)
    /\ F!Reset(wReset)
    /\ pc' = CASE pc = "unblock" -> "requests"
               [] pc = "reconciled" ->
                    IF unread \/ w # "ok" \/ wReset # "ok" THEN "idle" ELSE "clear"
    /\ UNCHANGED <<paused, applied, controls>>

\* Altered form for mutation: requests for paused instruments are passed over.
RequestedUnpaused == request /\ paused = "none"

Requested == request

\* No request is stored, or the requests cannot be read.
NoRequest ==
  /\ pc = "requests"
  /\ ~Requested \/ "redis" \in Faults
  /\ pc' = "idle"
  /\ UNCHANGED <<faults, orders, paused, applied, controls>>

\* cancelInstrument of a reconcile request.
ReconcileCancel ==
  /\ pc = "requests"
  /\ Requested
  /\ \/ R!CancelSucceeds /\ pc' = "reconciled"
     \/ (R!CancelFails \/ Unreached) /\ pc' = "idle"
  /\ UNCHANGED <<faults, paused, applied, controls>>

ClearReconcile ==
  /\ pc = "clear"
  /\ \/ request' = FALSE
     \/ "redis" \in Faults /\ UNCHANGED request
  /\ pc' = "idle"
  /\ UNCHANGED <<faults, orders, paused, applied, want>>

-----------------------------------------------------------------------------
(* The cycle: runPausedInstrument, which only publishes, or runInstrument. *)

PausedCycle ==
  /\ pc = "idle"
  /\ paused # "none"
  /\ UNCHANGED vars

Go(next) == pc' = next

InCycleAt(stage) == pc = stage /\ paused = "none" /\ UNCHANGED <<paused, applied, controls>>

ReadOrders ==
  /\ InCycleAt("idle")
  /\ R!ReadOrders
  /\ Go("plan")
  /\ UNCHANGED faults

\* Altered form for mutation: a market is canceled when it starts to fail only.
MustCancelFaultOnce == decision'.err \/ (decision'.cancel /\ F!ViewState.status # F!Canceling)

\* shouldCancel of markVenueFailure.
MustCancelFault == decision'.cancel \/ decision'.err

(* markVenueFailure before an order was touched: the reference price, the  *)
(* balances, the price protection and the open orders at the start, the    *)
(* strategy, the risk filter and the budget after the orders were read.    *)
VenueFails(stage) ==
  /\ InCycleAt(stage)
  /\ \/ \E force \in BOOLEAN, w \in R!Outcomes : F!Failure(force, w)
     \/ "redis" \in Faults /\ F!LoadFails("failure")
  /\ Go(IF MustCancelFault THEN "failCancel" ELSE "idle")
  /\ NoOrderCall

LeaseRefused ==
  /\ InCycleAt("plan")
  /\ Unreached
  /\ Go("idle")
  /\ UNCHANGED faults

\* Altered form for mutation: whatever does not demand a cancellation quotes.
DecidedLoosely ==
  CASE decision'.err -> "idle" [] ~decision'.err /\ decision'.cancel -> "failCancel"
    [] OTHER -> "quote"

Decided ==
  CASE decision'.err -> "idle"
    [] ~decision'.err /\ decision'.cancel -> "failCancel"
    [] ~decision'.err /\ ~decision'.cancel -> IF decision'.allow THEN "quote" ELSE "idle"

\* HealthyWithContext with the number of managed orders that were read.
Decide ==
  /\ InCycleAt("plan")
  /\ \/ \E w \in R!Outcomes : F!Healthy(IF DOMAIN snap = {} THEN 0 ELSE 1, w)
     \/ "redis" \in Faults /\ F!LoadFails("healthy")
  /\ Go(Decided)
  /\ IF Decided = "quote" THEN UNCHANGED orders ELSE NoOrderCall

Quote ==
  /\ InCycleAt("quote")
  /\ \/ R!ReconcileSucceeds /\ Go("idle")
     \/ R!ReconcileFails /\ Go("omsCancel")
  /\ UNCHANGED faults

\* The order management failed: cancel, report the failure, cancel again.
OMSCancel ==
  /\ InCycleAt("omsCancel")
  /\ R!CancelAll \/ Unreached
  /\ Go("omsFail")
  /\ UNCHANGED faults

OMSFail ==
  /\ InCycleAt("omsFail")
  /\ \/ \E w \in R!Outcomes : F!Failure(TRUE, w)
     \/ "redis" \in Faults /\ F!LoadFails("failure")
  /\ Go(IF MustCancelFault THEN "failCancel" ELSE "idle")
  /\ NoOrderCall

\* The cancellation that a failure or the fault state demands.
FailCancel ==
  /\ InCycleAt("failCancel")
  /\ R!CancelAll \/ Unreached
  /\ Go("idle")
  /\ UNCHANGED faults

-----------------------------------------------------------------------------
(* The main loop replaces the engine between two calls when a published    *)
(* configuration is ready: the new one starts without pauses, and a poll   *)
(* of the controls need not come before its first cycle.  After a crash    *)
(* the poll comes first.                                                   *)

NewEngine ==
  /\ F!Restart
  /\ R!Restart
  /\ paused' = "none"
  /\ applied' = FALSE
  /\ UNCHANGED controls

Swap  == pc = "idle" /\ pc' = "idle" /\ NewEngine
Crash == pc' = "boot" /\ NewEngine

-----------------------------------------------------------------------------
Init ==
  /\ F!Init
  /\ R!Init
  /\ pc = "boot"
  /\ paused = "none"
  /\ applied = FALSE
  /\ want = "none"
  /\ request = FALSE

Operator == (\E reason \in Reasons : SetPaused(reason)) \/ Resume \/ RequestReconcile

Exchange == R!ExchangeMoves /\ UNCHANGED <<faults, engine, controls>>

\* The saved state of the order management expires; no call lasts that long.
Expire == AtPoll /\ R!Expire /\ UNCHANGED <<faults, engine, controls>>

Poll == PollFails \/ PollRunning \/ PollPaused

StartCycle == ReadOrders \/ VenueFails("idle") \/ PausedCycle

Proceed ==
  \/ StopCancel \/ Confirm \/ ClearInstrumentBlocks
  \/ NoRequest \/ ReconcileCancel \/ ClearReconcile
  \/ VenueFails("plan") \/ LeaseRefused \/ Decide
  \/ Quote \/ OMSCancel \/ OMSFail \/ FailCancel

Next ==
  \/ Operator
  \/ Exchange
  \/ Poll
  \/ StartCycle
  \/ Proceed
  \/ Swap
  \/ Crash
  \/ Expire

Spec == Init /\ [][Next]_vars

(* A call ends, and the main loop polls the controls and runs a cycle      *)
(* again and again (its timers nextControl and nextRun).  The exchange     *)
(* lists accepted orders and completes acknowledged cancellations.         *)
FairSpec ==
  /\ Spec
  /\ SF_vars(Poll)
  /\ SF_vars(StartCycle)
  /\ WF_vars(Proceed)
  /\ \A i \in Ids :
       /\ WF_vars(R!Appear(i) /\ UNCHANGED <<faults, engine, controls>>)
       /\ WF_vars(R!CancelDone(i) /\ UNCHANGED <<faults, engine, controls>>)

-----------------------------------------------------------------------------
(* Every variable keeps its type; an engine that has applied a pause knows *)
(* of one, and the orders of a cycle are kept only while it needs them.    *)
TypeOK ==
  /\ F!TypeOK
  /\ R!TypeOK
  /\ pc \in {"boot", "idle", "stop", "confirm", "unblock", "requests", "reconciled", "clear",
             "plan", "quote", "omsCancel", "omsFail", "failCancel"}
  /\ paused \in Reasons \cup {"none"}
  /\ applied \in BOOLEAN
  /\ want \in Reasons \cup {"none"}
  /\ request \in BOOLEAN
  /\ applied => paused # "none"
  /\ cycle <=> pc \in {"plan", "quote"}

Submits == ~(R!Live' \subseteq R!Live)

(* An order is submitted only when no acknowledged failure still demands a *)
(* cancellation or a recovery, no uncertain result waits for an operator,  *)
(* and the engine knows of no pause: the three gates of a cycle hold       *)
(* together, across crashes, hot swaps, failing Redis calls and the expiry *)
(* of the saved order state, which takes its block with it when no process *)
(* has it in memory.                                                       *)
QuotesOnlyWhenClear ==
  [][Submits => owed = "none" /\ alarm = "off" /\ paused = "none"]_vars

Settles == <>[][~(Swap \/ Crash)]_vars

(* An emergency pause that stays requested is applied: its cancellation is *)
(* repeated until no order is listed, whatever the engine was doing.       *)
EmergencyApplied ==
  Settles => (want = "emergency_cancel" ~> applied \/ want # "emergency_cancel")

(* A reconcile request is worked off: it does not stay stored.             *)
RequestHonoured == Settles => (request ~> ~request)

(* A market whose failure demands a cancellation is emptied, whether the   *)
(* cycles that follow succeed or fail, unless an operator pauses it.       *)
FaultEmptiesBook ==
  Settles => (owed = "cancel" ~> R!Live = {} \/ owed # "cancel" \/ paused # "none")

=============================================================================
