---------------------------- MODULE FaultManager ----------------------------
(***************************************************************************)
(* The per-market fault state machine of internal/fault/manager.go         *)
(* together with its copy in Redis.  The manager keeps one Snapshot per    *)
(* market key and the keys never interact, so this module follows one key. *)
(* The engine calls Failure, Healthy and Reset for one market from one     *)
(* goroutine at a time, so each call is one step; what it can meet between *)
(* two calls is a new Manager over the same store (a crash, a restart or a *)
(* configuration hot swap), and inside a call a store operation that fails.*)
(*                                                                         *)
(* Timestamps, the error text and the stage are left out: no decision      *)
(* reads them.  OrdersRetained is only displayed and is left out too.      *)
(***************************************************************************)
EXTENDS Integers

CONSTANTS
  FailureThreshold,   \* consecutive failures that force a cancellation
  RecoveryThreshold,  \* consecutive healthy cycles before quoting again
  MaxFailures         \* bound: the failure count stops here

\* NewWithStateStore replaces a threshold below 1 by 3.
ASSUME ThresholdAssumption ==
  /\ FailureThreshold \in Nat \ {0}
  /\ RecoveryThreshold \in Nat \ {0}
  /\ MaxFailures \in Nat
  /\ MaxFailures >= FailureThreshold

Normal     == "normal"
Degraded   == "degraded"
Canceling  == "canceling"
Paused     == "paused"
Recovering == "recovering"

Statuses == {Normal, Degraded, Canceling, Paused, Recovering}

Snapshot == [status : Statuses, failures : Nat, successes : Nat]

\* Altered form for mutation: the zero value of the Go struct.
FreshZeroValue == [status |-> "", failures |-> 0, successes |-> 0]

\* What Manager.state returns for a key it has no entry for.
Fresh == [status |-> Normal, failures |-> 0, successes |-> 0]

\* No payload under the key in Redis.
NoState == [status |-> "absent", failures |-> 0, successes |-> 0]

(* The outcome of one Redis write: done, failed, or done although the      *)
(* caller was told that it failed (its context ended first).               *)
Outcomes == {"ok", "lost", "late"}

VARIABLES
  mem,        \* Manager.states[key]; Fresh when there is no entry
  loaded,     \* Manager.loaded[key]
  persisted,  \* Manager.persisted[key]
  disk,       \* the payload stored in Redis, or NoState
  decision,   \* what the last call returned
  owed,       \* history: what an acknowledged failure still demands
  streak,     \* history: healthy calls counted towards settling "recover"
  sinceFail,  \* history: healthy calls of this process since its last failure
  ackFails    \* history: acknowledged failures since the last healthy call

manager == <<mem, loaded, persisted, disk>>
history == <<owed, streak, sinceFail, ackFails>>
vars == <<mem, loaded, persisted, disk, decision, owed, streak, sinceFail, ackFails>>

Decision == [op : {"none", "failure", "healthy", "reset"},
             allow : BOOLEAN, cancel : BOOLEAN, err : BOOLEAN]

NoDecision == [op |-> "none", allow |-> FALSE, cancel |-> FALSE, err |-> FALSE]

(* The history counters stop at the threshold they are compared with, and *)
(* the failure count, which is only compared with its threshold, at its    *)
(* bound.                                                                  *)
CountTo(n, bound) == IF n < bound THEN n + 1 ELSE bound

-----------------------------------------------------------------------------
(* ensureLoaded: the first call for a key reads Redis; when that read      *)
(* fails, the call returns an empty decision and an error, and the next    *)
(* call reads again.                                                       *)

ViewState == IF loaded THEN mem ELSE IF disk = NoState THEN Fresh ELSE disk
ViewPersisted == IF loaded THEN persisted ELSE disk # NoState

LoadFails(op) ==
  /\ ~loaded
  /\ decision' = [NoDecision EXCEPT !.op = op, !.err = TRUE]
  /\ UNCHANGED <<manager, history>>

(* persist: a clean Normal state is deleted from Redis, and only when the  *)
(* manager believes that something is stored; any other state is saved.    *)
(* The in-memory state is already replaced when the write happens.         *)

Clean(s) == s.status = Normal /\ s.failures = 0 /\ s.successes = 0

PersistFails(s, w) == w # "ok" /\ (Clean(s) => ViewPersisted)

\* Altered form for mutation: a state already stored is not written again.
PersistOnce(s, w) ==
  /\ mem' = s
  /\ loaded' = TRUE
  /\ IF Clean(s)
       THEN /\ disk' = IF ViewPersisted /\ w # "lost" THEN NoState ELSE disk
            /\ persisted' = (ViewPersisted /\ w # "ok")
       ELSE /\ disk' = IF ViewPersisted \/ w = "lost" THEN disk ELSE s
            /\ persisted' = (ViewPersisted \/ w = "ok")

Persist(s, w) ==
  /\ mem' = s
  /\ loaded' = TRUE
  /\ IF Clean(s)
       THEN /\ disk' = IF ViewPersisted /\ w # "lost" THEN NoState ELSE disk
            /\ persisted' = (ViewPersisted /\ w # "ok")
       ELSE /\ disk' = IF w # "lost" THEN s ELSE disk
            /\ persisted' = (ViewPersisted \/ w = "ok")

-----------------------------------------------------------------------------
(* FailureWithContext                                                      *)

\* Altered form for mutation: the threshold test is off by one.
AfterFailureLate(s, force) ==
  [status    |-> IF force \/ s.failures >= FailureThreshold \/ s.status = Canceling
                   THEN Canceling ELSE Degraded,
   failures  |-> CountTo(s.failures, MaxFailures),
   successes |-> 0]

\* Altered form for mutation: a market that is canceling may fall back to degraded.
AfterFailureForgets(s, force) ==
  [status    |-> IF force \/ s.failures + 1 >= FailureThreshold
                   THEN Canceling ELSE Degraded,
   failures  |-> CountTo(s.failures, MaxFailures),
   successes |-> 0]

AfterFailure(s, force) ==
  [status    |-> IF force \/ s.failures + 1 >= FailureThreshold
                          \/ s.status = Canceling
                   THEN Canceling
                   ELSE Degraded,
   failures  |-> CountTo(s.failures, MaxFailures),
   successes |-> 0]

Failure(force, w) ==
  LET s   == AfterFailure(ViewState, force)
      err == PersistFails(s, w)
  IN  /\ Persist(s, w)
      /\ decision' = [op |-> "failure", allow |-> FALSE,
                      cancel |-> s.status = Canceling, err |-> err]
      /\ sinceFail' = 0
      /\ IF err
           THEN UNCHANGED <<owed, streak, ackFails>>
           ELSE /\ owed' = IF s.status = Canceling \/ owed = "cancel"
                             THEN "cancel" ELSE "recover"
                /\ streak' = 0
                /\ ackFails' = CountTo(ackFails, FailureThreshold)

-----------------------------------------------------------------------------
(* HealthyWithContext: the switch on the status, then the promotion of a   *)
(* market that has recovered for long enough.                              *)

Observe(s, openOrders) ==
  [status    |-> CASE s.status = Normal -> Normal
                   [] s.status = Canceling ->
                        IF openOrders > 0 THEN Canceling ELSE Paused
                   [] s.status \in {Paused, Degraded, Recovering} -> Recovering,
   failures  |-> 0,
   successes |-> IF s.status \in {Paused, Degraded} THEN 1
                 ELSE IF s.status = Recovering THEN s.successes + 1
                 ELSE s.successes]

\* Altered form for mutation: one healthy cycle too few.
PromotedEarly(s) == s.status = Recovering /\ s.successes + 1 >= RecoveryThreshold

Promoted(s) == s.status = Recovering /\ s.successes >= RecoveryThreshold

AfterHealthy(s, openOrders) ==
  LET o == Observe(s, openOrders) IN IF Promoted(o) THEN Fresh ELSE o

Healthy(openOrders, w) ==
  LET s == AfterHealthy(ViewState, openOrders)
  IN  /\ Persist(s, w)
      /\ decision' = [op |-> "healthy", allow |-> s.status = Normal,
                      cancel |-> s.status = Canceling,
                      err |-> PersistFails(s, w)]
      /\ sinceFail' = CountTo(sinceFail, RecoveryThreshold)
      /\ ackFails' = 0
      /\ CASE owed = "none"    -> UNCHANGED <<owed, streak>>
           [] owed = "cancel"  -> /\ owed' = IF openOrders > 0 THEN "cancel" ELSE "recover"
                                  /\ streak' = 0
           [] owed = "recover" -> /\ streak' = CountTo(streak, RecoveryThreshold)
                                  /\ owed' = IF streak + 1 >= RecoveryThreshold
                                               THEN "none" ELSE "recover"

-----------------------------------------------------------------------------
(* ResetWithContext: an operator's reset or a completed market cleanup.    *)
(* The entry and the persisted flag go before Redis is told, and they stay *)
(* gone when the deletion fails.                                           *)

Reset(w) ==
  /\ mem' = Fresh
  /\ loaded' = TRUE
  /\ persisted' = FALSE
  /\ disk' = IF w = "lost" THEN disk ELSE NoState
  /\ decision' = [NoDecision EXCEPT !.op = "reset", !.err = w # "ok"]
  /\ owed' = "none"
  /\ streak' = 0
  /\ sinceFail' = RecoveryThreshold
  /\ ackFails' = 0

(* NewWithStateStore over the same Redis: a crash and restart, or the      *)
(* runtime of a newly published configuration.                             *)

Restart ==
  /\ mem' = Fresh
  /\ loaded' = FALSE
  /\ persisted' = FALSE
  /\ decision' = NoDecision
  /\ sinceFail' = RecoveryThreshold
  /\ UNCHANGED <<disk, owed, streak, ackFails>>

Init ==
  /\ mem = Fresh
  /\ loaded = FALSE
  /\ persisted = FALSE
  /\ disk = NoState
  /\ decision = NoDecision
  /\ owed = "none"
  /\ streak = 0
  /\ sinceFail = RecoveryThreshold
  /\ ackFails = 0

Next ==
  \/ \E force \in BOOLEAN, w \in Outcomes : Failure(force, w)
  \/ \E openOrders \in 0..1, w \in Outcomes : Healthy(openOrders, w)
  \/ \E op \in {"failure", "healthy"} : LoadFails(op)
  \/ \E w \in Outcomes : Reset(w)
  \/ Restart

Spec == Init /\ [][Next]_vars

-----------------------------------------------------------------------------
(* Every variable keeps its type: the manager's Snapshot and its copy in   *)
(* Redis, the flags, the returned decision and the history counters.       *)
TypeOK ==
  /\ mem \in Snapshot
  /\ loaded \in BOOLEAN
  /\ persisted \in BOOLEAN
  /\ disk \in Snapshot \cup {NoState}
  /\ decision \in Decision
  /\ owed \in {"none", "cancel", "recover"}
  /\ streak \in 0..RecoveryThreshold
  /\ sinceFail \in 0..RecoveryThreshold
  /\ ackFails \in 0..FailureThreshold

(* Once Failure has returned without an error, no call grants AllowQuotes, *)
(* whatever restarts and lost writes happen in between, before the market  *)
(* was seen without managed orders (when the failure demanded a            *)
(* cancellation) and RecoveryThreshold healthy cycles followed.            *)
NoQuoteWhileOwed == decision.allow => owed = "none"

(* Within one process even a failure that could not be saved keeps the     *)
(* market from quoting until RecoveryThreshold healthy cycles have passed. *)
RecoveryObserved == decision.allow => sinceFail = RecoveryThreshold

(* An acknowledged cancellation is demanded again by every later call that *)
(* could read its state, in this process or a restarted one, until a       *)
(* healthy cycle sees no managed order.                                    *)
CancelDemanded ==
  loaded /\ decision.op \in {"failure", "healthy"} /\ owed = "cancel"
    => decision.cancel

(* FailureThreshold acknowledged failures with no healthy cycle between    *)
(* them end in a cancellation even when the process restarts between the   *)
(* failures: the failure count survives in Redis.                          *)
ThresholdAcrossRestarts == ackFails = FailureThreshold => owed = "cancel"

-----------------------------------------------------------------------------
(* The inductive invariant behind the four safety properties, in parts:    *)
(* what the stored state says about an obligation is at least as strict as *)
(* the obligation, and so is the state in memory once it is loaded.        *)

\* Only an unfinished recovery has successes, and never enough of them.
SuccessesBounded ==
  /\ mem.successes < RecoveryThreshold /\ disk.successes < RecoveryThreshold
  /\ disk.status # Normal
  /\ \A s \in {mem, disk} : s.status # Recovering => s.successes = 0

\* An owed cancellation is recorded in Redis and in what the next call sees.
OwedCancelRecorded ==
  owed = "cancel" => disk.status = Canceling /\ ViewState.status = Canceling

\* An owed recovery is recorded, and no record is ahead of the observed streak.
OwedRecoveryRecorded ==
  owed = "recover" =>
    /\ disk # NoState
    /\ ViewState.status # Normal
    /\ streak < RecoveryThreshold
    /\ disk.successes <= streak
    /\ loaded => mem.successes <= streak

\* The process's own failures hold back its state in the same way.
ProcessRecoveryCounted ==
  /\ ~loaded => sinceFail = RecoveryThreshold
  /\ loaded /\ mem.status = Normal => sinceFail = RecoveryThreshold
  /\ loaded => mem.successes <= sinceFail

\* Acknowledged failures are counted in memory and in Redis.
FailuresCounted ==
  /\ disk.failures >= ackFails
  /\ loaded => mem.failures >= ackFails

IInv ==
  /\ TypeOK
  /\ SuccessesBounded
  /\ OwedCancelRecorded
  /\ OwedRecoveryRecorded
  /\ ProcessRecoveryCounted
  /\ FailuresCounted
  /\ NoQuoteWhileOwed
  /\ RecoveryObserved
  /\ CancelDemanded
  /\ ThresholdAcrossRestarts
=============================================================================
