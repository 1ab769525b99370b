-------------------------- MODULE FaultManagerProofs --------------------------
(***************************************************************************)
(* Proofs about FaultManager, for every value of the two thresholds and of *)
(* the bound on the number of failures.                                    *)
(***************************************************************************)
EXTENDS FaultManager, TLAPS

(* What a call sees after ensureLoaded is a well-formed snapshot whose     *)
(* success count respects the bounds of the stored copies.                 *)
LEMMA ViewFacts ==
  ASSUME TypeOK, SuccessesBounded
  PROVE  /\ ViewState \in Snapshot
         /\ ViewPersisted \in BOOLEAN
         /\ ViewState.successes < RecoveryThreshold
         /\ ViewState.status # Recovering => ViewState.successes = 0
<1>1. ViewPersisted \in BOOLEAN
  BY DEF TypeOK, ViewPersisted
<1>2. CASE loaded
  BY <1>1, <1>2 DEF TypeOK, SuccessesBounded, ViewState
<1>3. CASE ~loaded /\ disk = NoState
  BY <1>1, <1>3, ThresholdAssumption
  DEF ViewState, Snapshot, Fresh, Statuses, Normal, Recovering
<1>4. CASE ~loaded /\ disk # NoState
  BY <1>1, <1>4 DEF TypeOK, SuccessesBounded, ViewState
<1> QED BY <1>2, <1>3, <1>4

(* FailureWithContext never ends in a quoting state, resets the successes, *)
(* keeps a cancellation and starts one at the threshold.                   *)
LEMMA AfterFailureFacts ==
  ASSUME NEW s \in Snapshot, NEW force \in BOOLEAN
  PROVE  LET r == AfterFailure(s, force)
         IN  /\ r \in Snapshot
             /\ r.status \in {Canceling, Degraded}
             /\ r.failures = CountTo(s.failures, MaxFailures)
             /\ r.successes = 0
             /\ s.status = Canceling => r.status = Canceling
             /\ s.failures + 1 >= FailureThreshold => r.status = Canceling
             /\ ~Clean(r)
  BY ThresholdAssumption
  DEF AfterFailure, CountTo, Snapshot, Statuses, Clean, Normal, Degraded, Canceling, Paused, Recovering

(* HealthyWithContext grants Normal only to a market that was Normal or    *)
(* that completes its recovery, and leaves a cancellation only when no     *)
(* managed order was seen.                                                 *)
LEMMA AfterHealthyFacts ==
  ASSUME NEW s \in Snapshot, NEW openOrders \in 0..1,
         s.successes < RecoveryThreshold,
         s.status # Recovering => s.successes = 0
  PROVE  LET r == AfterHealthy(s, openOrders)
         IN  /\ r \in Snapshot
             /\ r.failures = 0
             /\ r.successes < RecoveryThreshold
             /\ r.successes <= s.successes + 1
             /\ r.status # Recovering => r.successes = 0
             /\ r.status = Normal <=> \/ s.status = Normal
                                      \/ /\ s.status \in {Paused, Degraded, Recovering}
                                         /\ s.successes + 1 >= RecoveryThreshold
             /\ r.status = Normal => Clean(r)
             /\ r.status = Canceling <=> s.status = Canceling /\ openOrders > 0
<1> USE ThresholdAssumption DEF Snapshot, Statuses, Normal, Degraded, Canceling, Paused, Recovering
<1>1. CASE s.status = Normal
  BY <1>1 DEF AfterHealthy, Observe, Promoted, Clean
<1>2. CASE s.status = Canceling
  BY <1>2 DEF AfterHealthy, Observe, Promoted
<1>3. CASE s.status \in {Paused, Degraded}
  BY <1>3 DEF AfterHealthy, Observe, Promoted, Fresh, Clean
<1>4. CASE s.status = Recovering
  BY <1>4 DEF AfterHealthy, Observe, Promoted, Fresh, Clean
<1> QED BY <1>1, <1>2, <1>3, <1>4

(* A new manager over an empty store satisfies the inductive invariant.    *)
LEMMA InitIInv == Init => IInv
<1> SUFFICES ASSUME Init PROVE IInv
  OBVIOUS
<1> USE ThresholdAssumption
    DEF Init, Snapshot, Fresh, NoState, NoDecision, Statuses,
        Normal, Degraded, Canceling, Paused, Recovering
<1>1. TypeOK
  <2>1. mem \in Snapshot /\ disk \in Snapshot \cup {NoState}
    OBVIOUS
  <2>2. decision \in Decision
    BY DEF Decision
  <2>3. streak \in 0..RecoveryThreshold /\ sinceFail \in 0..RecoveryThreshold
        /\ ackFails \in 0..FailureThreshold
    OBVIOUS
  <2>4. loaded \in BOOLEAN /\ persisted \in BOOLEAN /\ owed \in {"none", "cancel", "recover"}
    OBVIOUS
  <2> QED BY <2>1, <2>2, <2>3, <2>4 DEF TypeOK
<1>2. SuccessesBounded
  BY DEF SuccessesBounded
<1>3. OwedCancelRecorded /\ OwedRecoveryRecorded
  BY DEF OwedCancelRecorded, OwedRecoveryRecorded
<1>4. ProcessRecoveryCounted /\ FailuresCounted
  BY DEF ProcessRecoveryCounted, FailuresCounted
<1>5. NoQuoteWhileOwed /\ RecoveryObserved /\ CancelDemanded /\ ThresholdAcrossRestarts
  BY DEF NoQuoteWhileOwed, RecoveryObserved, CancelDemanded, ThresholdAcrossRestarts
<1> QED BY <1>1, <1>2, <1>3, <1>4, <1>5 DEF IInv

(* Saving a state that is not clean: Redis holds it or what it held        *)
(* before, and it holds it when no error is reported.                      *)
LEMMA SaveFacts ==
  ASSUME NEW s, NEW w \in Outcomes, Persist(s, w), ~Clean(s), ViewPersisted \in BOOLEAN
  PROVE  /\ mem' = s
         /\ loaded' = TRUE
         /\ persisted' \in BOOLEAN
         /\ disk' \in {s, disk}
         /\ PersistFails(s, w) \in BOOLEAN
         /\ ~PersistFails(s, w) => disk' = s
  BY DEF Persist, PersistFails, Outcomes

(* Persisting a clean state: Redis keeps what it held or holds nothing.    *)
LEMMA DeleteFacts ==
  ASSUME NEW s, NEW w \in Outcomes, Persist(s, w), Clean(s), ViewPersisted \in BOOLEAN
  PROVE  /\ mem' = s
         /\ loaded' = TRUE
         /\ persisted' \in BOOLEAN
         /\ disk' \in {NoState, disk}
         /\ PersistFails(s, w) \in BOOLEAN
  BY DEF Persist, PersistFails, Outcomes

(* A failure reported to the manager preserves the inductive invariant.    *)
LEMMA FailureIInv ==
  ASSUME IInv, NEW force \in BOOLEAN, NEW w \in Outcomes, Failure(force, w)
  PROVE  IInv'
<1> DEFINE s == AfterFailure(ViewState, force)
           err == PersistFails(s, w)
<1>1. /\ ViewState \in Snapshot
      /\ ViewPersisted \in BOOLEAN
  BY ViewFacts DEF IInv
<1>2. /\ s \in Snapshot
      /\ s.status \in {Canceling, Degraded}
      /\ s.failures = CountTo(ViewState.failures, MaxFailures)
      /\ s.successes = 0
      /\ ViewState.status = Canceling => s.status = Canceling
      /\ ViewState.failures + 1 >= FailureThreshold => s.status = Canceling
      /\ ~Clean(s)
  BY <1>1, AfterFailureFacts
<1>3. /\ mem' = s
      /\ loaded' = TRUE
      /\ persisted' \in BOOLEAN
      /\ disk' \in {s, disk}
      /\ err \in BOOLEAN
      /\ ~err => disk' = s
  BY <1>1, <1>2, SaveFacts DEF Failure
<1>4. /\ decision' = [op |-> "failure", allow |-> FALSE,
                      cancel |-> s.status = Canceling, err |-> err]
      /\ sinceFail' = 0
      /\ err => UNCHANGED <<owed, streak, ackFails>>
      /\ ~err => /\ owed' = IF s.status = Canceling \/ owed = "cancel"
                              THEN "cancel" ELSE "recover"
                 /\ streak' = 0
                 /\ ackFails' = CountTo(ackFails, FailureThreshold)
  BY DEF Failure
<1> HIDE DEF s, err
<1>5. ViewState' = s
  BY <1>3 DEF ViewState
<1>6. /\ disk \in Snapshot \cup {NoState}
      /\ owed \in {"none", "cancel", "recover"}
      /\ streak \in 0..RecoveryThreshold
      /\ ackFails \in 0..FailureThreshold
      /\ disk.successes < RecoveryThreshold
      /\ disk.status # Normal
      /\ disk.status # Recovering => disk.successes = 0
      /\ disk.failures >= ackFails
      /\ disk.failures \in Nat
      /\ mem.failures \in Nat
      /\ ViewState.failures \in Nat
      /\ ViewState.failures >= ackFails
  <2>1. disk.failures \in Nat
    BY DEF IInv, TypeOK, Snapshot, NoState
  <2>2. ViewState.failures >= ackFails
    BY <2>1 DEF IInv, TypeOK, FailuresCounted, ViewState, Fresh, NoState
  <2> QED BY <1>1, <2>1, <2>2 DEF IInv, TypeOK, SuccessesBounded, FailuresCounted, Snapshot
<1> USE ThresholdAssumption
<1>7. TypeOK'
  <2>1. mem' \in Snapshot /\ disk' \in Snapshot \cup {NoState}
    BY <1>2, <1>3, <1>6
  <2>2. decision' \in Decision
    BY <1>3, <1>4 DEF Decision
  <2>3. /\ streak' \in 0..RecoveryThreshold
        /\ sinceFail' \in 0..RecoveryThreshold
        /\ ackFails' \in 0..FailureThreshold
    BY <1>4, <1>6 DEF CountTo
  <2>4. loaded' \in BOOLEAN /\ persisted' \in BOOLEAN
    BY <1>3
  <2>5. owed' \in {"none", "cancel", "recover"}
    BY <1>4, <1>6
  <2> QED BY <2>1, <2>2, <2>3, <2>4, <2>5 DEF TypeOK
<1>8. SuccessesBounded'
  BY <1>2, <1>3, <1>6 DEF SuccessesBounded, Normal, Canceling, Degraded
<1>9. OwedCancelRecorded'
  BY <1>2, <1>3, <1>4, <1>5 DEF IInv, OwedCancelRecorded
<1>10. OwedRecoveryRecorded'
  <2>1. CASE err
    BY <1>2, <1>3, <1>4, <1>5, <1>6, <2>1
    DEF IInv, OwedRecoveryRecorded, Snapshot, Statuses, NoState,
        Normal, Canceling, Degraded, Paused, Recovering
  <2>2. CASE ~err
    BY <1>2, <1>3, <1>4, <1>5, <2>2
    DEF OwedRecoveryRecorded, NoState, Normal, Canceling, Degraded
  <2> QED BY <1>3, <2>1, <2>2
<1>11. ProcessRecoveryCounted'
  BY <1>2, <1>3, <1>4 DEF ProcessRecoveryCounted, Normal, Canceling, Degraded
<1>12. FailuresCounted'
  BY <1>2, <1>3, <1>4, <1>6 DEF FailuresCounted, CountTo
<1>13. NoQuoteWhileOwed' /\ RecoveryObserved'
  BY <1>4 DEF NoQuoteWhileOwed, RecoveryObserved
<1>14. CancelDemanded'
  <2>1. owed' = "cancel" => s.status = Canceling
    BY <1>2, <1>3, <1>4 DEF IInv, OwedCancelRecorded
  <2> QED BY <1>4, <2>1 DEF CancelDemanded
<1>15. ThresholdAcrossRestarts'
  <2>1. CASE err
    BY <1>4, <2>1 DEF IInv, ThresholdAcrossRestarts
  <2>2. CASE ~err
    BY <1>2, <1>4, <1>6, <2>2 DEF ThresholdAcrossRestarts, CountTo
  <2> QED BY <1>3, <2>1, <2>2
<1> QED
  BY <1>7, <1>8, <1>9, <1>10, <1>11, <1>12, <1>13, <1>14, <1>15 DEF IInv

(* A healthy cycle preserves the inductive invariant.                      *)
LEMMA HealthyIInv ==
  ASSUME IInv, NEW openOrders \in 0..1, NEW w \in Outcomes, Healthy(openOrders, w)
  PROVE  IInv'
<1> DEFINE s == AfterHealthy(ViewState, openOrders)
           err == PersistFails(s, w)
<1>1. /\ ViewState \in Snapshot
      /\ ViewPersisted \in BOOLEAN
      /\ ViewState.successes < RecoveryThreshold
      /\ ViewState.status # Recovering => ViewState.successes = 0
  BY ViewFacts DEF IInv
<1>2. /\ s \in Snapshot
      /\ s.failures = 0
      /\ s.successes < RecoveryThreshold
      /\ s.successes <= ViewState.successes + 1
      /\ s.status # Recovering => s.successes = 0
      /\ s.status = Normal <=> \/ ViewState.status = Normal
                               \/ /\ ViewState.status \in {Paused, Degraded, Recovering}
                                  /\ ViewState.successes + 1 >= RecoveryThreshold
      /\ s.status = Normal => Clean(s)
      /\ s.status = Canceling <=> ViewState.status = Canceling /\ openOrders > 0
  BY <1>1, AfterHealthyFacts
<1>3. /\ mem' = s
      /\ loaded' = TRUE
      /\ persisted' \in BOOLEAN
      /\ disk' \in {s, disk, NoState}
      /\ err \in BOOLEAN
      /\ s.status # Normal => disk' \in {s, disk}
      /\ s.status = Normal => disk' \in {NoState, disk}
  <2>1. Persist(s, w)
    BY DEF Healthy
  <2>2. Clean(s) <=> s.status = Normal
    BY <1>2 DEF Clean
  <2>3. CASE Clean(s)
    BY <1>1, <2>1, <2>2, <2>3, DeleteFacts
  <2>4. CASE ~Clean(s)
    BY <1>1, <2>1, <2>2, <2>4, SaveFacts
  <2> QED BY <2>3, <2>4
<1>4. /\ decision' = [op |-> "healthy", allow |-> s.status = Normal,
                      cancel |-> s.status = Canceling, err |-> err]
      /\ sinceFail' = CountTo(sinceFail, RecoveryThreshold)
      /\ ackFails' = 0
  BY DEF Healthy
<1>5. /\ owed = "none" => UNCHANGED <<owed, streak>>
      /\ owed = "cancel" => /\ owed' = IF openOrders > 0 THEN "cancel" ELSE "recover"
                            /\ streak' = 0
      /\ owed = "recover" => /\ streak' = CountTo(streak, RecoveryThreshold)
                             /\ owed' = IF streak + 1 >= RecoveryThreshold
                                          THEN "none" ELSE "recover"
  BY DEF Healthy
<1> HIDE DEF s, err
<1>6. ViewState' = s
  BY <1>3 DEF ViewState
<1>7. /\ disk \in Snapshot \cup {NoState}
      /\ owed \in {"none", "cancel", "recover"}
      /\ streak \in 0..RecoveryThreshold
      /\ sinceFail \in 0..RecoveryThreshold
      /\ disk.successes < RecoveryThreshold
      /\ disk.status # Normal
      /\ disk.status # Recovering => disk.successes = 0
      /\ disk.successes \in Nat /\ disk.failures \in Nat
  BY DEF IInv, TypeOK, SuccessesBounded, Snapshot, NoState
<1>8. ViewState.successes <= sinceFail
  BY <1>1, <1>7 DEF IInv, ProcessRecoveryCounted, ViewState, Snapshot
<1>9. ViewState.status = Normal => sinceFail = RecoveryThreshold
  BY DEF IInv, ProcessRecoveryCounted, ViewState
<1>10. owed = "recover" => ViewState.successes <= streak
  BY <1>7 DEF IInv, OwedRecoveryRecorded, ViewState, Fresh, NoState
<1> USE ThresholdAssumption
<1>11. TypeOK'
  <2>1. mem' \in Snapshot /\ disk' \in Snapshot \cup {NoState}
    BY <1>2, <1>3, <1>7
  <2>2. decision' \in Decision
    BY <1>3, <1>4 DEF Decision
  <2>3. /\ streak' \in 0..RecoveryThreshold
        /\ sinceFail' \in 0..RecoveryThreshold
        /\ ackFails' \in 0..FailureThreshold
    BY <1>4, <1>5, <1>7 DEF CountTo
  <2>4. loaded' \in BOOLEAN /\ persisted' \in BOOLEAN
    BY <1>3
  <2>5. owed' \in {"none", "cancel", "recover"}
    BY <1>5, <1>7
  <2> QED BY <2>1, <2>2, <2>3, <2>4, <2>5 DEF TypeOK
<1>12. SuccessesBounded'
  <2>1. disk'.successes < RecoveryThreshold
    BY <1>2, <1>3, <1>7 DEF NoState
  <2>2. disk'.status # Normal
    BY <1>2, <1>3, <1>7 DEF NoState, Normal
  <2>3. disk'.status # Recovering => disk'.successes = 0
    BY <1>2, <1>3, <1>7 DEF NoState
  <2> QED BY <1>2, <1>3, <2>1, <2>2, <2>3 DEF SuccessesBounded
<1>13. OwedCancelRecorded'
  <2> SUFFICES ASSUME owed' = "cancel"
               PROVE  disk'.status = Canceling /\ s.status = Canceling
    BY <1>6 DEF OwedCancelRecorded
  <2>1. owed = "cancel" /\ openOrders > 0
    BY <1>5, <1>7
  <2>2. disk.status = Canceling /\ ViewState.status = Canceling
    BY <2>1 DEF IInv, OwedCancelRecorded
  <2> QED BY <1>2, <1>3, <2>1, <2>2 DEF Normal, Canceling
<1>14. OwedRecoveryRecorded'
  <2> SUFFICES ASSUME owed' = "recover"
               PROVE  /\ disk' # NoState
                      /\ s.status # Normal
                      /\ streak' < RecoveryThreshold
                      /\ disk'.successes <= streak'
                      /\ s.successes <= streak'
    BY <1>3, <1>6 DEF OwedRecoveryRecorded
  <2>1. CASE owed = "cancel"
    <3>1. disk.status = Canceling /\ ViewState.status = Canceling
      BY <2>1 DEF IInv, OwedCancelRecorded
    <3>2. /\ s.status # Normal /\ s.status # Recovering
          /\ disk' \in {s, disk} /\ streak' = 0
      <4>1. ~(openOrders > 0)
        BY <1>5, <2>1
      <4>2. s.status = Paused
        BY <3>1, <4>1 DEF s, AfterHealthy, Observe, Promoted, Paused, Canceling, Normal,
           Recovering, Degraded
      <4> QED BY <1>3, <1>5, <2>1, <4>2 DEF Paused, Normal, Recovering
    <3>3. disk.status # "absent" /\ s.status # "absent"
      BY <1>2, <3>1
      DEF Snapshot, Statuses, Normal, Canceling, Degraded, Paused, Recovering
    <3>4. disk.successes = 0 /\ s.successes = 0
      BY <1>2, <1>7, <3>1, <3>2 DEF Canceling, Recovering
    <3> QED BY <3>2, <3>3, <3>4 DEF NoState
  <2>2. CASE owed = "recover"
    <3>1. /\ streak + 1 < RecoveryThreshold
          /\ streak' = streak + 1
      BY <1>5, <1>7, <2>2 DEF CountTo
    <3>2. /\ disk # NoState
          /\ ViewState.status # Normal
          /\ disk.successes <= streak
      BY <2>2 DEF IInv, OwedRecoveryRecorded
    <3>3. s.status # Normal
      BY <1>1, <1>2, <1>7, <1>10, <2>2, <3>1, <3>2 DEF Snapshot
    <3>4. s # NoState
      BY <1>2 DEF Snapshot, Statuses, NoState, Normal, Canceling, Degraded, Paused, Recovering
    <3>5. s.successes <= streak'
      BY <1>1, <1>2, <1>7, <1>10, <2>2, <3>1 DEF Snapshot
    <3> QED BY <1>3, <1>7, <3>1, <3>2, <3>3, <3>4, <3>5
  <2> QED BY <1>5, <1>7, <2>1, <2>2
<1>15. ProcessRecoveryCounted'
  <2>1. s.successes <= sinceFail'
    BY <1>1, <1>2, <1>4, <1>7, <1>8 DEF CountTo, Snapshot
  <2>2. s.status = Normal => sinceFail' = RecoveryThreshold
    BY <1>1, <1>2, <1>4, <1>7, <1>8, <1>9 DEF CountTo, Snapshot
  <2> QED BY <1>3, <2>1, <2>2 DEF ProcessRecoveryCounted
<1>16. FailuresCounted'
  BY <1>2, <1>3, <1>4, <1>7 DEF FailuresCounted, NoState
<1>17. NoQuoteWhileOwed'
  <2> SUFFICES ASSUME s.status = Normal PROVE owed' = "none"
    BY <1>4 DEF NoQuoteWhileOwed
  <2>1. owed # "cancel"
    BY <1>2 DEF IInv, OwedCancelRecorded, Normal, Canceling, Paused, Degraded, Recovering
  <2>2. owed = "recover" => streak + 1 >= RecoveryThreshold
    BY <1>1, <1>2, <1>7, <1>10 DEF IInv, OwedRecoveryRecorded, Snapshot
  <2> QED BY <1>5, <1>7, <2>1, <2>2
<1>18. RecoveryObserved'
  BY <1>3, <1>4, <1>15 DEF RecoveryObserved, ProcessRecoveryCounted
<1>19. CancelDemanded'
  BY <1>4, <1>6, <1>13 DEF CancelDemanded, OwedCancelRecorded
<1>20. ThresholdAcrossRestarts'
  BY <1>4 DEF ThresholdAcrossRestarts
<1> QED
  BY <1>11, <1>12, <1>13, <1>14, <1>15, <1>16, <1>17, <1>18, <1>19, <1>20 DEF IInv

(* A reset, a restart and a failed load preserve the inductive invariant.  *)
LEMMA OtherIInv ==
  ASSUME IInv,
         \/ \E w \in Outcomes : Reset(w)
         \/ Restart
         \/ \E op \in {"failure", "healthy"} : LoadFails(op)
         \/ UNCHANGED vars
  PROVE  IInv'
<1> USE ThresholdAssumption
    DEF Snapshot, Fresh, NoState, NoDecision, Statuses,
        Normal, Degraded, Canceling, Paused, Recovering
<1>1. ASSUME NEW w \in Outcomes, Reset(w) PROVE IInv'
  <2>1. /\ mem' = Fresh /\ loaded' = TRUE /\ persisted' = FALSE
        /\ disk' \in {disk, NoState}
        /\ decision' \in Decision /\ decision'.op = "reset" /\ decision'.allow = FALSE
        /\ owed' = "none" /\ streak' = 0 /\ ackFails' = 0
        /\ sinceFail' = RecoveryThreshold
    BY <1>1 DEF Reset, Decision
  <2>2. TypeOK'
    <3>1. mem' \in Snapshot
      BY <2>1
    <3>2. disk' \in Snapshot \cup {NoState}
      BY <2>1 DEF IInv, TypeOK
    <3>3. 0 \in 0..RecoveryThreshold /\ RecoveryThreshold \in 0..RecoveryThreshold
          /\ 0 \in 0..FailureThreshold
      OBVIOUS
    <3> QED BY <2>1, <3>1, <3>2, <3>3 DEF TypeOK
  <2>3. SuccessesBounded'
    BY <2>1 DEF IInv, SuccessesBounded
  <2>4. OwedCancelRecorded' /\ OwedRecoveryRecorded'
    BY <2>1 DEF OwedCancelRecorded, OwedRecoveryRecorded
  <2>5. ProcessRecoveryCounted'
    BY <2>1 DEF ProcessRecoveryCounted
  <2>6. FailuresCounted'
    BY <2>1, <2>2 DEF TypeOK, FailuresCounted
  <2>7. NoQuoteWhileOwed' /\ RecoveryObserved' /\ CancelDemanded' /\ ThresholdAcrossRestarts'
    BY <2>1 DEF NoQuoteWhileOwed, RecoveryObserved, CancelDemanded, ThresholdAcrossRestarts
  <2> QED BY <2>2, <2>3, <2>4, <2>5, <2>6, <2>7 DEF IInv
<1>2. ASSUME Restart PROVE IInv'
  <2>1. TypeOK'
    <3>1. mem' \in Snapshot
      BY <1>2 DEF Restart
    <3>2. decision' \in Decision
      BY <1>2 DEF Restart, Decision
    <3>3. RecoveryThreshold \in 0..RecoveryThreshold
      OBVIOUS
    <3> QED BY <1>2, <3>1, <3>2, <3>3 DEF IInv, TypeOK, Restart
  <2>2. SuccessesBounded'
    BY <1>2 DEF IInv, Restart, SuccessesBounded
  <2>3. OwedCancelRecorded' /\ OwedRecoveryRecorded'
    BY <1>2 DEF IInv, Restart, SuccessesBounded, OwedCancelRecorded, OwedRecoveryRecorded, ViewState
  <2>4. ProcessRecoveryCounted' /\ FailuresCounted'
    BY <1>2 DEF IInv, Restart, ProcessRecoveryCounted, FailuresCounted
  <2>5. NoQuoteWhileOwed' /\ RecoveryObserved' /\ CancelDemanded' /\ ThresholdAcrossRestarts'
    BY <1>2 DEF IInv, Restart, NoQuoteWhileOwed, RecoveryObserved, CancelDemanded,
       ThresholdAcrossRestarts
  <2> QED BY <2>1, <2>2, <2>3, <2>4, <2>5 DEF IInv
<1>3. ASSUME NEW op \in {"failure", "healthy"}, LoadFails(op) PROVE IInv'
  <2>1. TypeOK'
    BY <1>3 DEF IInv, TypeOK, LoadFails, manager, history, Decision
  <2>2. /\ SuccessesBounded' /\ OwedCancelRecorded' /\ OwedRecoveryRecorded'
        /\ ProcessRecoveryCounted' /\ FailuresCounted'
    BY <1>3 DEF IInv, LoadFails, manager, history, SuccessesBounded, OwedCancelRecorded,
       OwedRecoveryRecorded, ProcessRecoveryCounted, FailuresCounted, ViewState
  <2>3. NoQuoteWhileOwed' /\ RecoveryObserved' /\ CancelDemanded' /\ ThresholdAcrossRestarts'
    BY <1>3 DEF IInv, LoadFails, manager, history, NoQuoteWhileOwed, RecoveryObserved,
       CancelDemanded, ThresholdAcrossRestarts
  <2> QED BY <2>1, <2>2, <2>3 DEF IInv
<1>4. ASSUME UNCHANGED vars PROVE IInv'
  BY <1>4 DEF IInv, vars, TypeOK, SuccessesBounded, OwedCancelRecorded, OwedRecoveryRecorded,
     ProcessRecoveryCounted, FailuresCounted, NoQuoteWhileOwed, RecoveryObserved,
     CancelDemanded, ThresholdAcrossRestarts, ViewState
<1> QED BY <1>1, <1>2, <1>3, <1>4

(* The inductive invariant holds in every reachable state.                 *)
THEOREM InductiveInvariant == Spec => []IInv
<1>1. IInv /\ [Next]_vars => IInv'
  BY FailureIInv, HealthyIInv, OtherIInv DEF Next
<1> QED BY InitIInv, <1>1, PTL DEF Spec

(* Every variable of the fault manager keeps its type.                     *)
THEOREM TypeCorrect == Spec => []TypeOK
  BY InductiveInvariant, PTL DEF IInv

(* No acknowledged failure is ever forgotten: not by a restart, not by a   *)
(* failed write.  Quoting resumes only after the empty book and the        *)
(* recovery observation it demands.                                        *)
THEOREM FailuresAreHonoured ==
  Spec => [](NoQuoteWhileOwed /\ CancelDemanded)
  BY InductiveInvariant, PTL DEF IInv

(* An acknowledged cancellation is demanded by every later call that could *)
(* read its state, until a healthy cycle sees no managed order.            *)
THEOREM CancellationIsRepeated == Spec => []CancelDemanded
  BY InductiveInvariant, PTL DEF IInv

(* A process never quotes within RecoveryThreshold healthy cycles of a     *)
(* failure it has seen, saved or not.                                      *)
THEOREM RecoveryIsObserved == Spec => []RecoveryObserved
  BY InductiveInvariant, PTL DEF IInv

(* The failure threshold counts across restarts.                           *)
THEOREM ThresholdSurvivesRestarts == Spec => []ThresholdAcrossRestarts
  BY InductiveInvariant, PTL DEF IInv
=============================================================================
