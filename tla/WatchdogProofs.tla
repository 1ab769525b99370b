---------------------------- MODULE WatchdogProofs ----------------------------
(***************************************************************************)
(* Proofs about Watchdog, the engine's main loop and the watchdog beside   *)
(* it, for any instruments, markets and configurations, any number of      *)
(* published versions and any choice of failures.                          *)
(***************************************************************************)
EXTENDS Watchdog, TLAPS

-----------------------------------------------------------------------------
(* The inductive invariant.                                                *)

\* A candidate is one for its version, with the plan of the switch from what runs.
PendingMatches ==
  pending # NoRuntime =>
    /\ pending.config = published[pending.version]
    /\ runtime # NoRuntime => pending.plan = Plan(runtime.config, pending.config)

\* Between passes the recorded version is the running one, unless its record was lost.
AppliedRuns == runtime # NoRuntime /\ pc # "record" /\ ~missed => applied = runtime.version

WatchInv ==
  /\ TypeOK /\ PendingMatches /\ RunsWhatItReports /\ NoStrayOrders /\ AppliedRuns /\ WatchdogCovers

-----------------------------------------------------------------------------
(* What the operators of the model yield.                                  *)

\* A published configuration is a valid one.
LEMMA PublishedValid ==
  ASSUME TypeOK, NEW v \in Versions
  PROVE  published[v] \in Config /\ InstrumentsOf(published[v]) # {}
<1>1. published[v] \in Configs
  BY DEF TypeOK, Versions
<1> QED BY <1>1, ConfigsAssumption DEF Valid

\* LoadActive returns a published version, an earlier one while the database fails.
LEMMA LoadableVersions ==
  ASSUME TypeOK
  PROVE  Loadable \subseteq Versions
<1>1. Len(published) \in Nat
  BY DEF TypeOK
<1> QED BY <1>1 DEF Loadable, Versions

\* NoRuntime is told from a runtime by its version.
LEMMA NoRuntimeVersion ==
  ASSUME TypeOK
  PROVE  /\ NoRuntime.version = 0
         /\ \A r \in Runtimes \cup Prospects : r # NoRuntime /\ r.version \in Versions /\ r.version # 0
<1>1. 0 \notin Versions
  BY DEF Versions
<1> QED BY <1>1 DEF Runtimes, Prospects, NoRuntime

\* Orders rest at places of instruments.
LEMMA QuotedPlaces ==
  ASSUME NEW c \in Config
  PROVE  Quoted(c) \subseteq Insts \X Places
  BY DEF Quoted, InstrumentsOf, Config

(* A change that is not structural leaves the markets, the mode and the    *)
(* trading switch alone.                                                   *)
LEMMA HotKeepsMarkets ==
  ASSUME NEW old \in Config, NEW new \in Config, InstrumentsOf(old) # {}, ~Structural(old, new)
  PROVE  [old EXCEPT !.tuning = new.tuning] = new /\ Quoted(new) = Quoted(old)
<1>1. old.live = new.live /\ old.market = new.market
  BY DEF Structural, Config
<1>2. InstrumentsOf(old) = InstrumentsOf(new)
  BY <1>1 DEF InstrumentsOf
<1>3. old.trading = new.trading
  BY <1>2 DEF Structural
<1>4. [old EXCEPT !.tuning = new.tuning] = new
  BY <1>1, <1>3 DEF Config
<1> QED BY <1>1, <1>2, <1>3, <1>4 DEF Quoted

(* The plan names every market that the new configuration no longer        *)
(* quotes.                                                                 *)
LEMMA PlanCoversDropped ==
  ASSUME NEW old \in Config, NEW new \in Config, NEW o \in Quoted(old) \ Quoted(new)
  PROVE  Plan(old, new).all \/ o[1] \in Plan(old, new).targets
<1>1. old.live /\ old.trading
  BY DEF Quoted
<1>2. PICK i \in InstrumentsOf(old) : o = <<i, old.market[i]>>
  BY <1>1 DEF Quoted
<1>3. CASE ~new.live
  BY <1>1, <1>3 DEF Plan
<1>4. CASE ~new.trading
  BY <1>1, <1>2, <1>4 DEF Plan, MustCancel
<1>5. CASE new.live /\ new.trading
  <2>1. new.market[i] # old.market[i]
    BY <1>2, <1>5 DEF Quoted, InstrumentsOf
  <2> QED BY <1>1, <1>2, <2>1 DEF Plan, MustCancel
<1> QED BY <1>3, <1>4, <1>5

\* A version, once published, keeps its configuration.
LEMMA PublishEffect ==
  ASSUME TypeOK, NEW c \in Configs, Publish(c)
  PROVE  /\ published' \in Seq(Configs) /\ Len(published)' = Len(published) + 1
         /\ Len(published)' <= MaxVersion /\ Len(published) \in Nat
         /\ Versions \subseteq Versions' /\ 0 .. Len(published) \subseteq (0 .. Len(published))'
         /\ \A v \in Versions : published'[v] = published[v]
<1>1. /\ published \in Seq(Configs) /\ Len(published) \in Nat /\ MaxVersion \in Nat
      /\ published' = Append(published, c) /\ Len(published) < MaxVersion
  BY VersionAssumption DEF TypeOK, Publish
<1> QED BY <1>1 DEF Versions

\* BuildRuntimeCandidate yields a runtime of the version loaded, planned against the running one.
LEMMA CandidatesType ==
  ASSUME TypeOK, NEW v \in Versions, NEW r \in Candidates(v)
  PROVE  /\ r \in Prospects /\ r.version = v /\ r.config = published[v]
         /\ runtime # NoRuntime => r.plan = Plan(runtime.config, published[v])
<1> DEFINE c == published[v]
<1>1. c \in Config
  BY PublishedValid
<1>2. runtime # NoRuntime => runtime.config \in Config
  BY DEF TypeOK, Runtimes
<1>3. runtime # NoRuntime => Plan(runtime.config, c) \in Plans
  BY <1>1, <1>2 DEF Plan, Plans, MustCancel, InstrumentsOf, Config
<1>4. PICK unread \in Unread(c) :
        r = [version |-> v, config |-> c,
             status |-> [i \in Insts |-> IF i \in Unbuilt(c) \cup unread THEN "blocked" ELSE "ready"],
             plan |-> IF runtime = NoRuntime THEN [all |-> FALSE, targets |-> {}]
                                             ELSE Plan(runtime.config, c)]
  BY DEF Candidates
<1>5. r.plan \in Plans /\ (runtime # NoRuntime => r.plan = Plan(runtime.config, c))
  BY <1>3, <1>4 DEF Plans
<1>6. r.status \in [Insts -> Status]
  BY <1>4 DEF Status
<1> HIDE DEF c
<1>7. r \in Prospects
  BY <1>1, <1>4, <1>5, <1>6 DEF Prospects
<1> QED BY <1>4, <1>5, <1>7 DEF c

\* Prepare changes nothing but the status of the instruments.
LEMMA PreparedType ==
  ASSUME NEW b \in Prospects, NEW r \in Prepared(b)
  PROVE  r \in Prospects /\ r.version = b.version /\ r.config = b.config /\ r.plan = b.plan
<1>1. PICK failed \in SUBSET (InstrumentsOf(b.config) \cap Flaky) :
        r = [b EXCEPT !.status = [i \in Insts |-> IF i \in failed /\ b.status[i] = "ready"
                                                    THEN "blocked" ELSE b.status[i]]]
  BY Zenon DEF Prepared
<1>2. [i \in Insts |-> IF i \in failed /\ b.status[i] = "ready" THEN "blocked" ELSE b.status[i]]
        \in [Insts -> Status]
  BY DEF Prospects, Status
<1> QED BY <1>1, <1>2 DEF Prospects

\* What PrepareCandidate leaves pending: nothing, or a candidate for the version it was called with.
LEMMA PrepareEffect ==
  ASSUME TypeOK, PendingMatches, NEW v \in Versions, PrepareCandidate(v)
  PROVE  /\ pending' \in Prospects \cup {NoRuntime}
         /\ pending' # NoRuntime =>
              /\ pending'.config = published[pending'.version]
              /\ runtime # NoRuntime => pending'.plan = Plan(runtime.config, pending'.config)
         /\ pc' \in {"idle", "cleanup"} /\ (pc' = "cleanup" => pending' # NoRuntime)
         /\ pc = "idle"
         /\ UNCHANGED <<published, applied, disabled, orders, elusive, up, runtime, alive, left, missed>>
<1> DEFINE Matches(r) == /\ r \in Prospects /\ r.config = published[r.version]
                         /\ runtime # NoRuntime => r.plan = Plan(runtime.config, r.config)
<1> DEFINE Outcome(b, r) ==
             /\ Idle
             /\ \/ Ready(r) /\ pending' = r /\ pc' = "cleanup"
                \/ ~Ready(r) /\ pending' \in {b, NoRuntime} /\ pc' = "idle"
             /\ UNCHANGED <<published, applied, disabled, orders, elusive, up, runtime, alive, left, missed>>
<1>0. PICK b \in IF pending.version = v THEN {pending} ELSE Candidates(v) :
        \E r \in Prepared(b) : Outcome(b, r)
  BY Zenon DEF PrepareCandidate
<1>1. PICK r \in Prepared(b) : Outcome(b, r)
  BY <1>0
<1>2. Matches(b)
  <2>1. CASE pending.version = v
    <3>1. b = pending /\ pending # NoRuntime
      BY <2>1, NoRuntimeVersion DEF Versions
    <3> QED BY <3>1 DEF TypeOK, PendingMatches
  <2>2. CASE pending.version # v
    BY <2>2, CandidatesType
  <2> QED BY <2>1, <2>2
<1>3. Matches(r)
  BY <1>2, PreparedType
<1>4. r # NoRuntime
  BY <1>3, NoRuntimeVersion
<1> QED BY <1>1, <1>2, <1>3, <1>4 DEF Idle

-----------------------------------------------------------------------------
(* The steps keep the invariant.                                           *)

\* Tuning applied in place yields the new configuration as a whole.
LEMMA ApplyEffect ==
  ASSUME TypeOK, RunsWhatItReports, NEW v \in Versions, ApplyParameters(v)
  PROVE  /\ runtime \in Runtimes /\ runtime' \in Runtimes
         /\ runtime'.version = v /\ runtime'.config = published[v]
         /\ Quoted(published[v]) = Quoted(runtime.config)
<1>1. runtime # NoRuntime /\ runtime \in Runtimes /\ runtime.version \in Versions
  BY DEF ApplyParameters, HotChange, Running, TypeOK, Runtimes
<1> DEFINE old == published[runtime.version]
           new == published[v]
<1>2. old \in Config /\ new \in Config /\ InstrumentsOf(old) # {}
  BY <1>1, PublishedValid
<1>3. runtime.config = old /\ ~Structural(old, new)
  BY <1>1 DEF RunsWhatItReports, ApplyParameters, HotChange
<1>4. runtime' = [runtime EXCEPT !.version = v, !.config.tuning = new.tuning]
  BY DEF ApplyParameters
<1> HIDE DEF old, new
<1>5. [old EXCEPT !.tuning = new.tuning] = new /\ Quoted(new) = Quoted(old)
  BY <1>2, <1>3, HotKeepsMarkets
<1>6. /\ runtime'.version = v /\ runtime'.config = [runtime.config EXCEPT !.tuning = new.tuning]
      /\ runtime'.status = runtime.status
      /\ runtime' = [version |-> v, config |-> runtime'.config, status |-> runtime.status]
  BY <1>1, <1>4 DEF Runtimes
<1>7. runtime'.config = new
  BY <1>3, <1>5, <1>6
<1>8. runtime' \in Runtimes
  BY <1>1, <1>2, <1>6, <1>7 DEF Runtimes
<1> QED BY <1>1, <1>3, <1>5, <1>6, <1>7, <1>8 DEF new

\* Where a runtime may trade it also quotes.
LEMMA TradablePlaces ==
  ASSUME TypeOK, runtime # NoRuntime
  PROVE  /\ Tradable(runtime) \subseteq Quoted(runtime.config)
         /\ Tradable(runtime) \subseteq Insts \X Places
<1>1. runtime.config \in Config
  BY DEF TypeOK, Runtimes
<1> QED BY <1>1, QuotedPlaces DEF Tradable

\* Every step of engine and watchdog keeps the types.
LEMMA TypeStep == WatchInv /\ [WNext]_allVars => TypeOK'
<1> SUFFICES ASSUME WatchInv, [WNext]_allVars PROVE TypeOK'
  OBVIOUS
<1>0. TypeOK /\ PendingMatches /\ RunsWhatItReports
  BY DEF WatchInv
<1>1. ASSUME NEW v \in Versions, ApplyParameters(v), UNCHANGED wvars PROVE TypeOK'
  <2>1. published' = published /\ Runtimes' = Runtimes /\ Prospects' = Prospects
    BY <1>1 DEF ApplyParameters, Runtimes, Prospects, Versions
  <2>2. runtime' \in Runtimes /\ runtime' # NoRuntime
    BY <1>0, <1>1, ApplyEffect, NoRuntimeVersion
  <2> QED BY <1>0, <1>1, <2>1, <2>2 DEF TypeOK, ApplyParameters, wvars
<1>2. ASSUME NEW v \in Versions, PrepareCandidate(v), UNCHANGED wvars PROVE TypeOK'
  <2>1. /\ pending' \in Prospects \cup {NoRuntime} /\ pc' \in {"idle", "cleanup"}
        /\ pc' = "cleanup" => pending' # NoRuntime
        /\ UNCHANGED <<published, applied, disabled, orders, elusive, up, runtime, alive, left, missed>>
    BY <1>0, <1>2, PrepareEffect
  <2>2. Runtimes' = Runtimes /\ Prospects' = Prospects
    BY <2>1 DEF Runtimes, Prospects, Versions
  <2> QED BY <1>0, <1>2, <2>1, <2>2 DEF TypeOK, wvars
<1>3. ASSUME NEW v \in Versions, BuildFails(v), UNCHANGED wvars PROVE TypeOK'
  <2>1. Runtimes' = Runtimes /\ Prospects' = Prospects
    BY <1>3 DEF BuildFails, Runtimes, Prospects, Versions
  <2> QED BY <1>0, <1>3, <2>1 DEF TypeOK, BuildFails, Idle, wvars
<1>4. ASSUME CleanupSucceeds, UNCHANGED wvars PROVE TypeOK'
  <2>1. Runtimes' = Runtimes /\ Prospects' = Prospects
    BY <1>4 DEF CleanupSucceeds, Runtimes, Prospects, Versions
  <2>2. pending \in Prospects
    BY <1>0, <1>4 DEF TypeOK, CleanupSucceeds
  <2>3. runtime' = [version |-> pending.version, config |-> pending.config, status |-> pending.status]
    BY <1>4 DEF CleanupSucceeds, Switch
  <2>4. runtime' \in Runtimes
    BY <2>2, <2>3 DEF Runtimes, Prospects
  <2>5. runtime' # NoRuntime
    BY <1>0, <2>4, NoRuntimeVersion
  <2>6. orders' \subseteq Insts \X Places /\ left' \subseteq orders' /\ elusive' \subseteq orders'
    BY <1>0, <1>4 DEF TypeOK, CleanupSucceeds, Reached
  <2> QED BY <1>0, <1>4, <2>1, <2>4, <2>5, <2>6 DEF TypeOK, CleanupSucceeds, Switch, wvars
<1>5. ASSUME CleanupFails, UNCHANGED wvars PROVE TypeOK'
  <2>1. Runtimes' = Runtimes /\ Prospects' = Prospects
    BY <1>5 DEF CleanupFails, Runtimes, Prospects, Versions
  <2>2. orders' \subseteq Insts \X Places /\ left' \subseteq orders' /\ elusive' \subseteq orders'
    BY <1>0, <1>5 DEF TypeOK, CleanupFails
  <2> QED BY <1>0, <1>5, <2>1, <2>2 DEF TypeOK, CleanupFails, wvars
<1>6. ASSUME RecordApplied, UNCHANGED wvars PROVE TypeOK'
  <2>1. Runtimes' = Runtimes /\ Prospects' = Prospects
    BY <1>6 DEF RecordApplied, Runtimes, Prospects, Versions
  <2>2. runtime.version \in 0 .. Len(published)
    BY <1>0, <1>6 DEF TypeOK, RecordApplied, Runtimes, Versions
  <2>3. applied' \in 0 .. Len(published) /\ missed' \in BOOLEAN /\ left' \subseteq orders
    BY <1>0, <1>6, <2>2 DEF TypeOK, RecordApplied
  <2> QED BY <1>0, <1>6, <2>1, <2>3 DEF TypeOK, RecordApplied, wvars
<1>7. ASSUME RunOnce, UNCHANGED wvars PROVE TypeOK'
  <2>1. Runtimes' = Runtimes /\ Prospects' = Prospects
    BY <1>7 DEF RunOnce, Runtimes, Prospects, Versions
  <2>2. PICK S \in SUBSET Tradable(runtime) :
          /\ orders' = (orders \ Tradable(runtime)) \cup S
          /\ \E late \in SUBSET {o \in S : o[1] \in Slow} :
               elusive' = (elusive \ Tradable(runtime)) \cup late
    BY <1>7 DEF RunOnce
  <2>3. orders' \subseteq Insts \X Places /\ left' \subseteq orders' /\ elusive' \subseteq orders'
    BY <1>0, <1>7, <2>2, TradablePlaces DEF TypeOK, RunOnce, Running
  <2> QED BY <1>0, <1>7, <2>1, <2>3 DEF TypeOK, RunOnce, wvars
<1>8. ASSUME RetryBlocked, UNCHANGED wvars PROVE TypeOK'
  <2>1. Runtimes' = Runtimes /\ Prospects' = Prospects
    BY <1>8 DEF RetryBlocked, Runtimes, Prospects, Versions
  <2>2. runtime \in Runtimes /\ runtime # NoRuntime
    BY <1>0, <1>8 DEF TypeOK, RetryBlocked, Running
  <2>3. PICK recovered \in SUBSET Blocked(runtime) :
          runtime' = [runtime EXCEPT
                        !.status = [i \in Insts |-> IF i \in recovered THEN "ready" ELSE @[i]]]
    BY <1>8 DEF RetryBlocked
  <2>4. runtime' \in Runtimes
    BY <2>2, <2>3 DEF Runtimes, Status
  <2>5. runtime' # NoRuntime
    BY <1>0, <2>4, NoRuntimeVersion
  <2> QED BY <1>0, <1>8, <2>1, <2>4, <2>5 DEF TypeOK, RetryBlocked, wvars
<1>9. ASSUME Crash \/ Shutdown, UNCHANGED wvars PROVE TypeOK'
  <2>1. Runtimes' = Runtimes /\ Prospects' = Prospects
    BY <1>9 DEF Crash, Shutdown, Runtimes, Prospects, Versions
  <2>2. orders' \subseteq Insts \X Places /\ left' \subseteq orders' /\ elusive' \subseteq orders'
    BY <1>0, <1>9 DEF TypeOK, Crash, Shutdown, Reached
  <2> QED BY <1>0, <1>9, <2>1, <2>2 DEF TypeOK, Crash, Shutdown, Down, wvars
<1>10. ASSUME Start \/ Beat \/ Lapse, UNCHANGED wvars PROVE TypeOK'
  <2>1. Runtimes' = Runtimes /\ Prospects' = Prospects
    BY <1>10 DEF Start, Beat, Lapse, Runtimes, Prospects, Versions
  <2> QED BY <1>0, <1>10, <2>1 DEF TypeOK, Start, Beat, Lapse, wvars
<1>11. ASSUME NEW c \in Configs, Publish(c), UNCHANGED wvars PROVE TypeOK'
  <2>1. /\ published' \in Seq(Configs) /\ Len(published') <= MaxVersion
        /\ Versions \subseteq Versions' /\ 0 .. Len(published) \subseteq 0 .. Len(published')
    BY <1>0, <1>11, PublishEffect
  <2>2. Runtimes \subseteq Runtimes' /\ Prospects \subseteq Prospects'
    BY <2>1 DEF Runtimes, Prospects
  <2> QED BY <1>0, <1>11, <2>1, <2>2 DEF TypeOK, Publish, wvars
<1>12. ASSUME NEW o \in elusive, Settle(o), UNCHANGED wvars PROVE TypeOK'
  <2>1. Runtimes' = Runtimes /\ Prospects' = Prospects
    BY <1>12 DEF Settle, Runtimes, Prospects, Versions
  <2> QED BY <1>0, <1>12, <2>1 DEF TypeOK, Settle, wvars
<1>13. ASSUME NEW k \in Revocable, UpdateCredential(k), UNCHANGED wvars PROVE TypeOK'
  <2>1. Runtimes' = Runtimes /\ Prospects' = Prospects
    BY <1>13 DEF UpdateCredential, Runtimes, Prospects, Versions
  <2> QED BY <1>0, <1>13, <2>1 DEF TypeOK, UpdateCredential, wvars
<1>14. CASE WatchdogNext
  <2>1. CASE CancelAll \/ CancelFails
    <3>1. Runtimes' = Runtimes /\ Prospects' = Prospects
      BY <2>1 DEF CancelAll, CancelFails, engineVars, Runtimes, Prospects, Versions
    <3>2. orders' \subseteq Insts \X Places /\ left' \subseteq orders' /\ elusive' \subseteq orders'
      BY <1>0, <2>1 DEF TypeOK, CancelAll, CancelFails
    <3>3. checking' \in 0 .. Len(published) /\ episode' \in BOOLEAN
      <4>1. checking' = 0 /\ episode' \in BOOLEAN
        BY <2>1 DEF CancelAll, CancelFails
      <4>2. Len(published) \in Nat
        BY <1>0 DEF TypeOK
      <4> QED BY <4>1, <4>2
    <3>4. UNCHANGED engineVars
      BY <2>1 DEF CancelAll, CancelFails
    <3> QED BY <1>0, <3>1, <3>2, <3>3, <3>4 DEF TypeOK, engineVars
  <2>2. CASE UNCHANGED vars /\ checking' \in 0 .. Len(published) /\ episode' \in BOOLEAN
    <3>1. Runtimes' = Runtimes /\ Prospects' = Prospects
      BY <2>2 DEF vars, Runtimes, Prospects, Versions
    <3> QED BY <1>0, <2>2, <3>1 DEF TypeOK, vars
  <2>3. CASE LoadApplied
    <3>1. checking' \in 0 .. Len(published)
      BY <1>0, <2>3, LoadableVersions DEF LoadApplied, TypeOK, Versions
    <3> QED BY <1>0, <2>2, <2>3, <3>1 DEF LoadApplied, TypeOK
  <2>4. CASE CheckShadow \/ BuildVenuesFails \/ CheckOnly \/ WatchdogRestart
    <3>1. 0 \in 0 .. Len(published)
      BY <1>0 DEF TypeOK
    <3> QED BY <1>0, <2>2, <2>4, <3>1
            DEF CheckShadow, BuildVenuesFails, CheckOnly, WatchdogRestart, TypeOK
  <2> QED BY <1>14, <2>1, <2>3, <2>4 DEF WatchdogNext
<1>15. CASE UNCHANGED allVars
  <2>1. Runtimes' = Runtimes /\ Prospects' = Prospects
    BY <1>15 DEF allVars, vars, Runtimes, Prospects, Versions
  <2> QED BY <1>0, <1>15, <2>1 DEF TypeOK, allVars, vars, wvars
<1> QED BY <1>0, <1>1, <1>2, <1>3, <1>4, <1>5, <1>6, <1>7, <1>8, <1>9, <1>10, <1>11, <1>12, <1>13,
           <1>14, <1>15, LoadableVersions
        DEF WNext, EngineNext, Reload

\* The engine reports what it runs, and a candidate keeps its plan until it is switched to.
LEMMA ReportStep == WatchInv /\ [WNext]_allVars => RunsWhatItReports' /\ PendingMatches'
<1> SUFFICES ASSUME WatchInv, [WNext]_allVars PROVE RunsWhatItReports' /\ PendingMatches'
  OBVIOUS
<1>0. TypeOK /\ PendingMatches /\ RunsWhatItReports
  BY DEF WatchInv
<1>1. ASSUME NEW v \in Versions, ApplyParameters(v) PROVE RunsWhatItReports' /\ PendingMatches'
  <2>1. published' = published /\ pending' = NoRuntime
    BY <1>1 DEF ApplyParameters
  <2> QED BY <1>0, <1>1, <2>1, ApplyEffect DEF RunsWhatItReports, PendingMatches
<1>2. ASSUME NEW v \in Versions, PrepareCandidate(v) PROVE RunsWhatItReports' /\ PendingMatches'
  <2>1. UNCHANGED <<published, runtime>>
    BY <1>0, <1>2, PrepareEffect
  <2>2. PendingMatches'
    BY <1>0, <1>2, <2>1, PrepareEffect DEF PendingMatches
  <2> QED BY <1>0, <2>1, <2>2 DEF RunsWhatItReports
<1>3. ASSUME NEW v \in Versions, BuildFails(v) PROVE RunsWhatItReports' /\ PendingMatches'
  BY <1>0, <1>3 DEF BuildFails, RunsWhatItReports, PendingMatches
<1>4. CASE CleanupSucceeds
  <2>1. pending # NoRuntime /\ pending' = NoRuntime /\ published' = published
    BY <1>0, <1>4 DEF TypeOK, CleanupSucceeds, Switch
  <2>2. runtime' = [version |-> pending.version, config |-> pending.config, status |-> pending.status]
    BY <1>4 DEF CleanupSucceeds, Switch
  <2> QED BY <1>0, <2>1, <2>2 DEF RunsWhatItReports, PendingMatches
<1>5. CASE RetryBlocked
  <2>1. runtime \in Runtimes /\ runtime # NoRuntime /\ UNCHANGED <<published, pending>>
    BY <1>0, <1>5 DEF TypeOK, RetryBlocked, Running
  <2>2. runtime'.version = runtime.version /\ runtime'.config = runtime.config
    BY <1>5, <2>1 DEF RetryBlocked, Runtimes
  <2> QED BY <1>0, <2>1, <2>2 DEF RunsWhatItReports, PendingMatches
<1>6. CASE Crash \/ Shutdown
  BY <1>6 DEF Crash, Shutdown, Down, RunsWhatItReports, PendingMatches
<1>7. ASSUME NEW c \in Configs, Publish(c) PROVE RunsWhatItReports' /\ PendingMatches'
  <2>1. UNCHANGED <<runtime, pending>> /\ \A v \in Versions : published'[v] = published[v]
    BY <1>0, <1>7, PublishEffect DEF Publish
  <2>2. /\ runtime # NoRuntime => runtime.version \in Versions
        /\ pending # NoRuntime => pending.version \in Versions
    BY <1>0 DEF TypeOK, Runtimes, Prospects
  <2> QED BY <1>0, <2>1, <2>2 DEF RunsWhatItReports, PendingMatches
<1>8. CASE UNCHANGED <<published, runtime, pending>>
  BY <1>0, <1>8 DEF RunsWhatItReports, PendingMatches
<1> QED BY <1>0, <1>1, <1>2, <1>3, <1>4, <1>5, <1>6, <1>7, <1>8, LoadableVersions
        DEF WNext, EngineNext, Reload, CleanupFails, RecordApplied, RunOnce, Start, Beat, Lapse,
            Settle, UpdateCredential,
            WatchdogNext, LoadApplied, CheckShadow, BuildVenuesFails, CancelAll, CancelFails, CheckOnly,
            WatchdogRestart, engineVars, allVars, vars

(* A switch cancels what the new configuration no longer quotes, or marks  *)
(* it as left behind: blocked, elusive, or with no engine to cancel it.    *)
LEMMA SwitchLeaves ==
  ASSUME WatchInv, CleanupSucceeds
  PROVE  /\ orders' \subseteq Quoted(pending.config) \cup left'
         /\ orders' \subseteq orders /\ left \cap orders' \subseteq left'
<1>0. TypeOK /\ PendingMatches /\ NoStrayOrders /\ pending # NoRuntime
  BY DEF WatchInv, TypeOK, CleanupSucceeds
<1>1. /\ orders' \subseteq orders /\ orders' \cap CleanupTargets \subseteq elusive
      /\ left' = (left \cup Skipped \cup (CleanupTargets \cap elusive)) \cap orders'
  BY DEF CleanupSucceeds, Reached
<1>2. CASE runtime = NoRuntime
  BY <1>1, <1>2 DEF Skipped
<1>3. CASE runtime # NoRuntime
  <2> DEFINE old == runtime.config
             new == pending.config
  <2>1. old \in Config /\ new \in Config /\ pending.plan = Plan(old, new)
    BY <1>0, <1>3 DEF TypeOK, Runtimes, Prospects, PendingMatches
  <2>2. orders \subseteq Quoted(old) \cup left
    BY <1>0, <1>3 DEF NoStrayOrders
  <2>3. ASSUME NEW o \in orders', o \notin Quoted(new) PROVE o \in left'
    <3>1. CASE o \in left
      BY <1>1, <2>3, <3>1
    <3>2. CASE o \in Quoted(old)
      <4>1. InPlan(o)
        <5> HIDE DEF old, new
        <5> QED BY <2>1, <2>3, <3>2, PlanCoversDropped DEF InPlan
      <4>2. CASE o \in Tradable(runtime)
        <5>1. o \in CleanupTargets \cap elusive
          BY <1>1, <1>3, <2>3, <4>1, <4>2 DEF CleanupTargets
        <5> QED BY <1>1, <2>3, <5>1
      <4>3. CASE o \notin Tradable(runtime)
        <5>1. o \in Skipped
          BY <1>1, <1>3, <2>3, <3>2, <4>1, <4>3 DEF Skipped
        <5> QED BY <1>1, <2>3, <5>1
      <4> QED BY <4>2, <4>3
    <3> QED BY <1>1, <2>2, <2>3, <3>1, <3>2
  <2> QED BY <1>1, <2>3
<1> QED BY <1>1, <1>2, <1>3

\* Every open order is where the engine, and the watchdog, would look for it.
LEMMA CoverStep == WatchInv /\ [WNext]_allVars => NoStrayOrders' /\ AppliedRuns' /\ WatchdogCovers'
<1> SUFFICES ASSUME WatchInv, [WNext]_allVars
             PROVE  NoStrayOrders' /\ AppliedRuns' /\ WatchdogCovers'
  OBVIOUS
<1> USE DEF NoStrayOrders, AppliedRuns, WatchdogCovers
<1>0. TypeOK /\ PendingMatches /\ RunsWhatItReports /\ NoStrayOrders /\ AppliedRuns /\ WatchdogCovers
  BY DEF WatchInv
<1>a. ASSUME UNCHANGED <<published, applied, runtime, missed>>, pc' = "idle" \/ pc' = pc,
             pc = "record" => pc' = "record", orders' \subseteq orders, left' = left \cap orders'
      PROVE  NoStrayOrders' /\ AppliedRuns' /\ WatchdogCovers'
  BY <1>0, <1>a
<1>b. ASSUME UNCHANGED <<published, applied, missed>>, runtime' = NoRuntime,
             orders' \subseteq orders, left' = left \cap orders'
      PROVE  NoStrayOrders' /\ AppliedRuns' /\ WatchdogCovers'
  BY <1>0, <1>b
<1>c. left = left \cap orders
  BY <1>0 DEF TypeOK
<1>1. ASSUME NEW v \in Versions, ApplyParameters(v)
      PROVE  NoStrayOrders' /\ AppliedRuns' /\ WatchdogCovers'
  <2>1. /\ runtime # NoRuntime /\ pc' = "record"
        /\ UNCHANGED <<published, applied, orders, left, missed>>
    BY <1>1 DEF ApplyParameters, HotChange, Running
  <2>2. Quoted(runtime'.config) = Quoted(runtime.config)
    BY <1>0, <1>1, ApplyEffect
  <2> QED BY <1>0, <2>1, <2>2
<1>2. ASSUME NEW v \in Versions, PrepareCandidate(v)
      PROVE  NoStrayOrders' /\ AppliedRuns' /\ WatchdogCovers'
  <2>1. pc = "idle" /\ UNCHANGED <<published, applied, orders, runtime, left, missed>>
    BY <1>0, <1>2, PrepareEffect
  <2> QED BY <1>0, <2>1
<1>3. CASE CleanupSucceeds
  <2>1. pc' = "record" /\ UNCHANGED <<published, applied, missed>> /\ runtime'.config = pending.config
    BY <1>3 DEF CleanupSucceeds, Switch
  <2>2. /\ orders' \subseteq Quoted(pending.config) \cup left'
        /\ orders' \subseteq orders /\ left \cap orders' \subseteq left'
    BY <1>3, SwitchLeaves
  <2> QED BY <1>0, <2>1, <2>2
<1>4. CASE CleanupFails
  <2>1. /\ UNCHANGED <<published, applied, runtime, missed>> /\ pc = "cleanup" /\ pc' = "idle"
        /\ orders' \subseteq orders /\ left' = left \cap orders'
    BY <1>4 DEF CleanupFails
  <2> QED BY <1>a, <2>1
<1>5. CASE RecordApplied
  <2>1. /\ UNCHANGED <<published, orders, runtime>> /\ runtime # NoRuntime /\ pc' = "idle"
        /\ missed' = (applied' # runtime.version)
        /\ left' = left \ (IF missed' THEN {} ELSE Quoted(runtime.config))
    BY <1>0, <1>5 DEF TypeOK, RecordApplied
  <2>2. runtime.config = published[runtime.version] /\ runtime.version # 0
    BY <1>0, <2>1, NoRuntimeVersion DEF RunsWhatItReports, TypeOK
  <2>3. CASE missed'
    BY <1>0, <2>1, <2>3
  <2>4. CASE ~missed'
    <3>1. applied' = runtime.version /\ left' = left \ Quoted(runtime.config)
      BY <2>1, <2>4
    <3> QED BY <1>0, <2>1, <2>2, <3>1
  <2> QED BY <2>3, <2>4
<1>6. CASE RunOnce
  <2>1. /\ UNCHANGED <<published, applied, runtime, pc, missed>> /\ runtime # NoRuntime /\ pc = "idle"
        /\ left' = left \cap orders'
    BY <1>6 DEF RunOnce, Idle, Running
  <2>2. orders' \subseteq orders \cup Quoted(runtime.config)
    BY <1>0, <1>6, <2>1, TradablePlaces DEF RunOnce
  <2>3. runtime.config = published[runtime.version] /\ runtime.version # 0
    BY <1>0, <2>1, NoRuntimeVersion DEF RunsWhatItReports, TypeOK
  <2> QED BY <1>0, <2>1, <2>2, <2>3
<1>7. CASE RetryBlocked
  <2>1. /\ runtime \in Runtimes /\ runtime # NoRuntime
        /\ UNCHANGED <<published, applied, orders, pc, left, missed>>
    BY <1>0, <1>7 DEF TypeOK, RetryBlocked, Running
  <2>2. runtime'.version = runtime.version /\ runtime'.config = runtime.config
    BY <1>7, <2>1 DEF RetryBlocked, Runtimes
  <2> QED BY <1>0, <2>1, <2>2
<1>8. CASE Crash
  BY <1>8, <1>b, <1>c DEF Crash, Down
<1>9. CASE Shutdown
  BY <1>9, <1>b DEF Shutdown, Down, Reached
<1>10. ASSUME NEW c \in Configs, Publish(c) PROVE NoStrayOrders' /\ AppliedRuns' /\ WatchdogCovers'
  <2>1. /\ UNCHANGED <<applied, orders, runtime, pc, left, missed>>
        /\ \A v \in Versions : published'[v] = published[v]
    BY <1>0, <1>10, PublishEffect DEF Publish
  <2>2. applied # 0 => applied \in Versions
    BY <1>0 DEF TypeOK, Versions
  <2> QED BY <1>0, <2>1, <2>2
<1>11. CASE CancelAll \/ CancelFails
  <2>1. /\ UNCHANGED <<published, applied, runtime, pc, missed>>
        /\ orders' \subseteq orders /\ left' = left \cap orders'
    BY <1>11 DEF CancelAll, CancelFails, engineVars
  <2> QED BY <1>a, <2>1
<1>12. CASE UNCHANGED <<published, applied, orders, runtime, pc, left, missed>>
  BY <1>0, <1>12
<1> QED BY <1>0, <1>1, <1>2, <1>3, <1>4, <1>5, <1>6, <1>7, <1>8, <1>9, <1>10, <1>11, <1>12,
           LoadableVersions
        DEF WNext, EngineNext, Reload, BuildFails, Start, Beat, Lapse, Settle, UpdateCredential,
            WatchdogNext, LoadApplied, CheckShadow, BuildVenuesFails, CheckOnly, WatchdogRestart,
            allVars, vars

-----------------------------------------------------------------------------
(* Theorems.                                                               *)

(* The invariant behind the others: candidate, running configuration and   *)
(* recorded version agree with what was published, and the open orders     *)
(* with what the running one quotes, whatever fails or crashes.            *)
THEOREM WatchInvariant == Spec => []WatchInv
<1>1. WInit => WatchInv
  <2> SUFFICES ASSUME WInit PROVE WatchInv
    OBVIOUS
  <2>1. TypeOK
    <3>1. published \in Seq(Configs) /\ Len(published) = 0
      BY DEF WInit, Init
    <3>2. orders \subseteq Insts \X Places /\ left \subseteq orders /\ elusive \subseteq orders
      BY DEF WInit, Init
    <3>3. applied \in 0 .. Len(published) /\ checking \in 0 .. Len(published)
      BY <3>1 DEF WInit, Init
    <3>4. Len(published) <= MaxVersion
      BY <3>1, VersionAssumption
    <3> QED BY <3>1, <3>2, <3>3, <3>4 DEF WInit, Init, TypeOK
  <2>2. PendingMatches /\ RunsWhatItReports /\ NoStrayOrders /\ AppliedRuns /\ WatchdogCovers
    BY DEF WInit, Init, PendingMatches, RunsWhatItReports, NoStrayOrders, AppliedRuns, WatchdogCovers
  <2> QED BY <2>1, <2>2 DEF WatchInv
<1>2. WatchInv /\ [WNext]_allVars => WatchInv'
  BY TypeStep, ReportStep, CoverStep DEF WatchInv
<1> QED BY <1>1, <1>2, PTL DEF Spec

(* The engine works with the whole configuration of the version it         *)
(* reports, also after changes of tuning in place and loads that go back   *)
(* (ApplyParameters, configdiff.Build).                                    *)
THEOREM ReportsTruly == Spec => []RunsWhatItReports
<1>1. WatchInv => RunsWhatItReports
  BY DEF WatchInv
<1> QED BY <1>1, WatchInvariant, PTL

(* A switch leaves no order behind but those of blocked instruments, of    *)
(* markets where a cancellation is done without reaching every order, and  *)
(* of markets dropped while the engine was down (ApplyCleanup).            *)
THEOREM SwitchesLeaveNoStray == Spec => []NoStrayOrders
<1>1. WatchInv => NoStrayOrders
  BY DEF WatchInv
<1> QED BY <1>1, WatchInvariant, PTL

(* The version recorded for the watchdog covers every open order that is   *)
(* not left behind, between any two steps of engine and watchdog           *)
(* (SetAppliedVersion, loadApplied).                                       *)
THEOREM RecordCoversOrders == Spec => []WatchdogCovers
<1>1. WatchInv => WatchdogCovers
  BY DEF WatchInv
<1> QED BY <1>1, WatchInvariant, PTL
=============================================================================
