------------------------------ MODULE Scheduler ------------------------------
(***************************************************************************)
(* The main loop of the engine process: it polls the published             *)
(* configuration, applies a change of tuning in place, and for any other   *)
(* change builds a candidate runtime, checks it (Prepare), cancels what    *)
(* the new configuration no longer quotes (ApplyCleanup, with the old      *)
(* engine), switches and records the applied version.                      *)
(*                                                                         *)
(* One enabled venue.  A place is <<symbol, credential>>, what an order    *)
(* rests at; a change of the venue's connection is a change of every       *)
(* place.  An instrument without a market is one that is not configured.   *)
(* What the exchange rules say is left out, and with it their refresh.     *)
(* The tuning is that of strategies and simulation; the scalars of the     *)
(* loop and the fault thresholds, which ApplyParameters does not pass on   *)
(* to the fault manager, are left out.                                     *)
(* The orders of a market are one element of orders until a cancellation   *)
(* of all of them is acknowledged; that the exchange executes it later is  *)
(* Reconciler, as is the rest of the OMS.  The pause controls are          *)
(* InstrumentCycle, the leases MarketLease.                                *)
(* LoadActive is ConfigStore: here it returns the committed version or,    *)
(* while the database fails, any earlier one that Redis may hold.          *)
(***************************************************************************)
EXTENDS Integers, Sequences, FiniteSets

CONSTANTS
  Insts,        \* instruments
  Places,       \* pairs <<symbol, credential>>
  NoMarket,
  Configs,      \* configurations operators publish
  MaxVersion,   \* bound on published versions
  Flaky,        \* instruments whose rules or preflight may fail
  Slow,         \* instruments whose market the exchange lists and cancels late
  Revocable,    \* credentials an operator may disable
  Faults        \* which of "db", "redis", "cancel", "build", "rules" may fail

Config == [live: BOOLEAN, trading: BOOLEAN,
           market: [Insts -> Places \cup {NoMarket}], tuning: {0, 1}]

InstrumentsOf(c) == {i \in Insts : c.market[i] # NoMarket}

\* Validate, as far as the markets go.
Valid(c) == InstrumentsOf(c) # {}

ASSUME ConfigsAssumption == Configs \subseteq {c \in Config : Valid(c)}
ASSUME VersionAssumption == MaxVersion \in Nat
ASSUME PlacesAssumption == NoMarket \notin Places /\ \A p \in Places : p = <<p[1], p[2]>>

VARIABLES
  published,  \* the committed configurations, by version
  applied,    \* Redis: the version the engine recorded as applied, 0 if none
  disabled,   \* the credentials that are disabled
  orders,     \* <<instrument, place>> with open orders nobody has canceled
  elusive,    \* those a cancellation may report done without reaching every
              \* order: the OMS waits for an earlier batch of cancellations
              \* (any of its orders still listed) and sends none, or an order
              \* is neither listed yet nor known to the OMS that cancels
  up,         \* the engine process runs
  runtime,    \* runtime, activeVersion and activeRawConfig of the main loop
  pending,    \* pendingRuntime, pendingVersion and pendingPlan
  pc,         \* the call the main loop makes next
  alive,      \* heartbeat file and trading progress are recent
  \* history, read by the properties only
  left,       \* open orders whose market was dropped without being canceled:
              \* it was blocked, it was elusive, or no engine ran; until a
              \* configuration that quotes it is recorded
  missed      \* the last SetAppliedVersion was lost

vars == <<published, applied, disabled, orders, elusive, up, runtime, pending, pc, alive, left,
          missed>>

NoRuntime == [version |-> 0]

\* Where a configuration may place orders.
Quoted(c) == IF c.live /\ c.trading
               THEN {<<i, c.market[i]>> : i \in InstrumentsOf(c)} ELSE {}

-----------------------------------------------------------------------------
(* configdiff.Build                                                        *)

\* Altered form for mutation: a changed credential is not compared.
MustCancelSymbols(old, new) ==
  {i \in InstrumentsOf(old) :
     /\ old.live /\ old.trading
     /\ \/ ~new.trading
        \/ new.market[i] = NoMarket
        \/ new.market[i][1] # old.market[i][1]}

\* The markets whose orders a switch from old to new has to cancel.
MustCancel(old, new) ==
  {i \in InstrumentsOf(old) :
     /\ old.live /\ old.trading
     /\ ~new.trading \/ new.market[i] # old.market[i]}

Plan(old, new) == [all |-> old.live /\ ~new.live, targets |-> MustCancel(old, new)]

\* Altered form for mutation: only canceled orders make a change structural.
StructuralIfCancels(old, new) == Plan(old, new).all \/ Plan(old, new).targets # {}

\* Anything beyond strategy and simulation parameters needs a new runtime.
Structural(old, new) ==
  \/ Plan(old, new).all \/ Plan(old, new).targets # {}
  \/ old.live # new.live
  \/ \E i \in Insts : old.market[i] # new.market[i]
  \/ old.trading # new.trading /\ InstrumentsOf(old) \cap InstrumentsOf(new) # {}

-----------------------------------------------------------------------------
(* The runtime: its version, the configuration it works with and the       *)
(* preflight status of its instruments.                                    *)

Status == {"ready", "blocked"}
Blocked(r) == {i \in InstrumentsOf(r.config) : r.status[i] # "ready"}
Tradable(r) == {o \in Quoted(r.config) : o[1] \notin Blocked(r)}

\* reusableMarketRules: the previous runtime has the same symbol.
Reusable(i, c) ==
  /\ runtime # NoRuntime
  /\ i \in InstrumentsOf(runtime.config)
  /\ runtime.config.market[i][1] = c.market[i][1]

\* The instruments whose clients cannot be built: Resolve refuses a disabled credential.
Unbuilt(c) == {i \in InstrumentsOf(c) : c.market[i][2] \in disabled}

\* Those whose rules cannot be read; rules that are reused are not read.
Unread(c) ==
  IF "rules" \in Faults
    THEN SUBSET {i \in InstrumentsOf(c) \cap Flaky : ~Reusable(i, c)} ELSE {{}}

\* BuildRuntimeCandidate and the plan of the switch to it.
Candidates(v) ==
  LET c == published[v]
  IN {[version |-> v, config |-> c,
       status |-> [i \in Insts |-> IF i \in Unbuilt(c) \cup unread THEN "blocked" ELSE "ready"],
       plan |-> IF runtime = NoRuntime THEN [all |-> FALSE, targets |-> {}]
                                       ELSE Plan(runtime.config, c)] :
        unread \in Unread(c)}

\* Prepare: startup failures stay, any other instrument passes or is blocked.
Prepared(r) ==
  {[r EXCEPT !.status = [i \in Insts |-> IF i \in failed /\ r.status[i] = "ready"
                                          THEN "blocked" ELSE r.status[i]]] :
     failed \in SUBSET (InstrumentsOf(r.config) \cap Flaky)}

Ready(r) == Blocked(r) # InstrumentsOf(r.config)

-----------------------------------------------------------------------------
(* One pass of the main loop.                                              *)

Running == up /\ runtime # NoRuntime
Idle == up /\ pc = "idle"

\* The versions LoadActive may return.
Loadable == IF "db" \in Faults THEN 1 .. Len(published) ELSE {Len(published)} \ {0}

\* No more than tuning differs between the published configurations.
HotChange(v) ==
  /\ Running
  /\ ~Structural(published[runtime.version], published[v])

\* Altered form for mutation: activeVersion is not updated.
ApplyParametersKeepsVersion(v) ==
  /\ Idle
  /\ v # runtime.version
  /\ HotChange(v)
  /\ runtime' = [runtime EXCEPT !.config.tuning = published[v].tuning]
  /\ pending' = NoRuntime
  /\ pc' = "record"
  /\ UNCHANGED <<published, applied, disabled, orders, elusive, up, alive, left, missed>>

\* ApplyParameters: the running configuration keeps all but its tuning.
ApplyParameters(v) ==
  /\ Idle
  /\ v # runtime.version
  /\ HotChange(v)
  /\ runtime' = [runtime EXCEPT !.version = v, !.config.tuning = published[v].tuning]
  /\ pending' = NoRuntime
  /\ pc' = "record"
  /\ UNCHANGED <<published, applied, disabled, orders, elusive, up, alive, left, missed>>

(* A candidate is built unless one for this version is pending, then       *)
(* checked.  With no instrument ready it is dropped, or kept while its     *)
(* price reference warms up.  A change of tuning comes here too when the   *)
(* rules synced into the markets that activeRawConfig shares with the      *)
(* runtime make it look structural.                                        *)
PrepareCandidate(v) ==
  \E built \in IF pending.version = v THEN {pending} ELSE Candidates(v) :
  \E r \in Prepared(built) :
    /\ Idle
    /\ v # runtime.version
    /\ \/ Ready(r) /\ pending' = r /\ pc' = "cleanup"
       \/ ~Ready(r) /\ pending' \in {built, NoRuntime} /\ pc' = "idle"
    /\ UNCHANGED <<published, applied, disabled, orders, elusive, up, runtime, alive, left, missed>>

\* The configuration is refused before a candidate exists.
BuildFails(v) ==
  /\ Idle
  /\ "build" \in Faults
  /\ v # runtime.version /\ pending.version # v
  /\ pending' = NoRuntime
  /\ UNCHANGED <<published, applied, disabled, orders, elusive, up, runtime, pc, alive, left,
                 missed>>

(* What a cancellation of these markets that reports success has reached.  *)
(* Acknowledged orders are taken as canceled, those of another order       *)
(* management or of an earlier batch are not.                              *)
Reached(targets) == {K \in SUBSET targets : targets \ elusive \subseteq K}

\* The open orders a cleanup is about, and those it passes over.
InPlan(o) == pending.plan.all \/ o[1] \in pending.plan.targets
CleanupTargets == IF runtime = NoRuntime THEN {} ELSE {o \in Tradable(runtime) : InPlan(o)}
Skipped ==
  IF runtime = NoRuntime
    THEN orders \ Quoted(pending.config)
    ELSE {o \in orders \cap (Quoted(runtime.config) \ Tradable(runtime)) : InPlan(o)}

Switch ==
  /\ runtime' = [version |-> pending.version, config |-> pending.config, status |-> pending.status]
  /\ pending' = NoRuntime
  /\ pc' = "record"

\* ApplyCleanup succeeds if no market it attempts reports an error.
CleanupSucceeds ==
  /\ up /\ pc = "cleanup"
  /\ \E K \in Reached(CleanupTargets) : orders' = orders \ K
  /\ elusive' = elusive \cap orders'
  /\ left' = (left \cup Skipped \cup (CleanupTargets \cap elusive)) \cap orders'
  /\ Switch
  /\ UNCHANGED <<published, applied, disabled, up, alive, missed>>

\* Altered form for mutation: a failed cleanup is only logged.
CleanupFailsSwitches ==
  /\ up /\ pc = "cleanup" /\ "cancel" \in Faults
  /\ runtime # NoRuntime
  /\ pending.plan.all \/ CleanupTargets # {}
  /\ \E K \in SUBSET CleanupTargets : orders' = orders \ K
  /\ elusive' = elusive \cap orders'
  /\ left' = (left \cup Skipped) \cap orders'
  /\ Switch
  /\ UNCHANGED <<published, applied, disabled, up, alive, missed>>

\* The old runtime stays, and the candidate is tried again at the next poll.
CleanupFails ==
  /\ up /\ pc = "cleanup" /\ "cancel" \in Faults
  /\ runtime # NoRuntime
  /\ pending.plan.all \/ CleanupTargets # {}
  /\ \E K \in SUBSET CleanupTargets : orders' = orders \ K
  /\ elusive' = elusive \cap orders'
  /\ left' = left \cap orders'
  /\ pc' = "idle"
  /\ UNCHANGED <<published, applied, disabled, up, runtime, pending, alive, missed>>

\* SetAppliedVersion: its error is logged, whether or not the write arrived.
RecordApplied ==
  /\ up /\ pc = "record"
  /\ applied' \in {runtime.version} \cup (IF "redis" \in Faults THEN {applied} ELSE {})
  /\ missed' = (applied' # runtime.version)
  /\ left' = left \ (IF missed' THEN {} ELSE Quoted(runtime.config))
  /\ pc' = "idle"
  /\ UNCHANGED <<published, disabled, orders, elusive, up, runtime, pending, alive>>

\* A cycle places, keeps or cancels the orders of the instruments that are ready.
RunOnce ==
  /\ Idle /\ Running
  /\ \E S \in SUBSET Tradable(runtime) :
       /\ orders' = (orders \ Tradable(runtime)) \cup S
       /\ \E late \in SUBSET {o \in S : o[1] \in Slow} :
            elusive' = (elusive \ Tradable(runtime)) \cup late
  /\ left' = left \cap orders'
  /\ UNCHANGED <<published, applied, disabled, up, runtime, pending, pc, alive, missed>>

(* Blocked instruments read their rules and are checked again; some pass.  *)
(* That one without a client never does is not kept: it may pass here.     *)
RetryBlocked ==
  /\ Idle /\ Running
  /\ \E recovered \in SUBSET Blocked(runtime) :
       runtime' = [runtime EXCEPT
                     !.status = [i \in Insts |-> IF i \in recovered THEN "ready" ELSE @[i]]]
  /\ UNCHANGED <<published, applied, disabled, orders, elusive, up, pending, pc, alive, left,
                 missed>>

-----------------------------------------------------------------------------
(* The life of the process.                                                *)

Down ==
  /\ up' = FALSE
  /\ runtime' = NoRuntime
  /\ pending' = NoRuntime
  /\ pc' = "idle"

Crash == up /\ Down /\ UNCHANGED <<published, applied, disabled, orders, elusive, alive, left,
                                   missed>>

\* Shutdown cancels what it can; the process ends either way.
Shutdown ==
  /\ Idle /\ Running
  /\ \E K \in IF "cancel" \in Faults THEN SUBSET Tradable(runtime)
                                     ELSE Reached(Tradable(runtime)) :
       orders' = orders \ K
  /\ elusive' = elusive \cap orders'
  /\ left' = left \cap orders'
  /\ Down
  /\ UNCHANGED <<published, applied, disabled, alive, missed>>

\* The supervisor starts the process again.
Start ==
  /\ ~up
  /\ up' = TRUE
  /\ UNCHANGED <<published, applied, disabled, orders, elusive, runtime, pending, pc, alive,
                 left, missed>>

\* The publisher touches the heartbeat file while there is a runtime.
Beat ==
  /\ Running
  /\ alive' = TRUE
  /\ UNCHANGED <<published, applied, disabled, orders, elusive, up, runtime, pending, pc, left,
                 missed>>

\* Time passes without a heartbeat, or without progress of the cycle.
Lapse ==
  /\ alive
  /\ alive' = FALSE
  /\ UNCHANGED <<published, applied, disabled, orders, elusive, up, runtime, pending, pc, left,
                 missed>>

\* The exchange lists the orders of a market, or has executed the batch awaited there.
Settle(o) ==
  /\ elusive' = elusive \ {o}
  /\ UNCHANGED <<published, applied, disabled, orders, up, runtime, pending, pc, alive, left,
                 missed>>

\* An operator disables a credential or enables it; clients in use keep their keys.
UpdateCredential(k) ==
  /\ disabled' = IF k \in disabled THEN disabled \ {k} ELSE disabled \cup {k}
  /\ UNCHANGED <<published, applied, orders, elusive, up, runtime, pending, pc, alive, left,
                 missed>>

\* An operator commits a configuration.
Publish(c) ==
  /\ Len(published) < MaxVersion
  /\ published' = Append(published, c)
  /\ UNCHANGED <<applied, disabled, orders, elusive, up, runtime, pending, pc, alive, left, missed>>

Init ==
  /\ published = <<>>
  /\ applied = 0
  /\ disabled = {}
  /\ orders = {}
  /\ elusive = {}
  /\ up = TRUE
  /\ runtime = NoRuntime
  /\ pending = NoRuntime
  /\ pc = "idle"
  /\ alive = TRUE
  /\ left = {}
  /\ missed = FALSE

Reload == \E v \in Loadable : ApplyParameters(v) \/ PrepareCandidate(v) \/ BuildFails(v)

EngineNext ==
  \/ Reload \/ CleanupSucceeds \/ CleanupFails \/ RecordApplied
  \/ RunOnce \/ RetryBlocked
  \/ Crash \/ Shutdown \/ Start \/ Beat \/ Lapse
  \/ \E c \in Configs : Publish(c)
  \/ \E o \in elusive : Settle(o)
  \/ \E k \in Revocable : UpdateCredential(k)

=============================================================================
