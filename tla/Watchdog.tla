------------------------------- MODULE Watchdog -------------------------------
(***************************************************************************)
(* The watchdog process beside the engine (Scheduler).  Each pass reads    *)
(* the version the engine recorded as applied and its configuration, then  *)
(* looks at heartbeat and trading progress.  The first stale pass of an    *)
(* episode cancels every market of that configuration, with an order       *)
(* management and clients of its own, outside the leases; it has no record *)
(* of orders the exchange does not list yet.  A failure, also that of one  *)
(* client, ends the process; the supervisor starts it again, with no       *)
(* episode.                                                                *)
(***************************************************************************)
EXTENDS Scheduler

VARIABLES
  checking,  \* the version whose configuration this pass has read, 0 between passes
  episode    \* episodeActive

wvars == <<checking, episode>>
allVars == <<vars, wvars>>

engineVars == <<published, applied, disabled, up, runtime, pending, pc, alive, missed>>

(* Before the first applied version is recorded, and when it cannot be     *)
(* read, the active one is taken.                                          *)
LoadApplied ==
  /\ checking = 0
  /\ checking' \in (IF applied > 0 THEN {applied} ELSE {})
                    \cup (IF applied = 0 \/ "redis" \in Faults THEN Loadable ELSE {})
  /\ UNCHANGED <<vars, episode>>

\* A configuration in shadow mode has nothing to protect.
CheckShadow ==
  /\ checking > 0
  /\ ~published[checking].live
  /\ checking' = 0
  /\ UNCHANGED <<vars, episode>>

CheckLive == checking > 0 /\ published[checking].live

\* BuildVenues wants the client of every market; run returns before anything is canceled.
BuildVenuesFails ==
  /\ CheckLive /\ ~alive /\ ~episode
  /\ Unbuilt(published[checking]) # {}
  /\ checking' = 0
  /\ UNCHANGED <<vars, episode>>

CancelDue == CheckLive /\ ~alive /\ ~episode /\ Unbuilt(published[checking]) = {}

\* Altered form for mutation: the episode begins before its cancellation succeeded.
CancelFailsInEpisode ==
  /\ CancelDue
  /\ "cancel" \in Faults
  /\ \E K \in SUBSET Quoted(published[checking]) : orders' = orders \ K
  /\ elusive' = elusive \cap orders'
  /\ left' = left \cap orders'
  /\ checking' = 0
  /\ episode' = TRUE
  /\ UNCHANGED engineVars

\* cancelAll fails, after any of its cancellations; run returns.
CancelFails ==
  /\ CancelDue
  /\ "cancel" \in Faults
  /\ \E K \in SUBSET Quoted(published[checking]) : orders' = orders \ K
  /\ elusive' = elusive \cap orders'
  /\ left' = left \cap orders'
  /\ checking' = 0
  /\ episode' = FALSE
  /\ UNCHANGED engineVars

\* Every market acknowledged the cancellation of the orders it lists.
CancelAll ==
  /\ CancelDue
  /\ \E K \in Reached(Quoted(published[checking])) : orders' = orders \ K
  /\ elusive' = elusive \cap orders'
  /\ left' = left \cap orders'
  /\ checking' = 0
  /\ episode' = TRUE
  /\ UNCHANGED engineVars

\* A stale pass inside an episode, and a healthy one.
CheckOnly ==
  /\ CheckLive
  /\ alive \/ episode
  /\ checking' = 0
  /\ episode' = ~alive
  /\ UNCHANGED vars

WatchdogRestart ==
  /\ checking' = 0
  /\ episode' = FALSE
  /\ UNCHANGED vars

WatchdogNext ==
  \/ LoadApplied \/ CheckShadow \/ BuildVenuesFails \/ CancelAll \/ CancelFails \/ CheckOnly
  \/ WatchdogRestart

WInit == Init /\ checking = 0 /\ episode = FALSE
WNext == (EngineNext /\ UNCHANGED wvars) \/ WatchdogNext

Latest == Len(published)

\* A poll that applies the active version in place, or has its candidate ready.
ReloadLatest ==
  /\ UNCHANGED wvars
  /\ Idle /\ Latest > 0
  /\ ApplyParameters(Latest) \/ (pc' = "cleanup" /\ PrepareCandidate(Latest))

\* A poll that drops the candidate for the active version.
DropLatest ==
  /\ UNCHANGED wvars
  /\ Idle /\ Latest > 0
  /\ pending' = NoRuntime /\ PrepareCandidate(Latest)

(* The loop polls the configuration for ever, an exchange whose checks and *)
(* cancellations fail does not always fail, and no price reference warms   *)
(* up for ever.  The watchdog passes for ever, an exchange it can reach    *)
(* with working credentials does not always fail, and a heartbeat nobody   *)
(* renews becomes stale.  Nothing is assumed of the restart of the engine  *)
(* nor of disabled credentials.                                            *)
Fairness ==
  /\ SF_allVars(ReloadLatest)
  /\ SF_allVars(DropLatest)
  /\ SF_allVars(CleanupSucceeds /\ runtime'.version = Latest /\ UNCHANGED wvars)
  /\ WF_allVars((CleanupSucceeds \/ RecordApplied) /\ UNCHANGED wvars)
  /\ WF_allVars(~up /\ Lapse /\ UNCHANGED wvars)
  /\ WF_allVars(LoadApplied \/ CheckOnly)
  /\ SF_allVars(CancelAll)

Spec == WInit /\ [][WNext]_allVars /\ Fairness

-----------------------------------------------------------------------------
Versions == 1 .. Len(published)
Runtimes == [version: Versions, config: Config, status: [Insts -> Status]]
Plans == [all: BOOLEAN, targets: SUBSET Insts]
Prospects == [version: Versions, config: Config, status: [Insts -> Status], plan: Plans]

TypeOK ==
  /\ published \in Seq(Configs) /\ Len(published) <= MaxVersion
  /\ applied \in 0 .. Len(published)
  /\ disabled \subseteq Revocable
  /\ orders \subseteq Insts \X Places
  /\ elusive \subseteq orders
  /\ up \in BOOLEAN /\ alive \in BOOLEAN /\ missed \in BOOLEAN /\ episode \in BOOLEAN
  /\ runtime \in Runtimes \cup {NoRuntime} /\ pending \in Prospects \cup {NoRuntime}
  /\ pc \in {"idle", "cleanup", "record"}
  /\ pc = "cleanup" => pending # NoRuntime
  /\ pc = "record" => runtime # NoRuntime
  /\ left \subseteq orders
  /\ checking \in 0 .. Len(published)

(* The engine works with the markets and strategies of the version it      *)
(* reports, though a change in place copies the strategies only and loads  *)
(* may go back (configdiff.Build, ApplyParameters).                        *)
RunsWhatItReports == runtime # NoRuntime => runtime.config = published[runtime.version]

(* A switch leaves no order behind: an order nobody has canceled rests in  *)
(* a market the running configuration quotes, unless at the switch its     *)
(* instrument was blocked at preflight, or an earlier batch was awaited or *)
(* an order not known there, or its market was dropped from the            *)
(* configuration while the engine was down (ApplyCleanup, CancelMarket).   *)
NoStrayOrders == runtime # NoRuntime => orders \subseteq Quoted(runtime.config) \cup left

(* The watchdog would look at every market with such an order: it is in    *)
(* the configuration recorded as applied, or left behind as above, or the  *)
(* record of the last switch was lost.                                     *)
WatchdogCovers ==
  ~missed => orders \subseteq (IF applied = 0 THEN {} ELSE Quoted(published[applied])) \cup left

(* A published configuration comes into force though checks, cleanups and  *)
(* loads fail again and again, once the process stays up and one of its    *)
(* instruments has a credential that works.                                *)
Buildable == Latest > 0 => Unbuilt(published[Latest]) # InstrumentsOf(published[Latest])
PublishedApplied == <>[](up /\ Buildable) => []<>(runtime.version = Latest)

(* Once the engine is down and the exchange lists its orders, those of the *)
(* recorded configuration are canceled unless the engine returns, one of   *)
(* the configuration's credentials is disabled, or a pass works with       *)
(* another version, as after a Redis error: that pass opens the episode    *)
(* without these orders.  An open episode promises nothing either.         *)
Protected == applied > 0 /\ orders \cap Quoted(published[applied]) # {}
Misled == checking \notin {0, applied}
Locked == applied > 0 /\ Unbuilt(published[applied]) # {}
EngineDeathCleared ==
  (~up /\ ~episode /\ ~Misled /\ elusive = {}) ~> (up \/ ~Protected \/ Misled \/ Locked)
=============================================================================
