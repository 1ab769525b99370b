# FluxMaker: TLA+ models, checks and proofs

FluxMaker quotes both sides of spot markets around an external reference price.
One Go process (`cmd/fluxmaker`) runs the engine, a second one (`cmd/watchdog`)
cancels orders when the first goes silent, a third serves the admin API; they
meet in PostgreSQL (configuration, users, credentials) and Redis (leases, pause
and reconcile requests, fault and OMS state, snapshots). `java/` holds a port of
the same services; the Go code is the reference of this project.

## Inventory

| Component | State | Operations | Hard behaviour | What makes it correct |
|---|---|---|---|---|
| Fault manager (`internal/fault`) | per market: status, failure and success counts, in memory and Redis | `Failure`, `Healthy`, `Reset`, load, persist | restarts, lost or late writes, counts across processes | a market that failed does not quote until its orders were canceled and recovery was observed |
| Market lease (`runtimeops`, `engine`) | lease key with expiry, generation counter, `heldLeases` | acquire, renew, validate, release | two engines, expiry during an operation, check before write | generations fence, nobody loses a lease except by expiry |
| OMS (`internal/oms`) | pending creations, pending cancellations, block; in memory and Redis | `ReconcileWithOrdersGuardedPolicy`, `CancelManagedGuardedWithResult`, `ClearBlocked` | late visibility, late cancellation, unknown results, partial batches, crashes | no overfill, no level twice, blocks hold, the book converges |
| Engine cycle (`internal/engine`) | last inventory, last valid reference, pause maps, preflight blocks | `RunOnce`, `runInstrument`, `markVenueFailure`, `Shutdown` | worker pool, one market's failure must not touch another's | every failed stage ends in the fault manager and, if demanded, in a cancellation |
| Controls (`engine`, `runtimeops`) | pause and reconcile requests, `pauseApplied` | `ApplyControls`, `clearInstrumentBlocks`, `runPausedInstrument` | requests racing cycles, half-done clears | a paused instrument places nothing; a pause is confirmed only when its orders are gone |
| Scheduler and hot reload (`cmd/fluxmaker`, `app`, `configdiff`) | active, pending and applied versions, runtime, preflight blocks | reload, build, prepare, cleanup, switch, record, retry, shutdown | failing cleanup, blocked markets, crash between switch and record, loads that go back | what runs is what is reported, no order is left behind unnoticed, a published configuration comes into force |
| Account locks and balance cache (`engine`) | mutex per account, balances per round | worker pool, `lockInstrumentAccounts`, `fetch`, budget | circular wait, one balance spent twice, panics under locks | locks in one order, one lookup per account, rounds end |
| Configuration store (`configstore`) | draft, snapshots, Redis copy | `SaveActive`, `LoadActive`, `LoadVersion` | late, lost or overtaken copies, failing database | the copy is repaired; loads go back only when the database fails |
| Oracle (`oracle/pancakev2`) | cumulative snapshot per pair, cached block | `Price`, `readLeg`, `readPair`, `LatestBlock` | lagging nodes, readers sharing a pair, 32-bit clocks, warm-up | a ready price is the true average of a recent stretch |
| Strategy and risk (`strategy`, `risk`, `config`, `num`) | none | `GenerateAt`, `FilterQuotes`, order limit, budget | rounding, jitter against order, limits that hardly meet | post-only ladders, no refusal of the own ladder, a stable budget |
| Watchdog (`cmd/watchdog`, `heartbeat`) | `episodeActive` | load, stale check, cancel all | failing in an episode, restarts, unreadable applied version | a dead engine's orders are canceled |
| Admin API (`adminapi`) | none of its own | draft, controls, users, roles | overlapping saves | nobody writes outside his scope |
| Audit, sessions, adapters, simulation, Java port | queues, caches | see source | wire formats, file I/O | not modelled, see below |

The engine calls the oracle, strategy and risk, then asks the fault manager
whether it may quote, acquires the lease of the market and calls the OMS, which
checks the lease through its write guard before every placement and every batch
of cancellations. On an error the
engine reports to the fault manager and cancels through the OMS. Operators act
through Redis: the engine polls their requests. The watchdog cancels on its own,
without a lease.

## Modules

| Module | Models | Notes |
|---|---|---|
| `FaultManager` | `internal/fault/manager.go` and its Redis key | one market; one action per method |
| `FaultManagerProofs` | | inductive invariant and theorems |
| `FencedLock` | | abstract: a lock with fencing tokens |
| `MarketLease` | the Lua scripts and the lease functions of the engine | many engines, one market |
| `MarketLeaseProofs` | | inductive invariant, theorems, refinement of `FencedLock` |
| `Reconciler` | `internal/oms/reconciler.go`, `internal/venue/batch.go`, the exchange as the OMS sees it | one market |
| `ReconcilerProofs` | | inductive invariant and theorems |
| `InstrumentCycle` | `ApplyControls`, `runInstrument` and the hot swap over `FaultManager` and `Reconciler` | one market, one engine |
| `Scheduler` | main loop, `BuildRuntimeCandidate`, `Prepare`, `configdiff.Build`, `ApplyCleanup`, `RetryBlocked`, `Shutdown` | one venue, several instruments |
| `Watchdog` | `cmd/watchdog`, beside `Scheduler` | extends it; specification and properties of both |
| `WatchdogProofs` | | inductive invariant and theorems about engine and watchdog together |
| `ConfigStore` | `internal/configstore` | PostgreSQL and the copy in Redis |
| `ConfigEditing` | draft handlers of the admin API over `ConfigStore` | several editors and loaders |
| `ConfigEditingProofs` | | inductive invariant and theorems |
| `AccountRound` | `RunOnce`, account locks, `balanceCache`, budget | several workers, instruments and accounts |
| `AccountRoundProofs` | | inductive invariant and theorems |
| `Oracle` | `oracle.go`, `LatestBlock` of `rpc.go` | several readers and pairs |
| `OracleProofs` | | inductive invariant and theorems |
| `QuoteLadder` | `quote.go`, `risk.go`, `market.go`, `budget.go`, rounding, validation of their parameters | one market, one cycle after another |
| `QuoteLadderProofs` | | inductive invariant and theorems |
| `MC...` | | values for TLC |

**FaultManager.** `mem`, `loaded`, `persisted` are the maps of `Manager` for one
key, `disk` the Redis value. Every method loads first (`ViewState`), computes the
new state (`AfterFailure`, `AfterHealthy`) and persists it; a write is done,
lost, or done and reported as failed. `decision` is the last answer to the
engine. `owed`, `streak`, `sinceFail` and `ackFails` are history: what the
acknowledged failures so far oblige the manager to, counted independently of its
own fields.

**MarketLease.** `lease` and `generation` are the two Redis keys, changed only by
the scripts and by `Tick`. An engine's operation goes through `phase`:
acquired, working (renewal goroutine running), checked (the guard passed and
`unsent` requests of the batch behind it are still to be sent). One check covers
a placement or a batch of up to `maxBatchCancelSize` cancellations (`MaxBatch`,
20 in the code), which the Binance client sends as single requests. `Write` is
one of them; the exchange executes it whatever the lease says. The five workers
that send a batch are an order of its requests. `lapsed`, `maxWrite` and
`staleWrites` are history.

**Reconciler.** `ord` is the exchange: an accepted order is *hidden* until
`Appear`, and a canceled one stays until `CancelDone`. `snap` is the list the
engine read at the start of the cycle (`ReadOrders`), used later by one of the
`Reconcile...` actions; the exchange moves in between. `mem` holds the block, the
batch of cancellations (which may be present and empty: `hasBatch`) and the
pending creations with their quotes; `disk` is the copy in Redis, without an
empty batch, as `persist` writes it. Clock readings are choices (`due`, the
looked-up creations, the refreshed orders). A call is one step, since one
goroutine works on a market; a crash inside a call leaves what a call with lost
writes followed by a crash leaves. `Expire` is the end of the seven days
`SaveOMSState` gives the stored copy: block, batch and pending creations are then
known to a process that has them in memory only. `Faults` names what may go wrong, so that a run
can leave faults out.

**InstrumentCycle.** Composes `F == INSTANCE FaultManager` and
`R == INSTANCE Reconciler`, whose actions are the calls the engine makes; `pc`
names the next call of the poll or cycle in progress, because operators and the
exchange act between any two of them. `ReconcileSucceeds`/`ReconcileFails` and
`CancelSucceeds`/`CancelFails` split the OMS calls by the error the engine tests.
`paused` and `applied` are the engine's maps, lost with it; `want` and `request`
are the controls in Redis. `Swap` replaces the engine between two calls
and keeps the poll timer, so a cycle may come first; after `Crash` the main loop
polls first, unless the poll fails. The lease appears only as a refusal: its
guarantees are those of `MarketLease`.

**Scheduler.** `runtime` is runtime, active version and its raw configuration in
one record, `pending` the candidate with its plan, `pc` the call the loop makes
next: between the cleanup, the switch and the record of the applied version the
process may die and time may pass. A place is what an order rests at (symbol and
credential); `orders` has one element per market with open managed orders nobody
has canceled, so a cycle (`RunOnce`) may place, keep or cancel those of the
instruments that are ready. An acknowledged cancellation counts as done, since
what the exchange does with it is `Reconciler`. `elusive` are the markets where a
cancellation may report success without reaching every order: an earlier batch is
awaited and nothing is sent (`reconciler.go:470-479`), or an order is neither
listed nor known to the OMS that cancels. What a successful cancellation removes
is therefore a choice (`Reached`) that leaves only such orders; `Settle` is the
exchange catching up. `disabled` are the credentials `Resolve` refuses: the engine
isolates their instruments (`Unbuilt`), clients in use go on. `Loadable` is what
`LoadActive` may return: while the database fails, any earlier version. A change
of tuning is applied in place, or takes the way of a structural change: the raw
configuration the loop compares with shares its maps with the one the runtime
fills with synced rules. `left` and `missed` are history: markets dropped with
orders nobody canceled, and a lost record.

**Watchdog.** One pass is a load and a check, with the engine acting between
them. It cancels outside the leases, from the version it read, with clients and
an OMS of its own. `BuildVenues` fails as a whole if one credential of that
version is disabled (`BuildVenuesFails`). It and `CancelFails` end the process,
which is started again without an episode. The OMS has no stored state, so orders
not yet listed are missed.

**ConfigStore** and **ConfigEditing.** A load is two reads (version, then copy or
payload), a save is a merge, a transaction and a write of the copy, each
interleaved with those of others. `version` remembers which snapshot a save was
merged into, which tells overlapping saves apart.

**AccountRound.** A worker takes an instrument, its locks one by one, its
balances from the cache or the exchange, and quotes on each account. One asset
and orders of one unit are enough to spend a balance twice. `Quote` places any
number of eligible orders the vacancies of both sides admit, beside orders of
earlier rounds that match nothing and stay open, so a market may lock more than
its budget for a while; `Release` is the execution of a cancellation, at any
time. A panic may come anywhere between locking and releasing.

**Oracle.** The chain is kept block by block, so that the average a TWAP claims
can be compared with the second-by-second worth of the pair (`Worth`, a sum over
the blocks that shares nothing with the cumulative price the code reads). A reader works at
one block while others move the shared snapshots on, or back. Each reader has its
own window, as each instrument has in the configuration.

**QuoteLadder.** One action per stage of `runInstrument`, and one per level of
the ladder, because each level depends on the one before. Hash-based jitter and
order sizes are any value of their range; `Bps` replaces 10000 so that small
prices show every rounding. `QuantizeDown` panics below zero, which the engine
recovers from per instrument: phase `panic`.

Every module defines a type invariant `TypeOK`. The run `fault` checks it; where
a module has proofs it is part of the inductive invariant and proved with it.

## Runs

| Run | Bounds | Shows |
|---|---|---|
| `fault` | thresholds 3 and 3, the failure count stops at 4 | `TypeOK`, `NoQuoteWhileOwed`, `RecoveryObserved`, `CancelDemanded`, `ThresholdAcrossRestarts` with every Redis outcome and restarts anywhere. The counts matter only up to the thresholds. |
| `lease` | 2 engines, lifetime 2 ticks, 3 generations, batches of up to 2 requests | fencing invariants, at most the rest of one batch sent after a takeover (`StaleWriteBounded`), the end of a dead owner's lease, refinement of `FencedLock`. Three generations allow a takeover and a return. |
| `oms` | 1 level, 2 orders, 2 attempts, all faults | tracking of hidden orders, no overfill and the block, across crashes, lost writes and expiry, with replacements and refreshes. |
| `oms_batches` | 2 levels or 1, 3 orders, batches of 2, lost writes and crashes | no level submitted twice, with batches saved in part. |
| `oms_quiet` | 2 levels, 4 orders, batches of 1, fairness | convergence from every book of up to two orders. |
| `cycle` | 1 order, thresholds 1, emergency pauses, lost and late Redis calls, expiry, crashes and swaps | `QuotesOnlyWhenClear`: fault state, block and pause gate every submission together. |
| `cycle_live` | 1 order, thresholds 2, crashes and swaps, fairness | an emergency pause is applied, a request worked off, a market under a forced fault emptied, once the engine stays. |
| `hot_reload` | 2 instruments, 2 places, 3 configurations, 2 versions, every fault, one instrument that is flaky and slow (`Flaky`, `Slow`), one credential that may be disabled (`Revocable`), watchdog | `RunsWhatItReports`, `NoStrayOrders`, `WatchdogCovers`; under fairness `PublishedApplied` and `EngineDeathCleared`. Two versions are one switch in each direction (a load may go back), over a change in place (a configuration published again), a dropped and a moved market and shadow mode. One slow instrument and one credential suffice for a cancellation that misses orders and a pass that fails beside ones that do not. |
| `config` | 2 keys, 2 values, 3 versions, 2 editors, 2 loaders, database and Redis failing, copy expiring | `ScopeRespected`, `LoadsForward`, `CacheConverges`. Two saves can overlap each other and a load. |
| `accounts` | 2 workers, 3 instruments, 3 accounts, two of them shared by two instruments | `NoLockCycle`, `SingleLookup`, `BudgetCovered`, `RoundEnds`. A circle needs two workers and two accounts; two levels let stale and new orders coexist. |
| `oracle` | 2 readers with windows 3 and 2, 2 pairs, 5 blocks, lag 1, a clock that wraps in between | `TwapIsAverage`, `HighConfidenceRecent`: windows that end, restart and overlap. |
| `ladder` | 3 levels, 4 reference prices, 7 books, 4 inventories | `PostOnlyLadder`, `RiskAgrees`, `BudgetStable`, `RefreshBounded`, with books that clamp, skews that panic and sizes that do not fit. Its two deep levels refresh in groups of one; uneven groups are the theorem's. |

One order is enough in `cycle`: the gates are about whether anything is
submitted, and what happens among several orders is the subject of the `oms`
runs. A soft pause closes the same gate as an emergency one and is left to
`cycle_live`. The properties of `cycle_live` start when nothing new is placed, or hold
whatever is placed.

`oms` and `oms_batches` use symmetry over order ids, which are only compared.
An id is reused when nothing refers to it any more, so a few ids stand for an
unlimited supply; with all of them in use the exchange accepts nothing, which is
the bound on orders in play.

**What the invariants exclude.** `NoOverfill` does not count orders whose
acceptance was never recorded (`orphans`: unknown submissions, unsaved records
lost in a crash) nor orders canceled before they were listed (`doomed`): the code
cannot know them and converges only after they are listed. Both sets are small
and explicit, and `HiddenOrdersTracked` says that no other order escapes.
`BlockHolds` excuses two cases: a crash after the save of the block failed
(`block` ignores that error), and the expiry of the stored state together with
the loss of memory. Orders forgotten by expiry become `orphans`. `NoStrayOrders`
and `WatchdogCovers` excuse `left`: `CancelMarket` passes over instruments blocked
at preflight, it reports success for a market whose earlier batch is awaited or
whose orders are not all known, and a process that starts has no old runtime to
clean up after; the orders stay excused until a configuration that quotes them is
recorded. `WatchdogCovers` also excuses a lost
record (`missed`) until the next one. `EngineDeathCleared` excuses a pass that
works with another version than the recorded one (`Misled`): `AppliedVersion`
returns 0 on a Redis error, so the pass may open the episode without the orders
at stake. It also excuses a disabled credential of the recorded configuration
(`Locked`), with which every pass fails, and starts once the exchange lists the
orders (`elusive = {}`). `ScopeRespected` excuses a save that another one overtook between its
merge and its transaction. `BudgetCovered` excuses an account on which another
instrument had its turn since the balance was read, which is the double spend
listed below.

**Fairness.** `OrphanedLeaseEnds` assumes that Redis' clock runs
(`WF(Tick)`), nothing of the engines. `Converges` assumes that the main loop goes
on (`WF(ReadOrders)`, `WF(Reconcile)`: `cmd/fluxmaker/main.go` runs a cycle
whenever one is due), that the exchange lists what it accepted and completes what
it acknowledged. It is stated for a quiet market: no operator cancels, the target
is fixed and the process stays up; otherwise the book has nothing to converge to.
`FairSpec` of `InstrumentCycle` assumes that a call ends (`WF(Proceed)`: every
call has a timeout) and that polls and cycles recur (`SF(Poll)`,
`SF(StartCycle)`: each has its own timer in the main loop, and each disables the
other while it runs); whether a cycle fails is left open. Its properties are
conditional on `Settles`, an engine that is eventually not replaced any more.
With an exchange so slow that every cancellation outlives its retry delay
(`"slow"`), `RequestHonoured` does not hold: each poll may then meet a batch that
was given up. In `hot_reload` the loop polls for ever, and an exchange whose
checks and cancellations fail does not always fail (`SF` on the successful
outcomes for the latest version, which other versions loaded in between disable),
no reference warms up for ever (`ReloadLatest`, `DropLatest`), a heartbeat nobody
renews becomes stale and the watchdog passes for ever, its cancellation
succeeding now and then if it is possible again and again (`SF(CancelAll)`, whose
guard demands that every client can be built). Nothing is assumed of the engine's
restart nor of disabled credentials, so `PublishedApplied` is conditional on a
process that stays up with one instrument whose credential works, and
`EngineDeathCleared` on the credentials of the recorded configuration. In `config`
handlers finish and the engine polls (`WF`), and Redis does not refuse every
repair (`SF`). In `accounts` a worker goes on while it can (`WF` of each
goroutine, and of the main loop's next round): exchange calls have timeouts.

## Proofs

All theorems hold for every value of the constants, under the assumptions named
in the modules.

`FaultManagerProofs` (from `ThresholdAssumption`: both thresholds
positive, and a count that stops at no less than the failure threshold). The properties speak about histories, so they are not inductive:
`IInv` adds what memory and Redis must hold for an obligation to survive. An
owed cancellation or recovery is recorded in memory, and in Redis as long as
memory can be lost (`OwedCancelRecorded`, `OwedRecoveryRecorded`); the failure
count of both is at least the acknowledged failures (`FailuresCounted`);
successes never run ahead of the healthy observations of this process
(`SuccessesBounded`, `ProcessRecoveryCounted`). One lemma per action shows that
each part is preserved; `SaveFacts` and `DeleteFacts` say what the three outcomes
of a write leave behind. From it: `TypeCorrect`, `FailuresAreHonoured`,
`RecoveryIsObserved`, `ThresholdSurvivesRestarts`.

`MarketLeaseProofs` (from `LeaseAssumption`: a positive lifetime, `Nobody` is no
engine; any set of engines). `IInv` adds that a lease in force carries the
counter's generation and nothing exceeds it (`LeaseCurrent`), that only its owner
knows that generation (`LeasePrivate`), that an operation has a generation
exactly while it runs, that only a checked operation has requests left to send
(`BatchOpen`), and that after a stale request the guard cannot pass again, while
what was sent and what is left fit one batch (`StaleIsFenced`). `ScriptFacts` and `AcquireRedis` describe the script once for
acquisition and renewal. From it: `GenerationsFence`, `StaleWritesAreBounded`,
`LeaseIsStable` and the refinement `LeaseImplementsLock`.

`CancelDemanded` (`CancellationIsRepeated`) and `GenerationsNotShared`
(`GenerationsArePrivate`) are parts of the two invariants.

`ReconcilerProofs` (from `ReconcilerAssumption`: finitely many ids, targets of at
most `Levels` quotes with positive price and quantity, at least one cancellation
attempt; any batch size and any choice of faults). `RecInv` adds to the properties: the maps
in memory and in Redis are sound (`MapsSound`: no quote pending twice, ids of a
batch only with a batch); the list a cycle works with holds no hidden order
(`SnapListed`); and during a cycle every live order is in that list, pending,
orphaned or doomed (`LiveKnown`). That last part is what makes `NoOverfill`
inductive although the list is stale when it is used: the orders the cycle does
not see in the list are those it counts as pending. `BlockKept` says where a raised
block is recorded. The calls are long, so their effect is described once per
operator (`AwaitedSound`, `StoredSound`, `RecordedSound` and their kin) and each
action is proved from those. From it: `MarketNeverOverfilled`,
`HiddenOrdersAreKnown`, `NoQuoteTwicePending`, `BlocksAreHonoured`, `TypeCorrect`.

`AccountRoundProofs` (from `JobsAssumption`: no instrument is listed twice;
`UsesAssumption`: accounts are numbers, which is the order the code sorts them in; finitely many
workers; reserves of at most 10000 basis points). `RoundInv` says which locks a
worker holds at each point (`Holding`), that they are below the ones it still
wants (`Ordered`), that an instrument has one turn (`Turns`) and what the cache
knows by then (`Unasked`, `Fetched`). `LocksNeverCycle` is the argument by the
greatest lock: among the waiting workers the one that waits for the greatest
account waits for a holder that does not wait. `Fresh` (a cached balance is
covered by free units unless another instrument had its turn since) gives
`BudgetsAreCovered`: the worker holds the account's lock, so only fills,
cancellations and deposits move it, and none of them leaves the account with less
than the budget of the market counts on.
`BalancesAskedOnce` follows from `Unasked` and the locks.

`ConfigEditingProofs` (from `ScopeAssumption` and `StoreAssumption`). `EditInv`
adds that draft and active snapshot are one (`DraftIsActive`), that a merge not
overtaken differs from the active snapshot within its scope only
(`MergedInScope`), and that a load in progress is not behind the version returned
last (`LoadingForward`). From it `SavesStayInScope` and `LoadsGoForward`, both
action properties.

`WatchdogProofs` (from `ConfigsAssumption`, `VersionAssumption`,
`PlacesAssumption`; any instruments, places, configurations and versions).
`WatchInv` adds that a candidate belongs to its version and carries the plan of
the switch from what runs (`PendingMatches`), and that the recorded version is the
running one between passes unless its record was lost (`AppliedRuns`). A cleanup
that misses orders adds them to `left`, so that the invariant survives the switch
for the others. From it
`ReportsTruly`, `SwitchesLeaveNoStray`, `RecordCoversOrders`.

`OracleProofs` (from `OracleAssumption`: positive prices and windows, a clock that
wraps after more seconds than the chain has blocks, as 2^32 does). The core is
`CumulativeGrows`: from a block to the next, what `readPair` computes (stored
cumulative price plus price times elapsed time, the latter modulo the wrap) grows
by one second's price, whether the pair was updated or not. `ClockFits` bounds the
elapsed time so that the wrapped difference is the true one
(`RemainderUnique`, `ElapsedNext`). `WorthIsDifference` sums the steps up: the
worth of a stretch is the difference of its cumulative prices. `SnapshotsTrue` and
`ReadsRecent` carry this to the snapshots and the legs. From it `TwapsAreAverages`,
`HighPricesAreRecent`.

`QuoteLadderProofs` (from `StrategyAssumption` and `MarketAssumption`, what
`Validate` demands of strategy and market rules, except that it also admits a
legacy fixed order size without a range of notionals, which is left out; and `InputsAssumption`: positive
reference prices, whole inventories, windows, books and funds; any of them).
`LadderInv` says that quotes and offer are ladders (`Ladder`: no quote takes, no bid
reaches an ask, levels behind one another), that while levels are added the list ends with
the last level's bid and ask (`Levelled`), that no generated quote is out of size, and
what the budget left. `LevelPrices` follows a price through jitter, clamp to the
book and distance to the level before, each of which rounds and so must land on
the grid of ticks (`Rounded`, `GridSum`); `QuantityFits` follows a size through
`quoteQuantity`, where the order of rounding, caps and anchor matters. The loops of
`FilterQuotes` and `ApplyBalanceBudget` are recursive functions over the prefixes of
a list: `LoopExists` shows that such a function exists, `LoopFollowed` that its
rounds stay in the set they should, `SiftedPart` that what a loop keeps is a part
of the list in its order, and `PartLadder` that a part of a ladder is a ladder.
`GroupBound` counts the deep levels that refresh: they map one to one
(`TurnedApart`) into the one group whose turn it is (`RefreshTurn`). From it
`LaddersArePostOnly`, `RiskAccepts`, `BudgetsAreStable`, `RefreshIsBounded`,
`TypeCorrect`.

Induction over numbers or finite sets is written with the least element of the
set of counterexamples (`WFMin` with `NatLessThanWellFounded` or the order of
finite subsets), since the provers cannot instantiate the library's induction
theorems.

Only model-checked: the liveness properties (`OrphanedLeaseEnds`, `Converges`,
`EmergencyApplied`, `RequestHonoured`, `FaultEmptiesBook`, `PublishedApplied`,
`EngineDeathCleared`, `CacheConverges`, `RoundEnds`), which are beyond the prover,
and `QuotesOnlyWhenClear`. No module uses a
`RECURSIVE` operator.

## Known disagreements between documents and code

The models follow the code; these statements of the documents (`README.md` of the
repository) do not hold of it, and no property above claims them.

- Line 148: a reconcile request re-enters recovery observation. `Reset`
  (`manager.go:167`) puts a fresh `normal` state; the next healthy cycle quotes.
- Line 140: an old instance is refused to write. The guard (`engine.go:1703`)
  validates before a placement or a batch of up to 20 cancellations
  (`reconciler.go:540-555`); requests already past it are executed.
  `StaleWriteBounded` is what holds: at most the rest of one batch.
- Line 135: a cancellation is retried a limited number of times. An empty
  cancellation counts as an attempt of the next batch (`reconciler.go:441`).
- Line 161: a paused pair performs no writes. After a hot swap
  (`cmd/fluxmaker/main.go:174`) a cycle may come before the next poll of the
  controls, and it quotes.
- Line 160: an emergency pause cancels. After a soft pause `ApplyControls`
  (`engine.go:793`) takes it for done.
- Line 163: a TWAP is reused until the next one, so that ready and warming-up
  rounds do not alternate. A second read of the snapshot's block, or of an
  earlier one by a lagging node, restarts the warm-up (`oracle.go:180`).
- The window of an instrument (`twap_window_seconds`): instruments that share a
  pair share its snapshot, so the one with the longer window is given averages
  over the shorter (`oracle.go:185`).
- Line 191: drafts do not affect trading. `putDraft` saves and activates in one
  step (`server.go:603-610`).
- Line 207: scoped saves leave other instruments alone. Of two overlapping saves
  the later one restores what it read (`server.go:596`).
- Line 150: account locks keep a shared balance from being allotted twice. The
  balances are cached for the round, so a later instrument of the account budgets
  with what an earlier one has spent; the exchange refuses the excess. On an account
  of its own a market may lock more than its budget, too, while orders that match
  nothing stay open beside new ones (`reconciler.go:241-244`).
- Line 147: failure and recovery counts can be set. A change of these alone is
  applied in place and reported, but the fault manager keeps the counts it was
  built with (`engine.go:180,273`); scalars set back to 0 keep their old value.
- `configstore/store.go:185` calls the copy a safe fallback. It may be older
  than the configuration in force, and the engine switches back to it.
- `runtime.go:235` takes a positive price tick for rules that were read, but
  `Validate` demands one of every market, so rules that were never read are
  reused.
- `engine.go:1488` holds that a blocked instrument has never written in this
  runtime. True of the runtime, but an earlier one may have left its orders.
- Line 122: a switch follows the difference of old and new configuration, which
  means canceling what is dropped. `CancelMarket`
  (`engine.go:1517`) returns no error while an earlier batch is awaited
  (`reconciler.go:470-479`) and nothing was sent, and otherwise after an
  acknowledgement; the switch follows and the orders may stay.
- Line 140: the watchdog cancels when the engine is lost. The engine isolates an
  instrument with a disabled credential and quotes the others; the watchdog's `BuildVenues` (`cmd/watchdog/main.go:106`,
  `venues.go:49`) fails on it as a whole, so no market is protected.
- The watchdog's `oms.New()` (`cmd/watchdog/main.go:149`) knows no pending orders:
  what the exchange does not list yet stays, and the episode is open.
- A change of tuning may be taken for a structural one after a switch, because
  `activeRawConfig` shares maps with the configuration that rules are synced into
  (`cmd/fluxmaker/main.go:116`, `runtime.go`).
- `AppliedVersion` (`runtimeops/store.go:512`) answers 0 on an error, and the
  watchdog then protects the active configuration instead of the applied one.

## Plan

`InstrumentCycle`: `QuotesOnlyWhenClear`, from the invariants of `FaultManager`
and `Reconciler`, whose actions its steps are. It is the one safety property left
without a theorem.

## Not modelled

Wire formats (signing, JSON, RPC and HTTP encodings), names and encryption of credentials,
migrations, the web console, deployment scripts, random display trades and the
Java port. Client order ids and orders of other owners are left out of
`Reconciler`: all orders of its market are managed ones. Native batch placement
is an interface no adapter implements; the sequential fallback is modelled.

Users, roles and sessions are single database statements without a protocol; the
check that one super administrator stays enabled reads and writes in separate
statements, and is left out with them. The audit log is written and never read.
`PutDraft` and `PublishDraft` of the configuration store have no caller. Of the
scheduler, the values of trading rules and with them their periodic refresh,
several venues, and the scalars of the main loop are left out; of the strategy,
the legacy fixed order size; of the oracle, token order, decimals, the minimum
reserve and the metadata of a pair.
