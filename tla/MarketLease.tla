----------------------------- MODULE MarketLease -----------------------------
(***************************************************************************)
(* The lease on one market: the three Lua scripts of                       *)
(* internal/runtimeops/store.go, which Redis runs atomically, and the      *)
(* engine code around them (acquireMarketLease, keepMarketLease,           *)
(* marketWriteGuard, releaseMarketLease in internal/engine/engine.go).     *)
(*                                                                         *)
(* An engine here is one process and its random owner id; a process that   *)
(* crashes never comes back under the same id.  Redis counts the lease's   *)
(* time to live in ticks.  A call to Redis can fail before or after the    *)
(* script ran.  An operation is a reconciliation or a cancellation: it     *)
(* acquires the lease, may start the renewal goroutine, and validates the  *)
(* lease before each batch of exchange requests: the check covers all of   *)
(* them, and they are sent one by one afterwards.                          *)
(***************************************************************************)
EXTENDS Integers

CONSTANTS
  Engines,        \* owner ids
  Nobody,
  TTL,            \* time to live of a lease, in ticks
  MaxBatch,       \* maxBatchCancelSize: the requests one validation covers
  MaxGeneration   \* bound: no lease is created beyond this generation

ASSUME LeaseAssumption ==
  /\ Nobody \notin Engines
  /\ TTL \in Nat \ {0}
  /\ MaxBatch \in Nat \ {0}
  /\ MaxGeneration \in Nat

VARIABLES
  lease,       \* the lease key in Redis: owner, generation and remaining life
  generation,  \* the generation counter in Redis
  phase,       \* where each engine is in its operation on the market
  gen,         \* the generation the engine's operation works under, or 0
  held,        \* Engine.heldLeases for the market, or 0
  ctxLive,     \* the operation's context has not been canceled
  unsent,      \* requests of the validated batch not sent yet
  maxWrite,    \* history: the highest generation of an executed request
  staleWrites, \* history: requests an operation executed after being superseded
  lapsed       \* history: generations whose lease ran out in Redis

vars == <<lease, generation, phase, gen, held, ctxLive, unsent, maxWrite, staleWrites, lapsed>>
redis == <<lease, generation>>
writes == <<maxWrite, staleWrites>>

NoLease == [owner |-> Nobody, gen |-> 0, ttl |-> 0]

Generations == 0..MaxGeneration
Phases == {"idle", "acquired", "working", "checked", "dead"}
Busy == {"acquired", "working", "checked"}
Outcomes == {"ok", "lost", "late"}

-----------------------------------------------------------------------------
(* AcquireMarketLease: the owner's own lease is prolonged and keeps its    *)
(* generation, another owner's is left alone, and a missing one is created *)
(* under the next generation.                                              *)

\* Altered form for mutation: the time to live is refreshed before the owner is compared.
AcquireScriptProlongs(e) ==
  IF lease # NoLease
    THEN [lease      |-> [lease EXCEPT !.ttl = TTL],
          generation |-> generation,
          result     |-> IF lease.owner = e THEN lease.gen ELSE 0]
    ELSE [lease |-> [owner |-> e, gen |-> generation + 1, ttl |-> TTL],
          generation |-> generation + 1, result |-> generation + 1]

\* Altered form for mutation: a lease of another owner is taken over without a new generation.
AcquireScriptTakesOver(e) ==
  IF lease # NoLease
    THEN [lease      |-> [owner |-> e, gen |-> lease.gen, ttl |-> TTL],
          generation |-> generation,
          result     |-> lease.gen]
    ELSE [lease |-> [owner |-> e, gen |-> generation + 1, ttl |-> TTL],
          generation |-> generation + 1, result |-> generation + 1]

\* Altered form for mutation: the generation is read before it is incremented.
AcquireScriptReadsFirst(e) ==
  IF lease.owner = e
    THEN [lease |-> [lease EXCEPT !.ttl = TTL], generation |-> generation, result |-> lease.gen]
  ELSE IF lease # NoLease
    THEN [lease |-> lease, generation |-> generation, result |-> 0]
  ELSE [lease      |-> [owner |-> e, gen |-> generation, ttl |-> TTL],
        generation |-> generation + 1,
        result     |-> generation + 1]

AcquireScript(e) ==
  IF lease.owner = e
    THEN [lease      |-> [owner |-> e, gen |-> lease.gen, ttl |-> TTL],
          generation |-> generation,
          result     |-> lease.gen]
  ELSE IF lease # NoLease
    THEN [lease |-> lease, generation |-> generation, result |-> 0]
  ELSE [lease      |-> [owner |-> e, gen |-> generation + 1, ttl |-> TTL],
        generation |-> generation + 1,
        result     |-> generation + 1]

RunAcquireScript(e, w) ==
  /\ AcquireScript(e).generation <= MaxGeneration
  /\ IF w = "lost"
       THEN UNCHANGED redis
       ELSE /\ lease' = AcquireScript(e).lease
            /\ generation' = AcquireScript(e).generation

(* acquireMarketLease: heldLeases is set only when a generation arrived.   *)
(* The operation starts only then; otherwise the engine skips the market.  *)

Acquire(e, w) ==
  /\ phase[e] = "idle"
  /\ RunAcquireScript(e, w)
  /\ LET g == IF w = "ok" THEN AcquireScript(e).result ELSE 0
     IN  IF g > 0
           THEN /\ held' = [held EXCEPT ![e] = g]
                /\ gen' = [gen EXCEPT ![e] = g]
                /\ phase' = [phase EXCEPT ![e] = "acquired"]
                /\ ctxLive' = [ctxLive EXCEPT ![e] = TRUE]
                /\ staleWrites' = [staleWrites EXCEPT ![e] = 0]
           ELSE UNCHANGED <<held, gen, phase, ctxLive, staleWrites>>
  /\ UNCHANGED <<unsent, maxWrite, lapsed>>

(* keepMarketLease: from here on a goroutine renews the lease through the  *)
(* same script and cancels the operation's context when the call fails or  *)
(* the generation is not its own any more.  It never touches heldLeases.   *)

KeepLease(e) ==
  /\ phase[e] = "acquired"
  /\ phase' = [phase EXCEPT ![e] = "working"]
  /\ UNCHANGED <<redis, gen, held, ctxLive, unsent, writes, lapsed>>

Renew(e, w) ==
  /\ phase[e] \in {"working", "checked"}
  /\ ctxLive[e]
  /\ RunAcquireScript(e, w)
  /\ ctxLive' = [ctxLive EXCEPT ![e] = w = "ok" /\ AcquireScript(e).result = gen[e]]
  /\ UNCHANGED <<phase, gen, held, unsent, writes, lapsed>>

(* marketWriteGuard: ValidateMarketLease compares owner and generation; a  *)
(* mismatch, an error or a canceled context ends the operation.  One check *)
(* covers a batch of cancellations, which Binance's client sends as up to  *)
(* MaxBatch requests, or one placement.                                    *)

GuardPasses(e) == ctxLive[e] /\ lease.owner = e /\ lease.gen = gen[e]

Guard(e) ==
  /\ phase[e] = "working"
  /\ GuardPasses(e)
  /\ phase' = [phase EXCEPT ![e] = "checked"]
  /\ \E n \in 1..MaxBatch : unsent' = [unsent EXCEPT ![e] = n]
  /\ UNCHANGED <<redis, gen, held, ctxLive, writes, lapsed>>

GuardRejects(e, w) ==
  /\ phase[e] = "working"
  /\ w # "ok" \/ ~GuardPasses(e)
  /\ phase' = [phase EXCEPT ![e] = "idle"]
  /\ gen' = [gen EXCEPT ![e] = 0]
  /\ UNCHANGED <<redis, held, ctxLive, unsent, writes, lapsed>>

(* One exchange request of the batch that the guard let through.  The      *)
(* exchange does not know about generations and executes whatever arrives; *)
(* a request refused for its timestamp was not executed, and its retry     *)
(* takes its place.  With a canceled context the rest of the batch is not  *)
(* sent and the operation ends.                                            *)

\* Altered form for mutation: one validation covers the rest of the operation.
WriteUnchecked(e) ==
  /\ phase[e] = "checked"
  /\ ctxLive[e]
  /\ maxWrite' = IF gen[e] > maxWrite THEN gen[e] ELSE maxWrite
  /\ staleWrites' = [staleWrites EXCEPT ![e] = IF gen[e] < generation THEN @ + 1 ELSE @]
  /\ UNCHANGED <<redis, phase, gen, held, ctxLive, unsent, lapsed>>

Write(e) ==
  /\ phase[e] = "checked"
  /\ ctxLive[e]
  /\ unsent' = [unsent EXCEPT ![e] = unsent[e] - 1]
  /\ phase' = [phase EXCEPT ![e] = IF unsent[e] > 1 THEN "checked" ELSE "working"]
  /\ maxWrite' = IF gen[e] > maxWrite THEN gen[e] ELSE maxWrite
  /\ staleWrites' = [staleWrites EXCEPT ![e] = IF gen[e] < generation THEN @ + 1 ELSE @]
  /\ UNCHANGED <<redis, gen, held, ctxLive, lapsed>>

\* The operation returns: it is done, a request failed, or its context ended.
Finish(e) ==
  /\ phase[e] \in Busy
  /\ phase' = [phase EXCEPT ![e] = "idle"]
  /\ gen' = [gen EXCEPT ![e] = 0]
  /\ unsent' = [unsent EXCEPT ![e] = 0]
  /\ UNCHANGED <<redis, held, ctxLive, writes, lapsed>>

(* releaseMarketLease, after a market was cleaned up and at shutdown: the  *)
(* script deletes the key only when it still names this owner and          *)
(* generation, and heldLeases is cleared only when the call succeeded.     *)

\* Altered form for mutation: the key is deleted whatever it holds.
ReleaseScriptBlind(e) == NoLease

ReleaseScript(e) == IF lease.owner = e /\ lease.gen = held[e] THEN NoLease ELSE lease

Release(e, w) ==
  /\ phase[e] = "idle"
  /\ held[e] > 0
  /\ lease' = IF w = "lost" THEN lease ELSE ReleaseScript(e)
  /\ held' = IF w = "ok" THEN [held EXCEPT ![e] = 0] ELSE held
  /\ UNCHANGED <<generation, phase, gen, ctxLive, unsent, writes, lapsed>>

\* A hot swap builds a new Engine under the same owner id with no held leases.
Swap(e) ==
  /\ phase[e] = "idle"
  /\ held[e] > 0
  /\ held' = [held EXCEPT ![e] = 0]
  /\ UNCHANGED <<redis, phase, gen, ctxLive, unsent, writes, lapsed>>

Crash(e) ==
  /\ phase[e] # "dead"
  /\ phase' = [phase EXCEPT ![e] = "dead"]
  /\ gen' = [gen EXCEPT ![e] = 0]
  /\ held' = [held EXCEPT ![e] = 0]
  /\ unsent' = [unsent EXCEPT ![e] = 0]
  /\ UNCHANGED <<redis, ctxLive, writes, lapsed>>

\* Redis lets the key live TTL ticks after its last SET or PEXPIRE.
Tick ==
  /\ lease # NoLease
  /\ IF lease.ttl > 1
       THEN /\ lease' = [owner |-> lease.owner, gen |-> lease.gen, ttl |-> lease.ttl - 1]
            /\ UNCHANGED lapsed
       ELSE /\ lease' = NoLease
            /\ lapsed' = lapsed \cup {lease.gen}
  /\ UNCHANGED <<generation, phase, gen, held, ctxLive, unsent, writes>>

Init ==
  /\ lease = NoLease
  /\ generation = 0
  /\ phase = [e \in Engines |-> "idle"]
  /\ gen = [e \in Engines |-> 0]
  /\ held = [e \in Engines |-> 0]
  /\ ctxLive = [e \in Engines |-> FALSE]
  /\ unsent = [e \in Engines |-> 0]
  /\ maxWrite = 0
  /\ staleWrites = [e \in Engines |-> 0]
  /\ lapsed = {}

EngineStep(e) ==
  \/ \E w \in Outcomes : Acquire(e, w) \/ Renew(e, w) \/ GuardRejects(e, w) \/ Release(e, w)
  \/ KeepLease(e)
  \/ Guard(e)
  \/ Write(e)
  \/ Finish(e)
  \/ Swap(e)
  \/ Crash(e)

Next == Tick \/ \E e \in Engines : EngineStep(e)

Spec == Init /\ [][Next]_vars

\* Redis's clock runs whatever the engines do.
FairSpec == Spec /\ WF_vars(Tick)

-----------------------------------------------------------------------------
\* Every variable keeps its type.
TypeOK ==
  /\ lease \in [owner : Engines, gen : Generations \ {0}, ttl : 1..TTL] \cup {NoLease}
  /\ generation \in Generations
  /\ phase \in [Engines -> Phases]
  /\ gen \in [Engines -> Generations]
  /\ held \in [Engines -> Generations]
  /\ ctxLive \in [Engines -> BOOLEAN]
  /\ unsent \in [Engines -> 0..MaxBatch]
  /\ maxWrite \in Generations
  /\ staleWrites \in [Engines -> Nat]
  /\ lapsed \subseteq Generations

(* Two engines never work under the same generation and never remember the *)
(* same one, so a Client ID stamped with it names one owner; README.md:140 *)
(* relies on this to trace orders.                                         *)
GenerationsNotShared ==
  \A e, f \in Engines :
    e # f => /\ gen[e] > 0 => gen[e] # gen[f] /\ gen[e] # held[f]
             /\ held[e] > 0 => held[e] # held[f]

(* A lease in force outranks everything done before it: no operation works *)
(* under a higher generation and no executed request carries one, whatever *)
(* expiries, releases and takeovers came before.                           *)
LeaseOutranksWrites ==
  lease # NoLease => /\ maxWrite <= lease.gen
                     /\ \A e \in Engines : gen[e] <= lease.gen /\ held[e] <= lease.gen

(* An operation that was superseded while a batch of it was already past   *)
(* the guard executes at most the rest of that batch: the guard is checked *)
(* before each batch, and no second batch passes.                          *)
StaleWriteBounded == \A e \in Engines : staleWrites[e] <= MaxBatch

(* An operation loses its lease only by letting it run out: no renewal,    *)
(* release or acquisition of anybody else removes or replaces it.          *)
LeaseHeldUnlessLapsed ==
  \A e \in Engines :
    phase[e] \in Busy /\ gen[e] \notin lapsed
      => lease.owner = e /\ lease.gen = gen[e]

(* A lease left behind by a crashed engine does not last: other engines    *)
(* that keep asking for it cannot prolong it.                              *)
OrphanedLeaseEnds ==
  \A e \in Engines : (phase[e] = "dead" /\ lease.owner = e) ~> (lease.owner # e)

(* The lease implements the lock with fencing tokens.                      *)
Lock == INSTANCE FencedLock WITH holder <- lease.owner, token <- generation

ImplementsLock == Lock!LockSpec
-----------------------------------------------------------------------------
(* The inductive invariant, in parts.                                      *)

\* A lease in force carries the counter's generation, and nothing exceeds it.
LeaseCurrent ==
  /\ lease # NoLease => lease.gen = generation
  /\ maxWrite <= generation
  /\ \A e \in Engines : gen[e] <= generation /\ held[e] <= generation

\* Only the lease's owner knows its generation.
LeasePrivate ==
  lease # NoLease =>
    \A f \in Engines : f # lease.owner => gen[f] # lease.gen /\ held[f] # lease.gen

\* An operation has a generation exactly while it runs.
BusyHasGeneration == \A e \in Engines : phase[e] \in Busy <=> gen[e] > 0

\* A batch is open exactly past the guard.
BatchOpen == \A e \in Engines : phase[e] = "checked" <=> unsent[e] > 0

(* Stale requests and the rest of the batch fit in one batch, and after    *)
(* its first stale request an operation cannot pass the guard again.       *)
StaleIsFenced ==
  \A e \in Engines :
    /\ staleWrites[e] + unsent[e] <= MaxBatch
    /\ staleWrites[e] > 0 /\ phase[e] \in Busy => gen[e] < generation

IInv ==
  /\ TypeOK
  /\ LeaseCurrent
  /\ LeasePrivate
  /\ BusyHasGeneration
  /\ GenerationsNotShared
  /\ BatchOpen
  /\ StaleIsFenced
  /\ LeaseHeldUnlessLapsed
=============================================================================
