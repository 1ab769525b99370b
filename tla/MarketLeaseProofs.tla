--------------------------- MODULE MarketLeaseProofs ---------------------------
(***************************************************************************)
(* Proofs about MarketLease, for any set of engines, any time to live, any *)
(* size of a batch and any bound on the generations.                       *)
(***************************************************************************)
EXTENDS MarketLease, TLAPS

Leases == [owner : Engines, gen : Generations \ {0}, ttl : 1..TTL]

(* A lease key that exists names an engine, and a missing one nobody.      *)
LEMMA LeaseOwner ==
  ASSUME TypeOK
  PROVE  /\ lease # NoLease => lease \in Leases /\ lease.owner \in Engines
                               /\ lease.gen \in Generations \ {0}
         /\ lease = NoLease <=> lease.owner = Nobody
         /\ \A e \in Engines : lease.owner = e => lease # NoLease
  BY LeaseAssumption DEF TypeOK, NoLease, Leases

(* The three outcomes of the acquisition script.                           *)
LEMMA ScriptFacts ==
  ASSUME TypeOK, LeaseCurrent, NEW e \in Engines,
         AcquireScript(e).generation <= MaxGeneration
  PROVE  LET r == AcquireScript(e)
         IN  /\ r.lease \in Leases
             /\ r.generation \in Generations
             /\ r.result \in Generations
             /\ r.lease.gen = r.generation
             /\ lease.owner = e => /\ r.generation = generation /\ r.result = generation
                                   /\ r.lease.owner = e /\ r.lease.gen = lease.gen
             /\ lease # NoLease /\ lease.owner # e =>
                  r.lease = lease /\ r.generation = generation /\ r.result = 0
             /\ lease = NoLease => /\ r.generation = generation + 1
                                   /\ r.result = generation + 1
                                   /\ r.lease.owner = e
<1> USE LeaseAssumption DEF Generations
<1>1. generation \in 0..MaxGeneration
  BY DEF TypeOK
<1>2. CASE lease.owner = e
  <2>1. lease # NoLease /\ lease \in Leases
    BY <1>2, LeaseOwner
  <2>2. AcquireScript(e) = [lease      |-> [owner |-> e, gen |-> lease.gen, ttl |-> TTL],
                            generation |-> generation,
                            result     |-> lease.gen]
    BY <1>2 DEF AcquireScript
  <2>3. lease.gen = generation /\ lease.gen \in Generations \ {0}
    BY <2>1 DEF LeaseCurrent, Leases
  <2> QED BY <1>1, <1>2, <2>1, <2>2, <2>3 DEF Leases
<1>3. CASE lease # NoLease /\ lease.owner # e
  <2>1. AcquireScript(e) = [lease |-> lease, generation |-> generation, result |-> 0]
    BY <1>3 DEF AcquireScript
  <2> QED BY <1>1, <1>3, <2>1, LeaseOwner DEF LeaseCurrent
<1>4. CASE lease = NoLease
  <2>1. lease.owner # e
    BY <1>4, LeaseOwner
  <2>2. AcquireScript(e) = [lease      |-> [owner |-> e, gen |-> generation + 1, ttl |-> TTL],
                            generation |-> generation + 1,
                            result     |-> generation + 1]
    BY <1>4, <2>1 DEF AcquireScript
  <2>3. generation + 1 \in Generations \ {0}
    BY <1>1, <2>2
  <2> QED BY <1>1, <1>4, <2>1, <2>2, <2>3 DEF Leases
<1> QED BY <1>2, <1>3, <1>4

(* What a call of the acquisition script leaves in Redis: the same lease,  *)
(* perhaps prolonged, or a new one under the next generation.              *)
SameLease == /\ lease'.owner = lease.owner
             /\ lease'.gen = lease.gen
             /\ (lease' = NoLease <=> lease = NoLease)
             /\ generation' = generation

NewLease(e) == /\ lease = NoLease
               /\ lease' # NoLease
               /\ lease'.owner = e
               /\ lease'.gen = generation + 1
               /\ generation' = generation + 1

(* What the acquisition script leaves in Redis: the lease as it was,       *)
(* perhaps prolonged, or a new one of the caller; a positive answer means  *)
(* that the caller owns the lease under the generation returned.           *)
LEMMA AcquireRedis ==
  ASSUME TypeOK, LeaseCurrent, NEW e \in Engines, NEW w \in Outcomes, RunAcquireScript(e, w)
  PROVE  /\ lease' \in Leases \cup {NoLease}
         /\ generation' \in Generations
         /\ SameLease \/ NewLease(e)
         /\ AcquireScript(e).result \in Generations
         /\ w = "ok" /\ AcquireScript(e).result > 0 =>
              /\ lease' # NoLease
              /\ lease'.owner = e
              /\ lease'.gen = AcquireScript(e).result
<1> DEFINE r == AcquireScript(e)
<1>1. /\ r.lease \in Leases
      /\ r.generation \in Generations
      /\ r.result \in Generations
      /\ r.lease.gen = r.generation
      /\ lease.owner = e => /\ r.generation = generation /\ r.result = generation
                            /\ r.lease.owner = e /\ r.lease.gen = lease.gen
      /\ lease # NoLease /\ lease.owner # e =>
           r.lease = lease /\ r.generation = generation /\ r.result = 0
      /\ lease = NoLease => /\ r.generation = generation + 1
                            /\ r.result = generation + 1
                            /\ r.lease.owner = e
  BY ScriptFacts DEF RunAcquireScript
<1>2. r.lease # NoLease
  BY <1>1, LeaseAssumption DEF Leases, NoLease
<1>3. lease \in Leases \cup {NoLease} /\ generation \in Generations
  BY DEF TypeOK, Leases
<1>4. lease.owner = e => lease # NoLease
  BY LeaseOwner
<1>5. CASE w = "lost"
  BY <1>1, <1>3, <1>5 DEF RunAcquireScript, redis, SameLease
<1>6. CASE w # "lost"
  <2>1. lease' = r.lease /\ generation' = r.generation
    BY <1>6 DEF RunAcquireScript
  <2> HIDE DEF r
  <2>2. CASE lease.owner = e
    <3>1. r.result = r.generation
      BY <1>1, <2>2
    <3> QED BY <1>1, <1>2, <1>4, <2>1, <2>2, <3>1 DEF SameLease, r
  <2>3. CASE lease # NoLease /\ lease.owner # e
    BY <1>1, <1>2, <2>1, <2>3 DEF SameLease, Generations, r
  <2>4. CASE lease = NoLease
    BY <1>1, <1>2, <2>1, <2>4 DEF NewLease, r
  <2> QED BY <2>2, <2>3, <2>4
<1> QED BY <1>5, <1>6

(* The parts of the invariant that only Redis and the generations of the   *)
(* other engines matter for survive such a call.                           *)
LEMMA RedisFrame ==
  ASSUME IInv, NEW e \in Engines, SameLease \/ NewLease(e),
         lease' \in Leases \cup {NoLease}, generation' \in Generations,
         UNCHANGED <<gen, held, phase, unsent, writes, lapsed>>,
         ctxLive' \in [Engines -> BOOLEAN]
  PROVE  IInv'
<1> USE LeaseAssumption
<1>1. /\ generation \in Nat /\ generation' \in Nat /\ maxWrite \in Nat
      /\ \A f \in Engines : gen[f] \in Nat /\ held[f] \in Nat
  BY DEF IInv, TypeOK, Generations
<1>2. generation' >= generation
  BY <1>1 DEF SameLease, NewLease
<1>3. TypeOK'
  BY DEF IInv, TypeOK, writes, Leases
<1>4. LeaseCurrent'
  BY <1>1, <1>2 DEF IInv, LeaseCurrent, writes, SameLease, NewLease
<1>5. LeasePrivate'
  <2>1. CASE SameLease
    BY <2>1 DEF IInv, LeasePrivate, SameLease
  <2>2. CASE NewLease(e)
    <3>1. \A f \in Engines : gen[f] <= generation /\ held[f] <= generation
      BY DEF IInv, LeaseCurrent
    <3>2. \A f \in Engines : gen[f] # generation + 1 /\ held[f] # generation + 1
      BY <1>1, <3>1
    <3> QED BY <2>2, <3>2 DEF LeasePrivate, NewLease
  <2> QED BY <2>1, <2>2
<1>6. BusyHasGeneration' /\ GenerationsNotShared' /\ BatchOpen'
  BY DEF IInv, BusyHasGeneration, GenerationsNotShared, BatchOpen
<1>7. StaleIsFenced'
  BY <1>1, <1>2 DEF IInv, StaleIsFenced, writes
<1>8. LeaseHeldUnlessLapsed'
  <2>1. CASE SameLease
    BY <2>1 DEF IInv, LeaseHeldUnlessLapsed, SameLease
  <2>2. CASE NewLease(e)
    <3>1. \A f \in Engines : lease.owner # f
      BY <2>2 DEF NewLease, NoLease
    <3> QED BY <3>1 DEF IInv, LeaseHeldUnlessLapsed
  <2> QED BY <2>1, <2>2
<1> QED BY <1>3, <1>4, <1>5, <1>6, <1>7, <1>8 DEF IInv

(* Acquiring the lease for an operation.                                   *)
LEMMA AcquireIInv ==
  ASSUME IInv, NEW e \in Engines, NEW w \in Outcomes, Acquire(e, w)
  PROVE  IInv'
<1> USE LeaseAssumption
<1> DEFINE g == IF w = "ok" THEN AcquireScript(e).result ELSE 0
<1>1. /\ lease' \in Leases \cup {NoLease}
      /\ generation' \in Generations
      /\ SameLease \/ NewLease(e)
      /\ g > 0 => lease' # NoLease /\ lease'.owner = e /\ lease'.gen = g
      /\ g \in Generations
  <2>1. 0 \in Generations
    BY DEF Generations
  <2> QED BY <2>1, AcquireRedis DEF IInv, Acquire
<1>2. CASE ~(g > 0)
  <2>1. UNCHANGED <<held, gen, phase, ctxLive, unsent, staleWrites, maxWrite, lapsed>>
    BY <1>2 DEF Acquire
  <2> QED BY <1>1, <2>1, RedisFrame DEF IInv, TypeOK, writes
<1>3. CASE g > 0
  <2>1. /\ phase[e] = "idle"
        /\ held' = [held EXCEPT ![e] = g]
        /\ gen' = [gen EXCEPT ![e] = g]
        /\ phase' = [phase EXCEPT ![e] = "acquired"]
        /\ ctxLive' = [ctxLive EXCEPT ![e] = TRUE]
        /\ staleWrites' = [staleWrites EXCEPT ![e] = 0]
        /\ unsent' = unsent
        /\ maxWrite' = maxWrite
        /\ lapsed' = lapsed
    BY <1>3 DEF Acquire
  <2>2. lease' # NoLease /\ lease'.owner = e /\ lease'.gen = g /\ g \in Generations /\ g \in Nat
    BY <1>1, <1>3 DEF Generations
  <2> HIDE DEF g
  <2>3. /\ generation \in Nat /\ generation' \in Nat /\ maxWrite \in Nat
        /\ generation' >= generation
        /\ \A f \in Engines : gen[f] \in Nat /\ held[f] \in Nat
        /\ \A f \in Engines : gen[f] <= generation /\ held[f] <= generation
        /\ maxWrite <= generation
    BY <1>1 DEF IInv, TypeOK, LeaseCurrent, Generations, SameLease, NewLease
  <2>4. g = generation'
    BY <1>1, <2>2 DEF IInv, LeaseCurrent, SameLease, NewLease
  <2>5. \A f \in Engines \ {e} : gen[f] # g /\ held[f] # g
    <3>1. CASE SameLease
      BY <2>2, <3>1 DEF IInv, LeasePrivate, SameLease
    <3>2. CASE NewLease(e)
      BY <2>2, <2>3, <3>2 DEF NewLease
    <3> QED BY <1>1, <3>1, <3>2
  <2>6. /\ gen'[e] = g /\ held'[e] = g /\ phase'[e] = "acquired" /\ staleWrites'[e] = 0
        /\ \A f \in Engines \ {e} : /\ gen'[f] = gen[f] /\ held'[f] = held[f]
                                   /\ phase'[f] = phase[f]
                                   /\ staleWrites'[f] = staleWrites[f]
    BY <2>1 DEF IInv, TypeOK
  <2>7. TypeOK'
    <3>1. /\ gen' \in [Engines -> Generations] /\ held' \in [Engines -> Generations]
          /\ phase' \in [Engines -> Phases] /\ ctxLive' \in [Engines -> BOOLEAN]
      BY <2>1, <2>2 DEF IInv, TypeOK, Phases
    <3>2. staleWrites' \in [Engines -> Nat]
      BY <2>1 DEF IInv, TypeOK
    <3> QED BY <1>1, <2>1, <3>1, <3>2 DEF IInv, TypeOK, Leases
  <2>8. LeaseCurrent'
    BY <2>1, <2>2, <2>3, <2>4, <2>6 DEF LeaseCurrent
  <2>9. LeasePrivate'
    BY <2>2, <2>5, <2>6 DEF LeasePrivate
  <2>10. BusyHasGeneration'
    BY <1>3, <2>6 DEF IInv, BusyHasGeneration, Busy, g
  <2>11. GenerationsNotShared'
    <3> SUFFICES ASSUME NEW a \in Engines, NEW b \in Engines, a # b
                 PROVE  /\ gen'[a] > 0 => gen'[a] # gen'[b] /\ gen'[a] # held'[b]
                        /\ held'[a] > 0 => held'[a] # held'[b]
      BY DEF GenerationsNotShared
    <3>1. CASE a = e
      BY <2>5, <2>6, <3>1
    <3>2. CASE b = e
      BY <2>5, <2>6, <3>2
    <3>3. CASE a # e /\ b # e
      BY <2>6, <3>3 DEF IInv, GenerationsNotShared
    <3> QED BY <3>1, <3>2, <3>3
  <2>12. BatchOpen' /\ StaleIsFenced'
    <3>1. \A f \in Engines : unsent[f] \in 0..MaxBatch /\ staleWrites[f] \in Nat
      BY DEF IInv, TypeOK
    <3>2. BatchOpen'
      BY <2>1, <2>6 DEF IInv, BatchOpen
    <3>3. StaleIsFenced'
      BY <2>1, <2>3, <2>6, <3>1 DEF IInv, StaleIsFenced
    <3> QED BY <3>2, <3>3
  <2>13. LeaseHeldUnlessLapsed'
    <3> SUFFICES ASSUME NEW f \in Engines, phase'[f] \in Busy, gen'[f] \notin lapsed'
                 PROVE  lease'.owner = f /\ lease'.gen = gen'[f]
      BY DEF LeaseHeldUnlessLapsed
    <3>1. CASE f = e
      BY <2>2, <2>6, <3>1
    <3>2. CASE f # e
      <4>1. lease.owner = f /\ lease.gen = gen[f]
        BY <2>1, <2>6, <3>2 DEF IInv, LeaseHeldUnlessLapsed
      <4>2. lease # NoLease
        BY <4>1, LeaseOwner DEF IInv
      <4> QED BY <1>1, <2>2, <3>2, <4>1, <4>2 DEF SameLease, NewLease
    <3> QED BY <3>1, <3>2
  <2> QED BY <2>7, <2>8, <2>9, <2>10, <2>11, <2>12, <2>13 DEF IInv
<1> QED BY <1>2, <1>3

(* The renewal goroutine only touches Redis and the context.               *)
LEMMA RenewIInv ==
  ASSUME IInv, NEW e \in Engines, NEW w \in Outcomes, Renew(e, w)
  PROVE  IInv'
<1>1. /\ lease' \in Leases \cup {NoLease}
      /\ generation' \in Generations
      /\ SameLease \/ NewLease(e)
  BY AcquireRedis DEF IInv, Renew
<1>2. UNCHANGED <<gen, held, phase, unsent, writes, lapsed>>
  BY DEF Renew
<1>3. ctxLive' \in [Engines -> BOOLEAN]
  BY DEF IInv, TypeOK, Renew
<1> QED BY <1>1, <1>2, <1>3, RedisFrame

(* A step of one engine that leaves Redis and the history alone and either *)
(* keeps its operation and its generation, or ends the operation, that     *)
(* opens a batch only under the current generation and that remembers no   *)
(* new lease.                                                              *)
LEMMA LocalFrame ==
  ASSUME IInv, NEW e \in Engines, NEW p \in Phases, NEW g \in {0, gen[e]},
         NEW h \in {0, held[e]}, NEW n \in 0..MaxBatch,
         phase' = [phase EXCEPT ![e] = p],
         gen' = [gen EXCEPT ![e] = g],
         held' = [held EXCEPT ![e] = h],
         unsent' = [unsent EXCEPT ![e] = n],
         p \in Busy <=> g > 0,
         p \in Busy => phase[e] \in Busy /\ g = gen[e],
         p = "checked" <=> n > 0,
         n > 0 => gen[e] = generation,
         UNCHANGED <<lease, generation, ctxLive, maxWrite, staleWrites, lapsed>>
  PROVE  IInv'
<1> USE LeaseAssumption
<1>1. /\ generation \in Nat
      /\ \A f \in Engines : gen[f] \in Nat /\ held[f] \in Nat /\ staleWrites[f] \in Nat
                             /\ unsent[f] \in 0..MaxBatch
      /\ 0 \in Generations
  BY DEF IInv, TypeOK, Generations
<1>2. /\ gen'[e] = g /\ held'[e] = h /\ phase'[e] = p /\ unsent'[e] = n
      /\ \A f \in Engines \ {e} : /\ gen'[f] = gen[f] /\ held'[f] = held[f]
                                 /\ phase'[f] = phase[f] /\ unsent'[f] = unsent[f]
  BY DEF IInv, TypeOK
<1>3. TypeOK'
  BY <1>1 DEF IInv, TypeOK
<1>4. LeaseCurrent'
  BY <1>1, <1>2 DEF IInv, LeaseCurrent
<1>5. LeasePrivate'
  <2>1. lease # NoLease => lease.gen > 0
    BY LeaseOwner DEF IInv, Generations
  <2> QED BY <1>1, <1>2, <2>1 DEF IInv, LeasePrivate
<1>6. BusyHasGeneration'
  BY <1>2 DEF IInv, BusyHasGeneration
<1>7. GenerationsNotShared'
  <2> SUFFICES ASSUME NEW a \in Engines, NEW b \in Engines, a # b
               PROVE  /\ gen'[a] > 0 => gen'[a] # gen'[b] /\ gen'[a] # held'[b]
                      /\ held'[a] > 0 => held'[a] # held'[b]
    BY DEF GenerationsNotShared
  <2>1. /\ gen[a] > 0 => gen[a] # gen[b] /\ gen[a] # held[b]
        /\ held[a] > 0 => held[a] # held[b]
    BY DEF IInv, GenerationsNotShared
  <2>2. /\ gen'[a] \in {0, gen[a]} /\ held'[a] \in {0, held[a]}
        /\ gen'[b] \in {0, gen[b]} /\ held'[b] \in {0, held[b]}
    BY <1>2
  <2> QED BY <1>1, <2>1, <2>2
<1>7a. BatchOpen'
  BY <1>1, <1>2 DEF IInv, BatchOpen
<1>8. StaleIsFenced'
  <2> SUFFICES ASSUME NEW f \in Engines
               PROVE  /\ staleWrites[f] + unsent'[f] <= MaxBatch
                      /\ staleWrites[f] > 0 /\ phase'[f] \in Busy => gen'[f] < generation
    BY DEF StaleIsFenced
  <2>1. /\ staleWrites[f] + unsent[f] <= MaxBatch
        /\ staleWrites[f] > 0 /\ phase[f] \in Busy => gen[f] < generation
    BY DEF IInv, StaleIsFenced
  <2>2. CASE f = e
    <3>1. p = "checked" => p \in Busy
      BY DEF Busy
    <3>2. n > 0 => staleWrites[e] = 0
      BY <1>1, <2>1, <2>2, <3>1
    <3> QED BY <1>1, <1>2, <2>1, <2>2, <3>2
  <2>3. CASE f # e
    BY <1>2, <2>1, <2>3
  <2> QED BY <2>2, <2>3
<1>9. LeaseHeldUnlessLapsed'
  BY <1>2 DEF IInv, LeaseHeldUnlessLapsed
<1> QED BY <1>3, <1>4, <1>5, <1>6, <1>7, <1>7a, <1>8, <1>9 DEF IInv

(* Starting the renewal, the guard's two verdicts, the end of an operation,*)
(* a hot swap and a crash.                                                 *)
LEMMA LocalIInv ==
  ASSUME IInv, NEW e \in Engines,
         \/ KeepLease(e)
         \/ Guard(e)
         \/ \E w \in Outcomes : GuardRejects(e, w)
         \/ Finish(e)
         \/ Swap(e)
         \/ Crash(e)
  PROVE  IInv'
<1> USE LeaseAssumption DEF redis, writes
<1>1. /\ phase \in [Engines -> Phases] /\ gen \in [Engines -> Generations]
      /\ held \in [Engines -> Generations] /\ unsent \in [Engines -> 0..MaxBatch]
  BY DEF IInv, TypeOK
<1>2. /\ phase = [phase EXCEPT ![e] = phase[e]]
      /\ gen = [gen EXCEPT ![e] = gen[e]]
      /\ held = [held EXCEPT ![e] = held[e]]
      /\ unsent = [unsent EXCEPT ![e] = unsent[e]]
  BY <1>1
<1>3. /\ phase[e] \in Busy <=> gen[e] > 0
      /\ phase[e] = "checked" <=> unsent[e] > 0
      /\ 0 \in 0..MaxBatch /\ ~(0 > 0) /\ gen[e] \in Nat /\ unsent[e] \in 0..MaxBatch
  BY <1>1 DEF IInv, BusyHasGeneration, BatchOpen, Generations
<1>3a. phase[e] # "checked" => unsent = [unsent EXCEPT ![e] = 0]
  <2>1. ASSUME phase[e] # "checked" PROVE unsent[e] = 0
    BY <1>3, <2>1
  <2> QED BY <1>2, <2>1
<1>3b. /\ {"idle", "dead"} \subseteq Phases \ Busy
       /\ {"acquired", "working", "checked"} \subseteq Phases /\ {"acquired", "working", "checked"} \subseteq Busy
  BY DEF Phases, Busy
<1>3c. ASSUME phase' = [phase EXCEPT ![e] = "idle"],
              gen' = [gen EXCEPT ![e] = 0],
              unsent' = [unsent EXCEPT ![e] = 0],
              UNCHANGED <<held, lease, generation, ctxLive, maxWrite, staleWrites, lapsed>>
       PROVE  IInv'
  <2>1. held' = [held EXCEPT ![e] = held[e]]
    BY <1>2, <1>3c
  <2>2. "idle" # "checked" /\ "idle" \notin Busy /\ "idle" \in Phases
    BY <1>3b
  <2> QED BY <1>3, <1>3c, <2>1, <2>2, LocalFrame
<1>4. CASE KeepLease(e)
  <2>1. /\ phase' = [phase EXCEPT ![e] = "working"]
        /\ gen' = [gen EXCEPT ![e] = gen[e]]
        /\ held' = [held EXCEPT ![e] = held[e]]
        /\ unsent' = [unsent EXCEPT ![e] = 0]
        /\ phase[e] \in Busy
        /\ UNCHANGED <<lease, generation, ctxLive, maxWrite, staleWrites, lapsed>>
    BY <1>2, <1>3a, <1>3b, <1>4 DEF KeepLease
  <2>2. "working" \in Busy /\ "working" \in Phases /\ "working" # "checked"
    BY <1>3b
  <2> QED BY <1>3, <2>1, <2>2, LocalFrame
<1>5. ASSUME NEW n \in 1..MaxBatch, Guard(e), unsent' = [unsent EXCEPT ![e] = n]
      PROVE  IInv'
  <2>1. gen[e] = generation
    BY <1>5, LeaseOwner DEF IInv, Guard, GuardPasses, LeaseCurrent
  <2>2. /\ phase' = [phase EXCEPT ![e] = "checked"]
        /\ gen' = [gen EXCEPT ![e] = gen[e]]
        /\ held' = [held EXCEPT ![e] = held[e]]
        /\ phase[e] \in Busy
        /\ UNCHANGED <<lease, generation, ctxLive, maxWrite, staleWrites, lapsed>>
    BY <1>2, <1>3b, <1>5 DEF Guard
  <2>3. "checked" \in Busy /\ "checked" \in Phases /\ n > 0 /\ n \in 0..MaxBatch
    BY <1>3b
  <2> QED BY <1>3, <1>5, <2>1, <2>2, <2>3, LocalFrame
<1>6. ASSUME NEW w \in Outcomes, GuardRejects(e, w) PROVE IInv'
  <2>1. /\ phase' = [phase EXCEPT ![e] = "idle"]
        /\ gen' = [gen EXCEPT ![e] = 0]
        /\ unsent' = [unsent EXCEPT ![e] = 0]
        /\ UNCHANGED <<held, lease, generation, ctxLive, maxWrite, staleWrites, lapsed>>
    BY <1>3a, <1>6 DEF GuardRejects
  <2> QED BY <1>3c, <2>1
<1>7. CASE Finish(e)
  <2>1. /\ phase' = [phase EXCEPT ![e] = "idle"]
        /\ gen' = [gen EXCEPT ![e] = 0]
        /\ unsent' = [unsent EXCEPT ![e] = 0]
        /\ UNCHANGED <<held, lease, generation, ctxLive, maxWrite, staleWrites, lapsed>>
    BY <1>7 DEF Finish
  <2> QED BY <1>3c, <2>1
<1>8. CASE Swap(e)
  <2>1. phase[e] = "idle" /\ phase[e] \notin Busy /\ phase[e] # "checked"
    BY <1>3b, <1>8 DEF Swap
  <2>2. gen[e] = 0
    BY <1>3, <2>1
  <2>3. /\ phase' = [phase EXCEPT ![e] = phase[e]]
        /\ gen' = [gen EXCEPT ![e] = gen[e]]
        /\ held' = [held EXCEPT ![e] = 0]
        /\ unsent' = [unsent EXCEPT ![e] = 0]
        /\ UNCHANGED <<lease, generation, ctxLive, maxWrite, staleWrites, lapsed>>
    BY <1>2, <1>3a, <1>8, <2>1 DEF Swap
  <2>4. phase[e] \in Phases
    BY <1>1
  <2> QED BY <1>3, <2>1, <2>2, <2>3, <2>4, LocalFrame
<1>9. CASE Crash(e)
  <2>1. "dead" \notin Busy /\ "dead" \in Phases /\ "dead" # "checked"
    BY <1>3b
  <2>2. /\ phase' = [phase EXCEPT ![e] = "dead"]
        /\ gen' = [gen EXCEPT ![e] = 0]
        /\ held' = [held EXCEPT ![e] = 0]
        /\ unsent' = [unsent EXCEPT ![e] = 0]
        /\ UNCHANGED <<lease, generation, ctxLive, maxWrite, staleWrites, lapsed>>
    BY <1>9 DEF Crash
  <2> QED BY <1>3, <2>1, <2>2, LocalFrame
<1>10. CASE Guard(e)
  <2>1. PICK n \in 1..MaxBatch : unsent' = [unsent EXCEPT ![e] = n]
    BY <1>10 DEF Guard
  <2> QED BY <1>5, <1>10, <2>1
<1> QED BY <1>4, <1>6, <1>7, <1>8, <1>9, <1>10

(* An executed request.                                                    *)
LEMMA WriteIInv ==
  ASSUME IInv, NEW e \in Engines, Write(e)
  PROVE  IInv'
<1> USE LeaseAssumption DEF redis
<1>1. /\ generation \in Nat /\ maxWrite \in Nat
      /\ \A f \in Engines : gen[f] \in Nat /\ staleWrites[f] \in Nat /\ unsent[f] \in 0..MaxBatch
      /\ gen[e] \in Generations
  BY DEF IInv, TypeOK, Generations
<1>2. unsent[e] > 0 /\ phase[e] = "checked" /\ phase[e] \in Busy
  BY DEF IInv, BatchOpen, Write, Busy
<1>3. /\ phase'[e] = IF unsent[e] > 1 THEN "checked" ELSE "working"
      /\ unsent'[e] = unsent[e] - 1
      /\ staleWrites'[e] = IF gen[e] < generation THEN staleWrites[e] + 1 ELSE staleWrites[e]
      /\ \A f \in Engines \ {e} : /\ phase'[f] = phase[f] /\ unsent'[f] = unsent[f]
                                 /\ staleWrites'[f] = staleWrites[f]
  BY DEF IInv, TypeOK, Write
<1>3a. phase'[e] \in Busy
  BY <1>3 DEF Busy
<1>4. TypeOK'
  <2>1. staleWrites' \in [Engines -> Nat]
    BY <1>1 DEF IInv, TypeOK, Write
  <2>2. maxWrite' \in Generations
    BY <1>1 DEF IInv, TypeOK, Write
  <2>3. phase' \in [Engines -> Phases]
    BY DEF IInv, TypeOK, Write, Phases
  <2>4. unsent' \in [Engines -> 0..MaxBatch]
    BY <1>1, <1>2 DEF IInv, TypeOK, Write
  <2> QED BY <2>1, <2>2, <2>3, <2>4 DEF IInv, TypeOK, Write
<1>5. LeaseCurrent'
  BY <1>1 DEF IInv, LeaseCurrent, Write
<1>6. LeasePrivate' /\ GenerationsNotShared'
  BY DEF IInv, LeasePrivate, GenerationsNotShared, Write
<1>7. BusyHasGeneration'
  BY <1>2, <1>3, <1>3a DEF IInv, BusyHasGeneration, Write
<1>7a. BatchOpen'
  BY <1>1, <1>2, <1>3 DEF IInv, BatchOpen
<1>8. StaleIsFenced'
  <2> SUFFICES ASSUME NEW f \in Engines
               PROVE  /\ staleWrites'[f] + unsent'[f] <= MaxBatch
                      /\ staleWrites'[f] > 0 /\ phase'[f] \in Busy => gen'[f] < generation'
    BY DEF StaleIsFenced
  <2>1. gen' = gen /\ generation' = generation
    BY DEF Write
  <2>2. /\ staleWrites[f] + unsent[f] <= MaxBatch
        /\ staleWrites[f] > 0 /\ phase[f] \in Busy => gen[f] < generation
    BY DEF IInv, StaleIsFenced
  <2> QED BY <1>1, <1>2, <1>3, <2>1, <2>2
<1>9. LeaseHeldUnlessLapsed'
  BY <1>2, <1>3, <1>3a DEF IInv, LeaseHeldUnlessLapsed, Write
<1> QED BY <1>4, <1>5, <1>6, <1>7, <1>7a, <1>8, <1>9 DEF IInv

(* Giving the lease back, which only its idle owner can do.                *)
LEMMA ReleaseIInv ==
  ASSUME IInv, NEW e \in Engines, NEW w \in Outcomes, Release(e, w)
  PROVE  IInv'
<1> USE LeaseAssumption
<1>1. lease' = lease \/ (lease.owner = e /\ lease' = NoLease)
  BY DEF Release, ReleaseScript
<1>2. held' = held \/ held' = [held EXCEPT ![e] = 0]
  BY DEF Release
<1>3. /\ UNCHANGED <<generation, phase, gen, ctxLive, unsent, maxWrite, staleWrites, lapsed>>
      /\ phase[e] = "idle"
  BY DEF Release, writes
<1>4. \A f \in Engines : held'[f] \in {0, held[f]}
  BY <1>2 DEF IInv, TypeOK
<1>5. /\ generation \in Nat
      /\ \A f \in Engines : gen[f] \in Nat /\ held[f] \in Nat
      /\ 0 \in Generations
  BY DEF IInv, TypeOK, Generations
<1>6. TypeOK'
  BY <1>1, <1>2, <1>3, <1>5 DEF IInv, TypeOK
<1>7. LeaseCurrent'
  BY <1>1, <1>3, <1>4, <1>5 DEF IInv, LeaseCurrent
<1>8. LeasePrivate'
  <2>1. lease # NoLease => lease.gen > 0
    BY LeaseOwner DEF IInv, Generations
  <2> QED BY <1>1, <1>3, <1>4, <1>5, <2>1 DEF IInv, LeasePrivate
<1>9. BusyHasGeneration' /\ BatchOpen' /\ StaleIsFenced'
  BY <1>3 DEF IInv, BusyHasGeneration, BatchOpen, StaleIsFenced
<1>10. GenerationsNotShared'
  <2> SUFFICES ASSUME NEW a \in Engines, NEW b \in Engines, a # b
               PROVE  /\ gen[a] > 0 => gen[a] # gen[b] /\ gen[a] # held'[b]
                      /\ held'[a] > 0 => held'[a] # held'[b]
    BY <1>3 DEF GenerationsNotShared
  <2>1. /\ gen[a] > 0 => gen[a] # gen[b] /\ gen[a] # held[b]
        /\ held[a] > 0 => held[a] # held[b]
    BY DEF IInv, GenerationsNotShared
  <2>2. held'[a] \in {0, held[a]} /\ held'[b] \in {0, held[b]}
    BY <1>4
  <2> QED BY <1>5, <2>1, <2>2
<1>11. LeaseHeldUnlessLapsed'
  BY <1>1, <1>3 DEF IInv, LeaseHeldUnlessLapsed, Busy
<1> QED BY <1>6, <1>7, <1>8, <1>9, <1>10, <1>11 DEF IInv

(* The clock of Redis.                                                     *)
LEMMA TickIInv ==
  ASSUME IInv, Tick
  PROVE  IInv'
<1> USE LeaseAssumption
<1>1. lease \in Leases /\ lease.ttl \in 1..TTL /\ lease.gen \in Generations
  BY LeaseOwner DEF IInv, Tick, Leases
<1>2. UNCHANGED <<generation, phase, gen, held, ctxLive, unsent, maxWrite, staleWrites>>
  BY DEF Tick, writes
<1>3. CASE lease.ttl > 1
  <2>1. /\ lease' = [owner |-> lease.owner, gen |-> lease.gen, ttl |-> lease.ttl - 1]
        /\ lapsed' = lapsed
    BY <1>3 DEF Tick
  <2>2. lease' \in Leases /\ lease # NoLease /\ lease' # NoLease
        /\ lease'.owner = lease.owner /\ lease'.gen = lease.gen
    BY <1>1, <1>3, <2>1 DEF Leases, Tick, NoLease
  <2>3. TypeOK'
    BY <1>2, <2>1, <2>2 DEF IInv, TypeOK, Leases
  <2>4. LeaseCurrent' /\ LeasePrivate' /\ BusyHasGeneration' /\ GenerationsNotShared'
        /\ BatchOpen' /\ StaleIsFenced' /\ LeaseHeldUnlessLapsed'
    BY <1>2, <2>1, <2>2
    DEF IInv, LeaseCurrent, LeasePrivate, BusyHasGeneration, GenerationsNotShared,
        BatchOpen, StaleIsFenced, LeaseHeldUnlessLapsed
  <2> QED BY <2>3, <2>4 DEF IInv
<1>4. CASE ~(lease.ttl > 1)
  <2>1. lease' = NoLease /\ lapsed' = lapsed \cup {lease.gen}
    BY <1>4 DEF Tick
  <2>2. TypeOK'
    BY <1>1, <1>2, <2>1 DEF IInv, TypeOK
  <2>3. LeaseCurrent' /\ LeasePrivate' /\ BusyHasGeneration' /\ GenerationsNotShared'
        /\ BatchOpen' /\ StaleIsFenced'
    BY <1>2, <2>1
    DEF IInv, LeaseCurrent, LeasePrivate, BusyHasGeneration, GenerationsNotShared, BatchOpen,
        StaleIsFenced
  <2>4. LeaseHeldUnlessLapsed'
    BY <1>2, <2>1 DEF IInv, LeaseHeldUnlessLapsed
  <2> QED BY <2>2, <2>3, <2>4 DEF IInv
<1> QED BY <1>3, <1>4

(* Before the first acquisition nothing is held.                           *)
LEMMA InitIInv == Init => IInv
  BY LeaseAssumption
  DEF Init, IInv, TypeOK, LeaseCurrent, LeasePrivate, BusyHasGeneration, GenerationsNotShared,
      BatchOpen, StaleIsFenced, LeaseHeldUnlessLapsed, Generations, Phases, Busy, NoLease

(* The inductive invariant holds in every reachable state.                 *)
THEOREM InductiveInvariant == Spec => []IInv
<1>1. ASSUME IInv, Next PROVE IInv'
  BY <1>1, AcquireIInv, RenewIInv, LocalIInv, WriteIInv, ReleaseIInv, TickIInv
  DEF Next, EngineStep
<1>2. ASSUME IInv, UNCHANGED vars PROVE IInv'
  BY <1>2
  DEF vars, IInv, TypeOK, LeaseCurrent, LeasePrivate, BusyHasGeneration, GenerationsNotShared,
      BatchOpen, StaleIsFenced, LeaseHeldUnlessLapsed
<1>3. IInv /\ [Next]_vars => IInv'
  BY <1>1, <1>2
<1> QED BY InitIInv, <1>3, PTL DEF Spec

(* Generations are private to one owner and a lease in force outranks      *)
(* every operation and every executed request.                             *)
THEOREM GenerationsFence ==
  Spec => [](TypeOK /\ GenerationsNotShared /\ LeaseOutranksWrites)
<1>1. IInv => LeaseOutranksWrites
  BY DEF IInv, LeaseCurrent, LeaseOutranksWrites
<1> QED BY InductiveInvariant, <1>1, PTL DEF IInv

(* Two engines never work under or remember the same generation, though a  *)
(* lease may be lost, expire and be taken again.                           *)
THEOREM GenerationsArePrivate == Spec => []GenerationsNotShared
  BY InductiveInvariant, PTL DEF IInv

(* A superseded operation executes at most the rest of the one batch that  *)
(* had passed the guard before, whatever the size of the batches.          *)
THEOREM StaleWritesAreBounded == Spec => []StaleWriteBounded
<1>1. IInv => StaleWriteBounded
  <2> SUFFICES ASSUME IInv, NEW e \in Engines PROVE staleWrites[e] <= MaxBatch
    BY DEF StaleWriteBounded
  <2>1. staleWrites[e] \in Nat /\ unsent[e] \in 0..MaxBatch
    BY DEF IInv, TypeOK
  <2> QED BY <2>1, LeaseAssumption DEF IInv, StaleIsFenced
<1> QED BY InductiveInvariant, <1>1, PTL

(* Nobody takes the lease away from a running operation before it expires. *)
THEOREM LeaseIsStable == Spec => []LeaseHeldUnlessLapsed
  BY InductiveInvariant, PTL DEF IInv

(* The lease implements the lock with fencing tokens: every step grants,   *)
(* drops or leaves the lock alone.                                         *)
THEOREM LeaseImplementsLock == Spec => ImplementsLock
<1>1. Init => Lock!LockInit
  BY DEF Init, Lock!LockInit, NoLease
<1>2. ASSUME IInv, [Next]_vars PROVE [Lock!LockNext]_Lock!lockVars
  <2> USE DEF Lock!LockNext, Lock!lockVars, Lock!Grant, Lock!Drop
  <2>1. ASSUME NEW e \in Engines, NEW w \in Outcomes, RunAcquireScript(e, w)
        PROVE  [Lock!LockNext]_Lock!lockVars
    <3>1. SameLease \/ NewLease(e)
      BY <1>2, <2>1, AcquireRedis DEF IInv
    <3>2. CASE SameLease
      BY <3>2 DEF SameLease
    <3>3. CASE NewLease(e)
      BY <3>3 DEF NewLease, NoLease
    <3> QED BY <3>1, <3>2, <3>3
  <2>2. ASSUME NEW e \in Engines, NEW w \in Outcomes, Release(e, w)
        PROVE  [Lock!LockNext]_Lock!lockVars
    BY <2>2, LeaseAssumption DEF Release, ReleaseScript, NoLease
  <2>3. ASSUME Tick PROVE [Lock!LockNext]_Lock!lockVars
    BY <1>2, <2>3, LeaseOwner DEF IInv, Tick, NoLease
  <2>4. ASSUME NEW e \in Engines,
               \/ KeepLease(e) \/ Guard(e) \/ Write(e) \/ Finish(e) \/ Swap(e) \/ Crash(e)
               \/ \E w \in Outcomes : GuardRejects(e, w)
        PROVE  [Lock!LockNext]_Lock!lockVars
    BY <2>4 DEF KeepLease, Guard, Write, Finish, Swap, Crash, GuardRejects, redis
  <2>5. CASE UNCHANGED vars
    BY <2>5 DEF vars
  <2> HIDE DEF Lock!LockNext, Lock!lockVars
  <2> QED BY <1>2, <2>1, <2>2, <2>3, <2>4, <2>5 DEF Next, EngineStep, Acquire, Renew
<1> QED BY <1>1, <1>2, InductiveInvariant, PTL DEF Spec, ImplementsLock, Lock!LockSpec
=============================================================================
