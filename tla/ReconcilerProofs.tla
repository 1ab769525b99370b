--------------------------- MODULE ReconcilerProofs ---------------------------
(***************************************************************************)
(* Proofs about Reconciler: what the maps of the order management say of   *)
(* the exchange, for any number of orders, quotes and levels.              *)
(***************************************************************************)
EXTENDS Reconciler, TLAPS, FiniteSetTheorems, FunctionTheorems

\* No two pending creations of f are for the same quote.
Distinct(f) == \A i, j \in DOMAIN f : i # j => f[i] # f[j]

\* A state of the reconciler's maps, and one as it is saved.
Sound(m) == m \in States /\ (m.ids # {} => m.hasBatch) /\ Distinct(m.creates)
SoundSaved(m) == Sound(m) /\ (m.hasBatch => m.ids # {})

(* The maps are sound in memory and in Redis.                              *)
MapsSound == Sound(mem) /\ SoundSaved(disk)

(* The list of open orders belongs to a cycle and holds no hidden order.   *)
SnapListed ==
  /\ ~cycle => snap = Nothing
  /\ DOMAIN snap \cap Hidden = {}

(* During a cycle every live order is in the list it works with or known   *)
(* otherwise.                                                              *)
LiveKnown ==
  cycle => Live \subseteq DOMAIN snap \cup DOMAIN View.creates \cup orphans \cup doomed

(* A block that was raised is in force, and saved if the history says so.  *)
BlockKept ==
  /\ alarm # "off" => View.blocked
  /\ alarm = "saved" => disk.blocked

\* The inductive invariant.
RecInv ==
  /\ TypeOK
  /\ MapsSound
  /\ SnapListed
  /\ LiveKnown
  /\ HiddenOrdersTracked
  /\ BlockKept
  /\ NoOverfill

-----------------------------------------------------------------------------
(* The operations on the maps keep them sound.                             *)

(* The creations of a sound state map some of the ids to quotes.           *)
LEMMA CreatesType ==
  ASSUME NEW f
  PROVE  /\ f \in UNION {[d -> Quotes] : d \in SUBSET Ids}
              => f \in [DOMAIN f -> Quotes] /\ DOMAIN f \subseteq Ids
         /\ f \in [DOMAIN f -> Quotes] /\ DOMAIN f \subseteq Ids
              => f \in UNION {[d -> Quotes] : d \in SUBSET Ids}
  OBVIOUS

(* The fields of a sound state.                                            *)
LEMMA SoundFields ==
  ASSUME NEW m, Sound(m)
  PROVE  /\ m \in States
         /\ m.blocked \in BOOLEAN /\ m.hasBatch \in BOOLEAN
         /\ m.ids \subseteq Ids
         /\ m.attempts \in 0..MaxCancelAttempts
         /\ m.creates \in [DOMAIN m.creates -> Quotes]
         /\ DOMAIN m.creates \subseteq Ids
         /\ Distinct(m.creates)
         /\ m.ids # {} => m.hasBatch
<1>1. m \in States
  BY DEF Sound
<1>2. m.creates \in UNION {[d -> Quotes] : d \in SUBSET Ids}
  BY <1>1 DEF States
<1> QED BY <1>1, <1>2, CreatesType DEF Sound, States

(* Replacing the pending creations of a sound state leaves it sound.       *)
LEMMA SoundCreates ==
  ASSUME NEW m, Sound(m), NEW f,
         f \in [DOMAIN f -> Quotes], DOMAIN f \subseteq Ids, Distinct(f)
  PROVE  LET r == [m EXCEPT !.creates = f]
         IN  Sound(r) /\ r.creates = f /\ r.blocked = m.blocked
<1> DEFINE C == UNION {[d -> Quotes] : d \in SUBSET Ids}
<1>1. f \in C
  BY CreatesType
<1>2. m \in [blocked : BOOLEAN, hasBatch : BOOLEAN, ids : SUBSET Ids,
             attempts : 0..MaxCancelAttempts, creates : C]
  BY DEF Sound, States
<1>3. m.ids # {} => m.hasBatch
  BY DEF Sound
<1> SUFFICES LET r == [m EXCEPT !.creates = f]
             IN  /\ r \in [blocked : BOOLEAN, hasBatch : BOOLEAN, ids : SUBSET Ids,
                           attempts : 0..MaxCancelAttempts, creates : C]
                 /\ r.ids = m.ids /\ r.hasBatch = m.hasBatch
                 /\ r.creates = f /\ r.blocked = m.blocked
  BY <1>3 DEF Sound, States
<1> HIDE DEF C
<1> QED BY <1>1, <1>2

(* Setting or clearing the block of a sound state leaves it sound.         *)
LEMMA SoundBlock ==
  ASSUME NEW m, Sound(m), NEW b \in BOOLEAN
  PROVE  LET r == [m EXCEPT !.blocked = b]
         IN  Sound(r) /\ r.creates = m.creates /\ r.blocked = b
  BY DEF Sound, States

(* Awaiting a confirmation touches neither the block nor the creations.    *)
LEMMA AwaitedSound ==
  ASSUME NEW m, Sound(m), NEW v
  PROVE  /\ Sound(Awaited(m, v))
         /\ Awaited(m, v).creates = m.creates
         /\ Awaited(m, v).blocked = m.blocked
<1>1. CASE m.ids = {}
  BY <1>1 DEF Awaited
<1>2. CASE m.ids # {} /\ m.ids \cap v = {}
  <2>1. 0 \in 0..MaxCancelAttempts
    BY ReconcilerAssumption
  <2>2. Awaited(m, v) = [m EXCEPT !.hasBatch = FALSE, !.ids = {}, !.attempts = 0]
    BY <1>2 DEF Awaited
  <2>3. m \in States
    BY DEF Sound
  <2> QED BY <2>1, <2>2, <2>3 DEF Sound, States
<1>3. CASE m.ids # {} /\ m.ids \cap v # {}
  <2>1. Awaited(m, v) = [m EXCEPT !.ids = m.ids \cap v]
    BY <1>3 DEF Awaited
  <2>2. m \in States /\ m.hasBatch
    BY <1>3 DEF Sound
  <2> QED BY <2>1, <2>2 DEF Sound, States
<1> QED BY <1>1, <1>2, <1>3

(* Dropping creations leaves the others and the block as they were.        *)
LEMMA WithoutSound ==
  ASSUME NEW m, Sound(m), NEW dropped
  PROVE  /\ Sound(Without(m, dropped))
         /\ DOMAIN Without(m, dropped).creates = DOMAIN m.creates \ dropped
         /\ \A i \in DOMAIN m.creates \ dropped : Without(m, dropped).creates[i] = m.creates[i]
         /\ Without(m, dropped).blocked = m.blocked
<1> DEFINE f == [x \in DOMAIN m.creates \ dropped |-> m.creates[x]]
<1>1. Without(m, dropped) = [m EXCEPT !.creates = f]
  BY DEF Without, Restrict
<1>2. f \in [DOMAIN f -> Quotes] /\ DOMAIN f \subseteq Ids /\ Distinct(f)
  BY SoundFields DEF Distinct
<1>3. DOMAIN f = DOMAIN m.creates \ dropped
  OBVIOUS
<1>4. \A i \in DOMAIN m.creates \ dropped : f[i] = m.creates[i]
  OBVIOUS
<1> HIDE DEF f
<1> QED BY <1>1, <1>2, <1>3, <1>4, SoundCreates

(* What is saved of a sound state has a batch only with orders in it.      *)
LEMMA StoredSound ==
  ASSUME NEW m, Sound(m)
  PROVE  /\ SoundSaved(Stored(m))
         /\ Stored(m).creates = m.creates
         /\ Stored(m).blocked = m.blocked
<1>1. CASE m.ids # {}
  BY <1>1 DEF Stored, SoundSaved
<1>2. CASE m.ids = {}
  <2>1. 0 \in 0..MaxCancelAttempts
    BY ReconcilerAssumption
  <2>2. Stored(m) = [m EXCEPT !.hasBatch = FALSE, !.attempts = 0]
    BY <1>2 DEF Stored
  <2>3. m \in States
    BY DEF Sound
  <2>4. Stored(m) \in States /\ ~Stored(m).hasBatch /\ Stored(m).ids = {}
    BY <1>2, <2>1, <2>2, <2>3 DEF States
  <2>5. Stored(m).creates = m.creates /\ Stored(m).blocked = m.blocked
    BY <2>2, <2>3 DEF States
  <2> QED BY <2>4, <2>5 DEF Sound, SoundSaved
<1> QED BY <1>1, <1>2

(* A write leaves a sound saved state whatever its outcome, and a block is *)
(* in it when it was before and still is, or is written and not lost.      *)
LEMMA WrittenSound ==
  ASSUME NEW old, SoundSaved(old), NEW m, Sound(m), NEW w
  PROVE  /\ SoundSaved(Written(old, m, w))
         /\ old.blocked /\ m.blocked => Written(old, m, w).blocked
         /\ m.blocked /\ w # "lost" => Written(old, m, w).blocked
  BY StoredSound DEF Written

(* A block changes nothing else.                                           *)
LEMMA BlockedSound ==
  ASSUME NEW m, Sound(m)
  PROVE  /\ Sound(BlockedState(m))
         /\ BlockedState(m).creates = m.creates
         /\ BlockedState(m).blocked
<1>1. BlockedState(m) = [m EXCEPT !.blocked = TRUE]
  BY DEF BlockedState
<1> QED BY <1>1, SoundBlock

(* Nothing is a map of no creations.                                       *)
LEMMA NothingType ==
  /\ Nothing \in [DOMAIN Nothing -> Quotes]
  /\ DOMAIN Nothing = {}
  /\ Distinct(Nothing)
<1>1. DOMAIN Nothing = {}
  BY DEF Nothing
<1>2. Nothing \in [DOMAIN Nothing -> Quotes]
  BY DEF Nothing
<1> QED BY <1>1, <1>2 DEF Distinct

(* A new reconciler's maps are sound and have nothing pending.             *)
LEMMA EmptySound == SoundSaved(Empty) /\ Empty.creates = Nothing
<1>1. 0 \in 0..MaxCancelAttempts
  BY ReconcilerAssumption
<1>2. Nothing \in UNION {[d -> Quotes] : d \in SUBSET Ids}
  BY NothingType, CreatesType
<1>3. Empty \in States
  BY <1>1, <1>2 DEF Empty, States
<1>4. Empty.creates = Nothing /\ Empty.ids = {} /\ ~Empty.hasBatch
  BY DEF Empty
<1> QED BY <1>3, <1>4, NothingType DEF Sound, SoundSaved

(* A recorded batch of cancellations, with the creations kept or dropped.  *)
LEMMA CancelsSound ==
  ASSUME NEW m, Sound(m), NEW c \in SUBSET Ids
  PROVE  /\ Sound(SetPendingCancels(m, c))
         /\ SetPendingCancels(m, c).creates = m.creates
         /\ SetPendingCancels(m, c).blocked = m.blocked
         /\ Sound([SetPendingCancels(m, c) EXCEPT !.creates = Nothing])
         /\ [SetPendingCancels(m, c) EXCEPT !.creates = Nothing].creates = Nothing
         /\ [SetPendingCancels(m, c) EXCEPT !.creates = Nothing].blocked = m.blocked
<1> DEFINE n == IF ~m.hasBatch THEN 1
                ELSE IF m.attempts < MaxCancelAttempts THEN m.attempts + 1 ELSE m.attempts
<1>1. SetPendingCancels(m, c) = [m EXCEPT !.hasBatch = TRUE, !.ids = c, !.attempts = n]
  BY DEF SetPendingCancels
<1>2. n \in 0..MaxCancelAttempts
  BY SoundFields, ReconcilerAssumption
<1> HIDE DEF n
<1>3. /\ Sound(SetPendingCancels(m, c))
      /\ SetPendingCancels(m, c).creates = m.creates
      /\ SetPendingCancels(m, c).blocked = m.blocked
  <2>1. m \in States
    BY DEF Sound
  <2> QED BY <1>1, <1>2, <2>1 DEF Sound, States
<1> QED BY <1>3, SoundCreates, NothingType

(* Recording new orders for quotes that no creation occupies.              *)
LEMMA RecordedSound ==
  ASSUME NEW m, Sound(m), NEW new, NEW recorded \in SUBSET DOMAIN new,
         new \in [DOMAIN new -> Quotes], DOMAIN new \subseteq Ids, Distinct(new),
         DOMAIN new \cap DOMAIN m.creates = {},
         \A i \in DOMAIN new, j \in DOMAIN m.creates : new[i] # m.creates[j]
  PROVE  /\ Sound(Recorded(m, new, recorded))
         /\ DOMAIN Recorded(m, new, recorded).creates = DOMAIN m.creates \cup recorded
         /\ Recorded(m, new, recorded).blocked = m.blocked
<1> DEFINE f == [i \in DOMAIN m.creates \cup recorded |->
                   IF i \in recorded THEN new[i] ELSE m.creates[i]]
<1>1. Recorded(m, new, recorded) = [m EXCEPT !.creates = f]
  BY DEF Recorded
<1>2. /\ DOMAIN m.creates \subseteq Ids
      /\ m.creates \in [DOMAIN m.creates -> Quotes]
      /\ Distinct(m.creates)
  BY SoundFields
<1>3. DOMAIN f = DOMAIN m.creates \cup recorded
  OBVIOUS
<1>4. f \in [DOMAIN f -> Quotes] /\ DOMAIN f \subseteq Ids
  BY <1>2
<1>5. Distinct(f)
  BY <1>2 DEF Distinct
<1> HIDE DEF f
<1> QED BY <1>1, <1>3, <1>4, <1>5, SoundCreates
-----------------------------------------------------------------------------
(* Two kinds of step of the reconciler: those that create no order, and    *)
(* those that do.                                                          *)

\* What the history of the block says after a step.
BlockRecorded ==
  /\ alarm' \in {"off", "unsaved", "saved"}
  /\ alarm' # "off" => mem'.blocked
  /\ alarm' = "saved" => disk'.blocked

\* The maps after a call.
MapsUpdated ==
  /\ loaded' = TRUE
  /\ cycle' = FALSE
  /\ snap' = Nothing
  /\ Sound(mem')
  /\ SoundSaved(disk')
  /\ BlockRecorded

\* A call that creates no order.
QuietStep ==
  /\ MapsUpdated
  /\ ord' \in [Ids -> Book]
  /\ Hidden' = Hidden /\ Open' = Open
  /\ orphans' = orphans
  /\ doomed \subseteq doomed' /\ doomed' \subseteq Live
  /\ Hidden \cap DOMAIN View.creates \subseteq DOMAIN mem'.creates \cup doomed'

\* A call that creates the orders n, of which it records the ones in r.
PlaceStep(n, r) ==
  /\ MapsUpdated
  /\ cycle
  /\ n \subseteq Ids \ Live /\ r \subseteq n
  /\ ord' \in [Ids -> Book]
  /\ Hidden' = Hidden \cup n /\ Open' = Open
  /\ orphans' = orphans \cup (n \ r)
  /\ doomed' = doomed
  /\ Hidden \cap DOMAIN View.creates \subseteq DOMAIN mem'.creates
  /\ r \subseteq DOMAIN mem'.creates

(* The view is sound, from memory or from Redis.                           *)
LEMMA ViewSound ==
  ASSUME MapsSound PROVE Sound(View)
  BY DEF MapsSound, SoundSaved, View

(* What the types of sound maps are.                                       *)
LEMMA MapsType ==
  ASSUME NEW m, NEW d, Sound(m), SoundSaved(d)
  PROVE  /\ m \in States /\ d \in States
         /\ d.hasBatch <=> d.ids # {}
         /\ m.ids # {} => m.hasBatch
<1>1. d.hasBatch \in BOOLEAN /\ (d.ids # {} => d.hasBatch)
  BY SoundFields DEF SoundSaved
<1> QED BY <1>1 DEF Sound, SoundSaved

(* The type invariant after a call.                                        *)
LEMMA UpdatedType ==
  ASSUME MapsUpdated, ord' \in [Ids -> Book], orphans' \subseteq Live', doomed' \subseteq Live'
  PROVE  TypeOK'
<1>1. /\ mem' \in States /\ disk' \in States
      /\ disk'.hasBatch <=> disk'.ids # {}
      /\ mem'.ids # {} => mem'.hasBatch
  BY MapsType DEF MapsUpdated
<1>2. DOMAIN snap' \subseteq Ids /\ snap' \in [DOMAIN snap' -> [q : Quotes, rem : Nat]]
  <2>1. snap' = Nothing
    BY DEF MapsUpdated
  <2> QED BY <2>1 DEF Nothing
<1>3. loaded' \in BOOLEAN /\ cycle' \in BOOLEAN /\ alarm' \in {"off", "unsaved", "saved"}
  BY DEF MapsUpdated, BlockRecorded
<1> QED BY <1>1, <1>2, <1>3 DEF TypeOK

(* The parts of the invariant that only look at the maps.                  *)
LEMMA UpdatedMaps ==
  ASSUME MapsUpdated
  PROVE  MapsSound' /\ SnapListed' /\ LiveKnown' /\ BlockKept' /\ View' = mem'
<1>1. View' = mem'
  BY DEF MapsUpdated, View
<1>2. MapsSound'
  BY DEF MapsUpdated, MapsSound
<1>3. SnapListed'
  <2>1. snap' = Nothing /\ DOMAIN snap' = {}
    BY NothingType DEF MapsUpdated
  <2> QED BY <2>1 DEF SnapListed
<1>4. LiveKnown'
  BY DEF MapsUpdated, LiveKnown
<1>5. BlockKept'
  BY <1>1 DEF MapsUpdated, BlockRecorded, BlockKept
<1> QED BY <1>1, <1>2, <1>3, <1>4, <1>5

(* A smaller set of orders is no overfill.                                 *)
LEMMA FewerOrders ==
  ASSUME NoOverfill, NEW S, S \subseteq Live \ (orphans \cup doomed)
  PROVE  Cardinality(S) <= Levels
<1> DEFINE A == Live \ (orphans \cup doomed)
<1>1. IsFiniteSet(A)
  <2>1. A \subseteq Ids
    BY DEF Live, Hidden, Open
  <2> QED BY <2>1, FS_Subset, ReconcilerAssumption
<1>2. IsFiniteSet(S) /\ Cardinality(S) <= Cardinality(A)
  BY <1>1, FS_Subset
<1>3. Cardinality(A) \in Nat /\ Cardinality(S) \in Nat
  BY <1>1, <1>2, FS_CardinalityType
<1>4. Cardinality(A) <= Levels
  BY DEF NoOverfill
<1> HIDE DEF A
<1> QED BY <1>2, <1>3, <1>4, ReconcilerAssumption

(* A call that creates no order keeps the invariant.                       *)
LEMMA QuietKeeps ==
  ASSUME RecInv, QuietStep
  PROVE  RecInv'
<1>1. Live' = Live /\ Hidden' = Hidden
  BY DEF QuietStep, Live
<1>2. TypeOK'
  BY <1>1, UpdatedType DEF QuietStep, RecInv, TypeOK
<1>3. MapsSound' /\ SnapListed' /\ LiveKnown' /\ BlockKept' /\ View' = mem'
  BY UpdatedMaps DEF QuietStep
<1>4. HiddenOrdersTracked'
  BY <1>1, <1>3 DEF QuietStep, RecInv, HiddenOrdersTracked
<1>5. NoOverfill'
  <2>1. Live' \ (orphans' \cup doomed') \subseteq Live \ (orphans \cup doomed)
    BY <1>1 DEF QuietStep
  <2> QED BY <2>1, FewerOrders DEF RecInv, NoOverfill
<1> QED BY <1>2, <1>3, <1>4, <1>5 DEF RecInv

(* So does one that creates orders, when the recorded ones fit beside the  *)
(* listed orders and the creations known before.                           *)
LEMMA PlaceKeeps ==
  ASSUME RecInv, NEW n, NEW r, PlaceStep(n, r),
         NEW K \in SUBSET Ids, Live \cap DOMAIN View.creates \subseteq K \cup DOMAIN snap,
         Cardinality(DOMAIN snap) + Cardinality(K) + Cardinality(r) <= Levels
  PROVE  RecInv'
<1>1. Live' = Live \cup n /\ Hidden' = Hidden \cup n
  BY DEF PlaceStep, Live
<1>2. TypeOK'
  <2>1. orphans' \subseteq Live' /\ doomed' \subseteq Live'
    BY <1>1 DEF PlaceStep, RecInv, TypeOK
  <2> QED BY <2>1, UpdatedType DEF PlaceStep
<1>3. MapsSound' /\ SnapListed' /\ LiveKnown' /\ BlockKept' /\ View' = mem'
  BY UpdatedMaps DEF PlaceStep
<1>4. HiddenOrdersTracked'
  BY <1>1, <1>3 DEF PlaceStep, RecInv, HiddenOrdersTracked
<1>5. NoOverfill'
  <2> DEFINE A == DOMAIN snap \cup K
             B == A \cup r
             C == Live' \ (orphans' \cup doomed')
  <2>1. DOMAIN snap \subseteq Ids /\ r \subseteq Ids /\ A \subseteq Ids /\ B \subseteq Ids
    BY DEF RecInv, TypeOK, PlaceStep
  <2>2. C \subseteq B
    BY <1>1 DEF PlaceStep, RecInv, LiveKnown
  <2>3. IsFiniteSet(DOMAIN snap) /\ IsFiniteSet(r) /\ IsFiniteSet(A) /\ IsFiniteSet(B)
        /\ IsFiniteSet(K)
    BY <2>1, FS_Subset, ReconcilerAssumption
  <2>4. IsFiniteSet(C) /\ Cardinality(C) <= Cardinality(B)
    BY <2>2, <2>3, FS_Subset
  <2>5. /\ IsFiniteSet(DOMAIN snap \cap K)
        /\ IsFiniteSet(A \cap r)
    BY <2>3, FS_Subset
  <2>6. /\ Cardinality(A) = Cardinality(DOMAIN snap) + Cardinality(K)
                              - Cardinality(DOMAIN snap \cap K)
        /\ Cardinality(B) = Cardinality(A) + Cardinality(r) - Cardinality(A \cap r)
    BY <2>3, FS_Union
  <2>7. /\ Cardinality(DOMAIN snap) \in Nat /\ Cardinality(K) \in Nat /\ Cardinality(r) \in Nat
        /\ Cardinality(DOMAIN snap \cap K) \in Nat /\ Cardinality(A \cap r) \in Nat
        /\ Cardinality(A) \in Nat /\ Cardinality(B) \in Nat /\ Cardinality(C) \in Nat
    BY <2>3, <2>4, <2>5, FS_CardinalityType
  <2>8. Cardinality(C) <= Levels
    <3> HIDE DEF A, B, C
    <3> QED BY <2>4, <2>6, <2>7, ReconcilerAssumption
  <2> QED BY <2>8 DEF NoOverfill
<1> QED BY <1>2, <1>3, <1>4, <1>5 DEF RecInv
-----------------------------------------------------------------------------
(* The steps of the exchange and of the engine around the calls.           *)

(* The market starts empty, with nothing in memory or in Redis.            *)
LEMMA InitRec == Init => RecInv
<1> SUFFICES ASSUME Init PROVE RecInv
  OBVIOUS
<1>1. /\ ord = [i \in Ids |-> Gone] /\ mem = Empty /\ loaded = FALSE /\ disk = Empty
      /\ cycle = FALSE /\ snap = Nothing /\ alarm = "off" /\ orphans = {} /\ doomed = {}
  BY DEF Init, InitFrom
<1>2. Hidden = {} /\ Open = {} /\ Live = {}
  BY <1>1 DEF Hidden, Open, Live, Gone
<1>3. MapsSound
  BY <1>1, EmptySound DEF MapsSound, SoundSaved
<1>4. TypeOK
  <2>1. ord \in [Ids -> Book]
    BY <1>1 DEF Book
  <2>2. DOMAIN snap \subseteq Ids /\ snap \in [DOMAIN snap -> [q : Quotes, rem : Nat]]
    BY <1>1 DEF Nothing
  <2>3. /\ mem \in States /\ disk \in States
        /\ disk.hasBatch <=> disk.ids # {}
        /\ mem.ids # {} => mem.hasBatch
    BY <1>3, MapsType DEF MapsSound
  <2> QED BY <1>1, <2>1, <2>2, <2>3 DEF TypeOK
<1>5. SnapListed /\ LiveKnown /\ HiddenOrdersTracked /\ BlockKept
  BY <1>1, <1>2 DEF SnapListed, LiveKnown, HiddenOrdersTracked, BlockKept
<1>6. NoOverfill
  <2>1. Live \ (orphans \cup doomed) = {}
    BY <1>2
  <2>2. Cardinality(Live \ (orphans \cup doomed)) = 0
    BY <2>1, FS_EmptySet
  <2> QED BY <2>2, ReconcilerAssumption DEF NoOverfill
<1> QED BY <1>3, <1>4, <1>5, <1>6 DEF RecInv

(* Steps in which the orders x leave the exchange, or none does.           *)
LEMMA ExchangeKeeps ==
  ASSUME RecInv, UNCHANGED Reconciling, ord' \in [Ids -> Book], NEW x,
         Live' = Live \ x, Hidden' \subseteq Hidden,
         orphans' = orphans \ x, doomed' = doomed \ x
  PROVE  RecInv'
<1>1. /\ mem' = mem /\ loaded' = loaded /\ disk' = disk
      /\ cycle' = cycle /\ snap' = snap /\ alarm' = alarm /\ View' = View
  BY DEF Reconciling, View
<1>2. TypeOK'
  BY <1>1 DEF RecInv, TypeOK
<1>3. MapsSound' /\ BlockKept'
  BY <1>1 DEF RecInv, MapsSound, BlockKept
<1>4. SnapListed'
  BY <1>1 DEF RecInv, SnapListed
<1>5. LiveKnown'
  BY <1>1 DEF RecInv, LiveKnown
<1>6. HiddenOrdersTracked'
  <2>1. Hidden' \subseteq Live'
    BY DEF Live
  <2> QED BY <1>1, <2>1 DEF RecInv, HiddenOrdersTracked
<1>7. NoOverfill'
  <2>1. Live' \ (orphans' \cup doomed') \subseteq Live \ (orphans \cup doomed)
    OBVIOUS
  <2> QED BY <2>1, FewerOrders DEF RecInv, NoOverfill
<1> QED BY <1>2, <1>3, <1>4, <1>5, <1>6, <1>7 DEF RecInv

(* An order of the book is gone or a typed record.                         *)
LEMMA BookEntry ==
  ASSUME ord \in [Ids -> Book], NEW i \in Live
  PROVE  /\ i \in Ids
         /\ ord[i] \in [st : {"hidden", "open"}, q : Quotes, rem : Nat, cxl : BOOLEAN]
<1>1. i \in Ids /\ ord[i].st \in {"hidden", "open"}
  BY DEF Live, Hidden, Open
<1>2. Gone.st = "gone"
  BY DEF Gone
<1> QED BY <1>1, <1>2 DEF Book

(* Every step of the exchange keeps the invariant.                         *)
LEMMA ExchangeRec ==
  ASSUME RecInv, ExchangeMoves
  PROVE  RecInv'
<1>1. PICK i \in Ids : Appear(i) \/ CancelDone(i) \/ Fill(i) \/ PartialFill(i)
  BY DEF ExchangeMoves
<1>2. ord \in [Ids -> Book]
  BY DEF RecInv, TypeOK
<1>3. CASE Appear(i)
  <2>1. i \in Live /\ i \in Hidden
    BY <1>3 DEF Appear, Live
  <2>2. ord[i] \in [st : {"hidden", "open"}, q : Quotes, rem : Nat, cxl : BOOLEAN]
    BY <1>2, <2>1, BookEntry
  <2>3. ord' = [ord EXCEPT ![i] = [ord[i] EXCEPT !.st = "open"]]
    BY <1>3 DEF Appear
  <2>4. [ord[i] EXCEPT !.st = "open"] \in Book
    BY <2>2 DEF Book
  <2>5. ord' \in [Ids -> Book]
    BY <1>2, <2>3, <2>4
  <2>6. ord'[i].st = "open" /\ \A j \in Ids \ {i} : ord'[j] = ord[j]
    BY <1>2, <2>2, <2>3
  <2>7. Hidden' = Hidden \ {i} /\ Open' = Open \cup {i}
    BY <1>2, <2>6 DEF Hidden, Open
  <2>8. Live' = Live \ {} /\ Hidden' \subseteq Hidden
    BY <2>1, <2>7 DEF Live
  <2>9. orphans' = orphans \ {} /\ doomed' = doomed \ {} /\ UNCHANGED Reconciling
    BY <1>3 DEF Appear
  <2> QED BY <2>5, <2>8, <2>9, ExchangeKeeps
<1>4. CASE PartialFill(i)
  <2>1. i \in Live /\ i \in Open
    BY <1>4 DEF PartialFill, Live
  <2>2. ord[i] \in [st : {"hidden", "open"}, q : Quotes, rem : Nat, cxl : BOOLEAN]
    BY <1>2, <2>1, BookEntry
  <2>3. ord' = [ord EXCEPT ![i] = [ord[i] EXCEPT !.rem = ord[i].rem - 1]] /\ ord[i].rem > 1
    BY <1>4 DEF PartialFill
  <2>4. [ord[i] EXCEPT !.rem = ord[i].rem - 1] \in Book
    BY <2>2, <2>3 DEF Book
  <2>5. ord' \in [Ids -> Book]
    BY <1>2, <2>3, <2>4
  <2>6. ord'[i].st = ord[i].st /\ \A j \in Ids \ {i} : ord'[j] = ord[j]
    BY <1>2, <2>2, <2>3
  <2>7. Hidden' = Hidden /\ Open' = Open
    BY <1>2, <2>6 DEF Hidden, Open
  <2>8. Live' = Live \ {} /\ Hidden' \subseteq Hidden
    BY <2>7 DEF Live
  <2>9. orphans' = orphans \ {} /\ doomed' = doomed \ {} /\ UNCHANGED Reconciling
    BY <1>4 DEF PartialFill
  <2> QED BY <2>5, <2>8, <2>9, ExchangeKeeps
<1>5. CASE Leave(i)
  <2>1. ord' \in [Ids -> Book] /\ ord'[i] = Gone /\ \A j \in Ids \ {i} : ord'[j] = ord[j]
    BY <1>2, <1>5 DEF Leave, Book
  <2>2. Hidden' = Hidden \ {i} /\ Open' = Open \ {i}
    BY <1>2, <2>1 DEF Hidden, Open, Gone
  <2>3. Live' = Live \ {i} /\ Hidden' \subseteq Hidden
    BY <2>2 DEF Live
  <2> QED BY <1>5, <2>1, <2>3, ExchangeKeeps DEF Leave
<1> QED BY <1>1, <1>3, <1>4, <1>5 DEF CancelDone, Fill

(* Reading the open orders starts a cycle that knows every live order.     *)
LEMMA ReadRec ==
  ASSUME RecInv, ReadOrders
  PROVE  RecInv'
<1>1. /\ ord' = ord /\ mem' = mem /\ loaded' = loaded /\ disk' = disk /\ alarm' = alarm
      /\ orphans' = orphans /\ doomed' = doomed /\ View' = View /\ cycle' = TRUE
      /\ snap' = [i \in Open |-> [q |-> ord[i].q, rem |-> ord[i].rem]]
  BY DEF ReadOrders, View
<1>2. Hidden' = Hidden /\ Open' = Open /\ Live' = Live
  BY <1>1 DEF Hidden, Open, Live
<1>3. DOMAIN snap' = Open
  BY <1>1
<1>4. TypeOK'
  <2>1. \A i \in Open : [q |-> ord[i].q, rem |-> ord[i].rem] \in [q : Quotes, rem : Nat]
    BY BookEntry DEF RecInv, TypeOK, Live
  <2>2. snap' \in [DOMAIN snap' -> [q : Quotes, rem : Nat]]
    BY <1>1, <1>3, <2>1
  <2>3. DOMAIN snap' \subseteq Ids
    BY <1>3 DEF Open
  <2> QED BY <1>1, <1>2, <2>2, <2>3 DEF RecInv, TypeOK
<1>5. MapsSound' /\ BlockKept' /\ HiddenOrdersTracked' /\ NoOverfill'
  BY <1>1, <1>2 DEF RecInv, MapsSound, BlockKept, HiddenOrdersTracked, NoOverfill
<1>6. SnapListed'
  BY <1>1, <1>2, <1>3 DEF SnapListed, Open, Hidden
<1>7. LiveKnown'
  BY <1>1, <1>2, <1>3 DEF RecInv, LiveKnown, Live, HiddenOrdersTracked
<1> QED BY <1>4, <1>5, <1>6, <1>7 DEF RecInv

(* A call that cannot load its state only ends the cycle.                  *)
LEMMA LoadFailsRec ==
  ASSUME RecInv, LoadFails
  PROVE  RecInv'
<1>1. /\ ord' = ord /\ mem' = mem /\ loaded' = loaded /\ disk' = disk /\ alarm' = alarm
      /\ orphans' = orphans /\ doomed' = doomed /\ View' = View
      /\ cycle' = FALSE /\ snap' = Nothing
  BY DEF LoadFails, InCycle, EndCycle, Exchange, View
<1>2. Hidden' = Hidden /\ Open' = Open /\ Live' = Live
  BY <1>1 DEF Hidden, Open, Live
<1>3. TypeOK'
  <2>1. DOMAIN snap' \subseteq Ids /\ snap' \in [DOMAIN snap' -> [q : Quotes, rem : Nat]]
    BY <1>1 DEF Nothing
  <2> QED BY <1>1, <1>2, <2>1 DEF RecInv, TypeOK
<1>4. MapsSound' /\ BlockKept' /\ HiddenOrdersTracked' /\ NoOverfill'
  BY <1>1, <1>2 DEF RecInv, MapsSound, BlockKept, HiddenOrdersTracked, NoOverfill
<1>5. SnapListed' /\ LiveKnown'
  BY <1>1, NothingType DEF SnapListed, LiveKnown
<1> QED BY <1>3, <1>4, <1>5 DEF RecInv

(* A restart knows what Redis holds; what only memory knew is an orphan.   *)
LEMMA RestartRec ==
  ASSUME RecInv, Restart
  PROVE  RecInv'
<1>1. /\ ord' = ord /\ disk' = disk /\ doomed' = doomed /\ mem' = Empty
      /\ loaded' = FALSE /\ cycle' = FALSE /\ snap' = Nothing
      /\ alarm' = IF alarm = "unsaved" THEN "off" ELSE alarm
      /\ orphans' = orphans \cup (Hidden \cap (DOMAIN mem.creates \ DOMAIN disk.creates))
  BY DEF Restart, EndCycle
<1>2. Hidden' = Hidden /\ Open' = Open /\ Live' = Live /\ View' = disk
  BY <1>1 DEF Hidden, Open, Live, View
<1>3. MapsSound'
  BY <1>1, EmptySound DEF RecInv, MapsSound, SoundSaved
<1>4. TypeOK'
  <2>1. DOMAIN snap' \subseteq Ids /\ snap' \in [DOMAIN snap' -> [q : Quotes, rem : Nat]]
    BY <1>1 DEF Nothing
  <2>2. /\ mem' \in States /\ disk' \in States
        /\ disk'.hasBatch <=> disk'.ids # {}
        /\ mem'.ids # {} => mem'.hasBatch
    BY <1>3, MapsType DEF MapsSound
  <2>3. orphans' \subseteq Live' /\ doomed' \subseteq Live'
    BY <1>1, <1>2 DEF RecInv, TypeOK, Live
  <2>4. /\ ord' \in [Ids -> Book] /\ loaded' \in BOOLEAN /\ cycle' \in BOOLEAN
        /\ alarm' \in {"off", "unsaved", "saved"}
    BY <1>1 DEF RecInv, TypeOK
  <2> QED BY <2>1, <2>2, <2>3, <2>4 DEF TypeOK
<1>5. SnapListed' /\ LiveKnown'
  BY <1>1, NothingType DEF SnapListed, LiveKnown
<1>6. HiddenOrdersTracked'
  BY <1>1, <1>2 DEF RecInv, HiddenOrdersTracked, View
<1>7. BlockKept'
  BY <1>1, <1>2 DEF RecInv, BlockKept, TypeOK
<1>8. NoOverfill'
  <2>1. Live' \ (orphans' \cup doomed') \subseteq Live \ (orphans \cup doomed)
    BY <1>1, <1>2
  <2> QED BY <2>1, FewerOrders DEF RecInv, NoOverfill
<1> QED BY <1>3, <1>4, <1>5, <1>6, <1>7, <1>8 DEF RecInv

(* When the saved state expires, memory keeps what it knows; what only     *)
(* Redis knew is an orphan.                                                *)
LEMMA ExpireRec ==
  ASSUME RecInv, Expire
  PROVE  RecInv'
<1>1. /\ ord' = ord /\ disk' = Empty /\ doomed' = doomed /\ mem' = mem
      /\ loaded' = loaded /\ cycle' = cycle /\ snap' = snap /\ ~cycle
      /\ alarm' = IF alarm = "off" \/ ~loaded THEN "off" ELSE "unsaved"
      /\ orphans' = IF loaded THEN orphans ELSE orphans \cup (Hidden \cap DOMAIN disk.creates)
  BY DEF Expire
<1>2. Hidden' = Hidden /\ Open' = Open /\ Live' = Live
      /\ View' = IF loaded THEN mem ELSE Empty
  BY <1>1 DEF Hidden, Open, Live, View
<1>3. MapsSound'
  BY <1>1, EmptySound DEF RecInv, MapsSound
<1>4. TypeOK'
  <2>1. DOMAIN snap' \subseteq Ids /\ snap' \in [DOMAIN snap' -> [q : Quotes, rem : Nat]]
    BY <1>1 DEF RecInv, TypeOK
  <2>2. /\ mem' \in States /\ disk' \in States
        /\ disk'.hasBatch <=> disk'.ids # {}
        /\ mem'.ids # {} => mem'.hasBatch
    BY <1>3, MapsType DEF MapsSound
  <2>3. orphans' \subseteq Live' /\ doomed' \subseteq Live'
    BY <1>1, <1>2 DEF RecInv, TypeOK, Live
  <2>4. /\ ord' \in [Ids -> Book] /\ loaded' \in BOOLEAN /\ cycle' \in BOOLEAN
        /\ alarm' \in {"off", "unsaved", "saved"}
    BY <1>1 DEF RecInv, TypeOK
  <2> QED BY <2>1, <2>2, <2>3, <2>4 DEF TypeOK
<1>5. SnapListed' /\ LiveKnown'
  BY <1>1, <1>2 DEF RecInv, SnapListed, LiveKnown
<1>6. HiddenOrdersTracked'
  <2>1. Hidden \subseteq DOMAIN View.creates \cup orphans \cup doomed
    BY DEF RecInv, HiddenOrdersTracked
  <2>2. CASE loaded
    BY <1>1, <1>2, <2>1, <2>2 DEF HiddenOrdersTracked, View
  <2>3. CASE ~loaded
    BY <1>1, <1>2, <2>1, <2>3 DEF HiddenOrdersTracked, View
  <2> QED BY <2>2, <2>3
<1>7. BlockKept'
  BY <1>1, <1>2 DEF RecInv, BlockKept, View
<1>8. NoOverfill'
  <2>1. Live' \ (orphans' \cup doomed') \subseteq Live \ (orphans \cup doomed)
    BY <1>1, <1>2
  <2> QED BY <2>1, FewerOrders DEF RecInv, NoOverfill
<1> QED BY <1>3, <1>4, <1>5, <1>6, <1>7, <1>8 DEF RecInv
-----------------------------------------------------------------------------
(* The calls that create no order.                                         *)

(* A block raised with some outcome is in memory, and in Redis when the    *)
(* history says so.                                                        *)
LEMMA RaisedRecorded ==
  ASSUME NEW old, SoundSaved(old), alarm # "off" => old.blocked,
         NEW m, Sound(m), m.blocked, NEW w,
         mem' = m, disk' = Written(old, m, w), Raised(w)
  PROVE  BlockRecorded
<1>1. /\ old.blocked => disk'.blocked
      /\ w # "lost" => disk'.blocked
  BY WrittenSound
<1> QED BY <1>1 DEF Raised, BlockRecorded

(* What AcceptCancels does to the exchange.                                *)
LEMMA AcceptEffect ==
  ASSUME ord \in [Ids -> Book], NEW c, AcceptCancels(c)
  PROVE  /\ ord' \in [Ids -> Book]
         /\ Hidden' = Hidden /\ Open' = Open
         /\ doomed' = doomed \cup (c \cap Hidden)
<1>1. /\ ord' = [i \in Ids |-> IF i \in c \cap Live THEN [ord[i] EXCEPT !.cxl = TRUE] ELSE ord[i]]
      /\ doomed' = doomed \cup (c \cap Hidden)
  BY DEF AcceptCancels
<1>2. \A i \in Ids : ord'[i] \in Book /\ ord'[i].st = ord[i].st
  <2> SUFFICES ASSUME NEW i \in Ids PROVE ord'[i] \in Book /\ ord'[i].st = ord[i].st
    OBVIOUS
  <2>1. CASE i \in c \cap Live
    <3>1. ord[i] \in [st : {"hidden", "open"}, q : Quotes, rem : Nat, cxl : BOOLEAN]
      BY <2>1, BookEntry
    <3>2. ord'[i] = [ord[i] EXCEPT !.cxl = TRUE]
      BY <1>1, <2>1
    <3> QED BY <3>1, <3>2 DEF Book
  <2>2. CASE i \notin c \cap Live
    BY <1>1, <2>2
  <2> QED BY <2>1, <2>2
<1>3. ord' \in [Ids -> Book]
  BY <1>1, <1>2
<1>4. Hidden' = Hidden /\ Open' = Open
  BY <1>2 DEF Hidden, Open
<1> QED BY <1>1, <1>3, <1>4

(* The inactive creations that may be looked up.                           *)
LEMMA LookupsInactive == \A removed \in Lookups : removed \subseteq Inactive
  BY DEF Lookups

(* Confirming creations loses no live order that the list does not show.   *)
LEMMA ConfirmedFacts ==
  ASSUME RecInv, NEW removed, removed \subseteq Inactive
  PROVE  /\ Sound(Confirmed(removed))
         /\ Confirmed(removed).blocked = View.blocked
         /\ DOMAIN Confirmed(removed).creates \subseteq Ids
         /\ Live \cap DOMAIN View.creates
              \subseteq DOMAIN Confirmed(removed).creates \cup DOMAIN snap
         /\ Hidden \cap DOMAIN View.creates \subseteq DOMAIN Confirmed(removed).creates
<1>1. Sound(View)
  BY ViewSound DEF RecInv
<1>2. /\ Sound(Awaited(View, DOMAIN snap))
      /\ Awaited(View, DOMAIN snap).creates = View.creates
      /\ Awaited(View, DOMAIN snap).blocked = View.blocked
  BY <1>1, AwaitedSound
<1>3. /\ Sound(Seen)
      /\ DOMAIN Seen.creates = DOMAIN View.creates \ DOMAIN snap
      /\ Seen.blocked = View.blocked
  BY <1>2, WithoutSound DEF Seen
<1>4. /\ Sound(Confirmed(removed))
      /\ DOMAIN Confirmed(removed).creates = DOMAIN Seen.creates \ removed
      /\ Confirmed(removed).blocked = Seen.blocked
  BY <1>3, WithoutSound DEF Confirmed
<1>5. removed \cap Live = {}
  BY DEF Inactive
<1>6. DOMAIN Confirmed(removed).creates \subseteq Ids
  BY <1>4, SoundFields
<1>7. DOMAIN snap \cap Hidden = {} /\ Hidden \subseteq Live
  BY DEF RecInv, SnapListed, Live
<1> QED BY <1>3, <1>4, <1>5, <1>6, <1>7

(* What a call that leaves the exchange alone has to show.                 *)
LEMMA BookkeepingKeeps ==
  ASSUME RecInv, UNCHANGED Exchange, MapsUpdated,
         Hidden \cap DOMAIN View.creates \subseteq DOMAIN mem'.creates
  PROVE  RecInv'
<1>1. ord' = ord /\ orphans' = orphans /\ doomed' = doomed
  BY DEF Exchange
<1>2. Hidden' = Hidden /\ Open' = Open
  BY <1>1 DEF Hidden, Open
<1>3. QuietStep
  BY <1>1, <1>2 DEF QuietStep, RecInv, TypeOK
<1> QED BY <1>3, QuietKeeps

(* What a call that asks for cancellations has to show.                    *)
LEMMA CancelingKeeps ==
  ASSUME RecInv, NEW c, AcceptCancels(c), orphans' = orphans, MapsUpdated,
         Hidden \cap DOMAIN View.creates \subseteq DOMAIN mem'.creates \cup c
  PROVE  RecInv'
<1>1. /\ ord' \in [Ids -> Book]
      /\ Hidden' = Hidden /\ Open' = Open
      /\ doomed' = doomed \cup (c \cap Hidden)
  BY AcceptEffect DEF RecInv, TypeOK
<1>2. doomed \subseteq doomed' /\ doomed' \subseteq Live
  BY <1>1 DEF RecInv, TypeOK, Live
<1>3. QuietStep
  BY <1>1, <1>2 DEF QuietStep
<1> QED BY <1>3, QuietKeeps

(* A market that is not blocked has no block in its history.               *)
LEMMA UnblockedOff ==
  ASSUME RecInv, ~View.blocked
  PROVE  alarm = "off"
  BY DEF RecInv, BlockKept

(* The calls that end before the plan is made.                             *)
LEMMA EarlyRec ==
  ASSUME RecInv,
         \/ ReconcileRefused
         \/ \E due \in Dues :
              \/ \E w \in Outcomes : ReconcileWaits(due, w) \/ ReconcileGivesUp(due, w)
              \/ \E removed \in Lookups, w, wBlock \in Outcomes :
                   ReconcileUncertain(due, removed, w, wBlock)
  PROVE  RecInv'
<1>1. Sound(View) /\ Sound(mem) /\ SoundSaved(disk)
  BY ViewSound DEF RecInv, MapsSound
<1>2. CASE ReconcileRefused
  <2>1. /\ mem' = View /\ disk' = disk /\ alarm' = alarm /\ loaded' = TRUE
        /\ cycle' = FALSE /\ snap' = Nothing /\ UNCHANGED Exchange
    BY <1>2 DEF ReconcileRefused, InCycle, EndCycle
  <2>2. BlockRecorded
    BY <2>1 DEF RecInv, TypeOK, BlockKept, BlockRecorded
  <2>3. MapsUpdated
    BY <1>1, <2>1, <2>2 DEF MapsUpdated
  <2> QED BY <2>1, <2>3, BookkeepingKeeps
<1>3. ASSUME NEW due, NEW w, ReconcileWaits(due, w) PROVE RecInv'
  <2> DEFINE m == Awaited(View, DOMAIN snap)
  <2>1. /\ mem' = m /\ disk' = Written(disk, m, w) /\ alarm' = alarm /\ loaded' = TRUE
        /\ cycle' = FALSE /\ snap' = Nothing /\ UNCHANGED Exchange /\ ~View.blocked
    BY <1>3 DEF ReconcileWaits, InCycle, EndCycle
  <2>2. Sound(m) /\ m.creates = View.creates
    BY <1>1, AwaitedSound
  <2> HIDE DEF m
  <2>3. SoundSaved(disk')
    BY <1>1, <2>1, <2>2, WrittenSound
  <2>4. BlockRecorded
    BY <2>1, UnblockedOff DEF BlockRecorded
  <2>5. MapsUpdated
    BY <2>1, <2>2, <2>3, <2>4 DEF MapsUpdated
  <2> QED BY <2>1, <2>2, <2>5, BookkeepingKeeps
<1>4. ASSUME NEW due, NEW w, ReconcileGivesUp(due, w) PROVE RecInv'
  <2> DEFINE m == Awaited(View, DOMAIN snap)
             b == BlockedState(m)
  <2>1. /\ mem' = b /\ disk' = Written(Stored(m), b, w) /\ Raised(w) /\ loaded' = TRUE
        /\ cycle' = FALSE /\ snap' = Nothing /\ UNCHANGED Exchange /\ ~View.blocked
    BY <1>4 DEF ReconcileGivesUp, InCycle, EndCycle
  <2>2. Sound(m) /\ m.creates = View.creates
    BY <1>1, AwaitedSound
  <2>3. Sound(b) /\ b.creates = View.creates /\ b.blocked /\ SoundSaved(Stored(m))
    BY <2>2, BlockedSound, StoredSound
  <2> HIDE DEF m, b
  <2>4. SoundSaved(disk')
    BY <2>1, <2>3, WrittenSound
  <2>5. BlockRecorded
    BY <2>1, <2>3, UnblockedOff, RaisedRecorded
  <2>6. MapsUpdated
    BY <2>1, <2>3, <2>4, <2>5 DEF MapsUpdated
  <2> QED BY <2>1, <2>3, <2>6, BookkeepingKeeps
<1>5. ASSUME NEW due, NEW removed \in Lookups, NEW w, NEW wBlock,
             ReconcileUncertain(due, removed, w, wBlock)
      PROVE  RecInv'
  <2> DEFINE m == Confirmed(removed)
             b == BlockedState(m)
  <2>1. /\ mem' = b /\ Raised(wBlock) /\ loaded' = TRUE
        /\ cycle' = FALSE /\ snap' = Nothing /\ UNCHANGED Exchange /\ ~View.blocked
    BY <1>5 DEF ReconcileUncertain, InCycle, EndCycle, MayProceed
  <2>2. PICK before \in SavedBefore(removed) :
          disk' = Written(Written(Stored(before), m, w), b, wBlock)
    BY <1>5 DEF ReconcileUncertain
  <2>3. Sound(before)
    <3>1. Sound(Awaited(View, DOMAIN snap)) /\ Sound(Seen)
      BY <1>1, AwaitedSound, WithoutSound DEF Seen
    <3>2. \A last \in removed : Sound(Confirmed(removed \ {last}))
      BY LookupsInactive, ConfirmedFacts
    <3> QED BY <2>2, <3>1, <3>2 DEF SavedBefore
  <2>4. Sound(m) /\ Hidden \cap DOMAIN View.creates \subseteq DOMAIN m.creates
    BY LookupsInactive, ConfirmedFacts
  <2>5. Sound(b) /\ b.creates = m.creates /\ b.blocked
    BY <2>4, BlockedSound
  <2> HIDE DEF m, b
  <2> DEFINE old == Written(Stored(before), m, w)
  <2>6. SoundSaved(old)
    BY <2>3, <2>4, StoredSound, WrittenSound
  <2>7. disk' = Written(old, b, wBlock)
    BY <2>2
  <2> HIDE DEF old
  <2>8. SoundSaved(disk')
    BY <2>5, <2>6, <2>7, WrittenSound
  <2>9. BlockRecorded
    BY <2>1, <2>5, <2>6, <2>7, UnblockedOff, RaisedRecorded
  <2>10. MapsUpdated
    BY <2>1, <2>5, <2>8, <2>9 DEF MapsUpdated
  <2> QED BY <2>1, <2>4, <2>5, <2>10, BookkeepingKeeps
<1> QED BY <1>2, <1>3, <1>4, <1>5

(* The calls that keep the book, or cancel part of it.                     *)
LEMMA PlannedRec ==
  ASSUME RecInv, NEW due, NEW t, NEW removed \in Lookups, NEW to, NEW refresh,
         \/ ReconcileKeeps(due, t, removed, to, refresh)
         \/ \E w \in Outcomes : ReconcileCancels(due, t, removed, to, refresh, w)
         \/ \E w \in Outcomes : ReconcileCancelFails(due, t, removed, to, refresh, w),
         refresh \in Refreshes(to)
  PROVE  RecInv'
<1> DEFINE m == Confirmed(removed)
<1>1. Sound(m) /\ Hidden \cap DOMAIN View.creates \subseteq DOMAIN m.creates
  BY LookupsInactive, ConfirmedFacts
<1>2. SoundSaved(Stored(m))
  BY <1>1, StoredSound
<1>3. Planned(due, t, removed, to)
      => /\ loaded' = TRUE /\ cycle' = FALSE /\ snap' = Nothing
         /\ ~View.blocked /\ alarm = "off" /\ DOMAIN to = DOMAIN snap
  BY UnblockedOff DEF Planned, InCycle, EndCycle, MayProceed, PairingsNow, Pairings
<1>4. ASSUME NEW c \in CancelBatches(to, refresh), DOMAIN to = DOMAIN snap PROVE c \in SUBSET Ids
  <2>1. c \subseteq DOMAIN to
    BY <1>4 DEF CancelBatches, Refreshes
  <2> QED BY <1>4, <2>1 DEF RecInv, TypeOK
<1>5. CASE ReconcileKeeps(due, t, removed, to, refresh)
  <2>1. /\ mem' = m /\ disk' = Stored(m) /\ alarm' = alarm /\ UNCHANGED Exchange
        /\ Planned(due, t, removed, to)
    BY <1>5 DEF ReconcileKeeps
  <2> HIDE DEF m
  <2>2. MapsUpdated
    BY <1>1, <1>2, <1>3, <2>1 DEF MapsUpdated, BlockRecorded
  <2> QED BY <1>1, <2>1, <2>2, BookkeepingKeeps
<1>6. ASSUME NEW w, ReconcileCancels(due, t, removed, to, refresh, w) PROVE RecInv'
  <2>1. PICK c \in CancelBatches(to, refresh) \ {{}} :
          /\ Planned(due, t, removed, to) /\ AcceptCancels(c)
          /\ mem' = SetPendingCancels(m, c)
          /\ disk' = Written(Stored(m), SetPendingCancels(m, c), w)
          /\ alarm' = alarm /\ orphans' = orphans
    BY <1>6 DEF ReconcileCancels
  <2> HIDE DEF m
  <2>2. c \in SUBSET Ids
    BY <1>3, <1>4, <2>1
  <2>3. Sound(mem') /\ mem'.creates = m.creates
    BY <1>1, <2>1, <2>2, CancelsSound
  <2>4. SoundSaved(disk')
    BY <1>2, <2>1, <2>3, WrittenSound
  <2>5. MapsUpdated
    BY <1>3, <2>1, <2>3, <2>4 DEF MapsUpdated, BlockRecorded
  <2> QED BY <1>1, <2>1, <2>3, <2>5, CancelingKeeps
<1>7. ASSUME NEW w, ReconcileCancelFails(due, t, removed, to, refresh, w) PROVE RecInv'
  <2> DEFINE b == BlockedState(m)
  <2>1. PICK c \in CancelBatches(to, refresh) \ {{}} : \E accepted \in SUBSET c :
          /\ Planned(due, t, removed, to) /\ AcceptCancels(accepted)
          /\ mem' = b /\ disk' = Written(Stored(m), b, w)
          /\ Raised(w) /\ orphans' = orphans
    BY <1>7 DEF ReconcileCancelFails
  <2>2. PICK accepted \in SUBSET c : AcceptCancels(accepted)
    BY <2>1
  <2>3. Sound(b) /\ b.creates = m.creates /\ b.blocked
    BY <1>1, BlockedSound
  <2> HIDE DEF m, b
  <2>4. SoundSaved(disk')
    BY <1>2, <2>1, <2>3, WrittenSound
  <2>5. BlockRecorded
    BY <1>2, <1>3, <2>1, <2>3, RaisedRecorded
  <2>6. MapsUpdated
    BY <1>3, <2>1, <2>3, <2>4, <2>5 DEF MapsUpdated
  <2> QED BY <1>1, <2>1, <2>2, <2>3, <2>6, CancelingKeeps
<1> QED BY <1>5, <1>6, <1>7

(* The cancellation of everything, and the operator's clearing of a block. *)
LEMMA CancelRec ==
  ASSUME RecInv,
         \/ \E due \in Dues, w \in Outcomes :
              CancelManagedStops(due, w) \/ CancelManaged(due, w) \/ CancelManagedFails(due, w)
         \/ \E w \in Outcomes : ClearBlocked(w)
  PROVE  RecInv'
<1> DEFINE m == Awaited(View, Open)
<1>1. Sound(View) /\ SoundSaved(disk)
  BY ViewSound DEF RecInv, MapsSound
<1>2. Sound(m) /\ m.creates = View.creates /\ m.blocked = View.blocked
  BY <1>1, AwaitedSound
<1>3. SoundSaved(Stored(m)) /\ Stored(m).blocked = View.blocked
  BY <1>2, StoredSound
<1>4. /\ alarm \in {"off", "unsaved", "saved"}
      /\ alarm # "off" => View.blocked
      /\ alarm = "saved" => disk.blocked
  BY DEF RecInv, TypeOK, BlockKept
<1>5. ASSUME NEW due, NEW w, CancelManagedStops(due, w) PROVE RecInv'
  <2>1. /\ mem' = m /\ disk' = Written(disk, m, w) /\ loaded' = TRUE /\ Saved(w)
        /\ cycle' = FALSE /\ snap' = Nothing /\ UNCHANGED Exchange
    BY <1>5 DEF CancelManagedStops, EndCycle
  <2> HIDE DEF m
  <2>2. /\ SoundSaved(disk')
        /\ disk.blocked /\ m.blocked => disk'.blocked
        /\ m.blocked /\ w # "lost" => disk'.blocked
    BY <1>1, <1>2, <2>1, WrittenSound
  <2>3. BlockRecorded
    BY <1>2, <1>4, <2>1, <2>2 DEF Saved, BlockRecorded
  <2>4. MapsUpdated
    BY <1>2, <2>1, <2>2, <2>3 DEF MapsUpdated
  <2> QED BY <1>2, <2>1, <2>4, BookkeepingKeeps
<1>6. ASSUME NEW due, NEW w, CancelManaged(due, w) PROVE RecInv'
  <2> DEFINE c == ToCancel(m)
             n == [SetPendingCancels(m, c) EXCEPT !.creates = Nothing]
  <2>1. /\ mem' = n /\ disk' = Written(Stored(m), n, w) /\ loaded' = TRUE /\ Saved("ok")
        /\ cycle' = FALSE /\ snap' = Nothing /\ AcceptCancels(c) /\ orphans' = orphans
    BY <1>6 DEF CancelManaged, EndCycle
  <2>2. c \in SUBSET Ids /\ DOMAIN m.creates \subseteq c
    BY <1>2, SoundFields DEF ToCancel, Open
  <2>3. Sound(n) /\ n.blocked = m.blocked
    BY <1>2, <2>2, CancelsSound
  <2> HIDE DEF m, c, n
  <2>4. SoundSaved(disk') /\ (Stored(m).blocked /\ n.blocked => disk'.blocked)
    BY <1>3, <2>1, <2>3, WrittenSound
  <2>5. BlockRecorded
    BY <1>2, <1>3, <1>4, <2>1, <2>3, <2>4 DEF Saved, BlockRecorded
  <2>6. MapsUpdated
    BY <2>1, <2>3, <2>4, <2>5 DEF MapsUpdated
  <2> QED BY <1>2, <2>1, <2>2, <2>6, CancelingKeeps
<1>7. ASSUME NEW due, NEW w, CancelManagedFails(due, w) PROVE RecInv'
  <2> DEFINE b == BlockedState(m)
  <2>1. /\ mem' = b /\ disk' = Written(Stored(m), b, w) /\ loaded' = TRUE /\ Raised(w)
        /\ cycle' = FALSE /\ snap' = Nothing /\ orphans' = orphans
    BY <1>7 DEF CancelManagedFails, EndCycle
  <2>2. PICK accepted : AcceptCancels(accepted)
    BY <1>7 DEF CancelManagedFails
  <2>3. Sound(b) /\ b.creates = m.creates /\ b.blocked
    BY <1>2, BlockedSound
  <2> HIDE DEF m, b
  <2>4. SoundSaved(disk')
    BY <1>3, <2>1, <2>3, WrittenSound
  <2>5. BlockRecorded
    BY <1>3, <1>4, <2>1, <2>3, RaisedRecorded
  <2>6. MapsUpdated
    BY <2>1, <2>3, <2>4, <2>5 DEF MapsUpdated
  <2> QED BY <1>2, <2>1, <2>2, <2>3, <2>6, CancelingKeeps
<1>8. ASSUME NEW w, ClearBlocked(w) PROVE RecInv'
  <2> DEFINE n == [View EXCEPT !.blocked = FALSE]
  <2>1. /\ mem' = n /\ disk' = Written(disk, n, w) /\ loaded' = TRUE /\ alarm' = "off"
        /\ ~cycle /\ cycle' = cycle /\ snap' = snap /\ UNCHANGED Exchange
    BY <1>8 DEF ClearBlocked
  <2>2. cycle' = FALSE /\ snap' = Nothing
    BY <2>1 DEF RecInv, SnapListed, TypeOK
  <2>3. Sound(n) /\ n.creates = View.creates
    BY <1>1, SoundBlock
  <2> HIDE DEF n
  <2>4. SoundSaved(disk')
    BY <1>1, <2>1, <2>3, WrittenSound
  <2>5. MapsUpdated
    BY <2>1, <2>2, <2>3, <2>4 DEF MapsUpdated, BlockRecorded
  <2> QED BY <2>1, <2>3, <2>5, BookkeepingKeeps
<1> QED BY <1>5, <1>6, <1>7, <1>8
-----------------------------------------------------------------------------
(* The calls that create orders.                                           *)

(* The smallest of three integers.                                         *)
LEMMA MinOfThree ==
  ASSUME NEW a \in Int, NEW b \in Int, NEW c \in Int
  PROVE  /\ Min({a, b, c}) \in {a, b, c}
         /\ Min({a, b, c}) <= b
<1>1. \E x \in {a, b, c} : \A y \in {a, b, c} : x <= y
  <2>1. CASE a <= b /\ a <= c
    BY <2>1
  <2>2. CASE b <= a /\ b <= c
    BY <2>2
  <2>3. CASE c <= a /\ c <= b
    BY <2>3
  <2> QED BY <2>1, <2>2, <2>3
<1>2. Min({a, b, c}) \in {a, b, c} /\ \A y \in {a, b, c} : Min({a, b, c}) <= y
  BY <1>1 DEF Min
<1> QED BY <1>2

(* The orders that may be created fill no more than the vacancies, have    *)
(* ids nobody uses and quotes that no pending creation occupies.           *)
LEMMA NewOrderFacts ==
  ASSUME RecInv, NEW t \in Targets, NEW removed, removed \subseteq Inactive, NEW to,
         NEW s \in Missing(t, removed, to), NEW new \in Accepted(s, Confirmed(removed))
  PROVE  /\ new \in [DOMAIN new -> Quotes]
         /\ DOMAIN new \subseteq Ids \ Live
         /\ DOMAIN new \cap DOMAIN Confirmed(removed).creates = {}
         /\ Distinct(new)
         /\ \A i \in DOMAIN new, j \in DOMAIN Confirmed(removed).creates :
              new[i] # Confirmed(removed).creates[j]
         /\ \A r \in SUBSET DOMAIN new :
              Cardinality(DOMAIN snap) + Cardinality(DOMAIN Confirmed(removed).creates)
                + Cardinality(r) <= Levels
<1> DEFINE m == Confirmed(removed)
           free == t \ (Reserved(m.creates, t) \cup Range(to))
           V == VacanciesNow(t, removed)
<1>1. /\ IsFiniteSet(t) /\ t \subseteq Quotes /\ Cardinality(t) \in Nat
      /\ Cardinality(t) <= Levels /\ Levels \in Nat /\ Batch \in Int /\ IsFiniteSet(Ids)
  BY ReconcilerAssumption, FS_CardinalityType
<1>2. DOMAIN snap \subseteq Ids /\ DOMAIN m.creates \subseteq Ids
  BY ConfirmedFacts DEF RecInv, TypeOK
<1>3. Cardinality(DOMAIN snap) \in Nat /\ Cardinality(DOMAIN m.creates) \in Nat
  BY <1>1, <1>2, FS_Subset, FS_CardinalityType
<1>4. V = Cardinality(t) - Cardinality(DOMAIN snap) - Cardinality(DOMAIN m.creates)
  BY DEF VacanciesNow, Vacancies
<1>5. V \in Int
  BY <1>1, <1>3, <1>4
<1>6. free \subseteq t /\ IsFiniteSet(free) /\ Cardinality(free) \in Nat
  BY <1>1, FS_Subset, FS_CardinalityType
<1>7. s \subseteq free /\ Cardinality(s) = Min({Batch, V, Cardinality(free)})
  BY DEF Missing, kSubset
<1>8. PICK a \in SUBSET s : new \in NewOrders(a, m)
  BY DEF Accepted
<1>9. PICK d \in kSubset(Cardinality(a), FreeIds(m)) : new \in Bijection(d, a)
  BY <1>8 DEF NewOrders
<1>10. d \subseteq FreeIds(m) /\ Cardinality(d) = Cardinality(a)
  BY <1>9 DEF kSubset
<1>11. /\ new \in [d -> a] /\ DOMAIN new = d
       /\ \A i, j \in d : new[i] = new[j] => i = j
  BY <1>9, Fun_BijectionProperties
<1>12. a \subseteq free
  BY <1>7, <1>8
<1>13. new \in [DOMAIN new -> Quotes] /\ Distinct(new)
  BY <1>1, <1>6, <1>11, <1>12 DEF Distinct
<1>14. d \subseteq Ids \ Live /\ d \cap DOMAIN m.creates = {}
  BY <1>10 DEF FreeIds
<1>15. \A i \in DOMAIN new, j \in DOMAIN m.creates : new[i] # m.creates[j]
  <2> SUFFICES ASSUME NEW i \in DOMAIN new, NEW j \in DOMAIN m.creates,
                      new[i] = m.creates[j]
               PROVE  FALSE
    OBVIOUS
  <2>1. new[i] \in free
    BY <1>11, <1>12
  <2>2. m.creates[j] \in Range(m.creates)
    BY DEF Range
  <2> QED BY <2>1, <2>2 DEF Reserved
<1>16. ASSUME NEW r \in SUBSET DOMAIN new
       PROVE  Cardinality(DOMAIN snap) + Cardinality(DOMAIN m.creates) + Cardinality(r) <= Levels
  <2>1. IsFiniteSet(s) /\ Cardinality(s) \in Nat /\ IsFiniteSet(d) /\ Cardinality(d) \in Nat
    BY <1>1, <1>6, <1>7, <1>14, FS_Subset, FS_CardinalityType
  <2>2. Cardinality(s) <= V
    <3> HIDE DEF V, free
    <3> QED BY <1>1, <1>5, <1>6, <1>7, MinOfThree
  <2>3. Cardinality(a) <= Cardinality(s)
    BY <1>8, <2>1, FS_Subset
  <2>4. r \subseteq d
    BY <1>11, <1>16
  <2>5. IsFiniteSet(r) /\ Cardinality(r) <= Cardinality(d) /\ Cardinality(r) \in Nat
    BY <2>1, <2>4, FS_Subset, FS_CardinalityType
  <2> HIDE DEF V, m, free
  <2> QED BY <1>1, <1>3, <1>4, <1>5, <1>10, <2>1, <2>2, <2>3, <2>5
<1> QED BY <1>11, <1>13, <1>14, <1>15, <1>16

(* What the exchange does with new orders.                                 *)
LEMMA CreateEffect ==
  ASSUME ord \in [Ids -> Book], NEW new, new \in [DOMAIN new -> Quotes],
         DOMAIN new \subseteq Ids \ Live, Create(new)
  PROVE  /\ ord' \in [Ids -> Book]
         /\ Hidden' = Hidden \cup DOMAIN new
         /\ Open' = Open
<1>1. ord' = [i \in Ids |->
               IF i \in DOMAIN new
                 THEN [st |-> "hidden", q |-> new[i], rem |-> new[i].qty, cxl |-> FALSE]
                 ELSE ord[i]]
  BY DEF Create
<1>2. \A i \in Ids : /\ ord'[i] \in Book
                     /\ ord'[i].st = IF i \in DOMAIN new THEN "hidden" ELSE ord[i].st
  <2> SUFFICES ASSUME NEW i \in Ids
               PROVE  /\ ord'[i] \in Book
                      /\ ord'[i].st = IF i \in DOMAIN new THEN "hidden" ELSE ord[i].st
    OBVIOUS
  <2>1. CASE i \in DOMAIN new
    <3>1. new[i] \in Quotes /\ new[i].qty \in Nat
      BY <2>1, ReconcilerAssumption
    <3> QED BY <1>1, <2>1, <3>1 DEF Book
  <2>2. CASE i \notin DOMAIN new
    BY <1>1, <2>2
  <2> QED BY <2>1, <2>2
<1>3. ord' \in [Ids -> Book]
  BY <1>1, <1>2
<1> QED BY <1>2, <1>3 DEF Hidden, Open, Live

(* Whatever part of a submission fails, the invariant is kept.             *)
LEMMA PlacingRec ==
  ASSUME RecInv, NEW due, NEW t \in Targets, NEW removed \in Lookups, NEW to,
         NEW s \in Missing(t, removed, to), NEW new \in Accepted(s, Confirmed(removed)),
         \/ ReconcilePlaces(due, t, removed, to, s, new)
         \/ \E guard \in BOOLEAN, w \in Outcomes :
              ReconcilePlaceFails(due, t, removed, to, s, new, guard, w)
         \/ \E w, wBlock \in Outcomes :
              ReconcileRecordFails(due, t, removed, to, s, new, w, wBlock)
  PROVE  RecInv'
<1> DEFINE m == Confirmed(removed)
           K == DOMAIN m.creates
           placed(r) == Recorded(m, new, r)
<1>1. /\ Sound(m) /\ K \subseteq Ids
      /\ Live \cap DOMAIN View.creates \subseteq K \cup DOMAIN snap
      /\ Hidden \cap DOMAIN View.creates \subseteq K
  BY LookupsInactive, ConfirmedFacts
<1>2. /\ new \in [DOMAIN new -> Quotes] /\ DOMAIN new \subseteq Ids \ Live
      /\ DOMAIN new \cap DOMAIN m.creates = {} /\ Distinct(new)
      /\ \A i \in DOMAIN new, j \in DOMAIN m.creates : new[i] # m.creates[j]
      /\ \A r \in SUBSET DOMAIN new :
           Cardinality(DOMAIN snap) + Cardinality(K) + Cardinality(r) <= Levels
  BY LookupsInactive, NewOrderFacts
<1>3. ASSUME NEW r \in SUBSET DOMAIN new
      PROVE  /\ Sound(placed(r)) /\ DOMAIN placed(r).creates = K \cup r
             /\ SoundSaved(Stored(placed(r)))
             /\ Sound(BlockedState(placed(r))) /\ BlockedState(placed(r)).blocked
             /\ BlockedState(placed(r)).creates = placed(r).creates
  <2>1. Sound(placed(r)) /\ DOMAIN placed(r).creates = K \cup r
    BY <1>1, <1>2, RecordedSound
  <2> QED BY <2>1, StoredSound, BlockedSound
<1>4. Create(new)
      => /\ ord' \in [Ids -> Book] /\ Hidden' = Hidden \cup DOMAIN new /\ Open' = Open
  BY <1>2, CreateEffect DEF RecInv, TypeOK
<1>5. Placing(due, t, removed, to, s)
      => loaded' = TRUE /\ cycle' = FALSE /\ snap' = Nothing /\ cycle /\ alarm = "off"
  BY UnblockedOff DEF Placing, Planned, InCycle, EndCycle, MayProceed
<1>6. ASSUME NEW r \in SUBSET DOMAIN new, Placing(due, t, removed, to, s), Create(new),
             orphans' = orphans \cup (DOMAIN new \ r), doomed' = doomed,
             Sound(mem'), mem'.creates = placed(r).creates, SoundSaved(disk'), BlockRecorded
      PROVE  RecInv'
  <2>1. K \cup r = DOMAIN mem'.creates
    BY <1>3, <1>6
  <2>2. MapsUpdated
    BY <1>5, <1>6 DEF MapsUpdated
  <2>3. PlaceStep(DOMAIN new, r)
    BY <1>1, <1>2, <1>4, <1>5, <1>6, <2>1, <2>2 DEF PlaceStep
  <2> HIDE DEF K
  <2> QED BY <1>1, <1>2, <1>6, <2>3, PlaceKeeps
<1>7. CASE ReconcilePlaces(due, t, removed, to, s, new)
  <2> DEFINE r == DOMAIN new
  <2>1. /\ Placing(due, t, removed, to, s) /\ Create(new)
        /\ mem' = placed(r) /\ disk' = Stored(placed(r))
        /\ alarm' = alarm /\ orphans' = orphans \cup (DOMAIN new \ r) /\ doomed' = doomed
    BY <1>7 DEF ReconcilePlaces
  <2>2. BlockRecorded
    BY <1>5, <2>1 DEF BlockRecorded
  <2>3. r \in SUBSET DOMAIN new
    OBVIOUS
  <2>4. Sound(mem') /\ SoundSaved(disk') /\ mem'.creates = placed(r).creates
    BY <1>3, <2>1, <2>3
  <2> HIDE DEF placed, r
  <2> QED BY <1>6, <2>1, <2>2, <2>3, <2>4
<1>8. ASSUME NEW guard \in BOOLEAN, NEW w,
             ReconcilePlaceFails(due, t, removed, to, s, new, guard, w)
      PROVE  RecInv'
  <2>1. PICK r \in SUBSET DOMAIN new :
          /\ Placing(due, t, removed, to, s) /\ Create(new)
          /\ orphans' = orphans \cup (DOMAIN new \ r) /\ doomed' = doomed
          /\ mem' = IF guard THEN placed(r) ELSE BlockedState(placed(r))
          /\ disk' = IF guard THEN Stored(placed(r))
                     ELSE Written(Stored(placed(r)), BlockedState(placed(r)), w)
          /\ IF guard THEN UNCHANGED alarm ELSE Raised(w)
    BY <1>8 DEF ReconcilePlaceFails
  <2>2. /\ Sound(placed(r)) /\ SoundSaved(Stored(placed(r)))
        /\ Sound(BlockedState(placed(r))) /\ BlockedState(placed(r)).blocked
        /\ BlockedState(placed(r)).creates = placed(r).creates
    BY <1>3
  <2> HIDE DEF placed
  <2>3. Sound(mem') /\ mem'.creates = placed(r).creates
    BY <2>1, <2>2
  <2>4. SoundSaved(disk')
    BY <2>1, <2>2, WrittenSound
  <2>5. BlockRecorded
    <3>1. CASE guard
      BY <1>5, <2>1, <3>1 DEF BlockRecorded
    <3>2. CASE ~guard
      BY <1>5, <2>1, <2>2, <3>2, RaisedRecorded
    <3> QED BY <3>1, <3>2
  <2> QED BY <1>6, <2>1, <2>3, <2>4, <2>5
<1>9. ASSUME NEW w, NEW wBlock,
             ReconcileRecordFails(due, t, removed, to, s, new, w, wBlock)
      PROVE  RecInv'
  <2>1. PICK saved \in SUBSET DOMAIN new : \E last \in DOMAIN new \ saved :
          /\ Placing(due, t, removed, to, s) /\ Create(new) /\ doomed' = doomed
          /\ orphans' = orphans \cup (DOMAIN new \ (saved \cup {last}))
          /\ mem' = BlockedState(placed(saved \cup {last}))
          /\ disk' = Written(Written(Stored(placed(saved)), placed(saved \cup {last}), w),
                             BlockedState(placed(saved \cup {last})), wBlock)
          /\ Raised(wBlock)
    BY <1>9 DEF ReconcileRecordFails
  <2>2. PICK r \in SUBSET DOMAIN new :
          /\ Placing(due, t, removed, to, s) /\ Create(new) /\ doomed' = doomed
          /\ orphans' = orphans \cup (DOMAIN new \ r)
          /\ mem' = BlockedState(placed(r))
          /\ disk' = Written(Written(Stored(placed(saved)), placed(r), w),
                             BlockedState(placed(r)), wBlock)
          /\ Raised(wBlock)
    BY <2>1
  <2>3. /\ SoundSaved(Stored(placed(saved))) /\ Sound(placed(r))
        /\ Sound(BlockedState(placed(r))) /\ BlockedState(placed(r)).blocked
        /\ BlockedState(placed(r)).creates = placed(r).creates
    BY <1>3
  <2> HIDE DEF placed
  <2> DEFINE old == Written(Stored(placed(saved)), placed(r), w)
             b == BlockedState(placed(r))
  <2>4. SoundSaved(old)
    BY <2>3, WrittenSound
  <2>5. disk' = Written(old, b, wBlock) /\ mem' = b /\ Raised(wBlock)
    BY <2>2
  <2>6. Sound(b) /\ b.blocked /\ b.creates = placed(r).creates
    BY <2>3
  <2> HIDE DEF old, b
  <2>7. SoundSaved(disk')
    BY <2>4, <2>5, <2>6, WrittenSound
  <2>8. BlockRecorded
    BY <1>5, <2>2, <2>4, <2>5, <2>6, RaisedRecorded
  <2> QED BY <1>6, <2>2, <2>5, <2>6, <2>7, <2>8
<1> QED BY <1>7, <1>8, <1>9

-----------------------------------------------------------------------------
(* The theorems.                                                           *)

(* Every call of the engine's cycle keeps the invariant.                   *)
LEMMA ReconcileRec ==
  ASSUME RecInv, Reconcile
  PROVE  RecInv'
<1> USE DEF Outcomes
<1>1. "ok" \in Outcomes
  OBVIOUS
<1> HIDE DEF Outcomes
<1>2. ASSUME NEW due, NEW t \in Targets, NEW removed \in Lookups,
             NEW to \in PairingsNow(t, removed), ReconcilePlanFails(due, t, removed, to)
      PROVE  RecInv'
  BY <1>2, PlacingRec, PlannedRec DEF ReconcilePlanFails
<1>3. CASE ReconcileFails
  BY <1>2, <1>3, EarlyRec, LoadFailsRec DEF ReconcileFails
<1>4. CASE ReconcileSucceeds
  BY <1>1, <1>4, EarlyRec, PlacingRec, PlannedRec DEF ReconcileSucceeds
<1> QED BY <1>3, <1>4 DEF Reconcile

(* The inductive invariant holds in every reachable state.                 *)
THEOREM RecInvariant == Spec => []RecInv
<1>1. ASSUME RecInv, Next PROVE RecInv'
  <2>1. CASE CancelAll
    <3>1. "ok" \in Outcomes
      BY DEF Outcomes
    <3>2. \E due \in Dues, w \in Outcomes :
            CancelManagedStops(due, w) \/ CancelManaged(due, w) \/ CancelManagedFails(due, w)
      BY <2>1, <3>1 DEF CancelAll, CancelSucceeds, CancelFails
    <3> QED BY <1>1, <3>2, CancelRec
  <2>2. ASSUME NEW w \in Outcomes, ClearBlocked(w) PROVE RecInv'
    BY <1>1, <2>2, CancelRec
  <2> QED BY <1>1, <2>1, <2>2, ExchangeRec, ReadRec, ReconcileRec, RestartRec, ExpireRec
         DEF Next
<1>2. ASSUME RecInv, UNCHANGED vars PROVE RecInv'
  <2>1. /\ UNCHANGED Reconciling /\ ord' = ord
        /\ orphans' = orphans \ {} /\ doomed' = doomed \ {}
    BY <1>2 DEF vars, Reconciling
  <2>2. Live' = Live \ {} /\ Hidden' \subseteq Hidden
    BY <2>1 DEF Live, Hidden, Open
  <2>3. ord' \in [Ids -> Book]
    BY <1>2, <2>1 DEF RecInv, TypeOK
  <2> QED BY <1>2, <2>1, <2>2, <2>3, ExchangeKeeps
<1>3. RecInv /\ [Next]_vars => RecInv'
  BY <1>1, <1>2
<1> QED BY InitRec, <1>3, PTL DEF Spec

(* Every variable of the reconciler keeps its type.                        *)
THEOREM TypeCorrect == Spec => []TypeOK
  BY RecInvariant, PTL DEF RecInv

(* The market never carries more orders than the target has levels, apart  *)
(* from those whose acceptance was never recorded and those canceled       *)
(* before they became visible.                                             *)
THEOREM MarketNeverOverfilled == Spec => []NoOverfill
  BY RecInvariant, PTL DEF RecInv

(* No live order is unknown to the reconciler before the exchange lists it.*)
THEOREM HiddenOrdersAreKnown == Spec => []HiddenOrdersTracked
  BY RecInvariant, PTL DEF RecInv

(* No two pending creations are for the same quote, in memory or in what a *)
(* restarted process loads.                                                *)
THEOREM NoQuoteTwicePending == Spec => []PendingTargetsDistinct
<1>1. RecInv => PendingTargetsDistinct
  <2> SUFFICES ASSUME RecInv PROVE Distinct(View.creates)
    BY DEF PendingTargetsDistinct, Distinct
  <2> QED BY ViewSound DEF RecInv, Sound
<1> QED BY RecInvariant, <1>1, PTL

(* A blocked market gets no new order, in this process or the next, until  *)
(* an operator clears the block or the last place that held it, memory or  *)
(* the saved state with its seven days, is gone.                           *)
THEOREM BlocksAreHonoured == Spec => BlockHolds
<1>1. ASSUME RecInv, [Next]_vars, alarm # "off", cycle PROVE Live' \subseteq Live
  <2>1. View.blocked
    BY <1>1 DEF RecInv, BlockKept
  <2>2. ord' = ord => Live' = Live
    BY DEF Live, Hidden, Open
  <2>3. ord \in [Ids -> Book]
    BY <1>1 DEF RecInv, TypeOK
  <2>4. ASSUME NEW c, AcceptCancels(c) PROVE Live' = Live
    BY <2>3, <2>4, AcceptEffect DEF Live
  <2>5. CASE UNCHANGED vars
    BY <2>2, <2>5 DEF vars
  <2>6. CASE ExchangeMoves
    <3>1. PICK i \in Ids : Appear(i) \/ CancelDone(i) \/ Fill(i) \/ PartialFill(i)
      BY <2>6 DEF ExchangeMoves
    <3>2. i \in Live /\ \A j \in Ids \ {i} : ord'[j] = ord[j]
      BY <2>3, <3>1 DEF Appear, CancelDone, Fill, PartialFill, Leave, Live
    <3> QED BY <3>2 DEF Live, Hidden, Open
  <2>7. CASE ReadOrders \/ Restart \/ Expire \/ \E w \in Outcomes : ClearBlocked(w)
    BY <2>2, <2>7 DEF ReadOrders, Restart, Expire, ClearBlocked, Exchange
  <2>8. CASE CancelAll
    BY <2>2, <2>4, <2>8 DEF CancelAll, CancelSucceeds, CancelFails, CancelManaged,
       CancelManagedStops, CancelManagedFails, Exchange
  <2>9. CASE Reconcile
    <3>1. ASSUME NEW due, MayProceed(due) PROVE FALSE
      BY <2>1, <3>1 DEF MayProceed
    <3>2. ASSUME NEW due, NEW t, NEW removed, NEW to, Planned(due, t, removed, to) PROVE FALSE
      BY <3>1, <3>2 DEF Planned
    <3>3. ASSUME NEW due, NEW t, NEW removed, NEW to, ReconcilePlanFails(due, t, removed, to)
          PROVE  FALSE
      <4>1. ASSUME NEW s, NEW new, NEW guard, NEW w,
                   ReconcilePlaceFails(due, t, removed, to, s, new, guard, w)
            PROVE  FALSE
        BY <3>2, <4>1 DEF ReconcilePlaceFails, Placing
      <4>2. ASSUME NEW s, NEW new, NEW w, NEW wBlock,
                   ReconcileRecordFails(due, t, removed, to, s, new, w, wBlock)
            PROVE  FALSE
        BY <3>2, <4>2 DEF ReconcileRecordFails, Placing
      <4>3. ASSUME NEW refresh, NEW w,
                   \/ ReconcileCancels(due, t, removed, to, refresh, w)
                   \/ ReconcileCancelFails(due, t, removed, to, refresh, w)
            PROVE  FALSE
        BY <3>2, <4>3 DEF ReconcileCancels, ReconcileCancelFails
      <4> QED BY <3>3, <4>1, <4>2, <4>3 DEF ReconcilePlanFails
    <3>4. ~ReconcileSucceeds
      BY <2>1, <3>2 DEF ReconcileSucceeds, ReconcileWaits, ReconcilePlaces, ReconcileKeeps,
         ReconcileCancels, Placing
    <3>5. LoadFails \/ ReconcileRefused
      BY <2>1, <2>9, <3>1, <3>3, <3>4 DEF Reconcile, ReconcileFails, ReconcileWaits,
         ReconcileGivesUp, ReconcileUncertain
    <3> QED BY <2>2, <3>5 DEF LoadFails, ReconcileRefused, Exchange
  <2> QED BY <1>1, <2>5, <2>6, <2>7, <2>8, <2>9 DEF Next
<1>2. ASSUME RecInv, [Next]_vars
      PROVE  [alarm # "off" /\ cycle => Live' \subseteq Live]_vars
  BY <1>1, <1>2
<1> QED BY RecInvariant, <1>2, PTL DEF Spec, BlockHolds
=============================================================================
