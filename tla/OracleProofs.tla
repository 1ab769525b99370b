---------------------------- MODULE OracleProofs ----------------------------
(***************************************************************************)
(* Proofs about Oracle: what a TWAP averages and how recent it is, for any *)
(* number of pairs, readers and blocks, windows and wrap of the clock.     *)
(***************************************************************************)
EXTENDS Oracle, TLAPS, NaturalsInduction, WellFoundedInduction

Blocks == FirstBlock .. Now

\* What a pair stores, and a leg as a reader keeps it.
Entries == [price : Nat, cum : Int, since : Int]
LegReads == [spot : Nat, ready : {TRUE}, sum : Int, len : Nat, end : Int]
            \cup [spot : Nat, ready : {FALSE}]

(* Every block has an entry of every pair.                                 *)
ChainTyped ==
  /\ chain \in Seq([Pairs -> Entries])
  /\ Len(chain) \in 1 .. MaxBlocks

(* The stored time of a pair is never further back than the first block,   *)
(* however often the clock has wrapped.                                    *)
ClockFits ==
  \A b \in Blocks, p \in Pairs : Elapsed(b, AtBlock(b)[p].since) <= b - FirstBlock

(* From a block to the next the cumulative price that readPair computes    *)
(* grows by the price of the second between them.                          *)
CumulativeGrows ==
  \A b \in FirstBlock .. Now - 1, p \in Pairs :
    Cumulative(p, b + 1) = Cumulative(p, b) + AtBlock(b)[p].price

\* A snapshot holds the cumulative price of its block, and its TWAP a difference of two.
SnapshotOf(p, s) ==
  /\ s.time \in Blocks
  /\ s.cum = Cumulative(p, s.time)
  /\ s.ready \in BOOLEAN
  /\ s.ready =>
       /\ s.len \in Nat /\ s.time - s.len \in Blocks
       /\ s.sum = Cumulative(p, s.time) - Cumulative(p, s.time - s.len)
       /\ \E r \in Readers : p \in Range(Legs[r]) /\ s.len >= Window[r]

(* Every snapshot is one of the pair's.                                    *)
SnapshotsTrue ==
  /\ DOMAIN snapshots = Pairs
  /\ \A p \in Pairs : snapshots[p] = NoSnapshot \/ SnapshotOf(p, snapshots[p])

(* What the readers have read: no TWAP older than the reader's window.     *)
ReadsRecent ==
  /\ read \in [Readers -> Seq(LegReads)]
  /\ \A r \in Readers : \A k \in DOMAIN read[r] :
       read[r][k].ready => read[r][k].end \in block[r] - Window[r] + 1 .. block[r]

(* A price of high confidence has a TWAP of every leg.                     *)
HighIsReady ==
  \A r \in Readers : at[r] = "high" => \A k \in DOMAIN read[r] : read[r][k].ready

\* The inductive invariant.
OracleInv ==
  /\ TypeOK
  /\ ChainTyped
  /\ ClockFits
  /\ CumulativeGrows
  /\ SnapshotsTrue
  /\ ReadsRecent
  /\ HighIsReady
-----------------------------------------------------------------------------
(* The clock of a pair, which wraps.                                       *)

(* Division leaves one quotient and one remainder.                         *)
LEMMA RemainderUnique ==
  ASSUME NEW x \in Int, NEW q \in Int, NEW r \in 0 .. Wrap - 1, x = Wrap * q + r
  PROVE  x % Wrap = r
<1>1. Wrap \in Nat \ {0}
  BY OracleAssumption
<1>2. x % Wrap \in 0 .. Wrap - 1 /\ x \div Wrap \in Int
  BY <1>1
<1>3. x = Wrap * (x \div Wrap) + (x % Wrap)
  BY <1>1
<1> DEFINE d == q - (x \div Wrap)
<1>4. d \in Int /\ Wrap * d = (x % Wrap) - r
  BY <1>1, <1>2, <1>3
<1>5. CASE d >= 1
  <2>1. Wrap * d >= Wrap
    BY <1>1, <1>4, <1>5
  <2> QED BY <1>1, <1>2, <1>4, <2>1
<1>6. CASE d <= -1
  <2>1. Wrap * d <= -Wrap
    BY <1>1, <1>4, <1>6
  <2> QED BY <1>1, <1>2, <1>4, <2>1
<1>7. CASE d = 0
  BY <1>1, <1>2, <1>4, <1>7
<1> QED BY <1>4, <1>5, <1>6, <1>7

(* The elapsed time is a number of seconds below the wrap.                 *)
LEMMA ElapsedType ==
  ASSUME NEW b \in Int, NEW since \in Int
  PROVE  Elapsed(b, since) \in Nat /\ Elapsed(b, since) < Wrap
  BY OracleAssumption DEF Elapsed

(* A second later it is one more, until the clock wraps.                   *)
LEMMA ElapsedNext ==
  ASSUME NEW b \in Int, NEW since \in Int, Elapsed(b, since) + 1 < Wrap
  PROVE  Elapsed(b + 1, since) = Elapsed(b, since) + 1
<1> DEFINE x == b - since
           q == x \div Wrap
           r == x % Wrap
<1>1. Wrap \in Nat \ {0} /\ x \in Int
  BY OracleAssumption
<1>2. q \in Int /\ r \in 0 .. Wrap - 1 /\ x = Wrap * q + r
  BY <1>1
<1>3. x + 1 = Wrap * q + (r + 1) /\ r + 1 \in 0 .. Wrap - 1
  BY <1>1, <1>2 DEF Elapsed
<1>4. (x + 1) % Wrap = r + 1
  <2> HIDE DEF x, q, r
  <2> QED BY <1>1, <1>2, <1>3, RemainderUnique
<1>5. b + 1 - since = x + 1
  OBVIOUS
<1> QED BY <1>4, <1>5 DEF Elapsed

(* At the block of a trade nothing has elapsed.                            *)
LEMMA ElapsedZero ==
  ASSUME NEW b \in Int
  PROVE  b % Wrap \in Int /\ Elapsed(b, b % Wrap) = 0
<1> DEFINE q == b \div Wrap
           r == b % Wrap
<1>1. Wrap \in Nat \ {0}
  BY OracleAssumption
<1>2. q \in Int /\ r \in 0 .. Wrap - 1 /\ b = Wrap * q + r
  BY <1>1
<1>3. b - r \in Int /\ b - r = Wrap * q + 0 /\ 0 \in 0 .. Wrap - 1
  BY <1>1, <1>2
<1> HIDE DEF q, r
<1>4. (b - r) % Wrap = 0
  BY <1>2, <1>3, RemainderUnique
<1>5. r \in Int
  BY <1>1, <1>2
<1> QED BY <1>4, <1>5 DEF Elapsed, r
-----------------------------------------------------------------------------
(* The chain: blocks are only added, and every one carries the cumulative  *)
(* price on by the price of a second.                                      *)

(* The blocks of the chain and the types of their entries.                 *)
LEMMA EntryType ==
  ASSUME ChainTyped, NEW b \in Blocks, NEW p \in Pairs
  PROVE  /\ b \in Int
         /\ AtBlock(b) \in [Pairs -> Entries]
         /\ AtBlock(b)[p] \in Entries
         /\ Elapsed(b, AtBlock(b)[p].since) \in Nat
         /\ Cumulative(p, b) \in Int
<1>1. b \in Int /\ b - FirstBlock + 1 \in 1 .. Len(chain)
  BY OracleAssumption DEF Blocks, Now, ChainTyped
<1>2. AtBlock(b) \in [Pairs -> Entries]
  BY <1>1 DEF AtBlock, ChainTyped
<1>3. AtBlock(b)[p] \in Entries
  BY <1>2
<1>4. AtBlock(b)[p].since \in Int /\ AtBlock(b)[p].cum \in Int /\ AtBlock(b)[p].price \in Nat
  BY <1>3 DEF Entries
<1>5. Elapsed(b, AtBlock(b)[p].since) \in Nat
  BY <1>1, <1>4, ElapsedType
<1>6. Cumulative(p, b) = AtBlock(b)[p].cum + AtBlock(b)[p].price * Elapsed(b, AtBlock(b)[p].since)
  BY DEF Cumulative
<1>7. Cumulative(p, b) \in Int
  BY <1>4, <1>5, <1>6
<1> QED BY <1>1, <1>2, <1>3, <1>5, <1>7

(* Nothing changes in the blocks that are there.                           *)
LEMMA BlockAdded ==
  ASSUME ChainTyped, NEW e \in [Pairs -> Entries], chain' = Append(chain, e),
         NEW n, n = Now + 1
  PROVE  /\ Len(chain') = Len(chain) + 1 /\ chain' \in Seq([Pairs -> Entries])
         /\ Now' = n /\ n \in Int
         /\ Blocks' = Blocks \cup {n} /\ Now \in Blocks
         /\ \A b \in Blocks : AtBlock(b)' = AtBlock(b)
         /\ AtBlock(n)' = e
         /\ \A b \in Blocks, p \in Pairs : Cumulative(p, b)' = Cumulative(p, b)
<1>1. /\ Len(chain) \in Nat /\ Len(chain) >= 1 /\ FirstBlock \in Nat
      /\ chain \in Seq([Pairs -> Entries])
  BY OracleAssumption DEF ChainTyped
<1>2. /\ Len(chain') = Len(chain) + 1 /\ chain' \in Seq([Pairs -> Entries])
      /\ \A i \in 1 .. Len(chain) : chain'[i] = chain[i]
      /\ chain'[Len(chain) + 1] = e
  BY <1>1
<1>3. Now' = n /\ n \in Int /\ Now \in Blocks /\ Now = FirstBlock + Len(chain) - 1
  BY <1>1, <1>2 DEF Now, Blocks
<1>4. Blocks' = Blocks \cup {n}
  <2>1. Blocks' = FirstBlock .. n /\ Blocks = FirstBlock .. n - 1 /\ n >= FirstBlock
    BY <1>1, <1>3 DEF Blocks
  <2> QED BY <1>1, <1>3, <2>1
<1>5. \A b \in Blocks : AtBlock(b)' = AtBlock(b)
  <2> TAKE b \in Blocks
  <2>1. b - FirstBlock + 1 \in 1 .. Len(chain)
    BY <1>1, <1>3 DEF Blocks
  <2> QED BY <1>2, <2>1 DEF AtBlock
<1>6. AtBlock(n)' = e
  <2>1. n - FirstBlock + 1 = Len(chain) + 1
    BY <1>1, <1>3
  <2> QED BY <1>2, <2>1 DEF AtBlock
<1>7. \A b \in Blocks, p \in Pairs : Cumulative(p, b)' = Cumulative(p, b)
  BY <1>5 DEF Cumulative
<1> QED BY <1>2, <1>3, <1>4, <1>5, <1>6, <1>7

(* An entry that carries the pair on by a second.                          *)
Carries(p, n, e) ==
  /\ e \in Entries
  /\ Elapsed(n, e.since) <= n - FirstBlock
  /\ e.cum + e.price * Elapsed(n, e.since) = Cumulative(p, Now) + AtBlock(Now)[p].price

(* A pair that does not trade, and one that does, carry on.                *)
LEMMA EntryCarries ==
  ASSUME OracleInv, Len(chain) < MaxBlocks, NEW n, n = Now + 1, NEW p \in Pairs
  PROVE  /\ Carries(p, n, AtBlock(Now)[p])
         /\ \A price \in Prices :
              Carries(p, n,
                [price |-> price,
                 cum   |-> AtBlock(Now)[p].cum
                             + AtBlock(Now)[p].price * ((n - AtBlock(Now)[p].since) % Wrap),
                 since |-> n % Wrap])
<1> DEFINE s == AtBlock(Now)[p]
           el == Elapsed(Now, s.since)
<1>1. Now \in Blocks /\ Now \in Int /\ Now - FirstBlock = Len(chain) - 1 /\ Len(chain) \in Nat
      /\ n \in Int /\ FirstBlock \in Nat /\ MaxBlocks \in Nat /\ Wrap \in Nat /\ Wrap > MaxBlocks
  BY OracleAssumption DEF Now, Blocks, OracleInv, ChainTyped
<1>2. /\ s \in Entries /\ el \in Nat /\ Cumulative(p, Now) \in Int
      /\ s.price \in Nat /\ s.cum \in Int /\ s.since \in Int
  BY <1>1, EntryType DEF OracleInv, Entries
<1>3. el <= Now - FirstBlock
  BY <1>1 DEF OracleInv, ClockFits
<1>4. Elapsed(n, s.since) = el + 1
  <2>1. el + 1 < Wrap
    <3> HIDE DEF el
    <3> QED BY <1>1, <1>2, <1>3
  <2> QED BY <1>1, <1>2, <2>1, ElapsedNext
<1>5. Cumulative(p, Now) = s.cum + s.price * el
  BY DEF Cumulative
<1>6. s.cum + s.price * (el + 1) = Cumulative(p, Now) + s.price
  <2> DEFINE a == s.price
  <2>1. a \in Nat /\ el \in Nat /\ a * el \in Int
    BY <1>2
  <2>2. a * (el + 1) = a * el + a
    <3> HIDE DEF a, el
    <3> QED BY <2>1
  <2>3. Cumulative(p, Now) = s.cum + a * el /\ s.cum \in Int
    BY <1>2, <1>5
  <2> HIDE DEF a, el
  <2>4. s.cum + a * (el + 1) = Cumulative(p, Now) + a
    BY <2>1, <2>2, <2>3
  <2> QED BY <2>4 DEF a
<1>7. Carries(p, n, s)
  <2>1. Elapsed(n, s.since) <= n - FirstBlock
    <3> HIDE DEF s, el
    <3> QED BY <1>1, <1>2, <1>3, <1>4
  <2> QED BY <1>2, <1>4, <1>6, <2>1 DEF Carries
<1>8. ASSUME NEW price \in Prices
      PROVE  Carries(p, n, [price |-> price, cum |-> s.cum + s.price * ((n - s.since) % Wrap),
                            since |-> n % Wrap])
  <2> DEFINE c == s.cum + s.price * ((n - s.since) % Wrap)
             e == [price |-> price, cum |-> c, since |-> n % Wrap]
  <2>1. c = Cumulative(p, Now) + s.price
    <3>1. (n - s.since) % Wrap = el + 1
      BY <1>4 DEF Elapsed
    <3> QED BY <1>6, <3>1
  <2>2. n % Wrap \in Int /\ Elapsed(n, n % Wrap) = 0 /\ price \in Nat
    BY <1>1, ElapsedZero, OracleAssumption
  <2>3. c \in Int
    BY <1>2, <2>1
  <2> HIDE DEF c
  <2>4. e \in Entries
    BY <2>2, <2>3 DEF Entries
  <2>5. Elapsed(n, e.since) = 0 /\ e.cum = c /\ e.price = price
    BY <2>2
  <2>6. 0 <= n - FirstBlock
    BY <1>1
  <2> HIDE DEF e
  <2>7. e.cum + e.price * 0 = Cumulative(p, Now) + s.price
    BY <2>1, <2>2, <2>3, <2>5
  <2>8. Carries(p, n, e)
    BY <2>4, <2>5, <2>6, <2>7 DEF Carries
  <2> QED BY <2>8 DEF e, c
<1> QED BY <1>7, <1>8

(* The entries of a new block carry every pair on.                         *)
LEMMA NewEntries ==
  ASSUME OracleInv, NewBlock, NEW n, n = Now + 1
  PROVE  \E e \in [Pairs -> Entries] :
           chain' = Append(chain, e) /\ \A p \in Pairs : Carries(p, n, e[p])
<1> DEFINE old == AtBlock(Now)
<1>1. Len(chain) < MaxBlocks /\ UNCHANGED <<head, snapshots, readerVars>>
  BY DEF NewBlock
<1>2. \A p \in Pairs : Carries(p, n, old[p])
  BY <1>1, EntryCarries
<1>3. Now \in Blocks
  BY OracleAssumption DEF Now, Blocks, OracleInv, ChainTyped
<1>4. old \in [Pairs -> Entries]
  <2>1. Now - FirstBlock + 1 \in 1 .. Len(chain)
    BY OracleAssumption DEF Now, OracleInv, ChainTyped
  <2> QED BY <2>1 DEF AtBlock, OracleInv, ChainTyped
<1>5. CASE chain' = Append(chain, old)
  BY <1>2, <1>4, <1>5
<1>6. ASSUME NEW q \in Pairs, NEW price \in Prices,
             chain' = Append(chain, [old EXCEPT ![q] =
               [price |-> price,
                cum   |-> old[q].cum + old[q].price * ((Now + 1 - old[q].since) % Wrap),
                since |-> (Now + 1) % Wrap]])
      PROVE  \E e \in [Pairs -> Entries] :
               chain' = Append(chain, e) /\ \A p \in Pairs : Carries(p, n, e[p])
  <2> DEFINE new == [price |-> price,
                     cum   |-> old[q].cum + old[q].price * ((n - old[q].since) % Wrap),
                     since |-> n % Wrap]
             e == [old EXCEPT ![q] = new]
  <2>1. Carries(q, n, new)
    BY <1>1, EntryCarries
  <2>2. new \in Entries
    BY <2>1 DEF Carries
  <2>3. chain' = Append(chain, e)
    <3> DEFINE asRead == [price |-> price,
                          cum |-> old[q].cum + old[q].price * ((Now + 1 - old[q].since) % Wrap),
                          since |-> (Now + 1) % Wrap]
    <3>1. chain' = Append(chain, [old EXCEPT ![q] = asRead])
      BY <1>6
    <3>2. asRead = new
      <4>1. Now + 1 = n
        OBVIOUS
      <4>0. Now \in Int /\ old[q].since \in Int
        BY <1>3, EntryType DEF OracleInv, Entries
      <4> HIDE DEF old
      <4>2. Now + 1 - old[q].since = n - old[q].since
        BY <4>1, <4>0
      <4>3. (Now + 1 - old[q].since) % Wrap = (n - old[q].since) % Wrap
        BY <4>2, Zenon
      <4>4. (Now + 1) % Wrap = n % Wrap
        BY <4>1, Zenon
      <4> QED BY <4>3, <4>4, Zenon
    <3> HIDE DEF asRead, new, old
    <3> QED BY <3>1, <3>2
  <2> HIDE DEF new, old
  <2>4. e \in [Pairs -> Entries]
    BY <1>4, <2>2
  <2>5. \A p \in Pairs : Carries(p, n, e[p])
    BY <1>2, <1>4, <2>1
  <2> QED BY <2>3, <2>4, <2>5
<1>7. \/ chain' = Append(chain, old)
      \/ \E q \in Pairs : \E price \in Prices \ {old[q].price} :
           chain' = Append(chain, [old EXCEPT ![q] =
             [price |-> price,
              cum   |-> old[q].cum + old[q].price * ((Now + 1 - old[q].since) % Wrap),
              since |-> (Now + 1) % Wrap]])
  BY DEF NewBlock
<1> HIDE DEF old
<1> QED BY <1>5, <1>6, <1>7
-----------------------------------------------------------------------------
(* The invariant holds initially and is kept by every step.                *)

(* The least price is one of the prices.                                   *)
LEMMA MinPrice == Min(Prices) \in Nat
<1>1. Prices \subseteq Nat /\ Prices # {}
  BY OracleAssumption
<1>2. PICK m \in Prices : \A x \in Prices : ~(<<x, m>> \in OpToRel(<, Nat))
  BY <1>1, NatLessThanWellFounded, WFMin
<1>3. \A x \in Prices : m <= x
  <2> TAKE x \in Prices
  <2>1. <<x, m>> \in Nat \X Nat /\ ~(<<x, m>>[1] < <<x, m>>[2])
    BY <1>1, <1>2 DEF OpToRel
  <2> QED BY <2>1
<1>4. Min(Prices) \in Prices
  BY <1>3 DEF Min
<1> QED BY <1>1, <1>4

(* One block, nothing read.                                                *)
LEMMA InitOracle == Init => OracleInv
<1> SUFFICES ASSUME Init PROVE OracleInv
  OBVIOUS
<1> DEFINE e == [p \in Pairs |-> [price |-> Min(Prices), cum |-> 0, since |-> FirstBlock % Wrap]]
<1>1. /\ chain = <<e>> /\ head = FirstBlock /\ snapshots = [p \in Pairs |-> NoSnapshot]
      /\ at = [r \in Readers |-> "idle"] /\ block = [r \in Readers |-> FirstBlock]
      /\ read = [r \in Readers |-> <<>>]
  BY Zenon DEF Init
<1>2. FirstBlock \in Int /\ FirstBlock % Wrap \in Int /\ Elapsed(FirstBlock, FirstBlock % Wrap) = 0
  BY OracleAssumption, ElapsedZero
<1>3. e \in [Pairs -> Entries] /\ \A p \in Pairs : e[p].since = FirstBlock % Wrap
  BY <1>2, MinPrice DEF Entries
<1> HIDE DEF e
<1>4. Len(chain) = 1 /\ chain \in Seq([Pairs -> Entries]) /\ chain[1] = e
  BY <1>1, <1>3
<1>5. Now = FirstBlock /\ Blocks = {FirstBlock} /\ AtBlock(FirstBlock) = e
  BY <1>2, <1>4 DEF Now, Blocks, AtBlock
<1>6. ChainTyped
  BY <1>4, OracleAssumption DEF ChainTyped
<1>7. ClockFits
  BY <1>2, <1>3, <1>5 DEF ClockFits
<1>8. CumulativeGrows
  BY <1>2, <1>5 DEF CumulativeGrows
<1>9. SnapshotsTrue /\ HighIsReady
  BY <1>1 DEF SnapshotsTrue, HighIsReady
<1>10. ReadsRecent
  BY <1>1 DEF ReadsRecent
<1>11. TypeOK
  <2>1. \A r \in Readers : Len(read[r]) <= Len(Legs[r])
    BY <1>1, OracleAssumption
  <2>2. head \in FirstBlock .. Now /\ block \in [Readers -> FirstBlock .. Now]
    BY <1>1, <1>2, <1>5
  <2>3. \A p \in Pairs : snapshots[p].time = -1
    BY <1>1 DEF NoSnapshot
  <2>4. Len(chain) \in 1 .. MaxBlocks
    BY <1>6 DEF ChainTyped
  <2> QED BY <1>1, <2>1, <2>2, <2>3, <2>4 DEF TypeOK
<1> QED BY <1>6, <1>7, <1>8, <1>9, <1>10, <1>11 DEF OracleInv

(* A new block leaves what is known of the old ones as it was.             *)
LEMMA NewBlockKeeps ==
  ASSUME OracleInv, NewBlock
  PROVE  OracleInv'
<1>1. PICK n : n = Now + 1
  OBVIOUS
<1>2. PICK e \in [Pairs -> Entries] :
        chain' = Append(chain, e) /\ \A p \in Pairs : Carries(p, n, e[p])
  BY <1>1, NewEntries
<1>3. /\ Len(chain') = Len(chain) + 1 /\ chain' \in Seq([Pairs -> Entries])
      /\ Now' = n /\ n \in Int
      /\ Blocks' = Blocks \cup {n} /\ Now \in Blocks
      /\ \A b \in Blocks : AtBlock(b)' = AtBlock(b)
      /\ AtBlock(n)' = e
      /\ \A b \in Blocks, p \in Pairs : Cumulative(p, b)' = Cumulative(p, b)
  BY <1>1, <1>2, BlockAdded DEF OracleInv
<1>4. /\ Len(chain) < MaxBlocks /\ head' = head /\ snapshots' = snapshots
      /\ at' = at /\ block' = block /\ read' = read
  BY DEF NewBlock, readerVars
<1>5. FirstBlock \in Nat /\ MaxBlocks \in Nat /\ Now \in Int /\ Len(chain) \in Nat
      /\ Len(chain) >= 1 /\ Now = FirstBlock + Len(chain) - 1
  BY OracleAssumption DEF OracleInv, ChainTyped, Now
<1>6. ChainTyped'
  BY <1>3, <1>4, <1>5 DEF ChainTyped
<1>7. TypeOK'
  <2>1. head' \in FirstBlock .. Now' /\ block' \in [Readers -> FirstBlock .. Now']
    BY <1>1, <1>3, <1>4, <1>5 DEF OracleInv, TypeOK
  <2>2. \A p \in Pairs : snapshots'[p].time \in {-1} \cup FirstBlock .. Now'
    BY <1>1, <1>3, <1>4, <1>5 DEF OracleInv, TypeOK
  <2> QED BY <1>4, <1>6, <2>1, <2>2 DEF OracleInv, TypeOK, ChainTyped
<1>8. ClockFits'
  <2> SUFFICES ASSUME NEW b \in Blocks', NEW p \in Pairs
               PROVE  Elapsed(b, AtBlock(b)'[p].since) <= b - FirstBlock
    BY DEF ClockFits, Elapsed
  <2>1. CASE b \in Blocks
    BY <1>3, <2>1 DEF OracleInv, ClockFits
  <2>2. CASE b = n
    BY <1>2, <1>3, <2>2 DEF Carries
  <2> QED BY <1>3, <2>1, <2>2
<1>9. CumulativeGrows'
  <2> SUFFICES ASSUME NEW b \in FirstBlock .. n - 1, NEW p \in Pairs
               PROVE  Cumulative(p, b + 1)' = Cumulative(p, b)' + AtBlock(b)'[p].price
    BY <1>3 DEF CumulativeGrows
  <2>1. b \in Blocks /\ Cumulative(p, b)' = Cumulative(p, b) /\ AtBlock(b)' = AtBlock(b)
    BY <1>1, <1>3, <1>5 DEF Blocks
  <2>2. CASE b < Now
    <3>1. b \in FirstBlock .. Now - 1 /\ b + 1 \in Blocks
      BY <1>5, <2>1, <2>2 DEF Blocks
    <3>2. Cumulative(p, b + 1)' = Cumulative(p, b + 1)
      BY <1>3, <3>1
    <3> QED BY <2>1, <3>1, <3>2 DEF OracleInv, CumulativeGrows
  <2>3. CASE b = Now
    <3>1. b + 1 = n
      BY <1>1, <2>3
    <3>2. Cumulative(p, n)' = e[p].cum + e[p].price * Elapsed(n, e[p].since)
      BY <1>3 DEF Cumulative, Elapsed
    <3>3. e[p].cum + e[p].price * Elapsed(n, e[p].since) = Cumulative(p, b) + AtBlock(b)[p].price
      BY <1>2, <2>3 DEF Carries
    <3> QED BY <2>1, <3>1, <3>2, <3>3
  <2> QED BY <1>1, <1>5, <2>2, <2>3
<1>10. SnapshotsTrue'
  <2> SUFFICES ASSUME NEW p \in Pairs, snapshots[p] # NoSnapshot
               PROVE  SnapshotOf(p, snapshots[p])'
    BY <1>4 DEF OracleInv, SnapshotsTrue
  <2>1. PICK s : s = snapshots[p]
    OBVIOUS
  <2>2. SnapshotOf(p, s)
    BY <2>1 DEF OracleInv, SnapshotsTrue
  <2>3. s.time \in Blocks' /\ Cumulative(p, s.time)' = Cumulative(p, s.time)
    BY <1>3, <2>2 DEF SnapshotOf
  <2>4. s.ready => /\ s.time - s.len \in Blocks'
                   /\ Cumulative(p, s.time - s.len)' = Cumulative(p, s.time - s.len)
    BY <1>3, <2>2 DEF SnapshotOf
  <2>5. SnapshotOf(p, s)'
    BY <2>2, <2>3, <2>4 DEF SnapshotOf
  <2>6. s = snapshots'[p]
    BY <1>4, <2>1
  <2> QED BY <2>5, <2>6 DEF SnapshotOf, Cumulative, AtBlock, Elapsed
<1>11. ReadsRecent' /\ HighIsReady'
  BY <1>4 DEF OracleInv, ReadsRecent, HighIsReady
<1> QED BY <1>6, <1>7, <1>8, <1>9, <1>10, <1>11 DEF OracleInv

(* What does not touch the chain or the snapshots leaves them true.        *)
LEMMA ChainKept ==
  ASSUME OracleInv, chain' = chain
  PROVE  /\ ChainTyped' /\ ClockFits' /\ CumulativeGrows'
         /\ Now' = Now /\ Blocks' = Blocks
         /\ snapshots' = snapshots => SnapshotsTrue'
<1>1. ChainTyped' /\ Now' = Now /\ Blocks' = Blocks
  BY DEF OracleInv, ChainTyped, Now, Blocks
<1>2. ClockFits'
  BY <1>1 DEF OracleInv, ClockFits, AtBlock
<1>3. CumulativeGrows'
  BY <1>1 DEF OracleInv, CumulativeGrows, Cumulative, AtBlock
<1>4. snapshots' = snapshots => SnapshotsTrue'
  BY <1>1 DEF OracleInv, SnapshotsTrue, SnapshotOf, Cumulative, AtBlock
<1> QED BY <1>1, <1>2, <1>3, <1>4

(* The snapshot after the read of a leg: whose it is, and how recent a     *)
(* TWAP in it is for the reader.                                           *)
LEMMA NextSnapshotTrue ==
  ASSUME OracleInv, NEW r \in Readers, NEW p \in Range(Legs[r]), p \in Pairs,
         NEW b \in Blocks
  PROVE  LET s == NextSnapshot(p, b, Window[r])
         IN  /\ SnapshotOf(p, s)
             /\ s.ready => s.time \in b - Window[r] + 1 .. b
<1> DEFINE old == snapshots[p]
           s == NextSnapshot(p, b, Window[r])
<1>1. Window[r] \in Nat \ {0} /\ FirstBlock \in Nat
  BY OracleAssumption
<1>2. b \in Int /\ Cumulative(p, b) \in Int
  BY EntryType DEF OracleInv
<1>3. old = NoSnapshot \/ SnapshotOf(p, old)
  BY DEF OracleInv, SnapshotsTrue
<1>4. CASE Rebase(p, b)
  <2>1. s = [time |-> b, cum |-> Cumulative(p, b), ready |-> FALSE]
    BY <1>4 DEF NextSnapshot, Snap
  <2> HIDE DEF s
  <2>2. s.time = b /\ s.cum = Cumulative(p, b) /\ s.ready = FALSE
    BY <2>1
  <2>3. SnapshotOf(p, s) /\ ~s.ready
    BY <2>2 DEF SnapshotOf
  <2> QED BY <2>3 DEF s
<1>5. CASE ~Rebase(p, b)
  <2>1. SnapshotOf(p, old) /\ ~(b <= old.time)
    BY <1>3, <1>5 DEF Rebase
  <2>2. old.time \in Blocks /\ old.time \in Int /\ old.cum = Cumulative(p, old.time)
        /\ old.cum \in Int
    BY <2>1, EntryType DEF SnapshotOf, OracleInv
  <2>3. old.time < b
    BY <1>2, <2>1, <2>2
  <2>4. CASE AfterWindow(p, b, Window[r])
    <3>1. s = [time |-> b, cum |-> Cumulative(p, b), ready |-> TRUE,
               sum |-> Cumulative(p, b) - old.cum, len |-> b - old.time]
      BY <1>5, <2>4 DEF NextSnapshot, Averaged
    <3> HIDE DEF s, old
    <3>2. /\ s.time = b /\ s.cum = Cumulative(p, b) /\ s.ready = TRUE
          /\ s.sum = Cumulative(p, b) - old.cum /\ s.len = b - old.time
      BY <3>1
    <3>3. b - old.time >= Window[r]
      BY <2>4 DEF AfterWindow, old
    <3>4. s.len \in Nat /\ s.time - s.len = old.time /\ s.len >= Window[r]
      BY <1>2, <2>2, <2>3, <3>2, <3>3
    <3>5. \E q \in Readers : p \in Range(Legs[q]) /\ s.len >= Window[q]
      BY <3>4
    <3>6. SnapshotOf(p, s)
      BY <2>2, <3>2, <3>4, <3>5 DEF SnapshotOf
    <3>7. s.time \in b - Window[r] + 1 .. b
      BY <1>1, <1>2, <3>2
    <3> QED BY <3>6, <3>7 DEF s
  <2>5. CASE ~AfterWindow(p, b, Window[r])
    <3>1. s = old
      BY <1>5, <2>5 DEF NextSnapshot
    <3>2. ~(b - old.time >= Window[r])
      BY <1>5, <2>5 DEF AfterWindow
    <3> HIDE DEF s, old
    <3>3. old.time \in b - Window[r] + 1 .. b
      BY <1>1, <1>2, <2>2, <2>3, <3>2
    <3>4. SnapshotOf(p, s) /\ s.time \in b - Window[r] + 1 .. b
      BY <2>1, <3>1, <3>3
    <3> QED BY <3>4 DEF s
  <2> QED BY <2>4, <2>5
<1> QED BY <1>4, <1>5
(* The read of a leg updates one snapshot and one reader.                  *)
LEMMA ReadLegKeeps ==
  ASSUME OracleInv, NEW r \in Readers, ReadLeg(r)
  PROVE  OracleInv'
<1> DEFINE p == Legs[r][Len(read[r]) + 1]
           b == block[r]
           s == NextSnapshot(p, b, Window[r])
           leg == IF s.ready
                    THEN [spot |-> AtBlock(b)[p].price, ready |-> TRUE, sum |-> s.sum,
                          len |-> s.len, end |-> s.time]
                    ELSE [spot |-> AtBlock(b)[p].price, ready |-> FALSE]
<1>1. /\ at[r] = "legs" /\ Len(read[r]) < Len(Legs[r])
      /\ snapshots' = [snapshots EXCEPT ![p] = s]
      /\ read' = [read EXCEPT ![r] = Append(read[r], leg)]
      /\ chain' = chain /\ head' = head /\ at' = at /\ block' = block
  BY DEF ReadLeg
<1>2. Legs[r] \in Seq(Pairs) /\ read[r] \in Seq(LegReads)
  BY OracleAssumption DEF OracleInv, ReadsRecent
<1>3. Len(read[r]) + 1 \in DOMAIN Legs[r]
  BY <1>1, <1>2
<1>4. p \in Pairs /\ p \in Range(Legs[r])
  BY <1>2, <1>3 DEF Range
<1>5. b \in Blocks
  BY DEF OracleInv, TypeOK, Blocks
<1>6. SnapshotOf(p, s) /\ (s.ready => s.time \in b - Window[r] + 1 .. b)
  BY <1>4, <1>5, NextSnapshotTrue
<1>7. AtBlock(b)[p].price \in Nat
  BY <1>4, <1>5, EntryType DEF OracleInv, Entries
<1> HIDE DEF s
<1>8. s.time \in Blocks /\ s.time \in Int /\ s.ready \in BOOLEAN
      /\ (s.ready => s.sum \in Int /\ s.len \in Nat)
  <2>1. s.time \in Blocks /\ s.time \in Int /\ s.ready \in BOOLEAN /\ Cumulative(p, s.time) \in Int
    BY <1>4, <1>6, EntryType DEF SnapshotOf, OracleInv
  <2>2. ASSUME s.ready PROVE s.sum \in Int /\ s.len \in Nat
    <3>1. /\ s.len \in Nat /\ s.time - s.len \in Blocks
          /\ s.sum = Cumulative(p, s.time) - Cumulative(p, s.time - s.len)
      BY <1>6, <2>2 DEF SnapshotOf
    <3>2. Cumulative(p, s.time - s.len) \in Int
      BY <1>4, <3>1, EntryType DEF OracleInv
    <3> QED BY <2>1, <3>1, <3>2
  <2> QED BY <2>1, <2>2
<1>9. leg \in LegReads /\ (leg.ready => leg.end \in b - Window[r] + 1 .. b)
  <2>1. CASE s.ready
    BY <1>6, <1>7, <1>8, <2>1 DEF LegReads
  <2>2. CASE ~s.ready
    BY <1>7, <2>2 DEF LegReads
  <2> QED BY <2>1, <2>2
<1> HIDE DEF leg, p, b
<1>10. /\ ChainTyped' /\ ClockFits' /\ CumulativeGrows' /\ Now' = Now /\ Blocks' = Blocks
  BY <1>1, ChainKept
<1>11. SnapshotsTrue'
  <2>1. DOMAIN snapshots' = Pairs
    BY <1>1 DEF OracleInv, SnapshotsTrue
  <2>2. ASSUME NEW q \in Pairs PROVE snapshots'[q] = NoSnapshot \/ SnapshotOf(q, snapshots[q])'
    <3>1. PICK t : t = snapshots'[q]
      OBVIOUS
    <3>2. t = NoSnapshot \/ SnapshotOf(q, t)
      <4>1. CASE q = p
        BY <1>1, <1>4, <1>6, <3>1, <4>1 DEF OracleInv, SnapshotsTrue
      <4>2. CASE q # p
        BY <1>1, <3>1, <4>2 DEF OracleInv, SnapshotsTrue
      <4> QED BY <4>1, <4>2
    <3> QED BY <1>1, <1>10, <3>1, <3>2 DEF SnapshotOf, Cumulative, AtBlock
  <2> QED BY <2>1, <2>2 DEF SnapshotsTrue
<1>12. /\ read' \in [Readers -> Seq(LegReads)]
       /\ read'[r] = Append(read[r], leg) /\ \A q \in Readers \ {r} : read'[q] = read[q]
  BY <1>1, <1>2, <1>9 DEF OracleInv, ReadsRecent
<1>13. ReadsRecent'
  <2> SUFFICES ASSUME NEW q \in Readers, NEW k \in DOMAIN read'[q], read'[q][k].ready
               PROVE  read'[q][k].end \in block[q] - Window[q] + 1 .. block[q]
    BY <1>1, <1>12 DEF ReadsRecent
  <2>1. CASE q # r
    BY <1>12, <2>1 DEF OracleInv, ReadsRecent
  <2>2. CASE q = r
    <3>1. k \in 1 .. Len(read[r]) + 1
      BY <1>2, <1>9, <1>12, <2>2
    <3>2. CASE k \in 1 .. Len(read[r])
      <4>1. read'[r][k] = read[r][k] /\ k \in DOMAIN read[r]
        BY <1>2, <1>12, <3>2
      <4> QED BY <2>2, <4>1 DEF OracleInv, ReadsRecent
    <3>3. CASE k = Len(read[r]) + 1
      <4>1. read'[r][k] = leg
        BY <1>2, <1>12, <3>3
      <4> QED BY <1>9, <2>2, <4>1 DEF b
    <3> QED BY <1>2, <3>1, <3>2, <3>3
  <2> QED BY <2>1, <2>2
<1>14. HighIsReady'
  <2> SUFFICES ASSUME NEW q \in Readers, at'[q] = "high"
               PROVE  \A k \in DOMAIN read'[q] : read'[q][k].ready
    BY DEF HighIsReady
  <2>1. q # r /\ read'[q] = read[q] /\ at[q] = "high"
    BY <1>1, <1>12
  <2> QED BY <2>1 DEF OracleInv, HighIsReady
<1>15. TypeOK'
  <2>1. \A q \in Readers : Len(read'[q]) <= Len(Legs[q])
    <3> TAKE q \in Readers
    <3>1. CASE q = r
      <4>1. Len(read'[r]) = Len(read[r]) + 1 /\ Len(read[r]) \in Nat /\ Len(Legs[r]) \in Nat
        BY <1>2, <1>12
      <4> QED BY <1>1, <3>1, <4>1
    <3>2. CASE q # r
      BY <1>12, <3>2 DEF OracleInv, TypeOK
    <3> QED BY <3>1, <3>2
  <2>2. \A q \in Pairs : snapshots'[q].time \in {-1} \cup FirstBlock .. Now
    <3> TAKE q \in Pairs
    <3>1. CASE q = p
      BY <1>1, <1>4, <1>8, <3>1 DEF OracleInv, SnapshotsTrue, Blocks
    <3>2. CASE q # p
      BY <1>1, <3>2 DEF OracleInv, SnapshotsTrue, TypeOK
    <3> QED BY <3>1, <3>2
  <2> QED BY <1>1, <1>10, <2>1, <2>2 DEF OracleInv, TypeOK
<1> QED BY <1>10, <1>11, <1>13, <1>14, <1>15 DEF OracleInv

(* The other steps of a reader change nothing but the reader, and start it *)
(* with nothing read or end it.                                            *)
LEMMA ReaderKeeps ==
  ASSUME OracleInv, NEW r \in Readers, LatestBlock(r) \/ PriceFails(r) \/ Price(r)
  PROVE  OracleInv'
<1>1. chain' = chain /\ snapshots' = snapshots
  BY DEF LatestBlock, PriceFails, Price
<1>2. /\ ChainTyped' /\ ClockFits' /\ CumulativeGrows' /\ SnapshotsTrue'
      /\ Now' = Now /\ Blocks' = Blocks
  BY <1>1, ChainKept
<1>3. FirstBlock \in Nat /\ Now \in Int /\ FirstBlock <= Now /\ Lag \in Nat
      /\ head \in FirstBlock .. Now /\ block \in [Readers -> FirstBlock .. Now]
      /\ at \in [Readers -> {"idle", "legs", "high", "warming_up"}]
      /\ read \in [Readers -> Seq(LegReads)]
  BY OracleAssumption DEF OracleInv, ChainTyped, TypeOK, Now, ReadsRecent
<1>4. CASE Price(r)
  <2>1. /\ block' = block /\ read' = read /\ head' = head
        /\ at' = [at EXCEPT ![r] = IF AllReady(r) THEN "high" ELSE "warming_up"]
    BY <1>4 DEF Price
  <2>2. TypeOK' /\ ReadsRecent'
    BY <1>1, <1>2, <1>3, <2>1 DEF OracleInv, TypeOK, ReadsRecent
  <2>3. HighIsReady'
    BY <1>3, <2>1 DEF OracleInv, HighIsReady, AllReady
  <2> QED BY <1>2, <2>2, <2>3 DEF OracleInv
<1>5. CASE LatestBlock(r) \/ PriceFails(r)
  <2>1. PICK b \in FirstBlock .. Now, a \in {"legs", "idle"} :
          /\ block' = [block EXCEPT ![r] = b] /\ at' = [at EXCEPT ![r] = a]
          /\ read' = [read EXCEPT ![r] = <<>>] /\ head' \in FirstBlock .. Now
    <3>1. CASE LatestBlock(r)
      <4>1. PICK b \in {head} \cup {c \in FirstBlock .. Now : c >= Now - Lag} :
              head' = b /\ block' = [block EXCEPT ![r] = b]
        BY <3>1 DEF LatestBlock
      <4>2. b \in FirstBlock .. Now
        BY <1>3, <4>1
      <4> QED BY <3>1, <4>1, <4>2 DEF LatestBlock
    <3>2. CASE PriceFails(r)
      <4>1. FirstBlock \in FirstBlock .. Now
        BY <1>3
      <4> QED BY <1>3, <3>2, <4>1 DEF PriceFails
    <3> QED BY <1>5, <3>1, <3>2
  <2>2. /\ read'[r] = <<>> /\ \A q \in Readers \ {r} : read'[q] = read[q]
        /\ read' \in [Readers -> Seq(LegReads)]
        /\ \A q \in Readers \ {r} : block'[q] = block[q] /\ at'[q] = at[q]
        /\ at'[r] # "high"
    BY <1>3, <2>1
  <2>3. ReadsRecent'
    <3> SUFFICES ASSUME NEW q \in Readers, NEW k \in DOMAIN read'[q], read'[q][k].ready
                 PROVE  read'[q][k].end \in block'[q] - Window[q] + 1 .. block'[q]
      BY <2>2 DEF ReadsRecent
    <3>1. q # r
      BY <2>2
    <3>2. read'[q] = read[q] /\ block'[q] = block[q]
      BY <2>2, <3>1
    <3> QED BY <3>2 DEF OracleInv, ReadsRecent
  <2>4. HighIsReady'
    BY <2>2 DEF OracleInv, HighIsReady
  <2>5. TypeOK'
    <3>1. \A q \in Readers : Len(read'[q]) <= Len(Legs[q])
      <4> TAKE q \in Readers
      <4>1. CASE q = r
        <5>1. Len(read'[q]) = 0 /\ Len(Legs[q]) \in Nat
          BY <2>2, <4>1, OracleAssumption
        <5> QED BY <5>1
      <4>2. CASE q # r
        BY <2>2, <4>2 DEF OracleInv, TypeOK
      <4> QED BY <4>1, <4>2
    <3> QED BY <1>1, <1>2, <1>3, <2>1, <3>1 DEF OracleInv, TypeOK
  <2> QED BY <1>2, <2>3, <2>4, <2>5 DEF OracleInv
<1> QED BY <1>4, <1>5

-----------------------------------------------------------------------------
(* The theorems.                                                           *)

(* The inductive invariant holds in every reachable state.                 *)
THEOREM OracleInvariant == Spec => []OracleInv
<1>1. ASSUME OracleInv, UNCHANGED vars PROVE OracleInv'
  <2>1. /\ chain' = chain /\ head' = head /\ snapshots' = snapshots
        /\ at' = at /\ block' = block /\ read' = read
    BY <1>1 DEF vars, readerVars
  <2>2. /\ ChainTyped' /\ ClockFits' /\ CumulativeGrows' /\ SnapshotsTrue' /\ Now' = Now
    BY <1>1, <2>1, ChainKept
  <2> QED BY <1>1, <2>1, <2>2 DEF OracleInv, TypeOK, ReadsRecent, HighIsReady
<1>2. OracleInv /\ [Next]_vars => OracleInv'
  BY <1>1, NewBlockKeeps, ReadLegKeeps, ReaderKeeps DEF Next
<1> QED BY InitOracle, <1>2, PTL DEF Spec

(* Every variable of the oracle keeps its type.                            *)
THEOREM TypeCorrect == Spec => []TypeOK
  BY OracleInvariant, PTL DEF OracleInv

(* What a pair was worth from a to b is the difference of the cumulative   *)
(* prices that readPair computes there.                                    *)
LEMMA WorthIsDifference ==
  ASSUME OracleInv, NEW p \in Pairs, NEW a \in Blocks, NEW b \in Blocks, a <= b
  PROVE  Worth(p, a, b) = Cumulative(p, b) - Cumulative(p, a)
<1> DEFINE N == 0 .. b - a
           price(n) == AtBlock(a + n - 1)[p].price
           Sums(f) == f = [n \in N |-> IF n = 0 THEN 0 ELSE f[n - 1] + price(n)]
           diff == [n \in N |-> Cumulative(p, a + n) - Cumulative(p, a)]
           upTo == CHOOSE f : Sums(f)
<1>1. a \in Int /\ b \in Int /\ a >= FirstBlock /\ b <= Now /\ Now \in Int /\ FirstBlock \in Int
  BY OracleAssumption DEF Blocks, Now, OracleInv, ChainTyped
<1>2. Worth(p, a, b) = upTo[b - a]
  BY DEF Worth
<1>3. \A n \in N : a + n \in Blocks /\ Cumulative(p, a + n) \in Int
  <2> TAKE n \in N
  <2>1. a + n \in Blocks
    BY <1>1 DEF Blocks
  <2> QED BY <2>1, EntryType DEF OracleInv
<1>4. \A n \in N \ {0} :
        /\ n - 1 \in N
        /\ Cumulative(p, a + n) = Cumulative(p, a + (n - 1)) + price(n)
  <2> TAKE n \in N \ {0}
  <2>1. a + n - 1 \in FirstBlock .. Now - 1 /\ (a + n - 1) + 1 = a + n
        /\ a + (n - 1) = a + n - 1 /\ n - 1 \in N
    BY <1>1
  <2> QED BY <2>1 DEF OracleInv, CumulativeGrows
<1>5. \A n \in N \ {0} : price(n) \in Int
  <2> TAKE n \in N \ {0}
  <2>1. a + n - 1 \in Blocks
    BY <1>1 DEF Blocks
  <2> QED BY <2>1, EntryType DEF OracleInv, Entries
<1> HIDE DEF price
<1>6. Cumulative(p, a) \in Int /\ a + 0 = a
  BY <1>1, EntryType DEF OracleInv
<1>7. Sums(diff)
  <2>1. \A n \in N : diff[n] = IF n = 0 THEN 0 ELSE diff[n - 1] + price(n)
    <3> TAKE n \in N
    <3>1. CASE n = 0
      BY <1>6, <3>1
    <3>2. CASE n # 0
      <4>1. n - 1 \in N /\ Cumulative(p, a + n) = Cumulative(p, a + (n - 1)) + price(n)
            /\ Cumulative(p, a + (n - 1)) \in Int /\ price(n) \in Int
        BY <1>3, <1>4, <1>5, <3>2
      <4>2. diff[n] = Cumulative(p, a + n) - Cumulative(p, a)
            /\ diff[n - 1] = Cumulative(p, a + (n - 1)) - Cumulative(p, a)
        BY <4>1
      <4> HIDE DEF diff
      <4> QED BY <1>6, <3>2, <4>1, <4>2
    <3> QED BY <3>1, <3>2
  <2>2. diff = [n \in N |-> diff[n]]
    OBVIOUS
  <2> HIDE DEF diff, N
  <2> QED BY <2>1, <2>2
<1>8. Sums(upTo)
  <2> HIDE DEF Sums, diff
  <2> QED BY <1>7
<1>9. upTo[b - a] = diff[b - a]
  <2> DEFINE Bad == {n \in N : upTo[n] # diff[n]}
  <2>1. SUFFICES ASSUME Bad # {} PROVE FALSE
    <3>1. b - a \in N
      BY <1>1
    <3> QED BY <2>1, <3>1
  <2>2. Bad \subseteq Nat
    BY <1>1
  <2>3. PICK m \in Bad : \A x \in Bad : ~(<<x, m>> \in OpToRel(<, Nat))
    <3> HIDE DEF Bad
    <3> QED BY <2>1, <2>2, NatLessThanWellFounded, WFMin
  <2>4. m \in N /\ upTo[m] # diff[m]
    BY <2>3
  <2>5. /\ upTo[m] = IF m = 0 THEN 0 ELSE upTo[m - 1] + price(m)
        /\ diff[m] = IF m = 0 THEN 0 ELSE diff[m - 1] + price(m)
    <3> HIDE DEF upTo, diff, N
    <3> QED BY <1>7, <1>8, <2>4
  <2>6. m # 0 /\ upTo[m - 1] # diff[m - 1]
    <3> HIDE DEF upTo, diff
    <3> QED BY <2>4, <2>5
  <2>7. m - 1 \in Bad /\ m \in Nat /\ m - 1 \in Nat
    BY <1>1, <1>4, <2>4, <2>6
  <2>8. <<m - 1, m>> \in OpToRel(<, Nat)
    BY <2>7 DEF OpToRel
  <2> QED BY <2>3, <2>7, <2>8
<1>10. diff[b - a] = Cumulative(p, b) - Cumulative(p, a)
  <2>1. b - a \in N /\ a + (b - a) = b
    BY <1>1
  <2> QED BY <2>1
<1> QED BY <1>2, <1>9, <1>10

(* A ready TWAP is the average of the pair's price over one stretch, not   *)
(* shorter than the window of some reader of the pair.                     *)
THEOREM TwapsAreAverages == Spec => []TwapIsAverage
<1>1. ASSUME OracleInv PROVE TwapIsAverage
  <2> SUFFICES ASSUME NEW p \in Pairs, snapshots[p] # NoSnapshot, snapshots[p].ready
               PROVE  LET s == snapshots[p]
                      IN  /\ \E r \in Readers : p \in Range(Legs[r]) /\ s.len >= Window[r]
                          /\ s.sum = Worth(p, s.time - s.len, s.time)
    BY DEF TwapIsAverage
  <2> DEFINE s == snapshots[p]
  <2>1. SnapshotOf(p, s)
    BY <1>1 DEF OracleInv, SnapshotsTrue
  <2>2. /\ s.time \in Blocks /\ s.len \in Nat /\ s.time - s.len \in Blocks
        /\ s.sum = Cumulative(p, s.time) - Cumulative(p, s.time - s.len)
        /\ \E r \in Readers : p \in Range(Legs[r]) /\ s.len >= Window[r]
    BY <2>1 DEF SnapshotOf
  <2>3. s.time \in Int
    BY <1>1, <2>2, EntryType DEF OracleInv
  <2> HIDE DEF s
  <2>4. s.time - s.len <= s.time
    BY <2>2, <2>3
  <2>5. s.sum = Worth(p, s.time - s.len, s.time)
    BY <1>1, <2>2, <2>4, WorthIsDifference
  <2> QED BY <2>2, <2>5 DEF s
<1> QED BY OracleInvariant, <1>1, PTL

(* A price of high confidence rests on windows that ended recently and     *)
(* before its block.                                                       *)
THEOREM HighPricesAreRecent == Spec => []HighConfidenceRecent
<1>1. OracleInv => HighConfidenceRecent
  BY DEF OracleInv, HighIsReady, ReadsRecent, HighConfidenceRecent
<1> QED BY OracleInvariant, <1>1, PTL
=============================================================================
