------------------------------- MODULE Oracle -------------------------------
(***************************************************************************)
(* The Pancake V2 oracle: instruments read the pairs of their reference    *)
(* price at a block, in goroutines of their own, and share one snapshot of *)
(* each pair, from which the time-weighted average (TWAP) is taken.        *)
(*                                                                         *)
(* A pair keeps the cumulative price up to its last trade, whose time it   *)
(* stores with few bits; readPair carries it on to the block it reads.     *)
(* Prices are those of the base token, in small numbers; an average is     *)
(* kept as a sum over a number of seconds.  Blocks come one second apart.  *)
(* The idle limit of a leg is that of its pair, and all readers have the   *)
(* same limit on deviation.                                                *)
(***************************************************************************)
EXTENDS Integers, Sequences, SequencesExt, FiniteSetsExt

CONSTANTS
  Pairs,
  Readers,     \* instruments
  Legs,        \* the pairs of a reader's reference price, in order
  Prices,
  Window,      \* twap_window_seconds of a reader
  MaxIdle,     \* max_idle_seconds of a pair, 0 for none
  MaxDeviation, \* max_spot_twap_deviation_bps, 0 for none
  AllowSpot,   \* allow_spot_during_warmup of a reader
  Wrap,        \* timestamps of a pair are kept modulo this (2^32)
  FirstBlock,  \* time of the first block
  MaxBlocks,   \* bound on blocks
  Lag          \* blocks by which a node may be behind

ASSUME OracleAssumption ==
  /\ Legs \in [Readers -> Seq(Pairs)]
  /\ Prices \subseteq Nat \ {0} /\ Prices # {}
  /\ Window \in [Readers -> Nat \ {0}] /\ MaxIdle \in [Pairs -> Nat] /\ MaxDeviation \in Nat
  /\ AllowSpot \in [Readers -> BOOLEAN]
  /\ FirstBlock \in Nat /\ MaxBlocks \in Nat \ {0} /\ Lag \in Nat
  /\ Wrap \in Nat /\ Wrap > MaxBlocks

VARIABLES
  chain,      \* for each block, from the first: price, cumulative and time stored by each pair
  head,       \* RPCClient.latestBlock: the block cached for half a second
  snapshots,  \* Oracle.snapshots
  at,         \* readers: "idle", "legs", and what Price returned: "high", "warming_up"
  block,      \* the block a reader reads at
  read        \* the legs it has read: spot price, TWAP and the end of its window

readerVars == <<at, block, read>>
vars == <<chain, head, snapshots, readerVars>>

NoSnapshot == [time |-> -1]
Now == FirstBlock + Len(chain) - 1
AtBlock(b) == chain[b - FirstBlock + 1]

-----------------------------------------------------------------------------
(* The chain.                                                              *)

(* A block in which one pair, or none, trades to another price.  External: *)
(* the pair contract.                                                      *)
NewBlock ==
  /\ Len(chain) < MaxBlocks
  /\ \/ chain' = Append(chain, AtBlock(Now))
     \/ \E p \in Pairs : \E price \in Prices \ {AtBlock(Now)[p].price} :
          chain' = Append(chain, [AtBlock(Now) EXCEPT ![p] =
            [price |-> price,
             cum   |-> @.cum + @.price * ((Now + 1 - @.since) % Wrap),
             since |-> (Now + 1) % Wrap]])
  /\ UNCHANGED <<head, snapshots, readerVars>>

\* Altered form for mutation: the stored time is taken as it is.
ElapsedUnwrapped(b, since) == b - since

\* The subtraction of uint32 times in readPair and readLeg.
Elapsed(b, since) == (b - since) % Wrap

\* readPair: the cumulative price carried on to block b.
Cumulative(p, b) ==
  LET s == AtBlock(b)[p] IN s.cum + s.price * Elapsed(b, s.since)

-----------------------------------------------------------------------------
(* Oracle.Price.                                                           *)

(* LatestBlock: the cached block, or the latest of the first node that     *)
(* answers, which may be behind.                                           *)
LatestBlock(r) ==
  /\ at[r] # "legs"
  /\ \E b \in {head} \cup {c \in FirstBlock .. Now : c >= Now - Lag} :
       /\ head' = b
       /\ block' = [block EXCEPT ![r] = b]
  /\ at' = [at EXCEPT ![r] = "legs"]
  /\ read' = [read EXCEPT ![r] = <<>>]
  /\ UNCHANGED <<chain, snapshots>>

\* A snapshot without an average, and one that ends a window.
Snap(p, b) == [time |-> b, cum |-> Cumulative(p, b), ready |-> FALSE]

Averaged(p, b) ==
  [time |-> b, cum |-> Cumulative(p, b), ready |-> TRUE,
   sum |-> Cumulative(p, b) - snapshots[p].cum, len |-> b - snapshots[p].time]

(* readLeg under the lock: the first read of a pair, or one of a block no  *)
(* later than the snapshot, starts the warm-up, again if need be.          *)
Rebase(p, b) == snapshots[p] = NoSnapshot \/ b <= snapshots[p].time

\* Altered form for mutation: only the first window ends.
AfterWindowOnce(p, b, w) == ~Rebase(p, b) /\ b - snapshots[p].time >= w /\ ~snapshots[p].ready

(* The reader's window w has passed since the snapshot, whoever took it.   *)
AfterWindow(p, b, w) == ~Rebase(p, b) /\ b - snapshots[p].time >= w

\* What readLeg makes of the snapshot; inside the window it stays, with its TWAP.
NextSnapshot(p, b, w) ==
  IF Rebase(p, b) THEN Snap(p, b)
  ELSE IF AfterWindow(p, b, w) THEN Averaged(p, b)
  ELSE snapshots[p]

\* max_idle_seconds; the other checks of readLeg do not depend on time.
TooIdle(p, b) == MaxIdle[p] > 0 /\ Elapsed(b, AtBlock(b)[p].since) > MaxIdle[p]

\* readLeg: the next leg of a reader at its block.
ReadLeg(r) ==
  /\ at[r] = "legs" /\ Len(read[r]) < Len(Legs[r])
  /\ LET p == Legs[r][Len(read[r]) + 1]
         b == block[r]
         s == NextSnapshot(p, b, Window[r])
     IN  /\ ~TooIdle(p, b)
         /\ snapshots' = [snapshots EXCEPT ![p] = s]
         /\ read' = [read EXCEPT ![r] = Append(@,
              IF s.ready
                THEN [spot |-> AtBlock(b)[p].price, ready |-> TRUE, sum |-> s.sum, len |-> s.len, end |-> s.time]
                ELSE [spot |-> AtBlock(b)[p].price, ready |-> FALSE])]
  /\ UNCHANGED <<chain, head, at, block>>

\* A node fails, a check of readLeg fails, or the block turns out to be stale.
PriceFails(r) ==
  /\ at[r] = "legs"
  /\ at' = [at EXCEPT ![r] = "idle"]
  /\ block' = [block EXCEPT ![r] = FirstBlock]
  /\ read' = [read EXCEPT ![r] = <<>>]
  /\ UNCHANGED <<chain, head, snapshots>>

\* The spot price deviates from the TWAP by more than the limit.
Deviates(legs) ==
  LET spot == FoldLeft(LAMBDA x, l : x * l.spot * l.len, 1, legs)
      twap == FoldLeft(LAMBDA x, l : x * l.sum, 1, legs)
  IN  MaxDeviation > 0 /\ Max({spot - twap, twap - spot}) * 10000 > MaxDeviation * twap

AllReady(r) == \A k \in DOMAIN read[r] : read[r][k].ready

\* Price returns the TWAP, or the spot price while some leg warms up.
Price(r) ==
  /\ at[r] = "legs" /\ Len(read[r]) = Len(Legs[r])
  /\ at' = [at EXCEPT ![r] = IF AllReady(r) THEN "high" ELSE "warming_up"]
  /\ IF AllReady(r) THEN ~Deviates(read[r]) ELSE AllowSpot[r]
  /\ UNCHANGED <<chain, head, snapshots, block, read>>

-----------------------------------------------------------------------------
Init ==
  /\ chain = <<[p \in Pairs |-> [price |-> Min(Prices), cum |-> 0, since |-> FirstBlock % Wrap]]>>
  /\ head = FirstBlock
  /\ snapshots = [p \in Pairs |-> NoSnapshot]
  /\ at = [r \in Readers |-> "idle"]
  /\ block = [r \in Readers |-> FirstBlock]
  /\ read = [r \in Readers |-> <<>>]

Next ==
  \/ NewBlock
  \/ \E r \in Readers : LatestBlock(r) \/ ReadLeg(r) \/ PriceFails(r) \/ Price(r)

Spec == Init /\ [][Next]_vars

-----------------------------------------------------------------------------
TypeOK ==
  /\ Len(chain) \in 1 .. MaxBlocks
  /\ head \in FirstBlock .. Now
  /\ \A p \in Pairs : snapshots[p].time \in {-1} \cup FirstBlock .. Now
  /\ at \in [Readers -> {"idle", "legs", "high", "warming_up"}]
  /\ block \in [Readers -> FirstBlock .. Now]
  /\ \A r \in Readers : Len(read[r]) <= Len(Legs[r])

\* What the pair was worth from block a up to block b, second by second.
Worth(p, a, b) ==
  LET upTo[n \in 0 .. b - a] == IF n = 0 THEN 0 ELSE upTo[n - 1] + AtBlock(a + n - 1)[p].price
  IN  upTo[b - a]

(* A ready TWAP is the average of the pair's price over one stretch of at  *)
(* least the window of some reader of the pair, not always the one that    *)
(* uses it, also when nodes lag, readers overtake each other or the pair's *)
(* clock wraps (readPair, readLeg).                                        *)
TwapIsAverage ==
  \A p \in Pairs :
    LET s == snapshots[p]
    IN  s # NoSnapshot /\ s.ready =>
          /\ \E r \in Readers : p \in Range(Legs[r]) /\ s.len >= Window[r]
          /\ s.sum = Worth(p, s.time - s.len, s.time)

(* A price of high confidence rests on windows that ended less than the    *)
(* reader's own window before its block, none of them after it, for every  *)
(* leg and whatever other readers do to the snapshots in between           *)
(* (Oracle.Price).                                                         *)
HighConfidenceRecent ==
  \A r \in Readers : at[r] = "high" =>
    \A k \in DOMAIN read[r] : read[r][k].end \in block[r] - Window[r] + 1 .. block[r]
=============================================================================
