---------------------------- MODULE QuoteLadder ----------------------------
(***************************************************************************)
(* From a reference price to the orders wanted on one market: the price    *)
(* protection, the generator level by level, the risk filter, the limit on *)
(* open orders and the balance budget, in the order of runInstrument.      *)
(*                                                                         *)
(* Prices, quantities and notionals are whole numbers of small units;      *)
(* fractions such as spreads are in parts of Bps (10000 in the code).      *)
(* What the code takes from a hash (jitter, order notional) is arbitrary   *)
(* within its range, and so is the age of book and reference.              *)
(***************************************************************************)
EXTENDS Integers, FiniteSets, Sequences, SequencesExt, FiniteSetsExt

CONSTANTS
  Bps,
  Strategy,     \* strategy of the instrument
  Market,       \* rules of the market
  Refs,         \* reference prices
  Books,        \* best bid and ask, 0 for none
  Inventories,
  Windows,      \* refresh windows since the epoch
  Unmanaged,    \* open orders of others
  Funds         \* free and committed units of base and quote asset

(* What Validate demands of a strategy and of the rules of a market, the   *)
(* defaults of absent parameters filled in, but for one alternative: it    *)
(* also admits a positive order_size instead of a range of notionals.      *)
ValidStrategy(s) ==
  /\ {s.levels, s.minNotional, s.maxNotional, s.bestRefresh} \subseteq Nat \ {0}
  /\ {s.halfSpread, s.spacing, s.reprice, s.jitter, s.targetBase, s.maxBase, s.skew} \subseteq Nat
  /\ s.best \in 1 .. s.levels /\ s.refreshRatio \in 1 .. Bps
  /\ {s.reserve, s.maxDeviation, s.maxSpread} \subseteq 0 .. Bps
  /\ s.halfSpread + (s.levels - 1) * s.spacing < Bps
  /\ s.maxNotional >= s.minNotional

ValidMarket(m) ==
  /\ {m.tick, m.step, m.minNotional} \subseteq Nat \ {0}
  /\ {m.maxBase, m.maxQuote} \subseteq Nat
  /\ {m.minQty, m.maxQty, m.maxNotional, m.minPrice, m.maxPrice, m.maxOpen} \subseteq Int

ASSUME StrategyAssumption == Bps \in Nat \ {0} /\ ValidStrategy(Strategy)
ASSUME MarketAssumption == ValidMarket(Market)
ASSUME InputsAssumption ==
  /\ Refs \subseteq Nat \ {0} /\ Inventories \subseteq Int /\ Windows \subseteq Nat /\ Unmanaged \subseteq Nat
  /\ \A b \in Books : b.bid \in Nat /\ b.ask \in Nat
  /\ \A f \in Funds : {f.base, f.quote, f.baseHeld, f.quoteHeld} \subseteq Nat

VARIABLES
  phase,    \* "observe", "level", "filter", "limit", "budget", "done", "failed", "panic"
  why,      \* the error of a failed step
  ref, book, inventory, window,
  quotes,   \* quotes so far, BUY and SELL of a level together
  offered,  \* those offered to the budget
  fund      \* the funds it was made from

inputs == <<ref, book, inventory, window>>
vars == <<phase, why, inputs, quotes, offered, fund>>

NoFund == [base |-> 0, quote |-> 0, baseHeld |-> 0, quoteHeld |-> 0]

\* QuantizeDown and QuantizeUp of n/d, n not negative.
Down(n, d, step) == (n \div (d * step)) * step
Up(n, d, step) == -((-n) \div (d * step)) * step

Fail(reason) == phase' = "failed" /\ why' = reason

-----------------------------------------------------------------------------
(* ValidateMarketReference.                                                *)

TwoSided(b) == b.bid > 0 /\ b.ask > 0

\* The middle of the book is too far from the reference, or its spread too wide.
Protected(r, b) ==
  TwoSided(b) =>
    /\ b.bid < b.ask
    /\ Strategy.maxDeviation > 0 =>
         Max({b.bid + b.ask - 2 * r, 2 * r - b.bid - b.ask}) * Bps <= Strategy.maxDeviation * 2 * r
    /\ Strategy.maxSpread > 0 =>
         (b.ask - b.bid) * 2 * Bps <= Strategy.maxSpread * (b.bid + b.ask)

Observe ==
  /\ phase = "observe"
  /\ ref' \in Refs /\ book' \in Books /\ inventory' \in Inventories /\ window' \in Windows
  /\ IF Protected(ref', book') THEN phase' = "level" /\ why' = "" ELSE Fail("market reference")
  /\ UNCHANGED <<quotes, offered, fund>>

-----------------------------------------------------------------------------
(* GenerateAt: prices of one level.                                        *)

\* The deviation of the inventory, at most maxBase either way.
Deviation == Max({-Strategy.maxBase, Min({Strategy.maxBase, inventory - Strategy.targetBase})})

\* applyInventorySkew: numerator and denominator.
MidN == IF Strategy.maxBase > 0 /\ Strategy.skew > 0
          THEN ref * (Strategy.maxBase * Bps - Deviation * Strategy.skew) ELSE ref
MidD == IF Strategy.maxBase > 0 /\ Strategy.skew > 0 THEN Strategy.maxBase * Bps ELSE 1

Spread(level) == Strategy.halfSpread + level * Strategy.spacing

\* Altered form for mutation: a level refreshes with the ones next to it.
PhaseOfNeighbours(index, count) == index % count
\* The group of a deep level.
PhaseOf(index, count) == index \div count

RefreshCount(deep) == Max({1, (deep * Strategy.refreshRatio + Bps - 1) \div Bps})

(* refreshGeneration in window w of the regular refresh; the best levels   *)
(* refresh every bestRefresh windows.                                      *)
Generation(side, level, w) ==
  LET deep   == Strategy.levels - Strategy.best
      count  == RefreshCount(deep)
      groups == (deep + count - 1) \div count
      index  == level - Strategy.best
      turned == IF side = "sell" /\ deep > 1 THEN (index + deep \div 2) % deep ELSE index
      start  == PhaseOf(turned, count)
  IN  IF level < Strategy.best THEN w \div Strategy.bestRefresh
      ELSE IF w < start THEN 0 ELSE (w - start) \div groups + 1

\* boundedJitterTicks
JitterLimit(price) ==
  Max({0} \cup {j \in 1 .. Strategy.jitter :
                  j * Market.tick * Bps <= price * Strategy.reprice /\ j * Market.tick < price})

\* stableJitterTicks: without a generation there is no jitter.
Jitters(side, level, price) ==
  IF Generation(side, level, window) = 0 THEN {0} ELSE -JitterLimit(price) .. JitterLimit(price)

RawBid(level) == Down(MidN * (Bps - Spread(level)), MidD * Bps, Market.tick)
RawAsk(level) == Up(MidN * (Bps + Spread(level)), MidD * Bps, Market.tick)

\* Altered form for mutation: the best bid of the venue does not count.
AboveBidUnclamped(ask) == ask
\* A post-only ask stays above the best bid, a bid below the best ask.
AboveBid(ask) ==
  IF book.bid > 0 /\ ask < book.bid + Market.tick THEN Up(book.bid + Market.tick, 1, Market.tick) ELSE ask
BelowAsk(bid) ==
  IF book.ask > 0 /\ bid > book.ask - Market.tick THEN Down(book.ask - Market.tick, 1, Market.tick) ELSE bid

\* QuantizeDown panics below zero.
Panics(bid) == MidN < 0 \/ (book.ask > 0 /\ bid > book.ask - Market.tick /\ book.ask < Market.tick)

\* Prices of the level before.
PreviousBid == quotes[Len(quotes) - 1].price
PreviousAsk == quotes[Len(quotes)].price

\* Each level is at least a tick behind the one before.
BehindBid(level, bid) ==
  IF level > 0 /\ bid >= PreviousBid THEN Down(PreviousBid - Market.tick, 1, Market.tick) ELSE bid
BehindAsk(level, ask) ==
  IF level > 0 /\ ask <= PreviousAsk THEN Up(PreviousAsk + Market.tick, 1, Market.tick) ELSE ask

-----------------------------------------------------------------------------
(* quoteQuantity.                                                          *)

MinNotional == Max({Strategy.minNotional, Market.minNotional})
MaxNotional == IF Market.maxNotional > 0 THEN Min({Strategy.maxNotional, Market.maxNotional})
                                         ELSE Strategy.maxNotional

MinQty(price) == Max({Up(MinNotional, price, Market.step), Up(Market.minQty, 1, Market.step)})
MaxQty(price) ==
  LET q == Down(MaxNotional, price, Market.step)
  IN  IF Market.maxQty > 0 THEN Min({q, Down(Market.maxQty, 1, Market.step)}) ELSE q

\* stablePriceAnchor
Anchor(price) ==
  LET width == Max({Market.tick, Up(price * Strategy.reprice, Bps, Market.tick)})
      anchor == Down(price, 1, width)
  IN  IF Strategy.reprice <= 0 \/ anchor <= 0 THEN price ELSE anchor

\* Altered form for mutation: the least notional, rounded down.
QuantitiesRoundedDown(price) == {Down(MinNotional, price, Market.step)}

\* The quantities a level may get, none if the ranges do not meet.
Quantities(price) ==
  IF MaxNotional < MinNotional \/ MaxQty(price) <= 0 \/ MinQty(price) > MaxQty(price) THEN {}
  ELSE {q \in {Max({MinQty(price), Min({MaxQty(price), Down(target, Anchor(price), Market.step)})}) :
                 target \in MinNotional .. MaxNotional} :
          price * q \in MinNotional .. MaxNotional}

\* One round of the loop of GenerateAt.
Level ==
  /\ phase = "level"
  /\ LET level == Len(quotes) \div 2
     IN \E jb \in Jitters("buy", level, RawBid(level)), ja \in Jitters("sell", level, RawAsk(level)) :
          LET bid0 == RawBid(level) + jb * Market.tick
              bid  == BehindBid(level, BelowAsk(bid0))
              ask  == BehindAsk(level, AboveBid(RawAsk(level) + ja * Market.tick))
          IN  IF Panics(bid0) THEN phase' = "panic" /\ UNCHANGED <<why, quotes>>
              ELSE IF bid <= 0 \/ ask <= 0 THEN Fail("zero") /\ UNCHANGED quotes
              ELSE IF bid >= ask THEN Fail("cross") /\ UNCHANGED quotes
              ELSE IF Quantities(bid) = {} \/ Quantities(ask) = {} THEN Fail("size") /\ UNCHANGED quotes
              ELSE \E qb \in Quantities(bid), qa \in Quantities(ask) :
                     /\ quotes' = quotes \o <<[side |-> "buy", price |-> bid, qty |-> qb],
                                              [side |-> "sell", price |-> ask, qty |-> qa]>>
                     /\ phase' = IF level + 1 = Strategy.levels THEN "filter" ELSE "level"
                     /\ UNCHANGED why
  /\ UNCHANGED <<inputs, offered, fund>>

-----------------------------------------------------------------------------
(* FilterQuotes.                                                           *)

Takes(q) ==
  \/ q.side = "buy" /\ book.ask > 0 /\ q.price >= book.ask
  \/ q.side = "sell" /\ book.bid > 0 /\ q.price <= book.bid

OutOfSize(q) ==
  \/ q.price * q.qty < Market.minNotional
  \/ Market.maxNotional > 0 /\ q.price * q.qty > Market.maxNotional
  \/ q.qty < Market.minQty
  \/ Market.maxQty > 0 /\ q.qty > Market.maxQty

OutOfPrice(q) ==
  q.price < Market.minPrice \/ (Market.maxPrice > 0 /\ q.price > Market.maxPrice)

\* The inventory limit closes a side.
Closed(side) ==
  LET deviation == inventory - Strategy.targetBase
  IN  Strategy.maxBase > 0 /\ IF side = "buy" THEN deviation >= Strategy.maxBase
                                             ELSE deviation <= -Strategy.maxBase

\* The quotes of the sides that are not closed, in their order.
OpenSides(qs) ==
  LET result[n \in 0 .. Len(qs)] ==
        IF n = 0 THEN <<>>
        ELSE IF Closed(qs[n].side) THEN result[n - 1] ELSE Append(result[n - 1], qs[n])
  IN  result[Len(qs)]

SelfCross(qs) ==
  \E q, r \in ToSet(qs) : q.side = "buy" /\ r.side = "sell" /\ q.price >= r.price

\* Quotes are checked in order; the first that fails decides.
Filter ==
  /\ phase = "filter"
  /\ LET kept == OpenSides(quotes)
         bad  == {k \in DOMAIN quotes : Takes(quotes[k]) \/ OutOfSize(quotes[k]) \/ OutOfPrice(quotes[k])}
     IN  IF bad # {}
           THEN /\ LET q == quotes[Min(bad)]
                   IN  Fail(IF Takes(q) THEN "takes" ELSE IF OutOfSize(q) THEN "out of size" ELSE "price limit")
                /\ UNCHANGED quotes
         ELSE IF SelfCross(kept) THEN Fail("self-cross") /\ UNCHANGED quotes
         ELSE IF kept = <<>> THEN Fail("inventory") /\ UNCHANGED quotes
         ELSE phase' = "limit" /\ quotes' = kept /\ UNCHANGED why
  /\ UNCHANGED <<inputs, offered, fund>>

\* The venue's book or the reference is too old by now.
Expire ==
  /\ phase = "filter"
  /\ Fail("expired")
  /\ UNCHANGED <<inputs, quotes, offered, fund>>

-----------------------------------------------------------------------------
(* ApplyOrderLimit and ApplyBalanceBudget.                                 *)

\* How many of n quotes the open orders of others leave room for.
Kept(unmanaged, n) ==
  LET available == Max({0, Market.maxOpen - unmanaged})
  IN  IF Market.maxOpen <= 0 \/ available >= n THEN n ELSE available - (available % 2)

Limit ==
  /\ phase = "limit"
  /\ \E unmanaged \in Unmanaged :
       offered' = SubSeq(quotes, 1, Kept(unmanaged, Len(quotes)))
  /\ phase' = "budget"
  /\ UNCHANGED <<why, inputs, quotes, fund>>

Need(q) == IF q.side = "sell" THEN [base |-> q.qty, quote |-> 0] ELSE [base |-> 0, quote |-> q.price * q.qty]

\* What the quotes lock of each asset.
Used(qs) ==
  LET sum[n \in 0 .. Len(qs)] ==
        IF n = 0 THEN [base |-> 0, quote |-> 0]
        ELSE [base  |-> sum[n - 1].base + Need(qs[n]).base,
              quote |-> sum[n - 1].quote + Need(qs[n]).quote]
  IN  sum[Len(qs)]

\* Altered form for mutation: what is locked already does not count.
BudgetFree(f) == [base |-> f.base, quote |-> f.quote]
\* Free and committed units of an asset; the reserve is taken off in Fits.
Budget(f) == [base |-> f.base + f.baseHeld, quote |-> f.quote + f.quoteHeld]

Capped(amount, cap) == IF cap > 0 THEN Min({amount, cap * Bps}) ELSE amount

Fits(used, budget) ==
  /\ used.base * Bps <= Capped(budget.base * (Bps - Strategy.reserve), Market.maxBase)
  /\ used.quote * Bps <= Capped(budget.quote * (Bps - Strategy.reserve), Market.maxQuote)

\* Quotes are taken in order as long as they fit; one that does not is left out.
Eligible(qs, f) ==
  LET eligible[n \in 0 .. Len(qs)] ==
        IF n = 0 THEN <<>>
        ELSE LET more == Append(eligible[n - 1], qs[n])
             IN  IF Fits(Used(more), Budget(f)) THEN more ELSE eligible[n - 1]
  IN  eligible[Len(qs)]

ApplyBudget ==
  /\ phase = "budget"
  /\ \E f \in Funds :
       /\ fund' = f
       /\ quotes' = Eligible(offered, f)
       /\ IF quotes' = <<>> THEN Fail("budget") ELSE phase' = "done" /\ UNCHANGED why
  /\ UNCHANGED <<inputs, offered>>

-----------------------------------------------------------------------------
Init ==
  /\ phase = "observe" /\ why = ""
  /\ ref \in Refs /\ book \in Books /\ inventory \in Inventories /\ window \in Windows
  /\ quotes = <<>> /\ offered = <<>> /\ fund = NoFund

\* The next cycle of the market.
Again ==
  /\ phase \in {"done", "failed", "panic"}
  /\ phase' = "observe" /\ why' = ""
  /\ quotes' = <<>> /\ offered' = <<>> /\ fund' = NoFund
  /\ UNCHANGED inputs

Next == Observe \/ Level \/ Filter \/ Expire \/ Limit \/ ApplyBudget \/ Again

Spec == Init /\ [][Next]_vars

-----------------------------------------------------------------------------
\* Quotes on the grid of ticks and steps.
Quotes == {q \in [side : {"buy", "sell"}, price : Nat \ {0}, qty : Nat \ {0}] :
             q.price % Market.tick = 0 /\ q.qty % Market.step = 0}

TypeOK ==
  /\ phase \in {"observe", "level", "filter", "limit", "budget", "done", "failed", "panic"}
  /\ ref \in Refs /\ book \in Books /\ inventory \in Inventories /\ window \in Windows
  /\ quotes \in Seq(Quotes) /\ Len(quotes) <= 2 * Strategy.levels
  /\ offered \in Seq(Quotes) /\ Len(offered) <= 2 * Strategy.levels
  /\ fund \in Funds \cup {NoFund}

(* At every point of the pipeline the quotes form a ladder: no bid reaches *)
(* the venue's best ask and no ask its best bid, bids fall and asks rise   *)
(* from level to level, whatever jitter, skew and book did to the prices   *)
(* in between, and no bid reaches an ask (GenerateAt).                     *)
PostOnlyLadder ==
  /\ \A q \in ToSet(quotes) : ~Takes(q)
  /\ ~SelfCross(quotes)
  /\ \A i, j \in DOMAIN quotes :
       i < j /\ quotes[i].side = quotes[j].side =>
         IF quotes[i].side = "buy" THEN quotes[i].price > quotes[j].price
                                   ELSE quotes[i].price < quotes[j].price

(* The risk filter never refuses a ladder for its size or for taking       *)
(* liquidity: the generator and the filter agree on the rules of the       *)
(* market, so that a market never fails for what its own strategy does     *)
(* (quoteQuantity, FilterQuotes).                                          *)
RiskAgrees == why \notin {"takes", "out of size", "self-cross"}

(* The budget is stable: once the eligible quotes are placed, and their    *)
(* funds locked, the same quotes are eligible again ("so a stable book     *)
(* does not oscillate", ApplyBalanceBudget).                               *)
BudgetStable ==
  phase = "done" =>
    LET used == Used(quotes)
        total == [base |-> fund.base + fund.baseHeld, quote |-> fund.quote + fund.quoteHeld]
    IN  Eligible(offered, [base |-> total.base - used.base, quote |-> total.quote - used.quote,
                           baseHeld |-> used.base, quoteHeld |-> used.quote]) = quotes

(* From one window to the next no side refreshes more of its deep levels   *)
(* than the refresh ratio allows (refreshGeneration).                      *)
RefreshBounded ==
  \A side \in {"buy", "sell"} :
    LET deep == Strategy.best .. Strategy.levels - 1
        changed == {l \in deep : Generation(side, l, window + 1) # Generation(side, l, window)}
    IN  Cardinality(changed) <= RefreshCount(Strategy.levels - Strategy.best)

=============================================================================
