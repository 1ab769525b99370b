---------------------------- MODULE MCQuoteLadder ----------------------------
EXTENDS QuoteLadder

\* Bps is 20: the spread is a twentieth, wider by as much per level.
MCStrategy ==
  [levels |-> 3, halfSpread |-> 1, spacing |-> 1, best |-> 1, bestRefresh |-> 2, refreshRatio |-> 10,
   jitter |-> 2, reprice |-> 4, skew |-> 2, targetBase |-> 5, maxBase |-> 2,
   minNotional |-> 40, maxNotional |-> 90, reserve |-> 4, maxDeviation |-> 4, maxSpread |-> 0]

MCMarket ==
  [tick |-> 2, step |-> 2, minQty |-> 1, maxQty |-> 9, minNotional |-> 50, maxNotional |-> 0,
   minPrice |-> 0, maxPrice |-> 26, maxOpen |-> 5, maxBase |-> 10, maxQuote |-> 0]

NoBook == [bid |-> 0, ask |-> 0]
MCBooks == {NoBook, [bid |-> 0, ask |-> 1], [bid |-> 0, ask |-> 3], [bid |-> 0, ask |-> 19],
            [bid |-> 21, ask |-> 0], [bid |-> 21, ask |-> 22], [bid |-> 12, ask |-> 13]}

MCFunds == {[base |-> 6, quote |-> 80, baseHeld |-> 4, quoteHeld |-> 60],
            [base |-> 9, quote |-> 0, baseHeld |-> 0, quoteHeld |-> 50]}
=============================================================================
