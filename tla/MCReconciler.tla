---------------------------- MODULE MCReconciler ----------------------------
(* Reconciler for TLC: two levels.  big is near enough to keep or refresh  *)
(* an order for near; ask is the other side.                               *)
EXTENDS Reconciler, TLC

near  == [side |-> "buy", px |-> 1000, qty |-> 1]
big   == [side |-> "buy", px |-> 1001, qty |-> 2]
ask   == [side |-> "sell", px |-> 1002, qty |-> 1]

MCQuotes == {near, big, ask}
OneLevel  == {{near}, {big}}
TwoQuotes == {near, ask}
TwoLevels == {{near, ask}, {ask}}
OneTarget == {{near, ask}}

IdSymmetry == Permutations(Ids)
=============================================================================
