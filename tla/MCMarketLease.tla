---------------------------- MODULE MCMarketLease ----------------------------
(* MarketLease for TLC: the engines are model values given in the cfg.     *)
EXTENDS MarketLease, TLC

EngineSymmetry == Permutations(Engines)
=============================================================================
