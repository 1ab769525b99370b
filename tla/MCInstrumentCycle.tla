------------------------- MODULE MCInstrumentCycle -------------------------
(* InstrumentCycle for TLC: one order level at one price.                   *)
EXTENDS InstrumentCycle

low == [side |-> "buy", px |-> 1000, qty |-> 1]

OneQuote  == {low}
OneTarget == {{low}}
=============================================================================
