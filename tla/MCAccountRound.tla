---------------------------- MODULE MCAccountRound ----------------------------
EXTENDS AccountRound

MCJobs == <<"i1", "i2", "i3">>
MCUses == [i \in {"i1", "i2", "i3"} |->
             CASE i = "i1" -> {1, 2} [] i = "i2" -> {2, 1} [] i = "i3" -> {3}]
MCReserve == [i \in {"i1", "i2", "i3"} |-> IF i = "i3" THEN 5000 ELSE 0]
MCHoldings == <<1, 0, 3>>
=============================================================================
