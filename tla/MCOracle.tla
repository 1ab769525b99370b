------------------------------ MODULE MCOracle ------------------------------
EXTENDS Oracle

MCLegs == [r \in {"r1", "r2"} |-> IF r = "r1" THEN <<"p1", "p2">> ELSE <<"p1">>]
MCWindow == [r \in {"r1", "r2"} |-> IF r = "r1" THEN 3 ELSE 2]
MCMaxIdle == [p \in {"p1", "p2"} |-> IF p = "p1" THEN 0 ELSE 2]
MCAllowSpot == [r \in {"r1", "r2"} |-> r = "r1"]
=============================================================================
