--------------------------- MODULE MCConfigEditing ---------------------------
EXTENDS ConfigEditing

MCScope == [e \in {"e1", "e2"} |-> IF e = "e1" THEN {"i1"} ELSE Keys]
=============================================================================
