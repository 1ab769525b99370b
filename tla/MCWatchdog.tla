------------------------------ MODULE MCWatchdog ------------------------------
EXTENDS Watchdog

MCInsts == {"i1", "i2"}
MCPlaces == {<<"s", 1>>, <<"s", 2>>}
On(a, b) == [live |-> TRUE, trading |-> TRUE, tuning |-> 0,
             market |-> [i \in MCInsts |-> IF i = "i1" THEN a ELSE b]]
Full == On(<<"s", 1>>, <<"s", 2>>)
Moved == On(NoMarket, <<"s", 1>>)

\* Both instruments, i2 alone with another credential, that in shadow mode.  A version
\* that is published again is a change in place.
MCConfigs == {Full, Moved, [Moved EXCEPT !.live = FALSE, !.tuning = 1]}
=============================================================================
