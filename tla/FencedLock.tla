----------------------------- MODULE FencedLock -----------------------------
(***************************************************************************)
(* What a market lease promises, without Redis, expiry or renewal: at most *)
(* one holder at a time, and a token that grows with every grant and is    *)
(* never handed out twice.  MarketLease is shown to implement this.        *)
(***************************************************************************)
EXTENDS Naturals

CONSTANTS Engines, Nobody

VARIABLES
  holder,  \* the engine that holds the lock, or Nobody
  token    \* the token of the last grant

lockVars == <<holder, token>>

LockInit == holder = Nobody /\ token = 0

\* A free lock is granted with a token no earlier holder had.
Grant(e) ==
  /\ holder = Nobody
  /\ holder' = e
  /\ token' = token + 1

\* The lock is given up or lost; the token stays.
Drop ==
  /\ holder # Nobody
  /\ holder' = Nobody
  /\ token' = token

LockNext == Drop \/ \E e \in Engines : Grant(e)

LockSpec == LockInit /\ [][LockNext]_lockVars
=============================================================================
