---------------------------- MODULE AccountRound ----------------------------
(***************************************************************************)
(* One engine round after another: RunOnce hands the instruments to a pool *)
(* of workers; a worker takes the locks of the instrument's accounts, gets *)
(* their balances from the cache of the round, quotes on each market with  *)
(* what its budget allows, and releases the locks.                         *)
(*                                                                         *)
(* An account holds units of one asset: free ones and ones committed to    *)
(* open sell orders of one unit.  It is moved by the engine's orders,      *)
(* their fills and cancellations, and deposits only.  Accounts are         *)
(* numbered in the order of their keys.  What the reconciliation places    *)
(* and cancels in detail is Reconciler.                                    *)
(***************************************************************************)
EXTENDS Integers, FiniteSets, FiniteSetsExt, Sequences

CONSTANTS
  Jobs,         \* the configured instruments, in order
  Workers,
  Accounts,     \* numbers
  Uses,         \* the accounts of an instrument's markets
  Levels,       \* orders the strategy wants on each side of a market
  ReserveBPS,   \* balance_reserve_bps of an instrument
  Holdings      \* bound on the units of an account, and what it has at first

Instruments == {Jobs[k] : k \in DOMAIN Jobs}

\* "instrument id must be unique" (Config.Validate).
ASSUME JobsAssumption ==
  /\ Len(Jobs) \in Nat /\ DOMAIN Jobs = 1 .. Len(Jobs)
  /\ \A k, l \in DOMAIN Jobs : Jobs[k] = Jobs[l] => k = l
ASSUME UsesAssumption == Uses \in [Instruments -> SUBSET Accounts] /\ Accounts \subseteq Nat
ASSUME WorkersAssumption == Workers # {} /\ IsFiniteSet(Workers)
ASSUME BudgetAssumption ==
  /\ Levels \in Nat
  /\ ReserveBPS \in [Instruments -> Nat] /\ \A i \in Instruments : ReserveBPS[i] <= 10000
  /\ Holdings \in [Accounts -> Nat]

VARIABLES
  next,     \* jobs: the index of the next instrument to hand out
  done,     \* instruments whose turn of the round is over
  owner,    \* who holds the lock of an account
  at,       \* workers: "idle", "lock", "fetch", "quote", "unlock"
  job,      \* the instrument of a worker
  todo,     \* its accounts still to lock, to fetch or to quote on
  asking,   \* the account whose balances it is asking the exchange for, or Nothing
  cached,   \* balanceCache: free units, Missing or Failed
  free,     \* the exchange's books: free units
  orders    \* and open orders of an instrument on an account

roundVars == <<next, done>>
workerVars == <<at, job, todo, asking>>
bookVars == <<free, orders>>
vars == <<roundVars, owner, workerVars, cached, bookVars>>

NoOne == "no one"
Nothing == -1
Missing == -1
Failed == -2

ASSUME NamesAssumption == NoOne \notin Instruments \cup Workers

\* Units of an account that orders lock.
Committed(a) == MapThenSumSet(LAMBDA i : orders[i][a], {i \in Instruments : a \in Uses[i]})

-----------------------------------------------------------------------------
(* Workers and locks.                                                      *)

\* RunOnce hands the next instrument to an idle worker; without accounts there is no more to it here.
TakeJob(w) ==
  /\ at[w] = "idle"
  /\ next <= Len(Jobs)
  /\ next' = next + 1
  /\ job' = [job EXCEPT ![w] = Jobs[next]]
  /\ todo' = [todo EXCEPT ![w] = Uses[Jobs[next]]]
  /\ at' = [at EXCEPT ![w] = IF todo'[w] = {} THEN "unlock" ELSE "lock"]
  /\ UNCHANGED <<done, owner, asking, cached, bookVars>>

\* Altered form for mutation: keys in no fixed order.
NextLockUnsorted(w) == IF job[w] = Jobs[1] THEN Max(todo[w]) ELSE Min(todo[w])

\* buildInstrumentAccountLocks sorts the keys.
NextLock(w) == Min(todo[w])

(* The worker is through with account a: it goes on with the others and    *)
(* then with the next part of its turn.                                    *)
Proceed(w, a, part) ==
  LET rest == todo[w] \ {a}
  IN  /\ at' = [at EXCEPT ![w] = IF rest = {} THEN part ELSE @]
      /\ todo' = [todo EXCEPT ![w] = IF rest = {} /\ part # "unlock" THEN Uses[job[w]] ELSE rest]

\* Altered form for mutation: accounts are not locked.
LockNothing(w) ==
  /\ at[w] = "lock"
  /\ Proceed(w, NextLock(w), "fetch")
  /\ UNCHANGED <<roundVars, owner, job, asking, cached, bookVars>>

\* lockInstrumentAccounts, one lock at a time.
Lock(w) ==
  /\ at[w] = "lock"
  /\ owner[NextLock(w)] = NoOne
  /\ owner' = [owner EXCEPT ![NextLock(w)] = w]
  /\ Proceed(w, NextLock(w), "fetch")
  /\ UNCHANGED <<roundVars, job, asking, cached, bookVars>>

Idle(w) ==
  /\ at' = [at EXCEPT ![w] = "idle"]
  /\ job' = [job EXCEPT ![w] = NoOne]
  /\ todo' = [todo EXCEPT ![w] = {}]
  /\ asking' = [asking EXCEPT ![w] = Nothing]

\* The deferred unlock; releases never wait, so they are one step.
Unlock(w) ==
  /\ at[w] = "unlock"
  /\ owner' = [a \in Accounts |-> IF owner[a] = w THEN NoOne ELSE owner[a]]
  /\ done' = done \cup {job[w]}
  /\ Idle(w)
  /\ UNCHANGED <<next, cached, bookVars>>

\* A panic is recovered in runInstrumentGuarded before the locks are released.
Panic(w) ==
  /\ at[w] \in {"fetch", "quote"}
  /\ at' = [at EXCEPT ![w] = "unlock"]
  /\ todo' = [todo EXCEPT ![w] = {}]
  /\ asking' = [asking EXCEPT ![w] = Nothing]
  /\ UNCHANGED <<roundVars, owner, job, cached, bookVars>>

-----------------------------------------------------------------------------
(* collectBalances, by way of balanceCache.fetch.                          *)

\* fetch, cache hit.
Hit(w, a) ==
  /\ at[w] = "fetch" /\ asking[w] = Nothing /\ a \in todo[w]
  /\ cached[a] # Missing
  /\ Proceed(w, a, "quote")
  /\ UNCHANGED <<roundVars, owner, job, asking, cached, bookVars>>

\* fetch, cache miss: the mutex of the cache is released before the exchange is asked.
Miss(w, a) ==
  /\ at[w] = "fetch" /\ asking[w] = Nothing /\ a \in todo[w]
  /\ cached[a] = Missing
  /\ asking' = [asking EXCEPT ![w] = a]
  /\ UNCHANGED <<roundVars, owner, at, job, todo, cached, bookVars>>

\* The answer, or its failure, is what every later reader of the round gets.
Answer(w) ==
  /\ asking[w] # Nothing
  /\ \E v \in {free[asking[w]], Failed} : cached' = [cached EXCEPT ![asking[w]] = v]
  /\ Proceed(w, asking[w], "quote")
  /\ asking' = [asking EXCEPT ![w] = Nothing]
  /\ UNCHANGED <<roundVars, owner, job, bookVars>>

-----------------------------------------------------------------------------
(* runInstrument on one market: budget, then reconciliation.               *)

\* ApplyBalanceBudget: n unit orders fit what is free and what they lock already.
Budget(i, a, n) == n * 10000 <= (cached[a] + orders[i][a]) * (10000 - ReserveBPS[i])

Eligible(i, a) == Max({n \in 0 .. Levels : Budget(i, a, n)})

(* Reconciliation places eligible orders that no open one matches, into    *)
(* the vacancies of both sides of the market; orders that match nothing    *)
(* stay open meanwhile.  The exchange refuses what it has no free units    *)
(* for.  Without a vacancy nothing is placed, and stale orders are         *)
(* canceled, as all are when no order is eligible: see Release.            *)
Quote(w, a) ==
  /\ at[w] = "quote" /\ a \in todo[w]
  /\ cached[a] # Failed
  /\ LET i == job[w]
     IN  \E n \in 0 .. Eligible(i, a) :
           /\ n <= free[a]
           /\ n > 0 => orders[i][a] + n <= Eligible(i, a) + Levels
           /\ orders' = [orders EXCEPT ![i][a] = @ + n]
           /\ free' = [free EXCEPT ![a] = @ - n]
  /\ Proceed(w, a, "unlock")
  /\ UNCHANGED <<roundVars, owner, job, asking, cached>>

\* No balances: markVenueFailure, which cancels once the fault manager says so.
NoBalances(w, a) ==
  /\ at[w] = "quote" /\ a \in todo[w]
  /\ cached[a] = Failed
  /\ Proceed(w, a, "unlock")
  /\ UNCHANGED <<roundVars, owner, job, asking, cached, bookVars>>

-----------------------------------------------------------------------------
(* Rounds and the exchange.                                                *)

\* Altered form for mutation: the cache outlives its round.
NextRoundKeepsCache ==
  /\ done = Instruments
  /\ next' = 1 /\ done' = {}
  /\ UNCHANGED <<owner, workerVars, cached, bookVars>>

\* Altered form for mutation: the workers are not waited for.
NextRoundNoWait ==
  /\ next = Len(Jobs) + 1
  /\ next' = 1 /\ done' = {}
  /\ UNCHANGED <<owner, workerVars, cached, bookVars>>

\* RunOnce returns when every worker has ended; the next one has a cache of its own.
NextRound ==
  /\ done = Instruments
  /\ next' = 1 /\ done' = {}
  /\ cached' = [a \in Accounts |-> Missing]
  /\ UNCHANGED <<owner, workerVars, bookVars>>

\* A sell order is filled.
Fill(i, a) ==
  /\ orders[i][a] > 0
  /\ orders' = [orders EXCEPT ![i][a] = @ - 1]
  /\ UNCHANGED <<roundVars, owner, workerVars, cached, free>>

(* The exchange executes the cancellation of an order.  Which orders were  *)
(* canceled is not kept: any may go, at any time.                          *)
Release(i, a) ==
  /\ orders[i][a] > 0
  /\ orders' = [orders EXCEPT ![i][a] = @ - 1]
  /\ free' = [free EXCEPT ![a] = @ + 1]
  /\ UNCHANGED <<roundVars, owner, workerVars, cached>>

\* A buy order is filled, or a deposit is credited.
Credit(a) ==
  /\ free[a] + Committed(a) < Holdings[a]
  /\ free' = [free EXCEPT ![a] = @ + 1]
  /\ UNCHANGED <<roundVars, owner, workerVars, cached, orders>>

Init ==
  /\ next = 1 /\ done = {}
  /\ owner = [a \in Accounts |-> NoOne]
  /\ at = [w \in Workers |-> "idle"]
  /\ job = [w \in Workers |-> NoOne]
  /\ todo = [w \in Workers |-> {}]
  /\ asking = [w \in Workers |-> Nothing]
  /\ cached = [a \in Accounts |-> Missing]
  /\ free = Holdings
  /\ orders = [i \in Instruments |-> [a \in Accounts |-> 0]]

Step(w) ==
  \/ TakeJob(w) \/ Lock(w) \/ Answer(w) \/ Panic(w) \/ Unlock(w)
  \/ \E a \in Accounts : Hit(w, a) \/ Miss(w, a) \/ Quote(w, a) \/ NoBalances(w, a)

Next ==
  \/ \E w \in Workers : Step(w)
  \/ NextRound
  \/ \E i \in Instruments, a \in Accounts : Fill(i, a) \/ Release(i, a)
  \/ \E a \in Accounts : Credit(a)

\* Workers are goroutines: each goes on while it can.
Spec == Init /\ [][Next]_vars /\ WF_vars(NextRound) /\ \A w \in Workers : WF_vars(Step(w))

-----------------------------------------------------------------------------
TypeOK ==
  /\ next \in 1 .. Len(Jobs) + 1 /\ done \subseteq Instruments
  /\ owner \in [Accounts -> Workers \cup {NoOne}]
  /\ at \in [Workers -> {"idle", "lock", "fetch", "quote", "unlock"}]
  /\ job \in [Workers -> Instruments \cup {NoOne}]
  /\ todo \in [Workers -> SUBSET Accounts]
  /\ asking \in [Workers -> Accounts \cup {Nothing}]
  /\ free \in [Accounts -> Nat]
  /\ cached \in [Accounts -> Nat \cup {Missing, Failed}]
  /\ orders \in [Instruments -> [Accounts -> 0 .. 2 * Levels]]

(* Two workers never ask for the balances of one account at the same time, *)
(* nor one for those the round has already, though the cache is not locked *)
(* while the exchange is asked ("performs a single lookup",                *)
(* balanceCache.fetch).                                                    *)
SingleLookup ==
  \A v, w \in Workers :
    asking[v] # Nothing =>
      /\ cached[asking[v]] = Missing
      /\ asking[w] = asking[v] => w = v

(* Workers that share accounts never wait for each other in a circle: some *)
(* busy worker can go on (lockInstrumentAccounts).                         *)
Waits(w) == at[w] = "lock" /\ owner[NextLock(w)] # NoOne
NoLockCycle ==
  (\E w \in Workers : at[w] # "idle") => \E w \in Workers : at[w] # "idle" /\ ~Waits(w)

(* What the budget of a market allows is covered by what the account has   *)
(* at that moment, free or in the market's own orders, with the reserve    *)
(* left over, though the balance was read earlier in the round; unless     *)
(* another instrument of the account had its turn in between and spent     *)
(* what the cached balance still shows (ApplyBalanceBudget, balanceCache). *)
BudgetCovered ==
  \A w \in Workers : \A a \in todo[w] :
    LET i == job[w]
    IN  at[w] = "quote" /\ cached[a] # Failed /\ ~(\E j \in done \ {i} : a \in Uses[j])
          => Eligible(i, a) * 10000 <= (free[a] + orders[i][a]) * (10000 - ReserveBPS[i])

\* Every round ends: no instrument is left out and no worker is left waiting.
RoundEnds == next > 1 ~> done = Instruments
=============================================================================
