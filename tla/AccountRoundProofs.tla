-------------------------- MODULE AccountRoundProofs --------------------------
(***************************************************************************)
(* Proofs about AccountRound, for any list of instruments, any finite set  *)
(* of workers, any accounts and any holdings.                              *)
(***************************************************************************)
EXTENDS AccountRound, TLAPS, FiniteSetTheorems, WellFoundedInduction

-----------------------------------------------------------------------------
(* Least and greatest elements.                                            *)

\* Min picks a least element of a set of naturals that is not empty.
LEMMA MinIsLeast ==
  ASSUME NEW S \in SUBSET Nat, S # {}
  PROVE  Min(S) \in S /\ \A x \in S : Min(S) <= x
<1>1. PICK m \in S : \A x \in S : ~(<<x, m>> \in OpToRel(<, Nat))
  BY NatLessThanWellFounded, WFMin
<1>2. \A x \in S : m <= x
  <2> TAKE x \in S
  <2>1. <<x, m>> \in Nat \X Nat /\ ~(<<x, m>>[1] < <<x, m>>[2])
    BY <1>1 DEF OpToRel
  <2> QED BY <2>1
<1> QED BY <1>2 DEF Min

\* A finite set of naturals that is not empty has a greatest element.
LEMMA MaxIsGreatest ==
  ASSUME NEW S \in SUBSET Nat, S # {}, IsFiniteSet(S)
  PROVE  Max(S) \in S /\ \A x \in S : x <= Max(S)
<1> DEFINE Bad == {U \in FiniteSubsetsOf(S) : U # {} /\ ~\E m \in U : \A x \in U : x <= m}
<1>1. Bad = {}
  <2>1. SUFFICES ASSUME Bad # {} PROVE FALSE
    OBVIOUS
  <2>2. PICK U \in Bad : \A V \in Bad : ~(<<V, U>> \in StrictSubsetOrdering(S))
    <3>1. Bad \subseteq FiniteSubsetsOf(S)
      OBVIOUS
    <3> HIDE DEF Bad
    <3> QED BY <2>1, <3>1, FS_StrictSubsetOrderingWellFounded, WFMin
  <2>3. U \subseteq S /\ IsFiniteSet(U) /\ U # {} /\ ~\E m \in U : \A x \in U : x <= m
    BY DEF FiniteSubsetsOf
  <2>4. PICK u \in U : TRUE
    BY <2>3
  <2> DEFINE V == U \ {u}
  <2>5. V \subseteq S /\ IsFiniteSet(V)
    BY <2>3, FS_RemoveElement
  <2>6. V \notin Bad
    <3>1. V # U /\ V \subseteq U
      BY <2>4
    <3>2. <<V, U>> \in (SUBSET S) \X (SUBSET S)
      BY <2>3, <2>5
    <3>3. <<V, U>> \in StrictSubsetOrdering(S)
      BY <3>1, <3>2 DEF StrictSubsetOrdering
    <3> QED BY <2>2, <3>3
  <2>7. CASE V = {}
    <3>1. U = {u} /\ u \in Nat
      BY <2>3, <2>4, <2>7
    <3> QED BY <2>3, <3>1
  <2>8. CASE V # {}
    <3>1. PICK m \in V : \A x \in V : x <= m
      BY <2>5, <2>6, <2>8 DEF FiniteSubsetsOf
    <3>2. m \in Nat /\ u \in Nat /\ \A x \in U : x = u \/ x \in V
      BY <2>3, <2>4, <3>1
    <3>3. CASE m <= u
      <4>1. \A x \in U : x <= u
        <5> TAKE x \in U
        <5>1. x \in Nat
          BY <2>3
        <5> QED BY <3>1, <3>2, <3>3, <5>1
      <4> QED BY <2>3, <4>1
    <3>4. CASE u <= m
      <4>1. \A x \in U : x <= m
        BY <3>1, <3>2, <3>4
      <4> QED BY <2>3, <3>1, <4>1
    <3> QED BY <3>2, <3>3, <3>4
  <2> QED BY <2>7, <2>8
<1>2. S \in FiniteSubsetsOf(S)
  BY DEF FiniteSubsetsOf
<1>3. PICK m \in S : \A x \in S : x <= m
  BY <1>1, <1>2
<1>4. \A x \in S : m >= x
  BY <1>3
<1> QED BY <1>4 DEF Max

-----------------------------------------------------------------------------
(* The inductive invariant.                                                *)

\* What a worker is doing: an instrument and its accounts, one of them asked for.
Working ==
  \A w \in Workers :
    /\ at[w] = "idle" => todo[w] = {}
    /\ at[w] # "idle" => job[w] \in Instruments /\ todo[w] \subseteq Uses[job[w]]
    /\ at[w] \in {"lock", "fetch", "quote"} => todo[w] # {}
    /\ at[w] = "unlock" => todo[w] = {}
    /\ asking[w] # Nothing => at[w] = "fetch" /\ asking[w] \in todo[w]

\* An account is held by the worker that has passed it in its list of locks, and by no other.
Held(w, a) == at[w] # "idle" /\ a \in Uses[job[w]] /\ (at[w] = "lock" => a \notin todo[w])

Holding == \A w \in Workers : \A a \in Accounts : owner[a] = w <=> Held(w, a)

\* Locks are taken upwards.
Ordered ==
  \A w \in Workers :
    at[w] = "lock" => \A a \in Uses[job[w]] \ todo[w] : \A b \in todo[w] : a < b

\* Instruments handed out in this round.
Handed == {Jobs[k] : k \in 1 .. next - 1}

\* An instrument has one turn in a round.
Turns ==
  /\ done \subseteq Handed
  /\ \A w \in Workers : at[w] # "idle" => job[w] \in Handed \ done
  /\ \A v, w \in Workers : at[v] # "idle" /\ at[w] # "idle" /\ job[v] = job[w] => v = w

\* The answer being waited for is not in the cache.
Unasked == \A w \in Workers : asking[w] # Nothing => cached[asking[w]] = Missing

\* The accounts a worker has passed are in the cache, or their failure is.
Fetched ==
  \A w \in Workers : \A a \in Accounts :
    /\ at[w] = "fetch" /\ a \in Uses[job[w]] \ todo[w] => cached[a] # Missing
    /\ at[w] = "quote" /\ a \in Uses[job[w]] => cached[a] # Missing

\* An instrument has quoted on the account in this round.
Spent(a) ==
  \/ \E j \in done : a \in Uses[j]
  \/ \E w \in Workers : at[w] \in {"quote", "unlock"} /\ a \in Uses[job[w]] \ todo[w]

\* The cached balance is no more than what is free unless some has been spent since.
Fresh == \A a \in Accounts : cached[a] \in Nat /\ ~Spent(a) => cached[a] <= free[a]

RoundInv ==
  /\ TypeOK /\ Working /\ Holding /\ Ordered /\ Turns /\ Unasked /\ Fetched /\ Fresh

-----------------------------------------------------------------------------
(* What the operators of the model yield.                                  *)

\* What the assumptions say of the constants: the placeholders are no account, worker or instrument.
LEMMA Constants ==
  /\ Nothing \notin Accounts /\ NoOne \notin Workers /\ NoOne \notin Instruments
  /\ \A i \in Instruments : Uses[i] \subseteq Accounts
  /\ \A k \in 1 .. Len(Jobs) : Jobs[k] \in Instruments
  BY UsesAssumption, NamesAssumption, JobsAssumption DEF Nothing, Instruments

\* Proceed concerns its worker alone; a worker that is through with its accounts goes on to part.
LEMMA ProceedEffect ==
  ASSUME TypeOK, NEW w \in Workers, NEW a, NEW part, Proceed(w, a, part)
  PROVE  /\ at' = [at EXCEPT ![w] = at'[w]] /\ todo' = [todo EXCEPT ![w] = todo'[w]]
         /\ \A v \in Workers : v # w => at'[v] = at[v] /\ todo'[v] = todo[v]
         /\ todo[w] \ {a} # {} => at'[w] = at[w] /\ todo'[w] = todo[w] \ {a}
         /\ todo[w] \ {a} = {} =>
              at'[w] = part /\ todo'[w] = IF part = "unlock" THEN {} ELSE Uses[job[w]]
  BY DEF TypeOK, Proceed

\* The numbers the budget is made of.
LEMMA BudgetNumbers ==
  ASSUME TypeOK, NEW i \in Instruments, NEW a \in Accounts
  PROVE  /\ orders[i][a] \in 0 .. 2 * Levels /\ Levels \in Nat /\ orders[i][a] \in Nat
         /\ ReserveBPS[i] \in Nat /\ 10000 - ReserveBPS[i] \in Nat
<1>1. orders[i] \in [Accounts -> 0 .. 2 * Levels]
  BY DEF TypeOK
<1> QED BY <1>1, BudgetAssumption

\* Some number of orders is eligible: the largest that the budget allows.
LEMMA EligibleFits ==
  ASSUME TypeOK, NEW i \in Instruments, NEW a \in Accounts, cached[a] \in Nat
  PROVE  Eligible(i, a) \in 0 .. Levels /\ Budget(i, a, Eligible(i, a))
<1> DEFINE S == {n \in 0 .. Levels : Budget(i, a, n)}
<1>1. S \in SUBSET Nat /\ IsFiniteSet(S)
  <2>1. Levels \in Nat /\ S \in SUBSET (0 .. Levels)
    BY BudgetNumbers
  <2>2. IsFiniteSet(0 .. Levels)
    BY <2>1, FS_Interval
  <2> HIDE DEF S
  <2>3. IsFiniteSet(S)
    BY <2>1, <2>2, FS_Subset
  <2> QED BY <2>1, <2>3
<1>2. 0 \in S
  <2>1. orders[i][a] \in Nat /\ 10000 - ReserveBPS[i] \in Nat
    BY BudgetNumbers
  <2>2. (cached[a] + orders[i][a]) * (10000 - ReserveBPS[i]) \in Nat
    BY <2>1
  <2> QED BY <2>2, BudgetNumbers DEF Budget
<1>3. Max(S) \in S
  BY <1>1, <1>2, MaxIsGreatest
<1> QED BY <1>3 DEF Eligible

\* A worker that quotes has the balances, or their failure, and the locks.
LEMMA Quoting ==
  ASSUME RoundInv, NEW w \in Workers, NEW a \in Accounts, at[w] = "quote", a \in todo[w]
  PROVE  /\ job[w] \in Instruments /\ a \in Uses[job[w]] /\ owner[a] = w
         /\ orders[job[w]][a] \in Nat /\ free[a] \in Nat
         /\ cached[a] # Failed => cached[a] \in Nat
<1>1. job[w] \in Instruments /\ a \in Uses[job[w]]
  BY DEF RoundInv, Working
<1>2. owner[a] = w
  BY <1>1 DEF RoundInv, Holding, Held
<1>3. cached[a] # Missing
  BY <1>1 DEF RoundInv, Fetched
<1> QED BY <1>1, <1>2, <1>3, BudgetAssumption DEF RoundInv, TypeOK

\* The accounts of a worker that is locking have a least one.
LEMMA NextLockLeast ==
  ASSUME RoundInv, NEW w \in Workers, at[w] = "lock"
  PROVE  /\ NextLock(w) \in todo[w] /\ NextLock(w) \in Accounts
         /\ \A b \in todo[w] : NextLock(w) <= b
<1>1. todo[w] \in SUBSET Nat /\ todo[w] # {} /\ todo[w] \subseteq Accounts
  BY UsesAssumption DEF RoundInv, TypeOK, Working
<1> QED BY <1>1, MinIsLeast DEF NextLock

-----------------------------------------------------------------------------
(* The steps keep the invariant.                                           *)

\* What a quote does to the books: units that are free go into orders.
LEMMA QuoteBooks ==
  ASSUME RoundInv, NEW w \in Workers, NEW a \in Accounts, Quote(w, a)
  PROVE  /\ job[w] \in Instruments
         /\ \E n \in Nat :
              /\ free[a] - n \in Nat /\ orders[job[w]][a] + n \in 0 .. 2 * Levels
              /\ orders' = [orders EXCEPT ![job[w]][a] = @ + n]
              /\ free' = [free EXCEPT ![a] = @ - n]
<1> DEFINE i == job[w]
           e == Eligible(i, a)
<1>1. /\ i \in Instruments /\ cached[a] \in Nat /\ orders[i][a] \in 0 .. 2 * Levels
      /\ free[a] \in Nat /\ Levels \in Nat
  BY Quoting, BudgetNumbers DEF Quote, RoundInv
<1>2. e \in 0 .. Levels
  BY <1>1, EligibleFits DEF RoundInv
<1>3. PICK n \in 0 .. e :
        /\ n <= free[a]
        /\ n > 0 => orders[i][a] + n <= e + Levels
        /\ orders' = [orders EXCEPT ![i][a] = @ + n]
        /\ free' = [free EXCEPT ![a] = @ - n]
  BY DEF Quote
<1> HIDE DEF e
<1>4. n \in Nat /\ free[a] - n \in Nat /\ orders[i][a] + n \in 0 .. 2 * Levels
  BY <1>1, <1>2, <1>3
<1> QED BY <1>1, <1>3, <1>4

\* Every step of the worker pool keeps the types.
LEMMA TypeStep == RoundInv /\ [Next]_vars => TypeOK'
<1> SUFFICES ASSUME RoundInv, [Next]_vars PROVE TypeOK'
  OBVIOUS
<1> USE Constants
<1>0. TypeOK /\ Working
  BY DEF RoundInv
<1>1. ASSUME NEW w \in Workers, TakeJob(w) PROVE TypeOK'
  <2>1. next \in 1 .. Len(Jobs) /\ Len(Jobs) \in Nat
    BY <1>0, <1>1, JobsAssumption DEF TypeOK, TakeJob
  <2>2. Jobs[next] \in Instruments /\ next + 1 \in 1 .. Len(Jobs) + 1
    BY <2>1
  <2> QED BY <1>0, <1>1, <2>2 DEF TypeOK, TakeJob, bookVars
<1>2. ASSUME NEW w \in Workers, Lock(w) PROVE TypeOK'
  <2>1. NextLock(w) \in Accounts /\ job[w] \in Instruments
    BY <1>0, <1>2, NextLockLeast DEF Lock, Working
  <2> QED BY <1>0, <1>2, <2>1 DEF TypeOK, Lock, Proceed, roundVars, bookVars
<1>3. ASSUME NEW w \in Workers, Unlock(w) PROVE TypeOK'
  <2>1. job[w] \in Instruments
    BY <1>0, <1>3 DEF Unlock, Working
  <2> QED BY <1>0, <1>3, <2>1 DEF TypeOK, Unlock, Idle, bookVars
<1>4. ASSUME NEW w \in Workers, Panic(w) PROVE TypeOK'
  BY <1>0, <1>4 DEF TypeOK, Panic, roundVars, bookVars
<1>5. ASSUME NEW w \in Workers, NEW a \in Accounts, Hit(w, a) PROVE TypeOK'
  <2>1. job[w] \in Instruments
    BY <1>0, <1>5 DEF Hit, Working
  <2> QED BY <1>0, <1>5, <2>1 DEF TypeOK, Hit, Proceed, roundVars, bookVars
<1>6. ASSUME NEW w \in Workers, NEW a \in Accounts, Miss(w, a) PROVE TypeOK'
  BY <1>0, <1>6 DEF TypeOK, Miss, roundVars, bookVars
<1>7. ASSUME NEW w \in Workers, Answer(w) PROVE TypeOK'
  <2>1. job[w] \in Instruments /\ asking[w] \in Accounts
    BY <1>0, <1>7 DEF Answer, Working, TypeOK
  <2> QED BY <1>0, <1>7, <2>1 DEF TypeOK, Answer, Proceed, roundVars, bookVars
<1>8. ASSUME NEW w \in Workers, NEW a \in Accounts, Quote(w, a) PROVE TypeOK'
  <2>1. PICK n \in Nat :
          /\ free[a] - n \in Nat /\ orders[job[w]][a] + n \in 0 .. 2 * Levels
          /\ orders' = [orders EXCEPT ![job[w]][a] = @ + n]
          /\ free' = [free EXCEPT ![a] = @ - n]
    BY <1>8, QuoteBooks
  <2>2. job[w] \in Instruments
    BY <1>8, QuoteBooks
  <2> QED BY <1>0, <1>8, <2>1, <2>2 DEF TypeOK, Quote, Proceed, roundVars
<1>9. ASSUME NEW w \in Workers, NEW a \in Accounts, NoBalances(w, a) PROVE TypeOK'
  <2>1. job[w] \in Instruments
    BY <1>0, <1>9 DEF NoBalances, Working
  <2> QED BY <1>0, <1>9, <2>1 DEF TypeOK, NoBalances, Proceed, roundVars, bookVars
<1>10. CASE NextRound
  BY <1>0, <1>10, JobsAssumption DEF TypeOK, NextRound, workerVars, bookVars
<1>11. ASSUME NEW i \in Instruments, NEW a \in Accounts, Fill(i, a) \/ Release(i, a) PROVE TypeOK'
  <2>1. orders[i][a] - 1 \in 0 .. 2 * Levels /\ free[a] + 1 \in Nat
    BY <1>0, <1>11, BudgetNumbers DEF Fill, Release, TypeOK
  <2>2. /\ orders' = [orders EXCEPT ![i][a] = @ - 1]
        /\ free' = free \/ free' = [free EXCEPT ![a] = @ + 1]
        /\ UNCHANGED <<roundVars, owner, workerVars, cached>>
    BY <1>11 DEF Fill, Release
  <2>3. orders' \in [Instruments -> [Accounts -> 0 .. 2 * Levels]]
    BY <1>0, <2>1, <2>2 DEF TypeOK
  <2>4. free' \in [Accounts -> Nat]
    BY <1>0, <2>1, <2>2 DEF TypeOK
  <2> QED BY <1>0, <2>2, <2>3, <2>4 DEF TypeOK, roundVars, workerVars
<1>12. ASSUME NEW a \in Accounts, Credit(a) PROVE TypeOK'
  BY <1>0, <1>12 DEF TypeOK, Credit, roundVars, workerVars
<1>13. CASE UNCHANGED vars
  BY <1>0, <1>13 DEF TypeOK, vars, roundVars, workerVars, bookVars
<1> QED BY <1>1, <1>2, <1>3, <1>4, <1>5, <1>6, <1>7, <1>8, <1>9, <1>10, <1>11, <1>12, <1>13
        DEF Next, Step

\* Every step keeps the relation between a worker's phase, its instrument and the accounts left to do.
LEMMA WorkingStep == RoundInv /\ [Next]_vars => Working'
<1> SUFFICES ASSUME RoundInv, [Next]_vars PROVE Working'
  OBVIOUS
<1> USE Constants
<1>0. TypeOK /\ Working
  BY DEF RoundInv
<1>1. ASSUME NEW w \in Workers, TakeJob(w) PROVE Working'
  <2>1. next \in 1 .. Len(Jobs)
    BY <1>0, <1>1, JobsAssumption DEF TypeOK, TakeJob
  <2> QED BY <1>0, <1>1, <2>1 DEF TypeOK, Working, TakeJob
<1>2. ASSUME NEW w \in Workers, Lock(w) PROVE Working'
  BY <1>0, <1>2, NextLockLeast, ProceedEffect DEF Lock, Working
<1>3. ASSUME NEW w \in Workers, Unlock(w) PROVE Working'
  BY <1>0, <1>3 DEF TypeOK, Working, Unlock, Idle
<1>4. ASSUME NEW w \in Workers, Panic(w) PROVE Working'
  BY <1>0, <1>4 DEF TypeOK, Working, Panic
<1>5. ASSUME NEW w \in Workers, NEW a \in Accounts, Hit(w, a) PROVE Working'
  BY <1>0, <1>5, ProceedEffect DEF Hit, Working
<1>6. ASSUME NEW w \in Workers, NEW a \in Accounts, Miss(w, a) PROVE Working'
  BY <1>0, <1>6 DEF TypeOK, Working, Miss
<1>7. ASSUME NEW w \in Workers, Answer(w) PROVE Working'
  <2>1. /\ \A v \in Workers : v # w => asking'[v] = asking[v]
        /\ asking'[w] = Nothing /\ job' = job
    BY <1>0, <1>7 DEF TypeOK, Answer
  <2> QED BY <1>0, <1>7, <2>1, ProceedEffect DEF Answer, Working
<1>8. ASSUME NEW w \in Workers, NEW a \in Accounts, Quote(w, a) PROVE Working'
  BY <1>0, <1>8, ProceedEffect DEF Quote, Working
<1>9. ASSUME NEW w \in Workers, NEW a \in Accounts, NoBalances(w, a) PROVE Working'
  BY <1>0, <1>9, ProceedEffect DEF NoBalances, Working
<1>10. CASE UNCHANGED workerVars
  BY <1>0, <1>10 DEF Working, workerVars
<1> QED BY <1>1, <1>2, <1>3, <1>4, <1>5, <1>6, <1>7, <1>8, <1>9, <1>10
        DEF Next, Step, NextRound, Fill, Release, Credit, vars

\* Every step keeps the locks with the workers that took them, in the order of lockInstrumentAccounts.
LEMMA HoldingStep == RoundInv /\ [Next]_vars => Holding' /\ Ordered'
<1> SUFFICES ASSUME RoundInv, [Next]_vars PROVE Holding' /\ Ordered'
  OBVIOUS
<1> USE Constants
<1>0. TypeOK /\ Working /\ Holding /\ Ordered
  BY DEF RoundInv
<1>1. ASSUME NEW w \in Workers, TakeJob(w) PROVE Holding' /\ Ordered'
  <2>1. Jobs[next] \in Instruments
    BY <1>0, <1>1, JobsAssumption DEF TypeOK, TakeJob
  <2>2. /\ \A v \in Workers : v # w => at'[v] = at[v] /\ todo'[v] = todo[v] /\ job'[v] = job[v]
        /\ job'[w] = Jobs[next] /\ todo'[w] = Uses[Jobs[next]] /\ owner' = owner
        /\ at[w] = "idle"
        /\ todo'[w] = {} \/ at'[w] = "lock"
    BY <1>0, <1>1 DEF TypeOK, TakeJob
  <2>3. \A a \in Accounts : ~Held(w, a) /\ ~Held(w, a)'
    BY <2>1, <2>2 DEF Held
  <2>4. \A v \in Workers : v # w => \A a \in Accounts : Held(v, a)' <=> Held(v, a)
    BY <2>2 DEF Held
  <2>5. Holding'
    BY <1>0, <2>2, <2>3, <2>4 DEF Holding
  <2> QED BY <1>0, <2>2, <2>5 DEF Ordered
<1>2. ASSUME NEW w \in Workers, Lock(w) PROVE Holding' /\ Ordered'
  <2> DEFINE m == NextLock(w)
  <2>1. m \in todo[w] /\ m \in Accounts /\ (\A b \in todo[w] : m <= b) /\ at[w] = "lock"
    BY <1>2, NextLockLeast DEF Lock
  <2>2. /\ job' = job /\ owner[m] = NoOne
        /\ owner' = [owner EXCEPT ![m] = w] /\ Proceed(w, m, "fetch")
    BY <1>2 DEF Lock
  <2>3. /\ \A v \in Workers : v # w => at'[v] = at[v] /\ todo'[v] = todo[v]
        /\ todo[w] \ {m} # {} => at'[w] = at[w] /\ todo'[w] = todo[w] \ {m}
        /\ todo[w] \ {m} = {} => at'[w] = "fetch" /\ todo'[w] = Uses[job[w]]
    <3> HIDE DEF m
    <3> QED BY <1>0, <2>2, ProceedEffect
  <2>4. job[w] \in Instruments /\ todo[w] \subseteq Uses[job[w]] /\ Uses[job[w]] \subseteq Accounts
    BY <1>0, <2>1 DEF Working
  <2> HIDE DEF m
  <2>5. \A a \in Accounts : Held(w, a)' <=> a = m \/ Held(w, a)
    BY <2>1, <2>2, <2>3, <2>4 DEF Held
  <2>6. \A v \in Workers : v # w => \A a \in Accounts : Held(v, a)' <=> Held(v, a)
    BY <2>2, <2>3 DEF Held
  <2>7. \A a \in Accounts : owner'[a] = IF a = m THEN w ELSE owner[a]
    BY <1>0, <2>2 DEF TypeOK
  <2>8. Holding'
    BY <1>0, <2>1, <2>2, <2>5, <2>6, <2>7 DEF Holding
  <2>9. Ordered'
    <3>1. SUFFICES ASSUME NEW v \in Workers, at'[v] = "lock",
                          NEW a \in Uses[job[v]] \ todo'[v], NEW b \in todo'[v]
                   PROVE  a < b
      BY <2>2 DEF Ordered
    <3>2. CASE v # w
      BY <1>0, <2>3, <3>1, <3>2 DEF Ordered
    <3>3. CASE v = w
      <4>1. todo'[w] = todo[w] \ {m}
        BY <2>3, <3>1, <3>3
      <4>2. a \in Nat /\ b \in Nat /\ m \in Nat
        BY <2>1, <2>4, <3>3, <4>1, UsesAssumption
      <4>3. CASE a = m
        BY <2>1, <3>3, <4>1, <4>2, <4>3
      <4>4. CASE a # m
        BY <1>0, <2>1, <3>3, <4>1, <4>4 DEF Ordered
      <4> QED BY <4>3, <4>4
    <3> QED BY <3>2, <3>3
  <2> QED BY <2>8, <2>9
<1>3. ASSUME NEW w \in Workers, Unlock(w) PROVE Holding' /\ Ordered'
  <2>1. /\ \A v \in Workers : v # w => at'[v] = at[v] /\ todo'[v] = todo[v] /\ job'[v] = job[v]
        /\ at'[w] = "idle"
        /\ owner' = [a \in Accounts |-> IF owner[a] = w THEN NoOne ELSE owner[a]]
    BY <1>0, <1>3 DEF TypeOK, Unlock, Idle
  <2>2. \A v \in Workers : v # w => \A a \in Accounts : Held(v, a)' <=> Held(v, a)
    BY <2>1 DEF Held
  <2>3. \A a \in Accounts : ~Held(w, a)'
    BY <2>1 DEF Held
  <2> QED BY <1>0, <2>1, <2>2, <2>3 DEF Holding, Ordered
<1>4. ASSUME NEW w \in Workers, Panic(w) PROVE Holding' /\ Ordered'
  <2>1. /\ \A v \in Workers : v # w => at'[v] = at[v] /\ todo'[v] = todo[v]
        /\ at'[w] = "unlock" /\ at[w] \in {"fetch", "quote"} /\ job' = job /\ owner' = owner
    BY <1>0, <1>4 DEF TypeOK, Panic
  <2>2. \A v \in Workers : \A a \in Accounts : Held(v, a)' <=> Held(v, a)
    BY <2>1 DEF Held
  <2> QED BY <1>0, <2>1, <2>2 DEF Holding, Ordered
<1>5. ASSUME NEW w \in Workers, NEW a \in Accounts, NEW part \in {"quote", "unlock"},
             Proceed(w, a, part), at[w] \in {"fetch", "quote"}, job' = job, owner' = owner
      PROVE  Holding' /\ Ordered'
  <2>1. /\ \A v \in Workers : v # w => at'[v] = at[v] /\ todo'[v] = todo[v]
        /\ at'[w] \in {"fetch", "quote", "unlock"}
    BY <1>0, <1>5, ProceedEffect
  <2>2. \A v \in Workers : \A b \in Accounts : Held(v, b)' <=> Held(v, b)
    BY <1>5, <2>1 DEF Held
  <2> QED BY <1>0, <1>5, <2>1, <2>2 DEF Holding, Ordered
<1>6. ASSUME NEW w \in Workers, Answer(w) PROVE Holding' /\ Ordered'
  <2>1. asking[w] \in Accounts /\ at[w] = "fetch"
    BY <1>0, <1>6 DEF Answer, Working, TypeOK
  <2> QED BY <1>5, <1>6, <2>1 DEF Answer
<1>7. CASE UNCHANGED <<owner, at, job, todo>>
  BY <1>0, <1>7 DEF Holding, Ordered, Held
<1> QED BY <1>1, <1>2, <1>3, <1>4, <1>5, <1>6, <1>7
        DEF Next, Step, Hit, Miss, Quote, NoBalances, NextRound, Fill, Release, Credit, vars, workerVars

\* Every step keeps the record of the turns on an account true to jobs handed out and locks held.
LEMMA TurnsStep == RoundInv /\ [Next]_vars => Turns'
<1> SUFFICES ASSUME RoundInv, [Next]_vars PROVE Turns'
  OBVIOUS
<1> USE Constants
<1>0. TypeOK /\ Working /\ Turns
  BY DEF RoundInv
<1>1. ASSUME NEW w \in Workers, TakeJob(w) PROVE Turns'
  <2>1. next \in 1 .. Len(Jobs) /\ next' = next + 1 /\ done' = done /\ at[w] = "idle"
    BY <1>0, <1>1, JobsAssumption DEF TypeOK, TakeJob
  <2>2. /\ \A v \in Workers : v # w => at'[v] = at[v] /\ job'[v] = job[v]
        /\ job'[w] = Jobs[next]
    BY <1>0, <1>1 DEF TypeOK, TakeJob
  <2>3. Handed' = Handed \cup {Jobs[next]}
    BY <2>1 DEF Handed
  <2>4. Jobs[next] \notin Handed
    BY <2>1, JobsAssumption DEF Handed
  <2> QED BY <1>0, <2>1, <2>2, <2>3, <2>4 DEF Turns
<1>2. ASSUME NEW w \in Workers, Unlock(w) PROVE Turns'
  <2>1. /\ \A v \in Workers : v # w => at'[v] = at[v] /\ job'[v] = job[v]
        /\ at'[w] = "idle" /\ done' = done \cup {job[w]} /\ next' = next /\ at[w] = "unlock"
    BY <1>0, <1>2 DEF TypeOK, Unlock, Idle
  <2>2. Handed' = Handed
    BY <2>1 DEF Handed
  <2> QED BY <1>0, <2>1, <2>2 DEF Turns
<1>3. CASE NextRound
  <2>1. \A w \in Workers : at[w] = "idle"
    BY <1>0, <1>3 DEF NextRound, Turns, Working
  <2> QED BY <1>3, <2>1 DEF Turns, NextRound, workerVars, Handed
<1>4. ASSUME UNCHANGED <<next, done, job>>, \A w \in Workers : at'[w] # "idle" => at[w] # "idle"
      PROVE  Turns'
  BY <1>0, <1>4 DEF Turns, Handed
<1>5. ASSUME NEW w \in Workers, NEW a, NEW part, Proceed(w, a, part), UNCHANGED <<next, done, job>>,
             at[w] # "idle"
      PROVE  Turns'
  BY <1>0, <1>4, <1>5, ProceedEffect
<1>6. ASSUME NEW w \in Workers, Lock(w) \/ Answer(w) PROVE Turns'
  BY <1>0, <1>5, <1>6 DEF Lock, Answer, roundVars, Working
<1>7. ASSUME NEW w \in Workers, NEW a \in Accounts, Hit(w, a) \/ Quote(w, a) \/ NoBalances(w, a)
      PROVE  Turns'
  BY <1>5, <1>7 DEF Hit, Quote, NoBalances, roundVars
<1>8. ASSUME NEW w \in Workers, Panic(w) PROVE Turns'
  BY <1>0, <1>4, <1>8 DEF TypeOK, Panic, roundVars
<1>9. CASE UNCHANGED <<next, done, job, at>>
  BY <1>4, <1>9
<1> QED BY <1>1, <1>2, <1>3, <1>6, <1>7, <1>8, <1>9
        DEF Next, Step, Miss, Fill, Release, Credit, vars, workerVars, roundVars

\* Two workers never have an account in common that both have locked.
LEMMA Exclusive ==
  ASSUME RoundInv, NEW v \in Workers, NEW w \in Workers, NEW a \in Accounts, Held(v, a), Held(w, a)
  PROVE  v = w
  BY DEF RoundInv, Holding

\* The one who waits for the answer is the only one, and holds the account.
LEMMA Asking ==
  ASSUME RoundInv, NEW w \in Workers, asking[w] # Nothing
  PROVE  /\ asking[w] \in Accounts /\ at[w] = "fetch" /\ asking[w] \in todo[w]
         /\ Held(w, asking[w]) /\ cached[asking[w]] = Missing
         /\ \A v \in Workers : asking[v] = asking[w] => v = w
<1>1. \A v \in Workers : asking[v] # Nothing =>
        asking[v] \in Accounts /\ at[v] = "fetch" /\ asking[v] \in todo[v] /\ Held(v, asking[v])
  BY DEF RoundInv, TypeOK, Working, Held
<1> QED BY <1>1, Exclusive DEF RoundInv, Unasked

\* Every step keeps the balance cache: one request per account, answered before it is read.
LEMMA CacheStep == RoundInv /\ [Next]_vars => Unasked' /\ Fetched'
<1> SUFFICES ASSUME RoundInv, [Next]_vars PROVE Unasked' /\ Fetched'
  OBVIOUS
<1> USE Constants
<1>0. TypeOK /\ Working /\ Unasked /\ Fetched
  BY DEF RoundInv
<1>1. ASSUME NEW w \in Workers, TakeJob(w) PROVE Unasked' /\ Fetched'
  BY <1>0, <1>1 DEF TypeOK, Unasked, Fetched, TakeJob
<1>2. ASSUME NEW w \in Workers, Lock(w) PROVE Unasked' /\ Fetched'
  <2>1. /\ \A v \in Workers : v # w => at'[v] = at[v] /\ todo'[v] = todo[v]
        /\ at'[w] # "lock" => at'[w] = "fetch" /\ todo'[w] = Uses[job[w]]
    BY <1>0, <1>2, ProceedEffect DEF Lock
  <2> QED BY <1>0, <1>2, <2>1 DEF Unasked, Fetched, Lock
<1>3. ASSUME NEW w \in Workers, Unlock(w) PROVE Unasked' /\ Fetched'
  BY <1>0, <1>3 DEF TypeOK, Unasked, Fetched, Unlock, Idle
<1>4. ASSUME NEW w \in Workers, Panic(w) PROVE Unasked' /\ Fetched'
  BY <1>0, <1>4 DEF TypeOK, Unasked, Fetched, Panic
<1>5. ASSUME NEW w \in Workers, NEW a \in Accounts, Hit(w, a) PROVE Unasked' /\ Fetched'
  <2>1. /\ \A v \in Workers : v # w => at'[v] = at[v] /\ todo'[v] = todo[v]
        /\ todo[w] \ {a} # {} => at'[w] = at[w] /\ todo'[w] = todo[w] \ {a}
        /\ todo[w] \ {a} = {} => at'[w] = "quote"
    BY <1>0, <1>5, ProceedEffect DEF Hit
  <2> QED BY <1>0, <1>5, <2>1 DEF Unasked, Fetched, Hit
<1>6. ASSUME NEW w \in Workers, NEW a \in Accounts, Miss(w, a) PROVE Unasked' /\ Fetched'
  BY <1>0, <1>6 DEF TypeOK, Unasked, Fetched, Miss
<1>7. ASSUME NEW w \in Workers, Answer(w) PROVE Unasked' /\ Fetched'
  <2> DEFINE a == asking[w]
  <2>1. /\ a \in Accounts /\ at[w] = "fetch"
        /\ \A v \in Workers : asking[v] = a => v = w
    BY <1>7, Asking DEF Answer
  <2>2. PICK x \in {free[a], Failed} : cached' = [cached EXCEPT ![a] = x]
    BY <1>7 DEF Answer
  <2>3. x # Missing
    BY <1>0, <2>1, <2>2 DEF TypeOK, Missing, Failed
  <2>4. /\ \A v \in Workers : v # w => at'[v] = at[v] /\ todo'[v] = todo[v] /\ asking'[v] = asking[v]
        /\ todo[w] \ {a} # {} => at'[w] = at[w] /\ todo'[w] = todo[w] \ {a}
        /\ todo[w] \ {a} = {} => at'[w] = "quote"
        /\ asking'[w] = Nothing /\ job' = job
    <3>1. Proceed(w, a, "quote") /\ asking' = [asking EXCEPT ![w] = Nothing] /\ job' = job
      BY <1>7 DEF Answer
    <3>2. asking'[w] = Nothing /\ \A v \in Workers : v # w => asking'[v] = asking[v]
      BY <1>0, <3>1 DEF TypeOK
    <3> QED BY <1>0, <3>1, <3>2, ProceedEffect
  <2>5. \A b \in Accounts : cached'[b] = IF b = a THEN x ELSE cached[b]
    BY <1>0, <2>2 DEF TypeOK
  <2> HIDE DEF a
  <2>6. Unasked'
    <3> SUFFICES ASSUME NEW v \in Workers, asking'[v] # Nothing PROVE cached'[asking'[v]] = Missing
      BY DEF Unasked
    <3>1. v # w /\ asking'[v] = asking[v] /\ asking[v] # a /\ asking[v] \in Accounts
      BY <1>0, <2>1, <2>4 DEF TypeOK
    <3> QED BY <1>0, <2>5, <3>1 DEF Unasked
  <2>7. Fetched'
    BY <1>0, <2>1, <2>3, <2>4, <2>5 DEF Fetched
  <2> QED BY <2>6, <2>7
<1>8. ASSUME NEW w \in Workers, NEW a \in Accounts, Quote(w, a) \/ NoBalances(w, a)
      PROVE  Unasked' /\ Fetched'
  <2>1. /\ \A v \in Workers : v # w => at'[v] = at[v] /\ todo'[v] = todo[v]
        /\ at'[w] = "unlock" \/ at'[w] = at[w]
        /\ at[w] = "quote" /\ UNCHANGED <<job, asking, cached>>
    BY <1>0, <1>8, ProceedEffect DEF Quote, NoBalances
  <2> QED BY <1>0, <2>1 DEF Unasked, Fetched
<1>9. CASE NextRound
  <2>1. \A w \in Workers : at[w] = "idle"
    BY <1>9 DEF NextRound, RoundInv, Turns, Working
  <2>2. \A w \in Workers : asking[w] = Nothing
    BY <1>0, <2>1 DEF Working
  <2> QED BY <1>9, <2>1, <2>2 DEF NextRound, workerVars, Unasked, Fetched
<1>10. CASE UNCHANGED <<workerVars, cached>>
  BY <1>0, <1>10 DEF Unasked, Fetched, workerVars
<1> QED BY <1>1, <1>2, <1>3, <1>4, <1>5, <1>6, <1>7, <1>8, <1>9, <1>10
        DEF Next, Step, Fill, Release, Credit, vars

\* A worker that quotes has spent nothing of the account, so that its balance is a fresh one unless
\* another instrument of the account had its turn.
LEMMA QuoteFresh ==
  ASSUME RoundInv, NEW w \in Workers, NEW a \in todo[w], at[w] = "quote", cached[a] # Failed,
         ~\E j \in done \ {job[w]} : a \in Uses[j]
  PROVE  cached[a] <= free[a]
<1>0. a \in Accounts
  BY DEF RoundInv, TypeOK
<1>1. cached[a] \in Nat /\ a \in todo[w] /\ at[w] = "quote" /\ job[w] \in Instruments
  BY <1>0, Quoting
<1>2. job[w] \notin done
  BY <1>1 DEF RoundInv, Turns
<1>3. Held(w, a)
  BY <1>0, <1>1, Quoting DEF Held
<1>4. ASSUME NEW v \in Workers, at[v] \in {"quote", "unlock"}, a \in Uses[job[v]] \ todo[v]
      PROVE  FALSE
  <2>1. Held(v, a)
    BY <1>4 DEF Held
  <2>2. v = w
    BY <1>0, <1>3, <2>1, Exclusive
  <2> QED BY <1>1, <1>4, <2>2
<1>5. ~Spent(a)
  BY <1>2, <1>4 DEF Spent
<1> QED BY <1>0, <1>1, <1>5 DEF RoundInv, Fresh

\* What was spent stays spent while the round lasts.
LEMMA FreshStep == RoundInv /\ [Next]_vars => Fresh'
<1> SUFFICES ASSUME RoundInv, [Next]_vars PROVE Fresh'
  OBVIOUS
<1> USE Constants
<1>0. TypeOK /\ Working /\ Fresh
  BY DEF RoundInv
<1>a. ASSUME \A a \in Accounts : Spent(a) => Spent(a)',
             cached' = cached, \A a \in Accounts : free[a] <= free'[a], free' \in [Accounts -> Nat]
      PROVE  Fresh'
  BY <1>0, <1>a DEF Fresh, TypeOK
<1>b. TypeOK'
  BY TypeStep
<1>1. ASSUME NEW w \in Workers, TakeJob(w) PROVE Fresh'
  <2>1. \A a \in Accounts : Spent(a) => Spent(a)'
    BY <1>0, <1>1 DEF TypeOK, Spent, TakeJob
  <2> QED BY <1>0, <1>1, <1>a, <2>1 DEF TypeOK, TakeJob, bookVars
<1>2. ASSUME NEW w \in Workers, Lock(w) PROVE Fresh'
  <2>1. \A v \in Workers : at[v] \in {"quote", "unlock"} =>
          at'[v] = at[v] /\ todo'[v] = todo[v] /\ job'[v] = job[v]
    BY <1>0, <1>2, ProceedEffect DEF Lock
  <2>2. done' = done
    BY <1>2 DEF Lock, roundVars
  <2>3. \A a \in Accounts : Spent(a) => Spent(a)'
    BY <2>1, <2>2 DEF Spent
  <2> QED BY <1>0, <1>2, <1>a, <2>3 DEF TypeOK, Lock, bookVars
<1>3. ASSUME NEW w \in Workers, Unlock(w) PROVE Fresh'
  <2>1. /\ \A v \in Workers : v # w => at'[v] = at[v] /\ todo'[v] = todo[v] /\ job'[v] = job[v]
        /\ done' = done \cup {job[w]}
    BY <1>0, <1>3 DEF TypeOK, Unlock, Idle
  <2>2. \A a \in Accounts : Spent(a) => Spent(a)'
    BY <2>1 DEF Spent
  <2> QED BY <1>0, <1>3, <1>a, <2>2 DEF TypeOK, Unlock, bookVars
<1>4. ASSUME NEW w \in Workers, Panic(w) PROVE Fresh'
  <2>1. \A a \in Accounts : Spent(a) => Spent(a)'
    BY <1>0, <1>4 DEF TypeOK, Spent, Panic, roundVars
  <2> QED BY <1>0, <1>4, <1>a, <2>1 DEF TypeOK, Panic, bookVars
<1>5. ASSUME NEW w \in Workers, NEW a, NEW part, Proceed(w, a, part), job' = job, done' = done,
             at[w] = "quote" => part = "unlock", at[w] \in {"fetch", "quote"}
      PROVE  \A b \in Accounts : Spent(b) => Spent(b)'
  <2>1. /\ \A v \in Workers : v # w => at'[v] = at[v] /\ todo'[v] = todo[v]
        /\ at[w] = "quote" => at'[w] \in {"quote", "unlock"} /\ todo'[w] \subseteq todo[w]
    BY <1>0, <1>5, ProceedEffect
  <2> QED BY <1>5, <2>1 DEF Spent
<1>6. ASSUME NEW w \in Workers, NEW a \in Accounts, Hit(w, a) PROVE Fresh'
  <2>1. \A b \in Accounts : Spent(b) => Spent(b)'
    BY <1>5, <1>6 DEF Hit, roundVars
  <2> QED BY <1>0, <1>6, <1>a, <2>1 DEF TypeOK, Hit, bookVars
<1>7. ASSUME NEW w \in Workers, NEW a \in Accounts, Miss(w, a) PROVE Fresh'
  <2>1. \A b \in Accounts : Spent(b) => Spent(b)'
    BY <1>7 DEF Miss, Spent, roundVars
  <2> QED BY <1>0, <1>7, <1>a, <2>1 DEF TypeOK, Miss, bookVars
<1>8. ASSUME NEW w \in Workers, Answer(w) PROVE Fresh'
  <2> DEFINE a == asking[w]
  <2>1. a \in Accounts /\ at[w] = "fetch"
    BY <1>8, Asking DEF Answer
  <2>2. \A b \in Accounts : Spent(b) => Spent(b)'
    BY <1>5, <1>8, <2>1 DEF Answer, roundVars
  <2>3. PICK x \in {free[a], Failed} : cached' = [cached EXCEPT ![a] = x]
    BY <1>8 DEF Answer
  <2>4. free' = free
    BY <1>8 DEF Answer, bookVars
  <2>5. \A b \in Accounts : cached'[b] = IF b = a THEN x ELSE cached[b]
    BY <1>0, <2>3 DEF TypeOK
  <2>6. x \in Nat => x <= free[a]
    BY <1>0, <2>1, <2>3 DEF TypeOK, Failed
  <2> HIDE DEF a
  <2> QED BY <1>0, <2>1, <2>2, <2>4, <2>5, <2>6 DEF Fresh
<1>9. ASSUME NEW w \in Workers, NEW a \in Accounts, Quote(w, a) PROVE Fresh'
  <2>1. \A b \in Accounts : Spent(b) => Spent(b)'
    BY <1>5, <1>9 DEF Quote, roundVars
  <2>2. Spent(a)'
    <3>1. a \in Uses[job[w]] /\ at[w] = "quote" /\ job' = job /\ Proceed(w, a, "unlock")
      BY <1>9, Quoting DEF Quote
    <3>2. at'[w] \in {"quote", "unlock"} /\ a \notin todo'[w]
      BY <1>0, <3>1, ProceedEffect
    <3> QED BY <3>1, <3>2 DEF Spent
  <2>3. cached' = cached /\ \A b \in Accounts : b # a => free'[b] = free[b]
    BY <1>0, <1>9 DEF Quote, TypeOK
  <2> QED BY <1>0, <2>1, <2>2, <2>3 DEF Fresh
<1>10. ASSUME NEW w \in Workers, NEW a \in Accounts, NoBalances(w, a) PROVE Fresh'
  <2>1. \A b \in Accounts : Spent(b) => Spent(b)'
    BY <1>5, <1>10 DEF NoBalances, roundVars
  <2> QED BY <1>0, <1>10, <1>a, <2>1 DEF TypeOK, NoBalances, bookVars
<1>11. CASE NextRound
  BY <1>11 DEF Fresh, NextRound, Missing
<1>12. ASSUME NEW i \in Instruments, NEW a \in Accounts, Fill(i, a) PROVE Fresh'
  BY <1>0, <1>12, <1>a DEF TypeOK, Fill, Spent, roundVars, workerVars
<1>13. ASSUME NEW a \in Accounts, Credit(a) PROVE Fresh'
  <2>1. \A b \in Accounts : Spent(b) => Spent(b)'
    BY <1>13 DEF Credit, Spent, roundVars, workerVars
  <2> QED BY <1>0, <1>13, <1>a, <1>b, <2>1 DEF TypeOK, Credit
<1>14. ASSUME NEW i \in Instruments, NEW a \in Accounts, Release(i, a) PROVE Fresh'
  <2>1. \A b \in Accounts : Spent(b) => Spent(b)'
    BY <1>14 DEF Release, Spent, roundVars, workerVars
  <2> QED BY <1>0, <1>14, <1>a, <1>b, <2>1 DEF TypeOK, Release
<1>15. CASE UNCHANGED vars
  BY <1>0, <1>15 DEF Fresh, Spent, vars, roundVars, workerVars, bookVars
<1> QED BY <1>1, <1>2, <1>3, <1>4, <1>6, <1>7, <1>8, <1>9, <1>10, <1>11, <1>12, <1>13, <1>14, <1>15
        DEF Next, Step

-----------------------------------------------------------------------------
(* Theorems.                                                               *)

(* The invariant behind the others: what workers do, hold and have asked   *)
(* for agree with the locks and the cache, at any time of any round.       *)
THEOREM RoundInvariant == Spec => []RoundInv
<1>1. Init => RoundInv
  <2> SUFFICES ASSUME Init PROVE RoundInv
    OBVIOUS
  <2> USE Constants DEF Init
  <2>1. TypeOK
    BY JobsAssumption, BudgetAssumption DEF TypeOK
  <2>2. Working /\ Ordered /\ Turns /\ Unasked /\ Fetched
    BY DEF Working, Ordered, Turns, Unasked, Fetched, Handed
  <2>3. Holding
    BY DEF Holding, Held
  <2>4. Fresh
    BY DEF Fresh, Missing
  <2> QED BY <2>1, <2>2, <2>3, <2>4 DEF RoundInv
<1>2. RoundInv /\ [Next]_vars => RoundInv'
  BY TypeStep, WorkingStep, HoldingStep, TurnsStep, CacheStep, FreshStep DEF RoundInv
<1> QED BY <1>1, <1>2, PTL DEF Spec

(* The exchange is asked once for the balances of an account in a round,   *)
(* whatever instruments share it and whichever worker is the first, though *)
(* balanceCache.fetch lets go of the cache while it asks.                  *)
THEOREM BalancesAskedOnce == Spec => []SingleLookup
<1>1. RoundInv => SingleLookup
  BY Asking DEF SingleLookup
<1> QED BY <1>1, RoundInvariant, PTL

(* Locks taken in the order of the account keys never close a circle: of   *)
(* the workers that wait, the one that waits for the greatest account      *)
(* waits for a worker that does not (lockInstrumentAccounts).              *)
THEOREM LocksNeverCycle == Spec => []NoLockCycle
<1>1. RoundInv => NoLockCycle
  <2> SUFFICES ASSUME RoundInv, NEW w0 \in Workers, at[w0] # "idle",
                      \A w \in Workers : at[w] # "idle" => Waits(w)
               PROVE  FALSE
    BY DEF NoLockCycle
  <2> USE Constants
  <2> DEFINE B == {w \in Workers : at[w] # "idle"}
             L == {NextLock(w) : w \in B}
             f == [w \in B |-> NextLock(w)]
  <2>1. \A w \in B : /\ at[w] = "lock" /\ owner[NextLock(w)] # NoOne
                     /\ NextLock(w) \in todo[w] /\ NextLock(w) \in Accounts
    BY NextLockLeast DEF Waits
  <2>2. L \in SUBSET Nat /\ L # {}
    <3>1. w0 \in B /\ L \subseteq Accounts
      BY <2>1
    <3>2. NextLock(w0) \in L
      BY <3>1
    <3> HIDE DEF L
    <3> QED BY <3>1, <3>2, UsesAssumption
  <2>3. IsFiniteSet(L)
    <3>1. IsFiniteSet(B)
      BY WorkersAssumption, FS_Subset
    <3>2. f \in Surjection(B, L)
      BY DEF Surjection
    <3> HIDE DEF f, B, L
    <3> QED BY <3>1, <3>2, FS_Surjection
  <2>4. PICK m \in L : \A l \in L : l <= m
    <3> HIDE DEF L
    <3> QED BY <2>2, <2>3, MaxIsGreatest
  <2>5. PICK w \in B : m = NextLock(w)
    OBVIOUS
  <2>6. PICK v \in Workers : owner[m] = v
    BY <2>1, <2>5 DEF RoundInv, TypeOK
  <2>7. Held(v, m) /\ m \in Accounts
    BY <2>1, <2>5, <2>6 DEF RoundInv, Holding
  <2>8. v \in B /\ m \in Uses[job[v]] \ todo[v] /\ at[v] = "lock"
    BY <2>1, <2>7 DEF Held
  <2>9. m < NextLock(v) /\ NextLock(v) \in L
    BY <2>1, <2>8 DEF RoundInv, Ordered
  <2>10. NextLock(v) <= m /\ m \in Nat /\ NextLock(v) \in Nat
    BY <2>2, <2>4, <2>9
  <2> QED BY <2>9, <2>10
<1> QED BY <1>1, RoundInvariant, PTL

\* More units of which to spend the same share allow more.
LEMMA ShareGrows ==
  ASSUME NEW x \in Nat, NEW y \in Nat, NEW r \in Nat, x <= y
  PROVE  x * r <= y * r
<1>1. PICK d \in Nat : y = x + d
  BY y - x \in Nat
<1>2. d * r \in Nat /\ y * r = x * r + d * r /\ x * r \in Nat
  BY <1>1
<1> QED BY <1>2

(* A budget reckoned with the balance read earlier in the round is covered *)
(* by what the account has now, its reserve left over, through fills,      *)
(* cancellations, deposits, failures and panics, unless another instrument *)
(* of the account had its turn before (ApplyBalanceBudget, balanceCache).  *)
THEOREM BudgetsAreCovered == Spec => []BudgetCovered
<1>1. RoundInv => BudgetCovered
  <2> SUFFICES ASSUME RoundInv, NEW w \in Workers, NEW a \in todo[w], at[w] = "quote",
                      cached[a] # Failed, ~(\E j \in done \ {job[w]} : a \in Uses[j])
               PROVE  Eligible(job[w], a) * 10000
                        <= (free[a] + orders[job[w]][a]) * (10000 - ReserveBPS[job[w]])
    BY DEF BudgetCovered
  <2> DEFINE i == job[w]
             o == orders[i][a]
             r == 10000 - ReserveBPS[i]
             e == Eligible(i, a)
  <2>1. TypeOK /\ a \in Accounts
    BY DEF RoundInv, TypeOK
  <2>2. i \in Instruments /\ cached[a] \in Nat /\ free[a] \in Nat
    BY <2>1, Quoting
  <2>3. o \in Nat /\ r \in Nat
    BY <2>1, <2>2, BudgetNumbers
  <2>4. e \in Nat /\ e * 10000 <= (cached[a] + o) * r
    <3>1. e \in 0 .. Levels /\ Budget(i, a, e)
      BY <2>1, <2>2, EligibleFits
    <3> QED BY <3>1 DEF Budget
  <2>5. cached[a] <= free[a]
    BY QuoteFresh
  <2> HIDE DEF i, o, r, e
  <2>6. (cached[a] + o) * r <= (free[a] + o) * r
    <3>1. cached[a] + o \in Nat /\ free[a] + o \in Nat /\ cached[a] + o <= free[a] + o
      BY <2>2, <2>3, <2>5
    <3> QED BY <2>3, <3>1, ShareGrows
  <2>7. (cached[a] + o) * r \in Int /\ (free[a] + o) * r \in Int /\ e * 10000 \in Int
    BY <2>2, <2>3, <2>4
  <2>8. e * 10000 <= (free[a] + o) * r
    <3> DEFINE x == (cached[a] + o) * r
               y == (free[a] + o) * r
    <3>1. x \in Int /\ y \in Int /\ e * 10000 <= x /\ x <= y
      BY <2>4, <2>6, <2>7
    <3> HIDE DEF x, y
    <3>2. e * 10000 <= y
      BY <2>7, <3>1
    <3> QED BY <3>2 DEF y
  <2> QED BY <2>8 DEF i, o, r, e
<1> QED BY <1>1, RoundInvariant, PTL
=============================================================================
