--------------------------- MODULE QuoteLadderProofs ---------------------------
(***************************************************************************)
(* Proofs about QuoteLadder, for any valid strategy and market rules, any  *)
(* prices, books, inventories, windows and funds.                          *)
(***************************************************************************)
EXTENDS QuoteLadder, TLAPS, FiniteSetTheorems, FunctionTheorems, WellFoundedInduction

-----------------------------------------------------------------------------
(* Arithmetic.                                                             *)

\* The greater and the lesser of two numbers.
LEMMA MaxMinOfTwo ==
  ASSUME NEW a \in Int, NEW b \in Int
  PROVE  /\ Max({a, b}) = IF a >= b THEN a ELSE b
         /\ Min({a, b}) = IF a <= b THEN a ELSE b
  BY DEF Max, Min

\* Division with remainder.
LEMMA Quotient ==
  ASSUME NEW n \in Int, NEW d \in Nat \ {0}
  PROVE  /\ n \div d \in Int
         /\ (n \div d) * d <= n /\ n < (n \div d) * d + d
         /\ n >= 0 => n \div d \in Nat
  OBVIOUS

\* A quotient is the only number whose multiple is the last one not above n.
LEMMA QuotientUnique ==
  ASSUME NEW n \in Int, NEW d \in Nat \ {0}, NEW q \in Int, q * d <= n, n < q * d + d
  PROVE  n \div d = q
<1> DEFINE p == n \div d
<1>1. p \in Int /\ p * d <= n /\ n < p * d + d
  BY Quotient
<1> HIDE DEF p
<1>2. ASSUME NEW x \in Int, NEW y \in Int, x < y PROVE x * d + d <= y * d
  <2>1. PICK k \in Nat : y = x + 1 + k
    <3>1. y - x - 1 \in Nat /\ y = x + 1 + (y - x - 1)
      BY <1>2
    <3> QED BY <3>1
  <2>2. (x + 1 + k) * d = x * d + d + k * d /\ k * d \in Nat /\ x * d \in Int
    BY <1>2
  <2> QED BY <2>1, <2>2
<1>3. p * d \in Int /\ q * d \in Int
  BY <1>1
<1>4. ~(p < q) /\ ~(q < p)
  BY <1>1, <1>2, <1>3
<1> QED BY <1>1, <1>4 DEF p

\* A quotient changes from a number to the next only at a multiple of the divisor.
LEMMA QuotientSteps ==
  ASSUME NEW n \in Nat, NEW d \in Nat \ {0}, (n + 1) \div d # n \div d
  PROVE  \E k \in Int : n + 1 = k * d
<1>1. PICK q \in Int : q = n \div d /\ q * d <= n /\ n < q * d + d
  BY Quotient
<1>2. q * d \in Int
  BY <1>1
<1>3. ~(n + 1 < q * d + d)
  <2> SUFFICES ASSUME n + 1 < q * d + d PROVE FALSE
    OBVIOUS
  <2>1. n + 1 \in Int /\ q * d <= n + 1
    BY <1>1, <1>2
  <2>2. (n + 1) \div d = q
    BY <1>1, <2>1, QuotientUnique
  <2> QED BY <1>1, <2>2
<1>4. n + 1 = q * d + d
  BY <1>1, <1>2, <1>3
<1>5. (q + 1) * d = q * d + d /\ q + 1 \in Int
  BY <1>1
<1> QED BY <1>4, <1>5

\* The remainder of a number below twice the divisor.
LEMMA RemainderOnce ==
  ASSUME NEW d \in Nat \ {0}, NEW x \in Nat, x < 2 * d
  PROVE  x % d = IF x < d THEN x ELSE x - d
<1>1. x % d \in 0 .. d - 1 /\ x = d * (x \div d) + (x % d)
  OBVIOUS
<1>2. CASE x < d
  <2>1. x \div d = 0
    BY <1>2, QuotientUnique
  <2> QED BY <1>1, <1>2, <2>1
<1>3. CASE x >= d
  <2>1. x \div d = 1
    BY <1>3, QuotientUnique
  <2> QED BY <1>1, <1>3, <2>1
<1> QED BY <1>2, <1>3

-----------------------------------------------------------------------------
(* The refresh of the deep levels.                                         *)

\* The parts of refreshGeneration.
Deep == Strategy.levels - Strategy.best
Count == RefreshCount(Deep)
Groups == (Deep + Count - 1) \div Count
Turned(side, level) ==
  IF side = "sell" /\ Deep > 1 THEN (level - Strategy.best + Deep \div 2) % Deep ELSE level - Strategy.best
Start(side, level) == PhaseOf(Turned(side, level), Count)
DeepLevels == Strategy.best .. Strategy.levels - 1

\* The groups cover the deep levels, the last one perhaps in part.
LEMMA GroupsCover ==
  /\ Deep \in Nat /\ Count \in Nat \ {0} /\ Strategy.best \in Nat /\ Strategy.levels \in Nat
  /\ Deep > 0 => Groups \in Nat \ {0} /\ Deep <= Groups * Count
<1>1. /\ Strategy.best \in Nat /\ Strategy.levels \in Nat /\ Strategy.best <= Strategy.levels
      /\ Strategy.refreshRatio \in Nat /\ Bps \in Nat \ {0}
  BY StrategyAssumption DEF ValidStrategy
<1>2. Deep \in Nat
  BY <1>1 DEF Deep
<1>3. Count \in Nat \ {0}
  <2>1. Deep * Strategy.refreshRatio \in Nat
    BY <1>1, <1>2
  <2>2. PICK p \in Nat : p = Deep * Strategy.refreshRatio
    BY <2>1
  <2>3. (p + Bps - 1) \div Bps \in Int
    BY <1>1, Quotient
  <2>4. (Deep * Strategy.refreshRatio + Bps - 1) \div Bps \in Int
    BY <2>2, <2>3
  <2> QED BY <2>4, MaxMinOfTwo DEF Count, RefreshCount
<1>4. ASSUME Deep > 0 PROVE Groups \in Nat \ {0} /\ Deep <= Groups * Count
  <2>1. PICK g \in Int : g = Groups /\ g * Count <= Deep + Count - 1 /\ Deep + Count - 1 < g * Count + Count
    BY <1>2, <1>3, Quotient DEF Groups
  <2>2. g * Count \in Int
    BY <1>3, <2>1
  <2>3. Deep <= g * Count
    BY <1>2, <1>3, <2>1, <2>2
  <2>4. ASSUME g <= 0 PROVE g * Count <= 0
    BY <1>3, <2>1, <2>4
  <2> QED BY <1>2, <1>4, <2>1, <2>2, <2>3, <2>4
<1> QED BY <1>1, <1>2, <1>3, <1>4

\* A side's deep levels are numbered apart, the sell side's from half-way on.
LEMMA TurnedApart ==
  ASSUME NEW side, NEW l \in DeepLevels, NEW m \in DeepLevels
  PROVE  /\ Turned(side, l) \in 0 .. Deep - 1
         /\ Turned(side, l) = Turned(side, m) => l = m
<1> DEFINE h == Deep \div 2
<1>1. /\ Deep \in Nat /\ Strategy.best \in Nat /\ Strategy.levels \in Nat
      /\ l \in Int /\ m \in Int
      /\ l - Strategy.best \in 0 .. Deep - 1 /\ m - Strategy.best \in 0 .. Deep - 1
  BY GroupsCover DEF DeepLevels, Deep
<1>2. CASE ~(side = "sell" /\ Deep > 1)
  BY <1>1, <1>2 DEF Turned
<1>3. CASE side = "sell" /\ Deep > 1
  <2>1. h \in Nat /\ h < Deep /\ Deep \in Nat \ {0}
    BY <1>1, <1>3
  <2>2. Turned(side, l) = (l - Strategy.best + h) % Deep /\ Turned(side, m) = (m - Strategy.best + h) % Deep
    BY <1>3 DEF Turned
  <2> HIDE DEF h
  <2>3. PICK i \in Nat, j \in Nat : i = l - Strategy.best /\ j = m - Strategy.best /\ i < Deep /\ j < Deep
    BY <1>1
  <2>4. /\ (i + h) % Deep = IF i + h < Deep THEN i + h ELSE i + h - Deep
        /\ (j + h) % Deep = IF j + h < Deep THEN j + h ELSE j + h - Deep
    <3>1. i + h \in Nat /\ i + h < 2 * Deep /\ j + h \in Nat /\ j + h < 2 * Deep
      BY <1>1, <2>1, <2>3
    <3>2. PICK x \in Nat, y \in Nat : x = i + h /\ y = j + h
      BY <3>1
    <3>3. x % Deep = (IF x < Deep THEN x ELSE x - Deep) /\ y % Deep = (IF y < Deep THEN y ELSE y - Deep)
      BY <2>1, <3>1, <3>2, RemainderOnce
    <3> QED BY <1>1, <2>1, <2>3, <3>2, <3>3
  <2>5. (i + h) % Deep \in 0 .. Deep - 1 /\ ((i + h) % Deep = (j + h) % Deep => i = j)
    BY <1>1, <2>1, <2>3, <2>4
  <2> QED BY <1>1, <2>2, <2>3, <2>5
<1> QED BY <1>2, <1>3

\* A deep level that gets a new generation belongs to the group whose turn it is.
LEMMA RefreshTurn ==
  ASSUME NEW side, NEW l \in DeepLevels, NEW w \in Nat,
         Generation(side, l, w + 1) # Generation(side, l, w)
  PROVE  Start(side, l) = (w + 1) - ((w + 1) \div Groups) * Groups
<1>1. /\ Deep > 0 /\ Groups \in Nat \ {0} /\ Count \in Nat \ {0} /\ Deep \in Nat
      /\ Deep <= Groups * Count /\ ~(l < Strategy.best)
  BY GroupsCover DEF DeepLevels, Deep
<1>2. PICK t \in Nat : t = Turned(side, l) /\ t < Deep
  BY <1>1, TurnedApart
<1>3. PICK s \in Nat : s = Start(side, l) /\ s * Count <= t
  BY <1>1, <1>2, Quotient DEF Start, PhaseOf
<1>4. s < Groups
  <2> SUFFICES ASSUME Groups <= s PROVE FALSE
    BY <1>1
  <2>1. PICK k \in Nat : s = Groups + k
    <3>1. s - Groups \in Nat /\ s = Groups + (s - Groups)
      BY <1>1
    <3> QED BY <3>1
  <2>2. (Groups + k) * Count = Groups * Count + k * Count /\ k * Count \in Nat /\ Groups * Count \in Nat
    BY <1>1
  <2> QED BY <1>1, <1>2, <1>3, <2>1, <2>2
<1>5. \A v \in Nat : Generation(side, l, v) = IF v < s THEN 0 ELSE (v - s) \div Groups + 1
  BY <1>1, <1>3 DEF Generation, Start, Turned, Groups, Count, Deep
<1>6. PICK k \in Int : (w + 1) - s = k * Groups
  <2>1. CASE w + 1 < s
    BY <1>5, <2>1
  <2>2. CASE w + 1 = s
    <3>1. (w + 1) - s = 0 * Groups
      BY <1>1, <2>2
    <3> QED BY <3>1
  <2>3. CASE w >= s
    <3>1. PICK n \in Nat : n = w - s /\ (w + 1) - s = n + 1
      <4>1. w - s \in Nat /\ (w + 1) - s = (w - s) + 1
        BY <2>3
      <4> QED BY <4>1
    <3>2. (n + 1) \div Groups # n \div Groups
      <4>1. ~(w < s) /\ ~(w + 1 < s) /\ w + 1 \in Nat
        BY <2>3
      <4> QED BY <1>5, <3>1, <4>1
    <3> QED BY <1>1, <3>1, <3>2, QuotientSteps
  <2> QED BY <2>1, <2>2, <2>3
<1>7. k * Groups \in Int
  BY <1>1
<1>8. (w + 1) \div Groups = k
  BY <1>1, <1>4, <1>6, <1>7, QuotientUnique
<1> QED BY <1>3, <1>6, <1>7, <1>8

\* No window refreshes more deep levels of a side than a group has.
LEMMA GroupBound ==
  ASSUME NEW side, NEW w \in Nat
  PROVE  LET changed == {l \in DeepLevels : Generation(side, l, w + 1) # Generation(side, l, w)}
         IN  IsFiniteSet(changed) /\ Cardinality(changed) <= Count
<1> DEFINE changed == {l \in DeepLevels : Generation(side, l, w + 1) # Generation(side, l, w)}
           s == (w + 1) - ((w + 1) \div Groups) * Groups
           group == s * Count .. s * Count + Count - 1
           f == [l \in changed |-> Turned(side, l)]
<1>1. CASE changed = {}
  <2> HIDE DEF changed
  <2>1. Count \in Nat
    BY GroupsCover
  <2> QED BY <1>1, <2>1, FS_EmptySet DEF changed
<1>2. CASE changed # {}
  <2>1. PICK l0 \in changed : TRUE
    BY <1>2
  <2>2. /\ Deep > 0 /\ Deep \in Nat /\ Groups \in Nat \ {0} /\ Count \in Nat \ {0}
    BY <2>1, GroupsCover DEF DeepLevels, Deep
  <2>3. s \in Int
    <3>1. (w + 1) \div Groups \in Int
      BY <2>2, Quotient
    <3>2. ((w + 1) \div Groups) * Groups \in Int
      BY <2>2, <3>1
    <3> QED BY <3>2
  <2>4. s * Count \in Int
    <3> HIDE DEF s
    <3> QED BY <2>2, <2>3
  <2>5. ASSUME NEW l \in changed PROVE Turned(side, l) \in group
    <3>1. l \in DeepLevels /\ Start(side, l) = s
      BY <2>5, RefreshTurn
    <3>2. PICK t \in Nat : t = Turned(side, l)
      BY <2>2, <3>1, TurnedApart
    <3>3. s * Count <= t /\ t < s * Count + Count
      <4>1. t \div Count = s
        BY <3>1, <3>2 DEF Start, PhaseOf
      <4> HIDE DEF s
      <4>2. PICK q \in Int : q = t \div Count /\ q * Count <= t /\ t < q * Count + Count
        <5>1. t \in Int /\ Count \in Nat \ {0}
          BY <2>2, <3>2
        <5>2. t \div Count \in Int /\ (t \div Count) * Count <= t /\ t < (t \div Count) * Count + Count
          BY <5>1, Quotient
        <5> QED BY <5>2
      <4> QED BY <4>1, <4>2
    <3> HIDE DEF s
    <3> QED BY <2>2, <2>4, <3>2, <3>3
  <2>6. f \in Injection(changed, group)
    <3>1. f \in [changed -> group]
      <4> HIDE DEF group, changed
      <4> QED BY <2>5
    <3>2. \A l, m \in changed : f[l] = f[m] => l = m
      BY TurnedApart
    <3> HIDE DEF f, group, changed
    <3> QED BY <3>1, <3>2 DEF Injection, IsInjective
  <2>7. IsFiniteSet(group) /\ Cardinality(group) = Count
    <3>1. PICK a \in Int : a = s * Count
      BY <2>4
    <3>2. a + Count - 1 \in Int /\ ~(a > a + Count - 1) /\ (a + Count - 1) - a + 1 = Count
      BY <2>2, <3>1
    <3>3. group = a .. a + Count - 1
      BY <3>1
    <3> HIDE DEF group
    <3> QED BY <3>1, <3>2, <3>3, FS_Interval
  <2> HIDE DEF f, group, changed
  <2>8. IsFiniteSet(changed) /\ Cardinality(changed) <= Count
    BY <2>6, <2>7, FS_Injection
  <2> QED BY <2>8 DEF changed
<1> QED BY <1>1, <1>2

-----------------------------------------------------------------------------
(* Loops over a list, as recursive functions of the number of rounds.      *)

\* What holds at first and is kept by every round holds after each.
LEMMA LoopInduction ==
  ASSUME NEW N \in Nat, NEW T, 0 \in T, \A n \in 1 .. N : n - 1 \in T => n \in T
  PROVE  \A n \in 0 .. N : n \in T
<1> DEFINE Bad == {n \in 0 .. N : n \notin T}
<1>1. SUFFICES ASSUME Bad # {} PROVE FALSE
  OBVIOUS
<1>2. PICK m \in Bad : \A x \in Bad : ~(<<x, m>> \in OpToRel(<, Nat))
  <2>1. Bad \subseteq Nat
    OBVIOUS
  <2> HIDE DEF Bad
  <2> QED BY <1>1, <2>1, NatLessThanWellFounded, WFMin
<1>3. m \in 1 .. N /\ m - 1 \in Bad /\ m - 1 \in Nat /\ m \in Nat
  OBVIOUS
<1>4. <<m - 1, m>> \in OpToRel(<, Nat)
  BY <1>3 DEF OpToRel
<1> QED BY <1>2, <1>3, <1>4

\* The course of a loop: the values of its variable, from b on, round by round.
Course(f, N, b, g) == f[0] = b /\ \A n \in 1 .. N : f[n] = g[n][f[n - 1]]

\* A loop has a course.
LEMMA LoopExists ==
  ASSUME NEW N \in Nat, NEW S, NEW b \in S, NEW g \in [1 .. N -> [S -> S]]
  PROVE  \E f \in [0 .. N -> S] : Course(f, N, b, g)
<1> DEFINE T == {m \in 0 .. N : \E f \in [0 .. m -> S] : Course(f, m, b, g)}
<1>1. 0 \in T
  <2> DEFINE f == [n \in 0 .. 0 |-> b]
  <2>1. f \in [0 .. 0 -> S] /\ Course(f, 0, b, g)
    BY DEF Course
  <2> HIDE DEF f
  <2> QED BY <2>1
<1>2. ASSUME NEW m \in 1 .. N, m - 1 \in T PROVE m \in T
  <2>1. PICK f \in [0 .. m - 1 -> S] : Course(f, m - 1, b, g)
    BY <1>2
  <2> DEFINE next == g[m][f[m - 1]]
             e == [n \in 0 .. m |-> IF n = m THEN next ELSE f[n]]
  <2>2. next \in S
    BY <2>1
  <2>3. e \in [0 .. m -> S]
    <3> HIDE DEF next
    <3> QED BY <2>1, <2>2
  <2>4. e[0] = b
    BY <2>1 DEF Course
  <2>5. ASSUME NEW n \in 1 .. m PROVE e[n] = g[n][e[n - 1]]
    <3>1. CASE n = m
      <4>1. e[m] = next /\ e[m - 1] = f[m - 1]
        <5>1. m - 1 # m /\ m - 1 \in 0 .. m /\ m \in 0 .. m
          OBVIOUS
        <5> HIDE DEF next
        <5> QED BY <5>1
      <4> HIDE DEF e
      <4> QED BY <3>1, <4>1
    <3>2. CASE n # m
      <4>1. n \in 1 .. m - 1 /\ n - 1 # m /\ n - 1 \in 0 .. m /\ n \in 0 .. m
        BY <3>2
      <4>2. e[n] = f[n] /\ e[n - 1] = f[n - 1]
        BY <3>2, <4>1
      <4> HIDE DEF e
      <4> QED BY <2>1, <4>1, <4>2 DEF Course
    <3> QED BY <3>1, <3>2
  <2>6. Course(e, m, b, g)
    <3> HIDE DEF e
    <3> QED BY <2>4, <2>5 DEF Course
  <2> HIDE DEF e
  <2> QED BY <2>3, <2>6
<1>3. \A n \in 0 .. N : n \in T
  <2> HIDE DEF T
  <2> QED BY <1>1, <1>2, LoopInduction
<1>4. N \in T
  <2>1. N \in 0 .. N
    OBVIOUS
  <2> HIDE DEF T
  <2> QED BY <1>3, <2>1
<1> QED BY <1>4

\* A function that follows the rounds as long as they stay within S.
Follows(F, N, S, b, g) ==
  /\ F = [n \in 0 .. N |-> F[n]] /\ F[0] = b
  /\ \A n \in 1 .. N : F[n - 1] \in S => F[n] = g[n][F[n - 1]]

\* It is the course of the loop, and the course stays within S.
LEMMA LoopFollowed ==
  ASSUME NEW N \in Nat, NEW S, NEW b \in S, NEW g \in [1 .. N -> [S -> S]],
         NEW F, Follows(F, N, S, b, g)
  PROVE  F \in [0 .. N -> S] /\ Course(F, N, b, g)
<1> DEFINE T == {n \in 0 .. N : F[n] \in S}
<1>1. 0 \in T
  BY DEF Follows
<1>2. ASSUME NEW n \in 1 .. N, n - 1 \in T PROVE n \in T
  <2>1. F[n - 1] \in S /\ n \in 0 .. N
    BY <1>2
  <2>2. F[n] = g[n][F[n - 1]]
    BY <2>1 DEF Follows
  <2>3. g[n][F[n - 1]] \in S
    BY <2>1
  <2> QED BY <2>1, <2>2, <2>3
<1>3. \A n \in 0 .. N : n \in T
  <2> HIDE DEF T
  <2> QED BY <1>1, <1>2, LoopInduction
<1>4. \A n \in 0 .. N : F[n] \in S
  BY <1>3
<1>5. F \in [0 .. N -> S]
  BY <1>4 DEF Follows
<1>6. \A n \in 1 .. N : F[n - 1] \in S
  BY <1>4
<1> QED BY <1>5, <1>6 DEF Course, Follows

\* The rounds of a loop over qs that keeps its quotes or leaves them out, one after the other.
Sifts(f, qs) ==
  /\ f \in [0 .. Len(qs) -> Seq(Quotes)]
  /\ f[0] = <<>>
  /\ \A n \in 1 .. Len(qs) : f[n] \in {f[n - 1], Append(f[n - 1], qs[n])}

\* Where the quotes of a part were in the whole.
Part(s, qs, h, n) ==
  /\ h \in [1 .. Len(s) -> 1 .. n]
  /\ \A i, j \in 1 .. Len(s) : i < j => h[i] < h[j]
  /\ \A k \in 1 .. Len(s) : s[k] = qs[h[k]]

\* What a loop keeps is a part of the quotes in their order.
LEMMA SiftedPart ==
  ASSUME NEW qs \in Seq(Quotes), NEW f, Sifts(f, qs)
  PROVE  \A n \in 0 .. Len(qs) : Len(f[n]) <= n /\ \E h : Part(f[n], qs, h, n)
<1> DEFINE N == Len(qs)
           T == {n \in 0 .. N : Len(f[n]) <= n /\ \E h : Part(f[n], qs, h, n)}
<1>1. N \in Nat /\ \A n \in 0 .. N : f[n] \in Seq(Quotes)
  <2>1. f \in [0 .. N -> Seq(Quotes)]
    BY DEF Sifts
  <2>2. N \in Nat
    OBVIOUS
  <2> HIDE DEF N
  <2> QED BY <2>1, <2>2
<1>2. 0 \in T
  <2>1. f[0] = <<>> /\ Len(f[0]) = 0
    BY DEF Sifts
  <2>2. Part(f[0], qs, [k \in 1 .. 0 |-> 0], 0)
    BY <2>1 DEF Part
  <2> QED BY <1>1, <2>1, <2>2
<1>3. ASSUME NEW n \in 1 .. N, n - 1 \in T PROVE n \in T
  <2> DEFINE s == f[n - 1]
  <2>1. n \in Nat /\ n - 1 \in 0 .. N /\ n \in 0 .. N /\ s \in Seq(Quotes) /\ Len(s) <= n - 1
    BY <1>1, <1>3
  <2>2. PICK h : Part(s, qs, h, n - 1)
    BY <1>3
  <2>3. CASE f[n] = s
    <3>1. Part(f[n], qs, h, n)
      <4>1. h \in [1 .. Len(s) -> 1 .. n]
        BY <2>1, <2>2 DEF Part
      <4> QED BY <2>2, <2>3, <4>1 DEF Part
    <3> HIDE DEF s
    <3> QED BY <2>1, <2>3, <3>1
  <2>4. CASE f[n] = Append(s, qs[n])
    <3> DEFINE e == [k \in 1 .. Len(s) + 1 |-> IF k = Len(s) + 1 THEN n ELSE h[k]]
    <3> HIDE DEF s
    <3>1. Len(s) \in Nat /\ n \in Nat
      BY <2>1
    <3>2. /\ Len(f[n]) = Len(s) + 1
          /\ f[n][Len(s) + 1] = qs[n]
          /\ \A k \in 1 .. Len(s) : f[n][k] = s[k]
      <4>1. qs[n] \in Quotes
        BY <1>3
      <4> QED BY <2>1, <2>4, <4>1
    <3>3. \A k \in 1 .. Len(s) : h[k] \in 1 .. n - 1 /\ s[k] = qs[h[k]]
      BY <2>2 DEF Part
    <3>4. \A k \in 1 .. Len(s) : e[k] = h[k] /\ k \in 1 .. Len(s) + 1
      BY <3>1
    <3>5. e[Len(s) + 1] = n
      BY <3>1
    <3>6. e \in [1 .. Len(s) + 1 -> 1 .. n]
      BY <3>1, <3>3
    <3>7. \A i, j \in 1 .. Len(s) + 1 : i < j => e[i] < e[j]
      <4> SUFFICES ASSUME NEW i \in 1 .. Len(s) + 1, NEW j \in 1 .. Len(s) + 1, i < j PROVE e[i] < e[j]
        OBVIOUS
      <4>1. i \in 1 .. Len(s) /\ (j = Len(s) + 1 \/ j \in 1 .. Len(s))
        BY <3>1
      <4> HIDE DEF e
      <4> QED BY <2>2, <3>1, <3>3, <3>4, <3>5, <4>1 DEF Part
    <3>8. \A k \in 1 .. Len(s) + 1 : f[n][k] = qs[e[k]]
      <4> TAKE k \in 1 .. Len(s) + 1
      <4>1. k = Len(s) + 1 \/ k \in 1 .. Len(s)
        BY <3>1
      <4> HIDE DEF e
      <4> QED BY <3>2, <3>3, <3>4, <3>5, <4>1
    <3>9. Part(f[n], qs, e, n)
      <4> HIDE DEF e
      <4> QED BY <3>2, <3>6, <3>7, <3>8 DEF Part
    <3> HIDE DEF e
    <3> QED BY <2>1, <3>1, <3>2, <3>9
  <2> QED BY <1>3, <2>3, <2>4 DEF Sifts
<1>4. \A n \in 0 .. N : n \in T
  <2> HIDE DEF T
  <2> QED BY <1>1, <1>2, <1>3, LoopInduction
<1> QED BY <1>4

\* FilterQuotes goes through the quotes and leaves out those of a closed side.
LEMMA OpenSidesSifts ==
  ASSUME NEW qs \in Seq(Quotes)
  PROVE  \E f : Sifts(f, qs) /\ OpenSides(qs) = f[Len(qs)]
<1> DEFINE N == Len(qs)
           S == Seq(Quotes)
           b == <<>>
           step(n, s) == IF Closed(qs[n].side) THEN s ELSE Append(s, qs[n])
           g == [n \in 1 .. N |-> [s \in S |-> step(n, s)]]
           Runs(F) == F = [n \in 0 .. N |-> IF n = 0 THEN b ELSE step(n, F[n - 1])]
           result == CHOOSE F : Runs(F)
<1>1. N \in Nat /\ b \in S /\ \A n \in 1 .. N : qs[n] \in Quotes
  OBVIOUS
<1>2. \A n \in 1 .. N : \A s \in S : step(n, s) \in S
  BY <1>1
<1>3. OpenSides(qs) = result[N]
  BY DEF OpenSides
<1>4. \A F : \A n \in 1 .. N : step(n, F[n - 1]) \in {F[n - 1], Append(F[n - 1], qs[n])}
  OBVIOUS
<1> HIDE DEF step, S, b, N
<1>5. g \in [1 .. N -> [S -> S]] /\ \A n \in 1 .. N : \A s \in S : g[n][s] = step(n, s)
  BY <1>2
<1>6. PICK f \in [0 .. N -> S] : Course(f, N, b, g)
  <2> HIDE DEF g
  <2> QED BY <1>1, <1>5, LoopExists
<1> HIDE DEF g
<1>7. Runs(f)
  <2>1. \A n \in 0 .. N : f[n] = IF n = 0 THEN b ELSE step(n, f[n - 1])
    <3> TAKE n \in 0 .. N
    <3>1. CASE n = 0
      BY <1>6, <3>1 DEF Course
    <3>2. CASE n # 0
      <4>1. n \in 1 .. N /\ n - 1 \in 0 .. N
        BY <1>1, <3>2
      <4> QED BY <1>5, <1>6, <3>2, <4>1 DEF Course
    <3> QED BY <3>1, <3>2
  <2>2. f = [n \in 0 .. N |-> f[n]]
    BY <1>6
  <2> QED BY <2>1, <2>2
<1>8. Runs(result)
  <2> HIDE DEF Runs
  <2> QED BY <1>7
<1> HIDE DEF result
<1>9. result \in [0 .. N -> S] /\ Course(result, N, b, g)
  <2>1. result = [n \in 0 .. N |-> result[n]] /\ result[0] = b
    BY <1>1, <1>8
  <2>2. \A n \in 1 .. N : result[n] = step(n, result[n - 1])
    BY <1>1, <1>8
  <2>3. Follows(result, N, S, b, g)
    BY <1>5, <2>1, <2>2 DEF Follows
  <2> QED BY <1>1, <1>5, <2>3, LoopFollowed
<1>10. \A n \in 1 .. N : result[n] = step(n, result[n - 1])
  BY <1>1, <1>8
<1>11. Sifts(result, qs)
  BY <1>4, <1>9, <1>10 DEF Sifts, Course, S, N, b
<1> QED BY <1>3, <1>11 DEF N

\* What quotes lock is a number of units of each asset.
LEMMA UsedType ==
  ASSUME NEW qs \in Seq(Quotes)
  PROVE  Used(qs) \in [base : Int, quote : Int]
<1> DEFINE N == Len(qs)
           S == [base : Int, quote : Int]
           b == [base |-> 0, quote |-> 0]
           step(n, s) == [base |-> s.base + Need(qs[n]).base, quote |-> s.quote + Need(qs[n]).quote]
           g == [n \in 1 .. N |-> [s \in S |-> step(n, s)]]
           Runs(F) == F = [n \in 0 .. N |-> IF n = 0 THEN b ELSE step(n, F[n - 1])]
           sum == CHOOSE F : Runs(F)
<1>1. N \in Nat /\ b \in S /\ N \in 0 .. N
  OBVIOUS
<1>2. \A n \in 1 .. N : \A s \in S : step(n, s) \in S
  <2> TAKE n \in 1 .. N
  <2>1. qs[n] \in Quotes
    OBVIOUS
  <2>2. qs[n].price \in Int /\ qs[n].qty \in Int
    BY <2>1 DEF Quotes
  <2>3. qs[n].price * qs[n].qty \in Int
    BY <2>2
  <2>4. Need(qs[n]).base \in Int /\ Need(qs[n]).quote \in Int
    BY <2>2, <2>3 DEF Need
  <2> QED BY <2>4
<1>3. Used(qs) = sum[N]
  BY DEF Used
<1> HIDE DEF step, S, b, N
<1>5. g \in [1 .. N -> [S -> S]] /\ \A n \in 1 .. N : \A s \in S : g[n][s] = step(n, s)
  BY <1>2
<1>6. PICK f \in [0 .. N -> S] : Course(f, N, b, g)
  <2> HIDE DEF g
  <2> QED BY <1>1, <1>5, LoopExists
<1> HIDE DEF g
<1>7. Runs(f)
  <2>1. \A n \in 0 .. N : f[n] = IF n = 0 THEN b ELSE step(n, f[n - 1])
    <3> TAKE n \in 0 .. N
    <3>1. CASE n = 0
      BY <1>6, <3>1 DEF Course
    <3>2. CASE n # 0
      <4>1. n \in 1 .. N /\ n - 1 \in 0 .. N
        BY <1>1, <3>2
      <4> QED BY <1>5, <1>6, <3>2, <4>1 DEF Course
    <3> QED BY <3>1, <3>2
  <2>2. f = [n \in 0 .. N |-> f[n]]
    BY <1>6
  <2> QED BY <2>1, <2>2
<1>8. Runs(sum)
  <2> HIDE DEF Runs
  <2> QED BY <1>7
<1> HIDE DEF sum
<1>9. sum \in [0 .. N -> S]
  <2>1. sum = [n \in 0 .. N |-> sum[n]] /\ sum[0] = b
    BY <1>1, <1>8
  <2>2. \A n \in 1 .. N : sum[n] = step(n, sum[n - 1])
    BY <1>1, <1>8
  <2>3. Follows(sum, N, S, b, g)
    BY <1>5, <2>1, <2>2 DEF Follows
  <2> QED BY <1>1, <1>5, <2>3, LoopFollowed
<1> QED BY <1>1, <1>3, <1>9 DEF S

\* ApplyBalanceBudget goes through the quotes and leaves out those that do not fit.
LEMMA EligibleSifts ==
  ASSUME NEW qs \in Seq(Quotes), NEW c
  PROVE  \E f : Sifts(f, qs) /\ Eligible(qs, c) = f[Len(qs)]
<1> DEFINE N == Len(qs)
           S == Seq(Quotes)
           b == <<>>
           step(n, s) == LET more == Append(s, qs[n]) IN IF Fits(Used(more), Budget(c)) THEN more ELSE s
           g == [n \in 1 .. N |-> [s \in S |-> step(n, s)]]
           Runs(F) == F = [n \in 0 .. N |-> IF n = 0 THEN b ELSE step(n, F[n - 1])]
           eligible == CHOOSE F : Runs(F)
<1>1. N \in Nat /\ b \in S /\ \A n \in 1 .. N : qs[n] \in Quotes
  OBVIOUS
<1>2. \A n \in 1 .. N : \A s \in S : step(n, s) \in S
  BY <1>1
<1>3. Eligible(qs, c) = eligible[N]
  BY DEF Eligible
<1>4. \A F : \A n \in 1 .. N : step(n, F[n - 1]) \in {F[n - 1], Append(F[n - 1], qs[n])}
  OBVIOUS
<1> HIDE DEF step, S, b, N
<1>5. g \in [1 .. N -> [S -> S]] /\ \A n \in 1 .. N : \A s \in S : g[n][s] = step(n, s)
  BY <1>2
<1>6. PICK f \in [0 .. N -> S] : Course(f, N, b, g)
  <2> HIDE DEF g
  <2> QED BY <1>1, <1>5, LoopExists
<1> HIDE DEF g
<1>7. Runs(f)
  <2>1. \A n \in 0 .. N : f[n] = IF n = 0 THEN b ELSE step(n, f[n - 1])
    <3> TAKE n \in 0 .. N
    <3>1. CASE n = 0
      BY <1>6, <3>1 DEF Course
    <3>2. CASE n # 0
      <4>1. n \in 1 .. N /\ n - 1 \in 0 .. N
        BY <1>1, <3>2
      <4> QED BY <1>5, <1>6, <3>2, <4>1 DEF Course
    <3> QED BY <3>1, <3>2
  <2>2. f = [n \in 0 .. N |-> f[n]]
    BY <1>6
  <2> QED BY <2>1, <2>2
<1>8. Runs(eligible)
  <2> HIDE DEF Runs
  <2> QED BY <1>7
<1> HIDE DEF eligible
<1>9. eligible \in [0 .. N -> S] /\ Course(eligible, N, b, g)
  <2>1. eligible = [n \in 0 .. N |-> eligible[n]] /\ eligible[0] = b
    BY <1>1, <1>8
  <2>2. \A n \in 1 .. N : eligible[n] = step(n, eligible[n - 1])
    BY <1>1, <1>8
  <2>3. Follows(eligible, N, S, b, g)
    BY <1>5, <2>1, <2>2 DEF Follows
  <2> QED BY <1>1, <1>5, <2>3, LoopFollowed
<1>10. \A n \in 1 .. N : eligible[n] = step(n, eligible[n - 1])
  BY <1>1, <1>8
<1>11. Sifts(eligible, qs)
  BY <1>4, <1>9, <1>10 DEF Sifts, Course, S, N, b
<1> QED BY <1>3, <1>11 DEF N

-----------------------------------------------------------------------------
(* Rounding.                                                               *)

\* The multiples of d are the numbers without a remainder.
LEMMA Multiples ==
  ASSUME NEW d \in Nat \ {0}
  PROVE  /\ \A k \in Int : (k * d) % d = 0 /\ k * d \in Int
         /\ \A x \in Int : x % d = 0 => \E k \in Int : x = k * d
<1>1. ASSUME NEW k \in Int PROVE (k * d) % d = 0 /\ k * d \in Int
  <2>1. PICK x \in Int : x = k * d
    OBVIOUS
  <2>2. x \div d = k
    BY <2>1, QuotientUnique
  <2>3. x = d * (x \div d) + (x % d) /\ x % d \in Int
    OBVIOUS
  <2>4. d * k = k * d
    OBVIOUS
  <2> QED BY <2>1, <2>2, <2>3, <2>4
<1>2. ASSUME NEW x \in Int, x % d = 0 PROVE \E k \in Int : x = k * d
  <2>1. PICK k \in Int : k = x \div d /\ x = d * k + (x % d)
    OBVIOUS
  <2>2. d * k = k * d /\ d * k \in Int
    OBVIOUS
  <2>3. x = k * d
    BY <1>2, <2>1, <2>2
  <2> QED BY <2>3
<1> QED BY <1>1, <1>2

\* Sums and differences of multiples are multiples.
LEMMA GridSum ==
  ASSUME NEW d \in Nat \ {0}, NEW x \in Int, NEW y \in Int, x % d = 0, y % d = 0
  PROVE  (x + y) % d = 0 /\ (x - y) % d = 0
<1>1. PICK k \in Int, m \in Int : x = k * d /\ y = m * d
  BY Multiples
<1>2. (k + m) * d = k * d + m * d /\ (k - m) * d = k * d - m * d /\ k + m \in Int /\ k - m \in Int
  OBVIOUS
<1>3. ((k + m) * d) % d = 0 /\ ((k - m) * d) % d = 0
  BY <1>2, Multiples
<1> QED BY <1>1, <1>2, <1>3

\* QuantizeDown and QuantizeUp yield multiples of the step, not above or below the number.
LEMMA Rounded ==
  ASSUME NEW n \in Int, NEW d \in Nat \ {0}, NEW step \in Nat \ {0}
  PROVE  /\ Down(n, d, step) \in Int /\ Down(n, d, step) % step = 0
         /\ Up(n, d, step) \in Int /\ Up(n, d, step) % step = 0
<1>1. d * step \in Nat \ {0}
  OBVIOUS
<1>2. PICK q \in Int : q = n \div (d * step)
  BY <1>1, Quotient
<1>3. PICK p \in Int : p = (-n) \div (d * step)
  <2>1. -n \in Int
    OBVIOUS
  <2> QED BY <1>1, <2>1, Quotient
<1>4. -p \in Int
  OBVIOUS
<1>5. q * step \in Int /\ (q * step) % step = 0 /\ (-p) * step \in Int /\ ((-p) * step) % step = 0
  BY <1>4, Multiples
<1>6. Down(n, d, step) = q * step
  BY <1>2 DEF Down
<1>7. Up(n, d, step) = (-p) * step
  BY <1>3 DEF Up
<1> QED BY <1>5, <1>6, <1>7

\* Of a whole number they are a multiple below and above it.
LEMMA RoundedWhole ==
  ASSUME NEW n \in Int, NEW step \in Nat \ {0}
  PROVE  /\ Down(n, 1, step) \in Int /\ Down(n, 1, step) % step = 0 /\ Down(n, 1, step) <= n
         /\ Up(n, 1, step) \in Int /\ Up(n, 1, step) % step = 0 /\ n <= Up(n, 1, step)
<1>1. 1 * step = step /\ -n \in Int
  OBVIOUS
<1>2. PICK q \in Int : q = n \div step /\ q * step <= n
  BY Quotient
<1>3. PICK p \in Int : p = (-n) \div step /\ p * step <= -n
  BY <1>1, Quotient
<1>4. Down(n, 1, step) = q * step /\ Up(n, 1, step) = -(p * step) /\ p * step \in Int
  BY <1>1, <1>2, <1>3 DEF Down, Up
<1>5. Down(n, 1, step) <= n /\ n <= Up(n, 1, step)
  BY <1>2, <1>3, <1>4
<1>6. 1 \in Nat \ {0}
  OBVIOUS
<1> QED BY <1>5, <1>6, Rounded

-----------------------------------------------------------------------------
(* Prices and quantities of a level.                                       *)

\* The constants are numbers of the kind the code's validation leaves.
LEMMA Numbers ==
  /\ Bps \in Nat \ {0} /\ Market.tick \in Nat \ {0} /\ Market.step \in Nat \ {0}
  /\ Strategy.levels \in Nat \ {0} /\ Strategy.halfSpread \in Nat /\ Strategy.spacing \in Nat
  /\ Strategy.maxBase \in Nat /\ Strategy.targetBase \in Nat /\ Strategy.skew \in Nat
  /\ Strategy.reprice \in Nat
  /\ Strategy.minNotional \in Nat \ {0} /\ Strategy.maxNotional \in Nat \ {0}
  /\ Market.minNotional \in Nat \ {0} /\ Market.maxNotional \in Int
  /\ Market.minQty \in Int /\ Market.maxQty \in Int /\ Market.maxOpen \in Int
  BY StrategyAssumption, MarketAssumption DEF ValidStrategy, ValidMarket

\* Prices before the clamps are whole numbers of ticks.
LEMMA RawPrices ==
  ASSUME TypeOK, NEW level \in Nat
  PROVE  /\ RawBid(level) \in Int /\ RawBid(level) % Market.tick = 0
         /\ RawAsk(level) \in Int /\ RawAsk(level) % Market.tick = 0
<1>1. ref \in Int /\ inventory \in Int
  BY InputsAssumption DEF TypeOK
<1>2. Deviation \in Int
  <2>1. inventory - Strategy.targetBase \in Int /\ -Strategy.maxBase \in Int /\ Strategy.maxBase \in Int
    BY <1>1, Numbers
  <2>2. PICK m \in Int : m = Min({Strategy.maxBase, inventory - Strategy.targetBase})
    BY <2>1, MaxMinOfTwo
  <2> QED BY <2>1, <2>2, MaxMinOfTwo DEF Deviation
<1>3. MidN \in Int
  <2>1. Strategy.maxBase * Bps \in Int /\ Deviation * Strategy.skew \in Int
    BY <1>2, Numbers
  <2>2. Strategy.maxBase * Bps - Deviation * Strategy.skew \in Int
    BY <2>1
  <2>3. ref * (Strategy.maxBase * Bps - Deviation * Strategy.skew) \in Int
    BY <1>1, <2>2
  <2> QED BY <1>1, <2>3 DEF MidN
<1>4. MidD * Bps \in Nat \ {0}
  <2>1. Strategy.maxBase > 0 => Strategy.maxBase * Bps \in Nat \ {0}
    BY Numbers
  <2>2. MidD \in Nat \ {0}
    BY <2>1 DEF MidD
  <2> QED BY <2>2, Numbers
<1>5. Spread(level) \in Int
  <2>1. level * Strategy.spacing \in Int
    BY Numbers
  <2> QED BY <2>1, Numbers DEF Spread
<1>6. MidN * (Bps - Spread(level)) \in Int /\ MidN * (Bps + Spread(level)) \in Int
  BY <1>3, <1>5, Numbers
<1> QED BY <1>4, <1>6, Numbers, Rounded DEF RawBid, RawAsk

\* The prices of a level: on the grid, behind the venue's book and behind the level before.
LEMMA LevelPrices ==
  ASSUME TypeOK, NEW level \in Nat, NEW jb \in Int, NEW ja \in Int,
         level > 0 => /\ PreviousBid \in Int /\ PreviousBid % Market.tick = 0
                      /\ PreviousAsk \in Int /\ PreviousAsk % Market.tick = 0
                      /\ book.ask > 0 => PreviousBid < book.ask
                      /\ book.bid > 0 => PreviousAsk > book.bid
  PROVE  LET bid == BehindBid(level, BelowAsk(RawBid(level) + jb * Market.tick))
             ask == BehindAsk(level, AboveBid(RawAsk(level) + ja * Market.tick))
         IN  /\ bid \in Int /\ bid % Market.tick = 0
             /\ ask \in Int /\ ask % Market.tick = 0
             /\ book.ask > 0 => bid < book.ask
             /\ book.bid > 0 => ask > book.bid
             /\ level > 0 => bid < PreviousBid /\ PreviousAsk < ask
<1> DEFINE t == Market.tick
           b0 == RawBid(level) + jb * Market.tick
           a0 == RawAsk(level) + ja * Market.tick
           b1 == BelowAsk(b0)
           a1 == AboveBid(a0)
<1>1. t \in Nat \ {0} /\ book.bid \in Nat /\ book.ask \in Nat
  BY Numbers, InputsAssumption DEF TypeOK
<1>2. b0 \in Int /\ b0 % t = 0 /\ a0 \in Int /\ a0 % t = 0
  <2>1. /\ jb * t \in Int /\ (jb * t) % t = 0
        /\ ja * t \in Int /\ (ja * t) % t = 0
    BY <1>1, Multiples
  <2>2. PICK x \in Int, y \in Int, p \in Int, q \in Int :
          x = RawBid(level) /\ y = RawAsk(level) /\ p = jb * t /\ q = ja * t
    BY <2>1, RawPrices
  <2>3. x % t = 0 /\ y % t = 0 /\ p % t = 0 /\ q % t = 0
    BY <2>1, <2>2, RawPrices
  <2>4. (x + p) % t = 0 /\ (y + q) % t = 0 /\ x + p \in Int /\ y + q \in Int
    BY <1>1, <2>3, GridSum
  <2> QED BY <2>2, <2>4
<1> HIDE DEF b0, a0
<1>3. b1 \in Int /\ b1 % t = 0 /\ (book.ask > 0 => b1 < book.ask)
  <2>1. PICK n \in Int : n = book.ask - t
    BY <1>1
  <2>2. Down(n, 1, t) \in Int /\ Down(n, 1, t) % t = 0 /\ Down(n, 1, t) <= n
    BY <1>1, RoundedWhole
  <2>3. b1 = IF book.ask > 0 /\ b0 > n THEN Down(n, 1, t) ELSE b0
    BY <2>1 DEF BelowAsk
  <2> HIDE DEF b1
  <2> QED BY <1>1, <1>2, <2>1, <2>2, <2>3
<1>4. a1 \in Int /\ a1 % t = 0 /\ (book.bid > 0 => a1 > book.bid)
  <2>1. PICK n \in Int : n = book.bid + t
    BY <1>1
  <2>2. Up(n, 1, t) \in Int /\ Up(n, 1, t) % t = 0 /\ n <= Up(n, 1, t)
    BY <1>1, RoundedWhole
  <2>3. a1 = IF book.bid > 0 /\ a0 < n THEN Up(n, 1, t) ELSE a0
    BY <2>1 DEF AboveBid
  <2> HIDE DEF a1
  <2> QED BY <1>1, <1>2, <2>1, <2>2, <2>3
<1> DEFINE b2 == BehindBid(level, b1)
           a2 == BehindAsk(level, a1)
<1> HIDE DEF b1, a1
<1>6. /\ b2 \in Int /\ b2 % t = 0 /\ (book.ask > 0 => b2 < book.ask)
      /\ level > 0 => b2 < PreviousBid
  <2>1. CASE level > 0 /\ b1 >= PreviousBid
    <3>1. PICK n \in Int : n = PreviousBid - t
      BY <1>1, <2>1
    <3>2. Down(n, 1, t) \in Int /\ Down(n, 1, t) % t = 0 /\ Down(n, 1, t) <= n
      BY <1>1, RoundedWhole
    <3>3. b2 = Down(n, 1, t)
      BY <2>1, <3>1 DEF BehindBid
    <3> HIDE DEF b2
    <3> QED BY <1>1, <2>1, <3>1, <3>2, <3>3
  <2>2. CASE ~(level > 0 /\ b1 >= PreviousBid)
    <3>1. b2 = b1
      BY <2>2 DEF BehindBid
    <3> HIDE DEF b2
    <3> QED BY <1>3, <2>2, <3>1
  <2> QED BY <2>1, <2>2
<1>7. /\ a2 \in Int /\ a2 % t = 0 /\ (book.bid > 0 => a2 > book.bid)
      /\ level > 0 => PreviousAsk < a2
  <2>1. CASE level > 0 /\ a1 <= PreviousAsk
    <3>1. PICK n \in Int : n = PreviousAsk + t
      BY <1>1, <2>1
    <3>2. Up(n, 1, t) \in Int /\ Up(n, 1, t) % t = 0 /\ n <= Up(n, 1, t)
      BY <1>1, RoundedWhole
    <3>3. a2 = Up(n, 1, t)
      BY <2>1, <3>1 DEF BehindAsk
    <3> HIDE DEF a2
    <3> QED BY <1>1, <2>1, <3>1, <3>2, <3>3
  <2>2. CASE ~(level > 0 /\ a1 <= PreviousAsk)
    <3>1. a2 = a1
      BY <2>2 DEF BehindAsk
    <3> HIDE DEF a2
    <3> QED BY <1>4, <2>2, <3>1
  <2> QED BY <2>1, <2>2
<1> QED BY <1>6, <1>7 DEF b0, a0, b1, a1

\* A quantity of quoteQuantity is one the risk filter accepts.
LEMMA QuantityFits ==
  ASSUME NEW price \in Nat \ {0}, NEW q \in Quantities(price)
  PROVE  /\ q \in Nat \ {0} /\ q % Market.step = 0
         /\ \A side : ~OutOfSize([side |-> side, price |-> price, qty |-> q])
<1> DEFINE st == Market.step
<1>0. st \in Nat \ {0}
  BY Numbers
<1>1. /\ MinNotional \in Nat \ {0} /\ Market.minNotional <= MinNotional
      /\ MaxNotional \in Int /\ (Market.maxNotional > 0 => MaxNotional <= Market.maxNotional)
  <2>1. MinNotional = IF Strategy.minNotional >= Market.minNotional THEN Strategy.minNotional ELSE Market.minNotional
    BY Numbers, MaxMinOfTwo DEF MinNotional
  <2>2. Min({Strategy.maxNotional, Market.maxNotional})
        = IF Strategy.maxNotional <= Market.maxNotional THEN Strategy.maxNotional ELSE Market.maxNotional
    <3>1. PICK x \in Int, y \in Int : x = Strategy.maxNotional /\ y = Market.maxNotional
      BY Numbers
    <3>2. Min({x, y}) = IF x <= y THEN x ELSE y
      BY MaxMinOfTwo
    <3> QED BY <3>1, <3>2
  <2> QED BY <2>1, <2>2, Numbers DEF MaxNotional
<1>2. /\ MinQty(price) \in Int /\ MinQty(price) % st = 0 /\ Market.minQty <= MinQty(price)
  <2>1. PICK x \in Int : x = Up(MinNotional, price, st) /\ x % st = 0
    <3>1. MinNotional \in Int
      BY <1>1
    <3> QED BY <1>0, <3>1, Rounded
  <2>2. PICK y \in Int : y = Up(Market.minQty, 1, st) /\ y % st = 0 /\ Market.minQty <= y
    BY <1>0, Numbers, RoundedWhole
  <2>3. MinQty(price) = IF x >= y THEN x ELSE y
    BY <2>1, <2>2, MaxMinOfTwo DEF MinQty
  <2> QED BY <2>1, <2>2, <2>3, Numbers
<1>3. /\ MaxQty(price) \in Int /\ MaxQty(price) % st = 0
      /\ Market.maxQty > 0 => MaxQty(price) <= Market.maxQty
  <2>1. PICK x \in Int : x = Down(MaxNotional, price, st) /\ x % st = 0
    BY <1>0, <1>1, Rounded
  <2>2. PICK y \in Int : y = Down(Market.maxQty, 1, st) /\ y % st = 0 /\ y <= Market.maxQty
    BY <1>0, Numbers, RoundedWhole
  <2>3. MaxQty(price) = IF Market.maxQty > 0 THEN (IF x <= y THEN x ELSE y) ELSE x
    BY <2>1, <2>2, MaxMinOfTwo DEF MaxQty
  <2> QED BY <2>1, <2>2, <2>3, Numbers
<1>4. Anchor(price) \in Nat \ {0}
  <2> DEFINE width == Max({Market.tick, Up(price * Strategy.reprice, Bps, Market.tick)})
             anchor == Down(price, 1, width)
  <2>1. price * Strategy.reprice \in Int
    BY Numbers
  <2>2. PICK u \in Int : u = Up(price * Strategy.reprice, Bps, Market.tick)
    BY <2>1, Numbers, Rounded
  <2>3. width \in Nat \ {0}
    BY <2>2, Numbers, MaxMinOfTwo
  <2> HIDE DEF width
  <2>4. anchor \in Int
    BY <2>3, RoundedWhole
  <2>5. Anchor(price) = IF Strategy.reprice <= 0 \/ anchor <= 0 THEN price ELSE anchor
    BY DEF Anchor, width
  <2> HIDE DEF anchor
  <2> QED BY <2>4, <2>5
<1>5. PICK target \in MinNotional .. MaxNotional :
        q = Max({MinQty(price), Min({MaxQty(price), Down(target, Anchor(price), Market.step)})})
  BY DEF Quantities
<1>6. MinQty(price) <= MaxQty(price) /\ price * q \in MinNotional .. MaxNotional
  BY <1>2, <1>3 DEF Quantities
<1>7. PICK d \in Int : d = Down(target, Anchor(price), Market.step) /\ d % st = 0
  <2>1. target \in Int
    OBVIOUS
  <2> QED BY <1>0, <1>4, <2>1, Rounded
<1>8. PICK m \in Int : m = Min({MaxQty(price), d}) /\ m % st = 0 /\ m <= MaxQty(price)
  <2>1. Min({MaxQty(price), d}) = IF MaxQty(price) <= d THEN MaxQty(price) ELSE d
    BY <1>3, MaxMinOfTwo
  <2> QED BY <1>3, <1>7, <2>1
<1>9. /\ q \in Int /\ q % st = 0 /\ MinQty(price) <= q /\ q <= MaxQty(price)
  <2>1. q = IF MinQty(price) >= m THEN MinQty(price) ELSE m
    BY <1>2, <1>5, <1>7, <1>8, MaxMinOfTwo
  <2> QED BY <1>2, <1>3, <1>6, <1>8, <2>1
<1>10. /\ price * q >= MinNotional /\ price * q <= MaxNotional /\ price * q \in Int
  BY <1>1, <1>6
<1>11. q \in Nat \ {0}
  <2>1. ASSUME q <= 0 PROVE price * q <= 0
    BY <1>9, <2>1
  <2> QED BY <1>1, <1>9, <1>10, <2>1
<1>12. /\ Market.minQty <= q /\ (Market.maxQty > 0 => q <= Market.maxQty)
       /\ Market.minNotional <= price * q /\ (Market.maxNotional > 0 => price * q <= Market.maxNotional)
  BY <1>1, <1>2, <1>3, <1>9, <1>10, Numbers
<1>13. \A side : ~OutOfSize([side |-> side, price |-> price, qty |-> q])
  BY <1>10, <1>11, <1>12, Numbers DEF OutOfSize
<1> QED BY <1>9, <1>11, <1>13

-----------------------------------------------------------------------------
(* The inductive invariant.                                                *)

\* A list of quotes is a post-only ladder.
Ladder(qs) ==
  /\ \A k \in DOMAIN qs : ~Takes(qs[k])
  /\ \A i, j \in DOMAIN qs : qs[i].side = "buy" /\ qs[j].side = "sell" => qs[i].price < qs[j].price
  /\ \A i, j \in DOMAIN qs :
       i < j /\ qs[i].side = qs[j].side =>
         IF qs[i].side = "buy" THEN qs[i].price > qs[j].price ELSE qs[i].price < qs[j].price

\* The levels so far, the last one's bid and ask at the end.
Levelled(qs) ==
  /\ \E l \in 0 .. Strategy.levels - 1 : Len(qs) = 2 * l
  /\ Len(qs) > 0 => qs[Len(qs) - 1].side = "buy" /\ qs[Len(qs)].side = "sell"

LadderInv ==
  /\ TypeOK
  /\ Ladder(quotes) /\ Ladder(offered)
  /\ phase = "observe" => quotes = <<>> /\ offered = <<>>
  /\ phase = "level" => Levelled(quotes)
  /\ phase \in {"level", "filter"} => \A k \in DOMAIN quotes : ~OutOfSize(quotes[k])
  /\ phase = "done" => fund \in Funds /\ quotes = Eligible(offered, fund)
  /\ RiskAgrees

\* A part of a ladder is a ladder.
LEMMA PartLadder ==
  ASSUME NEW qs \in Seq(Quotes), NEW s \in Seq(Quotes), NEW h, NEW n \in 0 .. Len(qs),
         Part(s, qs, h, n), Ladder(qs)
  PROVE  Ladder(s)
<1>1. DOMAIN s = 1 .. Len(s) /\ DOMAIN qs = 1 .. Len(qs) /\ Len(qs) \in Nat
  OBVIOUS
<1>2. \A k \in DOMAIN s : h[k] \in DOMAIN qs /\ s[k] = qs[h[k]]
  BY <1>1 DEF Part
<1>3. \A i, j \in DOMAIN s : i < j => h[i] < h[j]
  BY <1>1 DEF Part
<1>4. \A k \in DOMAIN s : ~Takes(s[k])
  BY <1>2 DEF Ladder
<1>5. \A i, j \in DOMAIN s : s[i].side = "buy" /\ s[j].side = "sell" => s[i].price < s[j].price
  BY <1>2 DEF Ladder
<1>6. ASSUME NEW i \in DOMAIN s, NEW j \in DOMAIN s, i < j, s[i].side = s[j].side
      PROVE  IF s[i].side = "buy" THEN s[i].price > s[j].price ELSE s[i].price < s[j].price
  BY <1>2, <1>3, <1>6 DEF Ladder
<1> QED BY <1>4, <1>5, <1>6 DEF Ladder

\* A level behind the one before, that does not cross itself or the venue, makes the ladder longer.
LEMMA LadderExtended ==
  ASSUME NEW qs \in Seq(Quotes), NEW b \in Quotes, NEW a \in Quotes,
         b.side = "buy", a.side = "sell", b.price < a.price, ~Takes(b), ~Takes(a),
         Ladder(qs), Levelled(qs),
         Len(qs) > 0 => b.price < qs[Len(qs) - 1].price /\ qs[Len(qs)].price < a.price
  PROVE  Ladder(qs \o <<b, a>>)
<1> DEFINE n == Len(qs)
           rs == qs \o <<b, a>>
           D == DOMAIN qs
<1>1. n \in Nat /\ D = 1 .. n /\ \A k \in D : qs[k] \in Quotes
  OBVIOUS
<1>2. \A q \in Quotes : q.price \in Nat /\ q.side \in {"buy", "sell"}
  BY DEF Quotes
<1>3. /\ DOMAIN rs = 1 .. n + 2 /\ rs[n + 1] = b /\ rs[n + 2] = a /\ \A k \in D : rs[k] = qs[k]
  OBVIOUS
<1>4. n > 0 => n - 1 \in D /\ n \in D /\ qs[n - 1].side = "buy" /\ qs[n].side = "sell"
  BY <1>1 DEF Levelled
<1>5. ASSUME NEW k \in D, qs[k].side = "buy" PROVE b.price < qs[k].price /\ qs[k].price < a.price
  <2>1. n > 0 /\ k <= n
    BY <1>1, <1>5
  <2>2. qs[n - 1].price <= qs[k].price
    <3>1. k = n - 1 \/ k < n - 1
      BY <1>1, <1>4, <1>5, <2>1
    <3> QED BY <1>1, <1>2, <1>4, <1>5, <2>1, <3>1 DEF Ladder
  <2>3. qs[k].price < qs[n].price
    BY <1>4, <1>5, <2>1 DEF Ladder
  <2>4. qs[k].price \in Nat /\ qs[n - 1].price \in Nat /\ qs[n].price \in Nat /\ a.price \in Nat /\ b.price \in Nat
    BY <1>1, <1>2, <1>4, <2>1
  <2> QED BY <2>1, <2>2, <2>3, <2>4
<1>6. ASSUME NEW k \in D, qs[k].side = "sell" PROVE qs[k].price < a.price /\ b.price < qs[k].price
  <2>1. n > 0 /\ k <= n
    BY <1>1, <1>6
  <2>2. qs[k].price <= qs[n].price
    <3>1. k = n \/ k < n
      BY <1>1, <2>1
    <3> QED BY <1>1, <1>2, <1>4, <1>6, <2>1, <3>1 DEF Ladder
  <2>3. qs[n - 1].price < qs[k].price
    BY <1>4, <1>6, <2>1 DEF Ladder
  <2>4. qs[k].price \in Nat /\ qs[n - 1].price \in Nat /\ qs[n].price \in Nat /\ a.price \in Nat /\ b.price \in Nat
    BY <1>1, <1>2, <1>4, <2>1
  <2> QED BY <2>1, <2>2, <2>3, <2>4
<1>7. \A k \in DOMAIN rs : k \in D \/ k = n + 1 \/ k = n + 2
  BY <1>1, <1>3
<1> HIDE DEF rs
<1>8. \A k \in DOMAIN rs : ~Takes(rs[k])
  BY <1>3, <1>7 DEF Ladder
<1>9. \A i, j \in DOMAIN rs : rs[i].side = "buy" /\ rs[j].side = "sell" => rs[i].price < rs[j].price
  BY <1>3, <1>5, <1>6, <1>7 DEF Ladder
<1>10. ASSUME NEW i \in DOMAIN rs, NEW j \in DOMAIN rs, i < j, rs[i].side = rs[j].side
       PROVE  IF rs[i].side = "buy" THEN rs[i].price > rs[j].price ELSE rs[i].price < rs[j].price
  <2>1. CASE j \in D
    <3>1. i \in D
      BY <1>1, <1>3, <1>10, <2>1
    <3> QED BY <1>3, <1>10, <2>1, <3>1 DEF Ladder
  <2>2. CASE j = n + 1
    <3>1. i \in D
      BY <1>1, <1>3, <1>7, <1>10, <2>2
    <3>2. rs[j] = b /\ rs[i] = qs[i] /\ qs[i].price \in Nat /\ b.price \in Nat
      BY <1>1, <1>2, <1>3, <2>2, <3>1
    <3> QED BY <1>5, <1>10, <3>1, <3>2
  <2>3. CASE j = n + 2
    <3>1. i \in D \/ i = n + 1
      BY <1>1, <1>3, <1>7, <1>10, <2>3
    <3>2. i \in D
      BY <1>3, <1>10, <2>3, <3>1
    <3> QED BY <1>3, <1>6, <1>10, <2>3, <3>2
  <2> QED BY <1>7, <2>1, <2>2, <2>3
<1>11. Ladder(rs)
  BY <1>8, <1>9, <1>10 DEF Ladder
<1> QED BY <1>11 DEF rs

-----------------------------------------------------------------------------
(* The steps keep the invariant.                                           *)

\* The empty list is a ladder.
LEMMA EmptyLadder == Ladder(<<>>) /\ <<>> \in Seq(Quotes) /\ Len(<<>>) = 0
  BY DEF Ladder

\* Nothing is quoted at first.
LEMMA InitLadder == Init => LadderInv
<1> SUFFICES ASSUME Init PROVE LadderInv
  OBVIOUS
<1>1. phase = "observe" /\ why = "" /\ quotes = <<>> /\ offered = <<>> /\ fund = NoFund
  BY DEF Init
<1>2. 0 <= 2 * Strategy.levels
  BY Numbers
<1>3. ref \in Refs /\ book \in Books /\ inventory \in Inventories /\ window \in Windows
  BY DEF Init
<1>4. TypeOK
  BY <1>1, <1>2, <1>3, EmptyLadder DEF TypeOK
<1>5. Ladder(quotes) /\ Ladder(offered)
  BY <1>1, EmptyLadder
<1> QED BY <1>1, <1>4, <1>5 DEF LadderInv, RiskAgrees

\* Another book finds no quotes yet.
LEMMA ObserveKeeps == LadderInv /\ Observe => LadderInv'
<1> SUFFICES ASSUME LadderInv, Observe PROVE LadderInv'
  OBVIOUS
<1>1. quotes = <<>> /\ offered = <<>> /\ quotes' = <<>> /\ offered' = <<>> /\ fund' = fund
  BY DEF LadderInv, Observe
<1>2. Ladder(quotes)' /\ Ladder(offered)'
  BY <1>1 DEF Ladder
<1>3. /\ phase' \in {"level", "failed"} /\ why' \in {"", "market reference"}
      /\ ref' \in Refs /\ book' \in Books /\ inventory' \in Inventories /\ window' \in Windows
  BY DEF Observe, Fail
<1>4. TypeOK'
  BY <1>1, <1>3, EmptyLadder, Numbers DEF LadderInv, TypeOK
<1>5. Levelled(quotes)'
  <2>1. 0 \in 0 .. Strategy.levels - 1 /\ Len(<<>>) = 2 * 0
    BY Numbers
  <2> QED BY <1>1, <2>1 DEF Levelled
<1>6. \A k \in DOMAIN quotes' : ~OutOfSize(quotes'[k])
  BY <1>1
<1>7. phase' # "observe" /\ phase' # "done" /\ RiskAgrees'
  BY <1>3 DEF RiskAgrees
<1> QED BY <1>2, <1>4, <1>5, <1>6, <1>7 DEF LadderInv, OutOfSize

\* A step that leaves inputs and offer alone, and the quotes too, keeps their ladder.
LEMMA FailureKeeps ==
  ASSUME LadderInv, UNCHANGED <<inputs, quotes, offered, fund>>,
         phase' \in {"failed", "panic"}, why' \notin {"takes", "out of size", "self-cross"}
  PROVE  LadderInv'
<1>1. TypeOK'
  BY DEF LadderInv, TypeOK, inputs
<1>2. Ladder(quotes)' /\ Ladder(offered)'
  BY DEF LadderInv, inputs, Ladder, Takes
<1> QED BY <1>1, <1>2 DEF LadderInv, RiskAgrees

\* What a list is, and what it is with two more.
LEMMA TwoMore ==
  ASSUME NEW S, NEW s \in Seq(S), NEW b \in S, NEW a \in S
  PROVE  /\ Len(s) \in Nat /\ DOMAIN s = 1 .. Len(s) /\ \A k \in 1 .. Len(s) : s[k] \in S
         /\ s \o <<b, a>> \in Seq(S) /\ Len(s \o <<b, a>>) = Len(s) + 2
         /\ (s \o <<b, a>>)[Len(s) + 1] = b /\ (s \o <<b, a>>)[Len(s) + 2] = a
         /\ \A k \in 1 .. Len(s) : (s \o <<b, a>>)[k] = s[k]
  OBVIOUS

\* A round of GenerateAt makes the ladder longer by a level, or fails.
LEMMA LevelKeeps == LadderInv /\ Level => LadderInv'
<1> SUFFICES ASSUME LadderInv, Level PROVE LadderInv'
  OBVIOUS
<1> DEFINE level == Len(quotes) \div 2
           n == Len(quotes)
<1>1. /\ phase = "level" /\ TypeOK /\ Levelled(quotes) /\ Ladder(quotes) /\ Ladder(offered)
      /\ quotes \in Seq(Quotes) /\ n \in Nat /\ why \notin {"takes", "out of size", "self-cross"}
      /\ \A k \in DOMAIN quotes : ~OutOfSize(quotes[k])
  <2>1. phase = "level"
    BY DEF Level
  <2>2. TypeOK /\ Levelled(quotes) /\ Ladder(quotes) /\ Ladder(offered) /\ RiskAgrees
    BY <2>1 DEF LadderInv
  <2>3. \A k \in DOMAIN quotes : ~OutOfSize(quotes[k])
    BY <2>1 DEF LadderInv
  <2>4. quotes \in Seq(Quotes)
    BY <2>2 DEF TypeOK
  <2>5. n \in Nat
    BY <2>4
  <2> QED BY <2>1, <2>2, <2>3, <2>4, <2>5 DEF RiskAgrees
<1>0. quotes \in Seq(Quotes) /\ n \in Nat /\ DOMAIN quotes = 1 .. n /\ \A k \in 1 .. n : quotes[k] \in Quotes
  <2>1. quotes \in Seq(Quotes)
    BY DEF LadderInv, TypeOK
  <2> QED BY <2>1
<1>2. PICK l \in 0 .. Strategy.levels - 1 : n = 2 * l
  BY <1>1 DEF Levelled
<1>3. level = l /\ l \in Nat /\ l + 1 <= Strategy.levels
  <2>1. l \in Nat /\ l + 1 <= Strategy.levels
    BY Numbers
  <2>2. (2 * l) \div 2 = l
    BY <2>1
  <2> QED BY <1>2, <2>1, <2>2
<1>4. PICK jb \in Jitters("buy", level, RawBid(level)), ja \in Jitters("sell", level, RawAsk(level)) :
        LET bid0 == RawBid(level) + jb * Market.tick
            bid  == BehindBid(level, BelowAsk(bid0))
            ask  == BehindAsk(level, AboveBid(RawAsk(level) + ja * Market.tick))
        IN  IF Panics(bid0) THEN phase' = "panic" /\ UNCHANGED <<why, quotes>>
            ELSE IF bid <= 0 \/ ask <= 0 THEN Fail("zero") /\ UNCHANGED quotes
            ELSE IF bid >= ask THEN Fail("cross") /\ UNCHANGED quotes
            ELSE IF Quantities(bid) = {} \/ Quantities(ask) = {} THEN Fail("size") /\ UNCHANGED quotes
            ELSE \E qb \in Quantities(bid), qa \in Quantities(ask) :
                   /\ quotes' = quotes \o <<[side |-> "buy", price |-> bid, qty |-> qb],
                                            [side |-> "sell", price |-> ask, qty |-> qa]>>
                   /\ phase' = IF level + 1 = Strategy.levels THEN "filter" ELSE "level"
                   /\ UNCHANGED why
  BY DEF Level
<1>5. UNCHANGED <<inputs, offered, fund>>
  BY DEF Level
<1> DEFINE bid == BehindBid(level, BelowAsk(RawBid(level) + jb * Market.tick))
           ask == BehindAsk(level, AboveBid(RawAsk(level) + ja * Market.tick))
<1>6. jb \in Int /\ ja \in Int
  BY DEF Jitters
<1>7. /\ level \in Nat
      /\ level > 0 => /\ n - 1 \in DOMAIN quotes /\ n \in DOMAIN quotes
                      /\ quotes[n - 1].side = "buy" /\ quotes[n].side = "sell"
                      /\ quotes[n - 1] \in Quotes /\ quotes[n] \in Quotes
  <2>1. level > 0 => n - 1 \in 1 .. n /\ n \in 1 .. n /\ n > 0
    BY <1>2, <1>3
  <2>2. DOMAIN quotes = 1 .. n /\ \A k \in 1 .. n : quotes[k] \in Quotes
    BY <1>0
  <2>3. level > 0 => quotes[n - 1].side = "buy" /\ quotes[n].side = "sell"
    BY <1>1, <2>1 DEF Levelled
  <2> HIDE DEF n, level
  <2> QED BY <1>3, <2>1, <2>2, <2>3
<1>8. level > 0 => /\ PreviousBid \in Int /\ PreviousBid % Market.tick = 0
                   /\ PreviousAsk \in Int /\ PreviousAsk % Market.tick = 0
                   /\ book.ask > 0 => PreviousBid < book.ask
                   /\ book.bid > 0 => PreviousAsk > book.bid
  <2> SUFFICES ASSUME level > 0
               PROVE  /\ PreviousBid \in Int /\ PreviousBid % Market.tick = 0
                      /\ PreviousAsk \in Int /\ PreviousAsk % Market.tick = 0
                      /\ book.ask > 0 => PreviousBid < book.ask
                      /\ book.bid > 0 => PreviousAsk > book.bid
    OBVIOUS
  <2>1. /\ PreviousBid \in Int /\ PreviousBid % Market.tick = 0
        /\ PreviousAsk \in Int /\ PreviousAsk % Market.tick = 0
    BY <1>7 DEF PreviousBid, PreviousAsk, Quotes
  <2>2. ~Takes(quotes[n - 1]) /\ ~Takes(quotes[n])
    BY <1>1, <1>7 DEF Ladder
  <2>3. book.ask \in Nat /\ book.bid \in Nat
    <3>1. book \in Books
      BY <1>1 DEF TypeOK
    <3> QED BY <3>1, InputsAssumption
  <2> QED BY <1>7, <2>1, <2>2, <2>3 DEF Takes, PreviousBid, PreviousAsk
<1>9. /\ bid \in Int /\ bid % Market.tick = 0
      /\ ask \in Int /\ ask % Market.tick = 0
      /\ book.ask > 0 => bid < book.ask
      /\ book.bid > 0 => ask > book.bid
      /\ level > 0 => bid < PreviousBid /\ PreviousAsk < ask
  BY <1>1, <1>6, <1>7, <1>8, LevelPrices
<1>10. CASE UNCHANGED quotes /\ ((phase' = "panic" /\ UNCHANGED why) \/ Fail("zero") \/ Fail("cross") \/ Fail("size"))
  <2>1. phase' \in {"failed", "panic"} /\ why' \notin {"takes", "out of size", "self-cross"}
    BY <1>1, <1>10 DEF Fail
  <2> QED BY <1>5, <1>10, <2>1, FailureKeeps
<1>11. ASSUME bid > 0, ask > 0, bid < ask, NEW qb \in Quantities(bid), NEW qa \in Quantities(ask),
              quotes' = quotes \o <<[side |-> "buy", price |-> bid, qty |-> qb],
                                    [side |-> "sell", price |-> ask, qty |-> qa]>>,
              phase' = (IF level + 1 = Strategy.levels THEN "filter" ELSE "level"),
              UNCHANGED why
       PROVE  LadderInv'
  <2> DEFINE b == [side |-> "buy", price |-> bid, qty |-> qb]
             a == [side |-> "sell", price |-> ask, qty |-> qa]
  <2> HIDE DEF bid, ask, level
  <2>1. bid \in Nat \ {0} /\ ask \in Nat \ {0}
    BY <1>9, <1>11
  <2>2. /\ qb \in Nat \ {0} /\ qb % Market.step = 0 /\ ~OutOfSize(b)
        /\ qa \in Nat \ {0} /\ qa % Market.step = 0 /\ ~OutOfSize(a)
    BY <1>11, <2>1, QuantityFits
  <2>3. b \in Quotes /\ a \in Quotes
    BY <1>9, <2>1, <2>2 DEF Quotes
  <2>4. book.ask \in Nat /\ book.bid \in Nat
    <3>1. book \in Books
      BY <1>1 DEF TypeOK
    <3> QED BY <3>1, InputsAssumption
  <2>5. ~Takes(b) /\ ~Takes(a)
    BY <1>9, <2>1, <2>4 DEF Takes
  <2>6. n > 0 => level > 0
    BY <1>2, <1>3
  <2>7. b.side = "buy" /\ a.side = "sell" /\ b.price = bid /\ a.price = ask
    OBVIOUS
  <2>8. n > 0 => b.price < quotes[n - 1].price /\ quotes[n].price < a.price
    BY <1>9, <2>6, <2>7 DEF PreviousBid, PreviousAsk
  <2>9. quotes' = quotes \o <<b, a>>
    BY <1>11
  <2> HIDE DEF b, a
  <2>10. Ladder(quotes \o <<b, a>>)
    BY <1>1, <1>11, <2>3, <2>5, <2>7, <2>8, LadderExtended
  <2>11. /\ quotes' \in Seq(Quotes) /\ Len(quotes') = n + 2 /\ DOMAIN quotes' = 1 .. n + 2
         /\ quotes'[n + 1] = b /\ quotes'[n + 2] = a
         /\ \A k \in DOMAIN quotes : quotes'[k] = quotes[k]
    <3>1. quotes \in Seq(Quotes)
      BY <1>0
    <3>2. /\ Len(quotes') = n + 2 /\ quotes' \in Seq(Quotes)
          /\ quotes'[n + 1] = b /\ quotes'[n + 2] = a
          /\ \A k \in 1 .. n : quotes'[k] = quotes[k]
      BY <2>3, <2>9, <3>1, TwoMore
    <3>3. DOMAIN quotes' = 1 .. Len(quotes')
      BY <3>2
    <3> QED BY <1>0, <3>2, <3>3
  <2>12. DOMAIN quotes = 1 .. n /\ n \in Nat
    BY <1>0
  <2> HIDE DEF n
  <2>13. \A k \in DOMAIN quotes' : ~OutOfSize(quotes'[k])
    <3>1. \A k \in 1 .. n + 2 : k \in 1 .. n \/ k = n + 1 \/ k = n + 2
      BY <2>12
    <3> QED BY <1>1, <2>2, <2>11, <2>12, <3>1 DEF b, a
  <2>14. UNCHANGED <<ref, book, inventory, window, offered, fund>>
    BY <1>5 DEF inputs
  <2>15. Ladder(quotes)' /\ Ladder(offered)'
    BY <1>1, <2>9, <2>10, <2>14 DEF Ladder, Takes
  <2>16. Len(quotes') = 2 * (l + 1) /\ Len(quotes') <= 2 * Strategy.levels
    <3>1. n = 2 * l /\ Len(quotes') = n + 2 /\ l \in Nat /\ l + 1 <= Strategy.levels
      BY <1>2, <1>3, <2>11 DEF n
    <3>2. PICK v \in Nat : v = Strategy.levels
      BY Numbers
    <3>3. 2 * (l + 1) = 2 * l + 2 /\ 2 * (l + 1) <= 2 * v
      BY <3>1, <3>2
    <3> QED BY <3>1, <3>2, <3>3
  <2>17. phase' \in {"filter", "level"}
    BY <1>11
  <2>18. TypeOK'
    BY <1>1, <2>11, <2>14, <2>16, <2>17 DEF TypeOK
  <2>19. phase' = "level" => Levelled(quotes)'
    <3>1. phase' = "level" => l + 1 \in 0 .. Strategy.levels - 1
      BY <1>2, <1>3, <1>11, Numbers
    <3>2. Len(quotes') - 1 = n + 1 /\ Len(quotes') = n + 2
      BY <2>11, <2>12
    <3>3. quotes'[Len(quotes') - 1].side = "buy" /\ quotes'[Len(quotes')].side = "sell"
      BY <2>7, <2>11, <3>2
    <3> QED BY <2>16, <3>1, <3>3 DEF Levelled
  <2>20. RiskAgrees'
    BY <1>1, <1>11 DEF RiskAgrees
  <2> QED BY <2>13, <2>15, <2>17, <2>18, <2>19, <2>20 DEF LadderInv, OutOfSize
<1> QED
  <2> HIDE DEF bid, ask, level
  <2>1. CASE ~(bid <= 0 \/ ask <= 0) /\ ~(bid >= ask)
    <3>1. bid > 0 /\ ask > 0 /\ bid < ask
      BY <1>9, <2>1
    <3> QED BY <1>4, <1>10, <1>11, <2>1, <3>1 DEF bid, ask
  <2>2. CASE bid <= 0 \/ ask <= 0 \/ bid >= ask
    BY <1>4, <1>10, <2>2 DEF bid, ask
  <2> QED BY <2>1, <2>2

-----------------------------------------------------------------------------
(* Filter, limit and budget.                                               *)

\* What a loop over a ladder keeps is a ladder, not a longer one.
LEMMA SiftedLadder ==
  ASSUME NEW qs \in Seq(Quotes), Ladder(qs), NEW s, \E f : Sifts(f, qs) /\ s = f[Len(qs)]
  PROVE  s \in Seq(Quotes) /\ Len(s) <= Len(qs) /\ Ladder(s)
<1>1. PICK f : Sifts(f, qs) /\ s = f[Len(qs)]
  OBVIOUS
<1>2. Len(qs) \in 0 .. Len(qs)
  OBVIOUS
<1>3. f \in [0 .. Len(qs) -> Seq(Quotes)]
  BY <1>1 DEF Sifts
<1>4. s \in Seq(Quotes)
  BY <1>1, <1>2, <1>3
<1>5. Len(s) <= Len(qs) /\ \E h : Part(s, qs, h, Len(qs))
  BY <1>1, <1>2, SiftedPart
<1>6. PICK h : Part(s, qs, h, Len(qs))
  BY <1>5
<1>7. Ladder(s)
  BY <1>2, <1>4, <1>6, PartLadder
<1> QED BY <1>4, <1>5, <1>7

\* A ladder does not cross itself.
LEMMA LadderNoCross ==
  ASSUME NEW qs \in Seq(Quotes), Ladder(qs)
  PROVE  ~SelfCross(qs)
<1> SUFFICES ASSUME SelfCross(qs) PROVE FALSE
  OBVIOUS
<1>1. PICK i \in DOMAIN qs, j \in DOMAIN qs :
        qs[i].side = "buy" /\ qs[j].side = "sell" /\ qs[i].price >= qs[j].price
  BY DEF SelfCross, ToSet
<1>2. qs[i] \in Quotes /\ qs[j] \in Quotes
  OBVIOUS
<1>3. qs[i].price \in Nat /\ qs[j].price \in Nat
  BY <1>2 DEF Quotes
<1>4. qs[i].price < qs[j].price
  BY <1>1 DEF Ladder
<1> QED BY <1>1, <1>3, <1>4

\* A set of positions that is not empty has a first one.
LEMMA FirstOf ==
  ASSUME NEW S \in SUBSET Nat, S # {}
  PROVE  Min(S) \in S
<1>1. PICK m \in S : \A x \in S : ~(<<x, m>> \in OpToRel(<, Nat))
  BY NatLessThanWellFounded, WFMin
<1>2. \A x \in S : m <= x
  <2> TAKE x \in S
  <2>1. <<x, m>> \in Nat \X Nat /\ ~(<<x, m>>[1] < <<x, m>>[2])
    BY <1>1 DEF OpToRel
  <2> QED BY <2>1
<1> QED BY <1>2 DEF Min

\* FilterQuotes refuses a ladder for its prices or the inventory only, and keeps a part of it.
LEMMA FilterKeeps == LadderInv /\ Filter => LadderInv'
<1> SUFFICES ASSUME LadderInv, Filter PROVE LadderInv'
  OBVIOUS
<1> DEFINE kept == OpenSides(quotes)
           bad  == {k \in DOMAIN quotes : Takes(quotes[k]) \/ OutOfSize(quotes[k]) \/ OutOfPrice(quotes[k])}
<1>1. phase = "filter" /\ UNCHANGED <<inputs, offered, fund>>
  BY DEF Filter
<1>2. TypeOK /\ quotes \in Seq(Quotes) /\ Len(quotes) <= 2 * Strategy.levels
  BY DEF LadderInv, TypeOK
<1>3. Ladder(quotes) /\ Ladder(offered) /\ RiskAgrees /\ \A k \in DOMAIN quotes : ~OutOfSize(quotes[k])
  BY <1>1 DEF LadderInv
<1>4. kept \in Seq(Quotes) /\ Len(kept) <= Len(quotes) /\ Ladder(kept)
  <2>1. \E f : Sifts(f, quotes) /\ kept = f[Len(quotes)]
    BY <1>2, OpenSidesSifts
  <2> HIDE DEF kept
  <2> QED BY <1>2, <1>3, <2>1, SiftedLadder
<1>5. ~SelfCross(kept)
  BY <1>4, LadderNoCross
<1>6. CASE bad # {}
  <2>1. Min(bad) \in bad
    <3>1. DOMAIN quotes \subseteq Nat
      BY <1>2
    <3>2. bad \in SUBSET Nat
      BY <3>1
    <3> HIDE DEF bad
    <3> QED BY <1>6, <3>2, FirstOf
  <2>2. ~Takes(quotes[Min(bad)]) /\ ~OutOfSize(quotes[Min(bad)])
    <3>1. Min(bad) \in DOMAIN quotes
      BY <2>1
    <3> HIDE DEF bad
    <3> QED BY <1>3, <3>1 DEF Ladder
  <2>3. UNCHANGED quotes /\ Fail(IF Takes(quotes[Min(bad)]) THEN "takes"
                                ELSE IF OutOfSize(quotes[Min(bad)]) THEN "out of size" ELSE "price limit")
    BY <1>6 DEF Filter
  <2>4. phase' = "failed" /\ why' = "price limit"
    BY <2>2, <2>3 DEF Fail
  <2> QED BY <1>1, <2>3, <2>4, FailureKeeps
<1>7. CASE bad = {} /\ kept = <<>>
  <2>1. UNCHANGED quotes /\ phase' = "failed" /\ why' = "inventory"
    BY <1>5, <1>7 DEF Filter, Fail
  <2> QED BY <1>1, <2>1, FailureKeeps
<1>8. CASE bad = {} /\ kept # <<>>
  <2>1. phase' = "limit" /\ quotes' = kept /\ UNCHANGED why
    BY <1>5, <1>8 DEF Filter
  <2>2. UNCHANGED <<ref, book, inventory, window, offered, fund>>
    BY <1>1 DEF inputs
  <2> HIDE DEF kept
  <2>3. Len(kept) <= 2 * Strategy.levels
    <3>1. Len(kept) \in Nat /\ Len(quotes) \in Nat
      BY <1>2, <1>4
    <3> QED BY <1>2, <1>4, <3>1, Numbers
  <2>4. TypeOK'
    BY <1>2, <1>4, <2>1, <2>2, <2>3 DEF TypeOK
  <2>5. Ladder(quotes)' /\ Ladder(offered)'
    BY <1>3, <1>4, <2>1, <2>2 DEF Ladder, Takes
  <2>6. RiskAgrees'
    BY <1>3, <2>1 DEF RiskAgrees
  <2> QED BY <2>1, <2>4, <2>5, <2>6 DEF LadderInv
<1> QED BY <1>6, <1>7, <1>8

\* A book or reference too old by now fails the cycle.
LEMMA ExpireKeeps == LadderInv /\ Expire => LadderInv'
<1> SUFFICES ASSUME LadderInv, Expire PROVE LadderInv'
  OBVIOUS
<1>1. UNCHANGED <<inputs, quotes, offered, fund>> /\ phase' = "failed" /\ why' = "expired"
  BY DEF Expire, Fail
<1> QED BY <1>1, FailureKeeps

\* The limit keeps no more quotes than there are.
LEMMA KeptBound ==
  ASSUME NEW unmanaged \in Unmanaged, NEW n \in Nat
  PROVE  Kept(unmanaged, n) \in 0 .. n
<1>1. PICK x \in Int : x = Market.maxOpen - unmanaged
  <2>1. unmanaged \in Nat
    BY InputsAssumption
  <2> QED BY <2>1, Numbers
<1>2. PICK available \in Nat : available = Max({0, Market.maxOpen - unmanaged})
  BY <1>1, MaxMinOfTwo
<1>3. Kept(unmanaged, n) = IF Market.maxOpen <= 0 \/ available >= n THEN n ELSE available - (available % 2)
  BY <1>2 DEF Kept
<1>4. PICK r \in Nat : r = available % 2 /\ r <= available
  OBVIOUS
<1>5. n \in 0 .. n
  OBVIOUS
<1>6. available < n => available - r \in 0 .. n
  BY <1>4
<1> QED BY <1>3, <1>4, <1>5, <1>6

\* The first quotes of a ladder are a ladder.
LEMMA PrefixLadder ==
  ASSUME NEW qs \in Seq(Quotes), Ladder(qs), NEW m \in 0 .. Len(qs)
  PROVE  /\ SubSeq(qs, 1, m) \in Seq(Quotes) /\ Len(SubSeq(qs, 1, m)) <= Len(qs)
         /\ Ladder(SubSeq(qs, 1, m))
<1> DEFINE s == SubSeq(qs, 1, m)
           h == [k \in 1 .. m |-> k]
<1>1. s \in Seq(Quotes) /\ Len(s) = m /\ m \in Nat /\ Len(qs) \in Nat
  OBVIOUS
<1>2. \A k \in 1 .. m : s[k] = qs[k] /\ h[k] = k
  OBVIOUS
<1>3. h \in [1 .. m -> 1 .. Len(qs)]
  BY <1>1
<1> HIDE DEF s, h
<1>4. Part(s, qs, h, Len(qs))
  BY <1>1, <1>2, <1>3 DEF Part
<1>5. Len(qs) \in 0 .. Len(qs)
  BY <1>1
<1>6. Ladder(s)
  BY <1>1, <1>4, <1>5, PartLadder
<1> QED BY <1>1, <1>6 DEF s

\* ApplyOrderLimit offers the first quotes of the ladder.
LEMMA LimitKeeps == LadderInv /\ Limit => LadderInv'
<1> SUFFICES ASSUME LadderInv, Limit PROVE LadderInv'
  OBVIOUS
<1>1. phase' = "budget" /\ UNCHANGED <<why, inputs, quotes, fund>>
  BY DEF Limit
<1>2. TypeOK /\ quotes \in Seq(Quotes) /\ Len(quotes) <= 2 * Strategy.levels
  BY DEF LadderInv, TypeOK
<1>3. Ladder(quotes) /\ RiskAgrees
  BY DEF LadderInv
<1>4. PICK unmanaged \in Unmanaged : offered' = SubSeq(quotes, 1, Kept(unmanaged, Len(quotes)))
  BY DEF Limit
<1>5. Len(quotes) \in Nat
  BY <1>2
<1>6. Kept(unmanaged, Len(quotes)) \in 0 .. Len(quotes)
  BY <1>5, KeptBound
<1>7. offered' \in Seq(Quotes) /\ Len(offered') <= Len(quotes) /\ Ladder(SubSeq(quotes, 1, Kept(unmanaged, Len(quotes))))
  BY <1>2, <1>3, <1>4, <1>6, PrefixLadder
<1>8. UNCHANGED <<ref, book, inventory, window>>
  BY <1>1 DEF inputs
<1>9. Len(offered') <= 2 * Strategy.levels
  <2>1. Len(offered') \in Nat
    BY <1>7
  <2> QED BY <1>2, <1>5, <1>7, <2>1, Numbers
<1>10. TypeOK'
  BY <1>1, <1>2, <1>7, <1>8, <1>9 DEF TypeOK
<1>11. Ladder(quotes)' /\ Ladder(offered)'
  BY <1>1, <1>3, <1>4, <1>7, <1>8 DEF Ladder, Takes
<1>12. RiskAgrees'
  BY <1>1, <1>3 DEF RiskAgrees
<1> QED BY <1>1, <1>10, <1>11, <1>12 DEF LadderInv

\* ApplyBalanceBudget leaves a part of the ladder.
LEMMA BudgetKeeps == LadderInv /\ ApplyBudget => LadderInv'
<1> SUFFICES ASSUME LadderInv, ApplyBudget PROVE LadderInv'
  OBVIOUS
<1>1. UNCHANGED <<ref, book, inventory, window, offered>>
  BY DEF ApplyBudget, inputs
<1>2. TypeOK /\ offered \in Seq(Quotes) /\ Len(offered) <= 2 * Strategy.levels
  BY DEF LadderInv, TypeOK
<1>3. Ladder(offered) /\ RiskAgrees
  BY DEF LadderInv
<1>4. PICK f \in Funds : fund' = f /\ quotes' = Eligible(offered, f)
  BY DEF ApplyBudget
<1>5. /\ phase' \in {"failed", "done"}
      /\ why' \notin {"takes", "out of size", "self-cross"}
  BY <1>3 DEF ApplyBudget, Fail, RiskAgrees
<1> DEFINE e == Eligible(offered, f)
<1>6. e \in Seq(Quotes) /\ Len(e) <= Len(offered) /\ Ladder(e)
  <2>1. \E g : Sifts(g, offered) /\ e = g[Len(offered)]
    BY <1>2, EligibleSifts
  <2> HIDE DEF e
  <2> QED BY <1>2, <1>3, <2>1, SiftedLadder
<1>7. fund' = f /\ quotes' = e
  BY <1>4
<1>8. phase' = "done" => (fund \in Funds /\ quotes = Eligible(offered, fund))'
  BY <1>1, <1>4
<1> HIDE DEF e
<1>9. Len(quotes') <= 2 * Strategy.levels
  <2>1. Len(e) \in Nat /\ Len(offered) \in Nat
    BY <1>2, <1>6
  <2> QED BY <1>2, <1>6, <1>7, <2>1, Numbers
<1>10. TypeOK'
  BY <1>1, <1>2, <1>5, <1>6, <1>7, <1>9 DEF TypeOK
<1>11. Ladder(quotes)' /\ Ladder(offered)'
  BY <1>1, <1>3, <1>6, <1>7 DEF Ladder, Takes
<1> QED BY <1>5, <1>8, <1>10, <1>11 DEF LadderInv, RiskAgrees

\* The next cycle starts with nothing.
LEMMA AgainKeeps == LadderInv /\ Again => LadderInv'
<1> SUFFICES ASSUME LadderInv, Again PROVE LadderInv'
  OBVIOUS
<1>1. phase' = "observe" /\ why' = "" /\ quotes' = <<>> /\ offered' = <<>> /\ fund' = NoFund
  BY DEF Again
<1>2. UNCHANGED <<ref, book, inventory, window>>
  BY DEF Again, inputs
<1>3. 0 <= 2 * Strategy.levels
  BY Numbers
<1>4. TypeOK'
  BY <1>1, <1>2, <1>3, EmptyLadder DEF LadderInv, TypeOK
<1>5. Ladder(quotes)' /\ Ladder(offered)'
  <2>1. quotes' = <<>> /\ offered' = <<>>
    BY <1>1
  <2> QED BY <2>1 DEF Ladder
<1> QED BY <1>1, <1>4, <1>5 DEF LadderInv, RiskAgrees

\* A stuttering step changes nothing.
LEMMA StutterKeeps == LadderInv /\ UNCHANGED vars => LadderInv'
<1> SUFFICES ASSUME LadderInv, UNCHANGED vars PROVE LadderInv'
  OBVIOUS
<1>1. UNCHANGED <<phase, why, ref, book, inventory, window, quotes, offered, fund>>
  BY DEF vars, inputs
<1>2. TypeOK'
  BY <1>1 DEF LadderInv, TypeOK
<1>3. Ladder(quotes)' /\ Ladder(offered)'
  BY <1>1 DEF LadderInv, Ladder, Takes
<1>4. (phase = "observe" => quotes = <<>> /\ offered = <<>>)' /\ (phase = "level" => Levelled(quotes))'
  BY <1>1 DEF LadderInv, Levelled
<1>5. (phase \in {"level", "filter"} => \A k \in DOMAIN quotes : ~OutOfSize(quotes[k]))'
  BY <1>1 DEF LadderInv, OutOfSize
<1>6. (phase = "done" => fund \in Funds /\ quotes = Eligible(offered, fund))'
  BY <1>1 DEF LadderInv
<1>7. RiskAgrees'
  BY <1>1 DEF LadderInv, RiskAgrees
<1> QED BY <1>2, <1>3, <1>4, <1>5, <1>6, <1>7 DEF LadderInv

-----------------------------------------------------------------------------
(* The theorems.                                                           *)

(* At every point of the pipeline what is quoted and what is offered are   *)
(* post-only ladders on the grid of the market, and what the budget left   *)
(* is what it leaves of the offer (runInstrument).                         *)
THEOREM LadderInvariant == Spec => []LadderInv
<1>1. Init => LadderInv
  BY InitLadder
<1>2. LadderInv /\ [Next]_vars => LadderInv'
  BY ObserveKeeps, LevelKeeps, FilterKeeps, ExpireKeeps, LimitKeeps, BudgetKeeps, AgainKeeps, StutterKeeps DEF Next
<1> QED BY <1>1, <1>2, PTL DEF Spec

(* Every quote of every cycle is on the grid of ticks and steps with a     *)
(* positive price and quantity, and no cycle has more than two a level     *)
(* (GenerateAt).                                                           *)
THEOREM TypeCorrect == Spec => []TypeOK
<1>1. LadderInv => TypeOK
  BY DEF LadderInv
<1> QED BY <1>1, LadderInvariant, PTL

(* No quote takes liquidity or crosses another, and the levels of a side   *)
(* are behind one another, for every strategy, book and jitter             *)
(* (GenerateAt, FilterQuotes, ApplyOrderLimit, ApplyBalanceBudget).        *)
THEOREM LaddersArePostOnly == Spec => []PostOnlyLadder
<1>1. LadderInv => PostOnlyLadder
  <2> SUFFICES ASSUME LadderInv PROVE PostOnlyLadder
    OBVIOUS
  <2>1. quotes \in Seq(Quotes) /\ Ladder(quotes)
    BY DEF LadderInv, TypeOK
  <2>2. \A q \in ToSet(quotes) : ~Takes(q)
    BY <2>1 DEF Ladder, ToSet
  <2>3. ~SelfCross(quotes)
    BY <2>1, LadderNoCross
  <2> QED BY <2>1, <2>2, <2>3 DEF PostOnlyLadder, Ladder
<1> QED BY <1>1, LadderInvariant, PTL

(* The filter never refuses a generated ladder for its sizes, for taking   *)
(* liquidity or for crossing itself: quoteQuantity and the clamps of       *)
(* GenerateAt meet the rules FilterQuotes tests, whatever the rounding.    *)
THEOREM RiskAccepts == Spec => []RiskAgrees
<1>1. LadderInv => RiskAgrees
  BY DEF LadderInv
<1> QED BY <1>1, LadderInvariant, PTL

\* The budget of an account decides, not how much of it is locked already.
LEMMA SameBudget ==
  ASSUME NEW qs, NEW f, NEW g, Budget(f) = Budget(g)
  PROVE  Eligible(qs, f) = Eligible(qs, g)
<1> DEFINE B == Budget(f)
           C == Budget(g)
           Run(c) == CHOOSE F : F = [n \in 0 .. Len(qs) |->
                       IF n = 0 THEN <<>>
                       ELSE LET more == Append(F[n - 1], qs[n])
                            IN  IF Fits(Used(more), c) THEN more ELSE F[n - 1]]
<1>1. Eligible(qs, f) = Run(B)[Len(qs)] /\ Eligible(qs, g) = Run(C)[Len(qs)]
  BY Zenon DEF Eligible
<1>2. B = C
  OBVIOUS
<1> HIDE DEF B, C
<1>3. Run(B) = Run(C)
  <2> HIDE DEF Run
  <2> QED BY <1>2, Zenon
<1> QED BY <1>1, <1>3

(* Placing the eligible quotes locks their funds and leaves the same       *)
(* quotes eligible: a stable book does not oscillate, whatever is free or  *)
(* locked (ApplyBalanceBudget).                                            *)
THEOREM BudgetsAreStable == Spec => []BudgetStable
<1>1. LadderInv => BudgetStable
  <2> SUFFICES ASSUME LadderInv, phase = "done" PROVE BudgetStable
    BY DEF BudgetStable
  <2> DEFINE used == Used(quotes)
             total == [base |-> fund.base + fund.baseHeld, quote |-> fund.quote + fund.quoteHeld]
             placed == [base |-> total.base - used.base, quote |-> total.quote - used.quote,
                        baseHeld |-> used.base, quoteHeld |-> used.quote]
  <2>1. quotes \in Seq(Quotes) /\ fund \in Funds /\ quotes = Eligible(offered, fund)
    BY DEF LadderInv, TypeOK
  <2>2. PICK ub \in Int, uq \in Int : used.base = ub /\ used.quote = uq
    BY <2>1, UsedType
  <2>3. PICK tb \in Int, tq \in Int : tb = fund.base + fund.baseHeld /\ tq = fund.quote + fund.quoteHeld
    BY <2>1, InputsAssumption
  <2>4. Budget(fund) = [base |-> tb, quote |-> tq]
    BY <2>3 DEF Budget
  <2> HIDE DEF used
  <2>5. Budget(placed) = [base |-> tb, quote |-> tq]
    <3>1. (tb - ub) + ub = tb /\ (tq - uq) + uq = tq
      OBVIOUS
    <3>2. placed = [base |-> tb - ub, quote |-> tq - uq, baseHeld |-> ub, quoteHeld |-> uq]
      BY <2>2, <2>3
    <3> HIDE DEF placed
    <3> QED BY <3>1, <3>2 DEF Budget
  <2>6. Eligible(offered, placed) = Eligible(offered, fund)
    <3> HIDE DEF placed
    <3> QED BY <2>4, <2>5, SameBudget
  <2>7. Eligible(offered, placed) = quotes
    BY <2>1, <2>6
  <2> QED BY <2>7 DEF BudgetStable, used
<1> QED BY <1>1, LadderInvariant, PTL

(* From any window to the next a side refreshes at most the share of its   *)
(* deep levels that the refresh ratio names, rounded up, for every number  *)
(* of levels and every ratio (refreshGeneration).                          *)
THEOREM RefreshIsBounded == Spec => []RefreshBounded
<1>1. LadderInv => RefreshBounded
  <2> SUFFICES ASSUME LadderInv PROVE RefreshBounded
    OBVIOUS
  <2>1. window \in Nat
    <3>1. window \in Windows
      BY DEF LadderInv, TypeOK
    <3> QED BY <3>1, InputsAssumption
  <2>2. ASSUME NEW side PROVE
          Cardinality({l \in DeepLevels : Generation(side, l, window + 1) # Generation(side, l, window)}) <= Count
    BY <2>1, GroupBound
  <2> QED BY <2>2 DEF RefreshBounded, DeepLevels, Count, Deep
<1> QED BY <1>1, LadderInvariant, PTL
=============================================================================
