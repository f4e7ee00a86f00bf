---------------------------- MODULE NaturalOrder ----------------------------
(***************************************************************************)
(* The order of the natural numbers, said of sets instead of predicates:   *)
(* the library's induction theorems take an operator as a parameter, which *)
(* the installed provers cannot instantiate, and these do not.             *)
(***************************************************************************)
EXTENDS Integers, FiniteSetTheorems, TLAPS

\* A nonempty set of naturals has a least element. (The strict-subset order
\* on finite sets is well founded, and k < m makes 0 .. k a strict subset of
\* 0 .. m.)
LEMMA LeastNatural ==
  ASSUME NEW T, T \subseteq Nat, T # {}
  PROVE  \E m \in T : \A k \in T : m <= k
<1> DEFINE Below == {0 .. k : k \in T}
<1>1. Below \subseteq FiniteSubsetsOf(Nat)
  <2>1. \A k \in T : IsFiniteSet(0 .. k)
    BY FS_Interval
  <2> QED
    BY <2>1 DEF FiniteSubsetsOf
<1>2. Below # {}
  OBVIOUS
<1>3. IsWellFoundedOn(StrictSubsetOrdering(Nat), FiniteSubsetsOf(Nat))
  BY FS_StrictSubsetOrderingWellFounded
<1>4. PICK x \in Below : \A y \in Below : ~(<<y, x>> \in StrictSubsetOrdering(Nat))
  <2> HIDE DEF Below
  <2> QED
    BY <1>1, <1>2, <1>3, WFMin
<1>5. PICK m \in T : x = 0 .. m
  OBVIOUS
<1>6. ASSUME NEW k \in T, k < m PROVE FALSE
  <2>1. 0 .. k \in SUBSET Nat /\ x \in SUBSET Nat /\ 0 .. k # x /\ 0 .. k \subseteq x
    BY <1>5, <1>6
  <2>2. <<0 .. k, x>> \in StrictSubsetOrdering(Nat)
    BY <2>1 DEF StrictSubsetOrdering
  <2> QED
    BY <1>4, <2>2
<1> QED
  BY <1>5, <1>6

\* A nonempty set of naturals with an upper bound has a greatest element.
LEMMA GreatestNatural ==
  ASSUME NEW n \in Nat, NEW T, T \subseteq 0 .. n, T # {}
  PROVE  \E m \in T : \A k \in T : k <= m
<1> DEFINE Gaps == {n - k : k \in T}
<1>1. Gaps \subseteq Nat
  <2>1. \A k \in T : n - k \in Nat
    OBVIOUS
  <2> QED
    BY <2>1
<1>2. Gaps # {}
  OBVIOUS
<1>3. PICK g \in Gaps : \A h \in Gaps : g <= h
  <2> HIDE DEF Gaps
  <2> QED
    BY <1>1, <1>2, LeastNatural
<1>4. PICK m \in T : g = n - m
  OBVIOUS
<1>5. ASSUME NEW k \in T PROVE k <= m
  <2>1. n - k \in Gaps
    OBVIOUS
  <2>2. n - m <= n - k
    BY <1>3, <1>4, <2>1
  <2>3. k \in Int /\ m \in Int
    OBVIOUS
  <2> HIDE DEF Gaps
  <2> QED
    BY <2>2, <2>3
<1> QED
  BY <1>5

\* Induction up to a bound, for a set that holds 0 and with each number below
\* the bound the next one.
LEMMA Induction ==
  ASSUME NEW n \in Nat, NEW S, 0 \in S, \A k \in 0 .. n - 1 : k \in S => k + 1 \in S
  PROVE  0 .. n \subseteq S
<1> SUFFICES ASSUME 0 .. n \ S # {} PROVE FALSE
  OBVIOUS
<1>1. PICK m \in 0 .. n \ S : \A k \in 0 .. n \ S : m <= k
  <2>1. 0 .. n \ S \subseteq Nat
    OBVIOUS
  <2> QED
    BY <2>1, LeastNatural
<1>2. m # 0 /\ m - 1 \in 0 .. n - 1 /\ m - 1 + 1 = m
  OBVIOUS
<1>3. m - 1 \in S
  BY <1>1, <1>2
<1> QED
  BY <1>1, <1>2, <1>3

\* A step on a set can be iterated: there is a function on the naturals that
\* starts at s and takes the step at each number.
LEMMA Iteration ==
  ASSUME NEW S, NEW s \in S, NEW G \in [S -> S]
  PROVE  \E f \in [Nat -> S] : f[0] = s /\ \A n \in Nat : f[n + 1] = G[f[n]]
<1> DEFINE Upto(n) == {g \in [0 .. n -> S] : g[0] = s /\ \A k \in 0 .. n - 1 : g[k + 1] = G[g[k]]}
<1>1. ASSUME NEW n \in Nat PROVE Upto(n) # {}
  <2> DEFINE Done == {k \in Nat : Upto(k) # {}}
  <2>1. 0 \in Done
    <3>1. [k \in 0 .. 0 |-> s] \in Upto(0)
      OBVIOUS
    <3> QED
      BY <3>1
  <2>2. ASSUME NEW k \in 0 .. n - 1, k \in Done PROVE k + 1 \in Done
    <3>1. PICK g \in Upto(k) : TRUE
      BY <2>2
    <3> DEFINE h == [j \in 0 .. k + 1 |-> IF j = k + 1 THEN G[g[k]] ELSE g[j]]
    <3>2. g \in [0 .. k -> S] /\ g[0] = s /\ \A j \in 0 .. k - 1 : g[j + 1] = G[g[j]]
      BY <3>1
    <3>3. h \in [0 .. k + 1 -> S] /\ h[0] = s
      BY <3>2
    <3>4. ASSUME NEW j \in 0 .. k PROVE h[j + 1] = G[h[j]]
      <4>1. CASE j = k
        BY <4>1, <3>2
      <4>2. CASE j # k
        <5>1. j \in 0 .. k - 1 /\ j + 1 # k + 1 /\ j + 1 \in 0 .. k + 1
          BY <4>2
        <5> QED
          BY <5>1, <3>2
      <4> QED
        BY <4>1, <4>2
    <3>5. k + 1 - 1 = k /\ k + 1 \in Nat
      OBVIOUS
    <3>6. h \in Upto(k + 1)
      <4> HIDE DEF h
      <4> QED
        BY <3>3, <3>4, <3>5
    <3> QED
      BY <3>5, <3>6
  <2>3. 0 .. n \subseteq Done
    <3> HIDE DEF Done
    <3> QED
      BY <2>1, <2>2, Induction
  <2> QED
    BY <2>3
<1>2. ASSUME NEW n \in Nat, NEW m \in Nat, n <= m, NEW g \in Upto(n), NEW h \in Upto(m)
      PROVE  g[n] = h[n]
  <2> DEFINE Same == {k \in 0 .. n : g[k] = h[k]}
  <2>1. 0 \in Same
    OBVIOUS
  <2>2. ASSUME NEW k \in 0 .. n - 1, k \in Same PROVE k + 1 \in Same
    <3>1. k \in 0 .. m - 1 /\ k + 1 \in 0 .. n
      BY <1>2
    <3>2. g[k + 1] = G[g[k]] /\ h[k + 1] = G[h[k]]
      BY <3>1
    <3> QED
      BY <2>2, <3>1, <3>2
  <2>3. 0 .. n \subseteq Same
    <3> HIDE DEF Same
    <3> QED
      BY <2>1, <2>2, Induction
  <2> QED
    BY <2>3
<1> DEFINE run(n) == CHOOSE g \in Upto(n) : TRUE
           f == [n \in Nat |-> run(n)[n]]
<1>3. \A n \in Nat : run(n) \in Upto(n)
  <2> HIDE DEF Upto
  <2> QED
    BY <1>1
<1>4. f \in [Nat -> S]
  <2>1. ASSUME NEW n \in Nat PROVE run(n)[n] \in S
    <3>1. run(n) \in [0 .. n -> S]
      BY <1>3
    <3> HIDE DEF run
    <3> QED
      BY <3>1
  <2> HIDE DEF run
  <2> QED
    BY <2>1
<1>5. f[0] = s
  <2>1. run(0)[0] = s
    BY <1>3
  <2> HIDE DEF run
  <2> QED
    BY <2>1
<1>6. ASSUME NEW n \in Nat PROVE f[n + 1] = G[f[n]]
  <2>1. n + 1 \in Nat /\ n <= n + 1 /\ n \in 0 .. n + 1 - 1
    OBVIOUS
  <2>2. run(n + 1)[n + 1] = G[run(n + 1)[n]]
    <3>1. run(n + 1) \in Upto(n + 1)
      BY <1>3, <2>1
    <3> HIDE DEF run
    <3> QED
      BY <2>1, <3>1
  <2>3. run(n)[n] = run(n + 1)[n]
    <3> HIDE DEF Upto, run
    <3> QED
      BY <1>2, <1>3, <2>1
  <2> HIDE DEF run
  <2> QED
    BY <2>1, <2>2, <2>3
<1> HIDE DEF f
<1> QED
  BY <1>4, <1>5, <1>6

\* A different step at each number up to a bound, and the runs through them.
StepsAlong(n, S) == [1 .. n -> [S -> S]]
RunsAlong(n, S, s, G) == {f \in [0 .. n -> S] : f[0] = s /\ \A i \in 1 .. n : f[i] = G[i][f[i - 1]]}

\* There is such a run.
LEMMA IterationAlong ==
  ASSUME NEW n \in Nat, NEW S, NEW s \in S, NEW G \in StepsAlong(n, S)
  PROVE  RunsAlong(n, S, s, G) # {}
<1> USE DEF StepsAlong
<1> DEFINE Upto(k) == {g \in [0 .. k -> S] : g[0] = s /\ \A i \in 1 .. k : g[i] = G[i][g[i - 1]]}
           Done == {k \in Nat : Upto(k) # {}}
<1>1. 0 \in Done
  <2>1. [k \in 0 .. 0 |-> s] \in Upto(0)
    OBVIOUS
  <2> QED
    BY <2>1
<1>2. ASSUME NEW k \in 0 .. n - 1, k \in Done PROVE k + 1 \in Done
  <2>1. PICK g \in Upto(k) : TRUE
    BY <1>2
  <2> DEFINE h == [j \in 0 .. k + 1 |-> IF j = k + 1 THEN G[k + 1][g[k]] ELSE g[j]]
  <2>2. g \in [0 .. k -> S] /\ g[0] = s /\ \A i \in 1 .. k : g[i] = G[i][g[i - 1]]
    BY <2>1
  <2>3. k + 1 \in 1 .. n /\ k \in 0 .. k
    OBVIOUS
  <2>4. h \in [0 .. k + 1 -> S] /\ h[0] = s
    BY <2>2, <2>3
  <2>5. ASSUME NEW i \in 1 .. k + 1 PROVE h[i] = G[i][h[i - 1]]
    <3>1. CASE i = k + 1
      BY <3>1, <2>2
    <3>2. CASE i # k + 1
      <4>1. i \in 1 .. k /\ i - 1 \in 0 .. k + 1 /\ i - 1 # k + 1 /\ i \in 0 .. k + 1
        BY <3>2
      <4> QED
        BY <4>1, <3>2, <2>2
    <3> QED
      BY <3>1, <3>2
  <2>6. h \in Upto(k + 1)
    <3> HIDE DEF h
    <3> QED
      BY <2>4, <2>5
  <2> QED
    BY SMTT(30), <2>6
<1>3. 0 .. n \subseteq Done
  <2> HIDE DEF Done
  <2> QED
    BY <1>1, <1>2, Induction
<1>4. n \in Done
  <2>1. n \in 0 .. n
    OBVIOUS
  <2> HIDE DEF Done
  <2> QED
    BY <1>3, <2>1
<1> QED
  BY <1>4 DEF RunsAlong

\* Two functions that start alike and go on alike are alike.
GoOnAlike(n, f, g) == f[0] = g[0] /\ \A i \in 1 .. n : f[i - 1] = g[i - 1] => f[i] = g[i]
LEMMA AgreeAlong ==
  ASSUME NEW n \in Nat, NEW f, NEW g, GoOnAlike(n, f, g)
  PROVE  \A i \in 0 .. n : f[i] = g[i]
<1> DEFINE Same == {i \in 0 .. n : f[i] = g[i]}
<1>1. 0 \in Same
  BY DEF GoOnAlike
<1>2. ASSUME NEW i \in 0 .. n - 1, i \in Same PROVE i + 1 \in Same
  <2>1. i + 1 \in 1 .. n /\ i + 1 - 1 = i /\ i + 1 \in 0 .. n
    OBVIOUS
  <2> QED
    BY <1>2, <2>1 DEF GoOnAlike
<1>3. 0 .. n \subseteq Same
  <2> HIDE DEF Same
  <2> QED
    BY <1>1, <1>2, Induction
<1> QED
  BY <1>3

\* Induction down from a bound.
LEMMA InductionDown ==
  ASSUME NEW n \in Nat, NEW S, n \in S, \A k \in 1 .. n : k \in S => k - 1 \in S
  PROVE  0 .. n \subseteq S
<1> DEFINE T == {k \in Nat : n - k \in S}
<1>1. 0 \in T
  OBVIOUS
<1>2. ASSUME NEW k \in 0 .. n - 1, k \in T PROVE k + 1 \in T
  <2>1. n - k \in 1 .. n /\ n - k - 1 = n - (k + 1)
    OBVIOUS
  <2> QED
    BY <1>2, <2>1
<1>3. 0 .. n \subseteq T
  <2> HIDE DEF T
  <2> QED
    BY <1>1, <1>2, Induction
<1>4. ASSUME NEW k \in 0 .. n PROVE k \in S
  <2>1. n - k \in 0 .. n /\ n - (n - k) = k
    OBVIOUS
  <2> QED
    BY <1>3, <2>1
<1> QED
  BY <1>4
=============================================================================
