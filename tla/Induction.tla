---- MODULE Induction ----
(***************************************************************************)
(* Induction and recursion over the naturals, stated for sets and          *)
(* functions.  The recursive functions of the other modules run over an    *)
(* interval 0..n; what they compute is proved from the lemmas below.  All  *)
(* of them rest on the library's result that strict inclusion of finite    *)
(* sets is well founded.                                                   *)
(***************************************************************************)
EXTENDS Integers, FiniteSetTheorems, WellFoundedInduction, TLAPS

\* Every set of naturals that is not empty has a least element.
LEMMA LeastNatural ==
  ASSUME NEW T, T \subseteq Nat, T # {}
  PROVE  \E n \in T : \A m \in T : n <= m
<1> DEFINE Below == {0..t : t \in T}
<1>1. Below \subseteq FiniteSubsetsOf(Nat)
  <2>1. ASSUME NEW t \in T PROVE 0..t \in FiniteSubsetsOf(Nat)
    <3>1. t \in Nat /\ 0..t \subseteq Nat
      OBVIOUS
    <3>2. IsFiniteSet(0..t)
      BY <3>1, FS_Interval
    <3> QED
      BY <3>1, <3>2 DEF FiniteSubsetsOf
  <2> QED
    BY <2>1
<1>2. Below # {}
  OBVIOUS
<1>3. IsWellFoundedOn(StrictSubsetOrdering(Nat), FiniteSubsetsOf(Nat))
  BY FS_StrictSubsetOrderingWellFounded
<1> HIDE DEF Below
<1>4. PICK x \in Below : \A y \in Below : ~(<<y, x>> \in StrictSubsetOrdering(Nat))
  BY <1>1, <1>2, <1>3, WFMin
<1>5. PICK n \in T : x = 0..n
  BY DEF Below
<1>6. ASSUME NEW m \in T, m < n PROVE FALSE
  <2>1. 0..m \in Below
    BY DEF Below
  <2>2. 0..m \in SUBSET Nat /\ 0..n \in SUBSET Nat
    OBVIOUS
  <2>3. 0..m \subseteq 0..n /\ 0..m # 0..n
    <3>1. n \in 0..n /\ n \notin 0..m /\ m \in Nat /\ n \in Nat
      BY <1>6
    <3> QED
      BY <3>1, <1>6
  <2>4. <<0..m, 0..n>> \in StrictSubsetOrdering(Nat)
    BY <2>2, <2>3 DEF StrictSubsetOrdering
  <2> QED
    BY <1>4, <1>5, <2>1, <2>4
<1> QED
  BY <1>6

\* What holds of 0, and of n + 1 where it holds of n, holds of all up to N.
LEMMA IntervalInduction ==
  ASSUME NEW N \in Nat, NEW T, 0 \in T, \A n \in 0..(N - 1) : n \in T => n + 1 \in T
  PROVE  \A n \in 0..N : n \in T
<1> DEFINE U == {n \in 0..N : n \notin T}
<1>1. SUFFICES ASSUME U # {} PROVE FALSE
  OBVIOUS
<1>2. PICK n \in U : \A m \in U : n <= m
  <2>1. U \subseteq Nat
    OBVIOUS
  <2> QED
    BY <1>1, <2>1, LeastNatural
<1>3. n \in 0..N /\ n # 0 /\ n \notin T
  OBVIOUS
<1>4. n - 1 \in 0..(N - 1) /\ n - 1 \in 0..N /\ n - 1 \notin U
  BY <1>2, <1>3
<1> QED
  BY <1>3, <1>4

\* The values of a function over 0..N are in a set that the first one is in and
\* that a step does not leave.
LEMMA IntervalRange ==
  ASSUME NEW N \in Nat, NEW S, NEW f, f[0] \in S, \A k \in 1..N : f[k - 1] \in S => f[k] \in S
  PROVE  \A k \in 0..N : f[k] \in S
<1> DEFINE T == {k \in 0..N : f[k] \in S}
<1>1. 0 \in T
  OBVIOUS
<1>2. ASSUME NEW k \in 0..(N - 1), k \in T PROVE k + 1 \in T
  <2>1. k + 1 \in 1..N /\ k + 1 \in 0..N /\ (k + 1) - 1 = k /\ f[k] \in S
    BY <1>2
  <2>2. f[(k + 1) - 1] \in S => f[k + 1] \in S
    BY <2>1
  <2> QED
    BY <2>1, <2>2
<1> HIDE DEF T
<1>3. \A k \in 0..N : k \in T
  BY <1>1, <1>2, IntervalInduction
<1> QED
  BY <1>3 DEF T

\* Such a function is there.
Recursion(f, N, S, c, F) ==
  f \in [0..N -> S] /\ f = [k \in 0..N |-> IF k = 0 THEN c ELSE F[<<k, f[k - 1]>>]]

LEMMA IntervalRecursion ==
  ASSUME NEW N \in Nat, NEW S, NEW c \in S, NEW F \in [(1..N) \X S -> S]
  PROVE  \E f : Recursion(f, N, S, c, F)
<1> DEFINE Up(n, f) == f = [k \in 0..n |-> IF k = 0 THEN c ELSE F[<<k, f[k - 1]>>]]
           T == {n \in 0..N : \E f \in [0..n -> S] : Up(n, f)}
<1>0. \A k \in 1..N, v \in S : F[<<k, v>>] \in S
  OBVIOUS
<1>1. 0 \in T
  <2> DEFINE f == [k \in 0..0 |-> c]
  <2>1. f \in [0..0 -> S] /\ Up(0, f)
    OBVIOUS
  <2> HIDE DEF f, Up
  <2> QED
    BY <2>1
<1>2. ASSUME NEW n \in 0..(N - 1), n \in T PROVE n + 1 \in T
  <2>1. PICK f \in [0..n -> S] : Up(n, f)
    BY <1>2
  <2> DEFINE g == [k \in 0..(n + 1) |-> IF k = n + 1 THEN F[<<n + 1, f[n]>>] ELSE f[k]]
  <2>2. n + 1 \in 1..N /\ n \in 0..n /\ n \in Nat
    OBVIOUS
  <2>3. g \in [0..(n + 1) -> S]
    <3>1. f[n] \in S
      BY <2>2
    <3>2. F[<<n + 1, f[n]>>] \in S
      BY <1>0, <2>2, <3>1
    <3> QED
      BY <2>2, <3>2
  <2>4. ASSUME NEW k \in 0..(n + 1)
        PROVE  g[k] = IF k = 0 THEN c ELSE F[<<k, g[k - 1]>>]
    <3>1. CASE k = n + 1
      <4>1. k # 0 /\ k - 1 = n /\ n \in 0..(n + 1) /\ n # n + 1
        BY <2>2, <3>1
      <4>2. g[k] = F[<<k, f[n]>>] /\ g[n] = f[n]
        BY <2>2, <3>1, <4>1
      <4> QED
        BY <4>1, <4>2
    <3>2. CASE k # n + 1
      <4>1. k \in 0..n /\ (k # 0 => k - 1 \in 0..n)
        BY <2>2, <3>2
      <4>2. f[k] = IF k = 0 THEN c ELSE F[<<k, f[k - 1]>>]
        BY <2>1, <4>1
      <4>3. g[k] = f[k] /\ (k # 0 => g[k - 1] = f[k - 1])
        BY <2>2, <3>2, <4>1
      <4> QED
        BY <4>2, <4>3
    <3> QED
      BY <3>1, <3>2
  <2>5. Up(n + 1, g)
    <3> HIDE DEF g
    <3>1. g = [k \in 0..(n + 1) |-> g[k]]
      BY <2>3
    <3> QED
      BY <2>4, <3>1
  <2> HIDE DEF Up, g
  <2> QED
    BY <2>2, <2>3, <2>5
<1> HIDE DEF T
<1>3. N \in T
  BY <1>1, <1>2, IntervalInduction
<1> QED
  BY <1>3 DEF T, Recursion

\* The least and the largest of a set of naturals.
LEMMA LeastIn ==
  ASSUME NEW T, T \subseteq Nat, T # {}, NEW x, x = CHOOSE n \in T : \A m \in T : n <= m
  PROVE  x \in T /\ \A m \in T : x <= m
BY LeastNatural

LEMMA MostIn ==
  ASSUME NEW N \in Nat, NEW T, T \subseteq 0..N, T # {}, NEW x, x = CHOOSE n \in T : \A m \in T : n >= m
  PROVE  x \in T /\ \A m \in T : x >= m
<1> DEFINE U == {n \in 0..N : N - n \in T}
<1>1. U \subseteq Nat
  OBVIOUS
<1>2. U # {}
  <2>1. PICK m \in T : m \in 0..N
    OBVIOUS
  <2>2. N - m \in U
    <3>1. N - m \in 0..N /\ N - (N - m) = m
      OBVIOUS
    <3> QED
      BY <3>1
  <2> QED
    BY <2>2
<1>3. PICK u \in U : \A v \in U : u <= v
  BY <1>1, <1>2, LeastNatural
<1>4. N - u \in T
  OBVIOUS
<1>5. ASSUME NEW m \in T PROVE N - u >= m
  <2>1. m \in 0..N /\ N - m \in 0..N /\ N - (N - m) = m
    OBVIOUS
  <2>2. N - m \in U
    BY <2>1
  <2>3. u <= N - m /\ u \in 0..N
    BY <1>3, <2>2
  <2> QED
    BY <2>1, <2>3
<1> QED
  BY <1>4, <1>5
====
