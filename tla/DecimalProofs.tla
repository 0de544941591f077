--------------------------- MODULE DecimalProofs ----------------------------
(***************************************************************************)
(* What the exact arithmetic of the evaluator computes, for amounts of any *)
(* size and scale: aligning keeps the order of amounts, adding is exact,   *)
(* and a total over a set of requests grows by the amount of each.         *)
(*                                                                         *)
(* Powers of ten and totals are recursive: their laws are by induction.    *)
(* Induction and recursion come first, in the form in which a theorem can  *)
(* be cited with a set in the place of a property: a set of numbers that   *)
(* is not empty has a least one, and a function may be defined by what it  *)
(* does with its value at the number before.                               *)
(***************************************************************************)
EXTENDS Decimals, FiniteSetTheorems, TLAPS

-----------------------------------------------------------------------------
(* Induction. *)

\* A set of natural numbers has a least one.
LEMMA LeastNumber ==
  ASSUME NEW T \in SUBSET Nat, T # {}
  PROVE  \E n \in T : \A m \in T : n <= m
<1> DEFINE R == OpToRel(<, Nat)
<1>1. IsWellFoundedOn(R, Nat)
  BY NatLessThanWellFounded
<1>2. \A x, y \in Nat : <<x, y>> \in R <=> x < y
  BY DEF OpToRel
<1> HIDE DEF R
<1>3. PICK n \in T : \A y \in T : ~(<<y, n>> \in R)
  BY <1>1, WFMin
<1>4. ASSUME NEW y \in T PROVE n <= y
  <2>1. n \in Nat /\ y \in Nat
    OBVIOUS
  <2>2. ~(y < n)
    BY <1>2, <1>3, <2>1
  <2> QED BY <2>1, <2>2
<1> QED BY <1>4

\* A set with 0 and the successor of each of its numbers has all of them.
LEMMA EveryNumber ==
  ASSUME NEW T, 0 \in T, \A n \in Nat : n \in T => n + 1 \in T
  PROVE  Nat \subseteq T
<1> SUFFICES ASSUME Nat \ T # {} PROVE FALSE
  OBVIOUS
<1>1. PICK n \in Nat \ T : \A m \in Nat \ T : n <= m
  BY LeastNumber
<1>2. n # 0 /\ n - 1 \in Nat
  BY <1>1
<1>3. n - 1 \in T
  BY <1>1, <1>2
<1> QED BY <1>1, <1>2, <1>3

\* A family with the empty set and, with each set, that set and one element
\* more, has every finite set.
LEMMA EveryFiniteSet ==
  ASSUME NEW S, IsFiniteSet(S), NEW F, {} \in F,
         \A T \in SUBSET S : \A x \in S \ T : T \in F => T \cup {x} \in F
  PROVE  S \in F
<1> DEFINE N == {n \in Nat : \A T \in SUBSET S : Cardinality(T) = n => T \in F}
<1>1. \A T \in SUBSET S : IsFiniteSet(T) /\ Cardinality(T) \in Nat
  BY FS_Subset, FS_CardinalityType
<1>2. 0 \in N
  BY <1>1, FS_EmptySet
<1>3. ASSUME NEW n \in Nat, n \in N PROVE n + 1 \in N
  <2> SUFFICES ASSUME NEW T \in SUBSET S, Cardinality(T) = n + 1 PROVE T \in F
    BY <1>3
  <2>1. T # {}
    <3>1. Cardinality({}) = 0 /\ n + 1 # 0
      BY FS_EmptySet
    <3> QED BY <3>1
  <2>2. PICK x \in T : TRUE
    BY <2>1
  <2>3. T \ {x} \in SUBSET S /\ Cardinality(T \ {x}) = n
    <3>1. Cardinality(T \ {x}) = Cardinality(T) - 1
      BY <1>1, FS_RemoveElement
    <3> QED BY <3>1
  <2>4. T \ {x} \in F
    BY <1>3, <2>3
  <2>5. T = (T \ {x}) \cup {x} /\ x \in S \ (T \ {x})
    OBVIOUS
  <2> QED BY <2>3, <2>4, <2>5
<1> HIDE DEF N
<1>4. Nat \subseteq N
  BY <1>2, <1>3, EveryNumber
<1> QED BY <1>1, <1>4 DEF N

-----------------------------------------------------------------------------
(* Recursion. *)

\* The values up to n of the recursion from a with steps F.
Values(g, n, a, F, V) ==
  g \in [0 .. n -> V] /\ \A i \in 0 .. n : g[i] = IF i = 0 THEN a ELSE F[<<i, g[i - 1]>>]

\* There are such values for every n.
LEMMA ValuesExist ==
  ASSUME NEW V, NEW a \in V, NEW F \in [Nat \X V -> V]
  PROVE  \A n \in Nat : \E g : Values(g, n, a, F, V)
<1> DEFINE T == {n \in Nat : \E g : Values(g, n, a, F, V)}
<1>1. 0 \in T
  <2>1. Values([i \in 0 .. 0 |-> a], 0, a, F, V)
    BY DEF Values
  <2> QED BY <2>1
<1>2. ASSUME NEW n \in Nat, n \in T PROVE n + 1 \in T
  <2>1. PICK g : Values(g, n, a, F, V)
    BY <1>2
  <2> DEFINE h == [i \in 0 .. (n + 1) |-> IF i = n + 1 THEN F[<<n + 1, g[n]>>] ELSE g[i]]
  <2>2. h \in [0 .. (n + 1) -> V]
    <3>1. g[n] \in V /\ <<n + 1, g[n]>> \in Nat \X V
      BY <2>1 DEF Values
    <3>2. \A i \in 0 .. (n + 1) : i # n + 1 => g[i] \in V
      BY <2>1 DEF Values
    <3> QED BY <3>1, <3>2
  <2>3. ASSUME NEW i \in 0 .. (n + 1) PROVE h[i] = IF i = 0 THEN a ELSE F[<<i, h[i - 1]>>]
    <3>1. CASE i = n + 1
      <4>1. i # 0 /\ i - 1 = n /\ n \in 0 .. (n + 1) /\ n # n + 1
        BY <3>1
      <4> QED BY <3>1, <4>1
    <3>2. CASE i \in 1 .. n
      <4>1. i # 0 /\ i \in 0 .. n /\ i - 1 \in 0 .. (n + 1) /\ i - 1 # n + 1 /\ i # n + 1
        BY <3>2
      <4>2. g[i] = F[<<i, g[i - 1]>>]
        BY <2>1, <4>1 DEF Values
      <4> QED BY <4>1, <4>2
    <3>3. CASE i = 0
      <4>1. i \in 0 .. n /\ i # n + 1
        BY <3>3
      <4>2. g[i] = a
        BY <2>1, <3>3, <4>1 DEF Values
      <4> QED BY <3>3, <4>1, <4>2
    <3> QED BY <3>1, <3>2, <3>3
  <2> HIDE DEF h
  <2>4. Values(h, n + 1, a, F, V)
    BY <2>2, <2>3 DEF Values
  <2> QED BY <2>4
<1> HIDE DEF T
<1>3. Nat \subseteq T
  BY <1>1, <1>2, EveryNumber
<1> QED BY <1>3 DEF T

\* They agree.
LEMMA ValuesAgree ==
  ASSUME NEW V, NEW a, NEW F, NEW m \in Nat, NEW n \in Nat, NEW g, NEW h,
         Values(g, m, a, F, V), Values(h, n, a, F, V)
  PROVE  \A i \in Nat : i <= m /\ i <= n => g[i] = h[i]
<1> DEFINE T == {i \in Nat : i <= m /\ i <= n => g[i] = h[i]}
<1>1. 0 \in T
  <2>1. 0 \in 0 .. m /\ 0 \in 0 .. n
    OBVIOUS
  <2>2. g[0] = a /\ h[0] = a
    BY <2>1 DEF Values
  <2> QED BY <2>2
<1>2. ASSUME NEW i \in Nat, i \in T PROVE i + 1 \in T
  <2> SUFFICES ASSUME i + 1 <= m, i + 1 <= n PROVE g[i + 1] = h[i + 1]
    OBVIOUS
  <2>1. i + 1 \in 0 .. m /\ i + 1 \in 0 .. n /\ i + 1 # 0 /\ (i + 1) - 1 = i /\ g[i] = h[i]
    BY <1>2
  <2>2. g[i + 1] = F[<<i + 1, g[i]>>] /\ h[i + 1] = F[<<i + 1, h[i]>>]
    BY <2>1 DEF Values
  <2> QED BY <2>1, <2>2
<1> HIDE DEF T
<1>3. Nat \subseteq T
  BY <1>1, <1>2, EveryNumber
<1> QED BY <1>3 DEF T

\* f begins with a, and F makes each value out of the one before.
Follows(f, a, F, V) ==
  f \in [Nat -> V] /\ f[0] = a /\ \A n \in Nat : f[n + 1] = F[<<n + 1, f[n]>>]

\* A function is given by its value at 0 and by how each value follows from the
\* one before.
LEMMA Recursion ==
  ASSUME NEW V, NEW a \in V, NEW F \in [Nat \X V -> V]
  PROVE  \E f : Follows(f, a, F, V)
<1> DEFINE upTo(n) == CHOOSE g : Values(g, n, a, F, V)
           f == [n \in Nat |-> upTo(n)[n]]
<1>1. \A n \in Nat : Values(upTo(n), n, a, F, V)
  BY ValuesExist
<1> HIDE DEF upTo
<1>2. f \in [Nat -> V]
  BY <1>1 DEF Values
<1>3. f[0] = a
  <2>1. 0 \in 0 .. 0 /\ Values(upTo(0), 0, a, F, V)
    BY <1>1
  <2> QED BY <2>1 DEF Values
<1>4. ASSUME NEW n \in Nat PROVE f[n + 1] = F[<<n + 1, f[n]>>]
  <2>1. n + 1 \in Nat /\ n + 1 \in 0 .. (n + 1) /\ n + 1 # 0 /\ (n + 1) - 1 = n /\ n <= n + 1 /\ n <= n
    OBVIOUS
  <2>2. Values(upTo(n + 1), n + 1, a, F, V) /\ Values(upTo(n), n, a, F, V)
    BY <1>1, <2>1
  <2>3. upTo(n + 1)[n + 1] = F[<<n + 1, upTo(n + 1)[n]>>]
    BY <2>1, <2>2 DEF Values
  <2>4. upTo(n + 1)[n] = upTo(n)[n]
    BY <2>1, <2>2, ValuesAgree
  <2>5. f[n + 1] = upTo(n + 1)[n + 1] /\ f[n] = upTo(n)[n]
    BY <2>1
  <2> QED BY <2>3, <2>4, <2>5
<1> HIDE DEF f
<1> QED BY <1>2, <1>3, <1>4 DEF Follows

-----------------------------------------------------------------------------
(* Powers of ten. *)

\* The recursion of tenTo.
LEMMA TenTo ==
  /\ tenTo[0] = 1
  /\ \A n \in Nat : tenTo[n + 1] = 10 * tenTo[n]
<1> DEFINE F == [p \in Nat \X Nat |-> 10 * p[2]]
<1>1. F \in [Nat \X Nat -> Nat] /\ \A n, m \in Nat : F[<<n, m>>] = 10 * m
  OBVIOUS
<1> HIDE DEF F
<1>2. PICK f : Follows(f, 1, F, Nat)
  <2>1. 1 \in Nat
    OBVIOUS
  <2> QED BY <1>1, <2>1, Recursion
<1>3. ASSUME NEW n \in Nat PROVE f[n] = IF n = 0 THEN 1 ELSE 10 * f[n - 1]
  <2>1. CASE n # 0
    <3>1. n - 1 \in Nat /\ (n - 1) + 1 = n /\ f[n - 1] \in Nat
      BY <1>2, <2>1 DEF Follows
    <3>2. f[n] = F[<<n, f[n - 1]>>]
      BY <1>2, <3>1 DEF Follows
    <3> QED BY <1>1, <2>1, <3>1, <3>2
  <2> QED BY <1>2, <2>1 DEF Follows
<1>4. f = [n \in Nat |-> IF n = 0 THEN 1 ELSE 10 * f[n - 1]]
  BY <1>2, <1>3 DEF Follows
<1>5. tenTo = [n \in Nat |-> IF n = 0 THEN 1 ELSE 10 * tenTo[n - 1]]
  BY <1>4 DEF tenTo
<1>6. ASSUME NEW n \in Nat PROVE tenTo[n] = IF n = 0 THEN 1 ELSE 10 * tenTo[n - 1]
  BY <1>5
<1>7. ASSUME NEW n \in Nat PROVE tenTo[n + 1] = 10 * tenTo[n]
  <2>1. n + 1 \in Nat /\ n + 1 # 0 /\ (n + 1) - 1 = n
    OBVIOUS
  <2> QED BY <1>6, <2>1
<1> QED BY <1>6, <1>7

\* Powers of ten are positive.
LEMMA TenToPositive == \A n \in Nat : tenTo[n] \in Nat \ {0}
<1> DEFINE T == {n \in Nat : tenTo[n] \in Nat \ {0}}
<1>1. 0 \in T
  BY TenTo
<1>2. ASSUME NEW n \in Nat, n \in T PROVE n + 1 \in T
  BY <1>2, TenTo
<1> HIDE DEF T
<1>3. Nat \subseteq T
  BY <1>1, <1>2, EveryNumber
<1> QED BY <1>3 DEF T

\* The law of exponents.
LEMMA TenToSum == \A m, n \in Nat : tenTo[m + n] = tenTo[m] * tenTo[n]
<1> SUFFICES ASSUME NEW m \in Nat PROVE \A n \in Nat : tenTo[m + n] = tenTo[m] * tenTo[n]
  OBVIOUS
<1> DEFINE T == {n \in Nat : tenTo[m + n] = tenTo[m] * tenTo[n]}
<1>1. 0 \in T
  <2>1. m + 0 = m /\ tenTo[m] * 1 = tenTo[m]
    BY TenToPositive
  <2> QED BY <2>1, TenTo
<1>2. ASSUME NEW n \in Nat, n \in T PROVE n + 1 \in T
  <2>1. m + (n + 1) = (m + n) + 1 /\ m + n \in Nat
    OBVIOUS
  <2>2. tenTo[m + (n + 1)] = 10 * tenTo[m + n] /\ tenTo[n + 1] = 10 * tenTo[n]
    BY <2>1, TenTo
  <2>3. PICK a \in Nat, b \in Nat : a = tenTo[m] /\ b = tenTo[n]
    BY TenToPositive
  <2>4. 10 * (a * b) = a * (10 * b)
    OBVIOUS
  <2>5. tenTo[m + n] = a * b
    BY <1>2, <2>3
  <2>6. tenTo[m + (n + 1)] = tenTo[m] * tenTo[n + 1]
    BY <2>2, <2>3, <2>4, <2>5
  <2> QED BY <2>6
<1> HIDE DEF T
<1>3. Nat \subseteq T
  BY <1>1, <1>2, EveryNumber
<1> QED BY <1>3 DEF T

-----------------------------------------------------------------------------
(* Totals: MapThenSumSet takes the elements of a set out one by one. *)

pick(s) == CHOOSE x \in s : TRUE

\* What is still to add when s is left.
addUp(g, s, a) == IF s = {} THEN 0 ELSE a[pick(s)] + g[s \ {pick(s)}]

isSum(g, S, a) == g = [s \in SUBSET S |-> addUp(g, s, a)]

sumOver(S, a) == CHOOSE g : isSum(g, S, a)

Total(S, a) == MapThenSumSet(LAMBDA r : a[r], S)

\* The definition of MapThenSumSet.
LEMMA TotalDef == ASSUME NEW S, NEW a PROVE Total(S, a) = sumOver(S, a)[S]
BY DEF Total, MapThenSumSet, MapThenFoldSet, sumOver, isSum, addUp, pick

\* The element taken out is one of the set, and what is left is smaller.
LEMMA PickSmaller ==
  ASSUME NEW S, IsFiniteSet(S), NEW s \in SUBSET S, s # {}
  PROVE  /\ pick(s) \in s /\ s \ {pick(s)} \in SUBSET S
         /\ Cardinality(s) \in Nat /\ Cardinality(s \ {pick(s)}) \in Nat
         /\ Cardinality(s \ {pick(s)}) + 1 = Cardinality(s)
<1>1. pick(s) \in s
  BY DEF pick
<1>2. IsFiniteSet(s) /\ IsFiniteSet(s \ {pick(s)})
  BY <1>1, FS_Subset
<1>3. Cardinality(s) \in Nat /\ Cardinality(s \ {pick(s)}) \in Nat
  BY <1>2, FS_CardinalityType
<1>4. Cardinality(s \ {pick(s)}) = Cardinality(s) - 1
  BY <1>1, <1>2, FS_RemoveElement
<1> QED BY <1>1, <1>3, <1>4

\* Adding up the elements of a finite set comes to an end.
LEMMA SumExists ==
  ASSUME NEW S, IsFiniteSet(S), NEW a, \A x \in S : a[x] \in Nat
  PROVE  \E g \in [SUBSET S -> Nat] : isSum(g, S, a)
<1> DEFINE good(g, n) == /\ g \in [SUBSET S -> Nat]
                         /\ \A s \in SUBSET S : Cardinality(s) <= n => g[s] = addUp(g, s, a)
           N == {n \in Nat : \E g : good(g, n)}
<1>0. \A s \in SUBSET S : Cardinality(s) \in Nat /\ IsFiniteSet(s)
  BY FS_Subset, FS_CardinalityType
<1>1. 0 \in N
  <2> DEFINE g == [s \in SUBSET S |-> 0]
  <2>1. ASSUME NEW s \in SUBSET S, Cardinality(s) <= 0 PROVE s = {}
    <3>1. Cardinality(s) = 0
      BY <1>0, <2>1
    <3> QED BY <1>0, <3>1, FS_EmptySet
  <2>2. good(g, 0)
    BY <2>1 DEF addUp
  <2> HIDE DEF g, good
  <2> QED BY <2>2
<1>2. ASSUME NEW n \in Nat, n \in N PROVE n + 1 \in N
  <2>1. PICK g : good(g, n)
    BY <1>2
  <2> DEFINE h == [s \in SUBSET S |-> addUp(g, s, a)]
  <2>2. h \in [SUBSET S -> Nat]
    <3> SUFFICES ASSUME NEW s \in SUBSET S PROVE addUp(g, s, a) \in Nat
      OBVIOUS
    <3>1. CASE s = {}
      BY <3>1 DEF addUp
    <3>2. CASE s # {}
      <4>1. a[pick(s)] \in Nat /\ g[s \ {pick(s)}] \in Nat
        BY <2>1, <3>2, PickSmaller
      <4> QED BY <4>1, <3>2 DEF addUp
    <3> QED BY <3>1, <3>2
  <2>3. ASSUME NEW s \in SUBSET S, Cardinality(s) <= n + 1 PROVE h[s] = addUp(h, s, a)
    <3>1. CASE s = {}
      BY <3>1 DEF addUp
    <3>2. CASE s # {}
      <4> DEFINE s1 == s \ {pick(s)}
      <4>1. s1 \in SUBSET S /\ Cardinality(s1) <= n
        BY <2>3, <3>2, PickSmaller
      <4>2. g[s1] = addUp(g, s1, a)
        BY <4>1, <2>1
      <4>3. h[s1] = g[s1]
        BY <4>1, <4>2
      <4> QED BY <3>2, <4>3 DEF addUp
    <3> QED BY <3>1, <3>2
  <2> HIDE DEF h
  <2>4. good(h, n + 1)
    BY <2>2, <2>3
  <2> HIDE DEF good
  <2> QED BY <2>4
<1> HIDE DEF N
<1>3. Nat \subseteq N
  BY <1>1, <1>2, EveryNumber
<1>4. PICK g : good(g, Cardinality(S))
  BY <1>0, <1>3 DEF N
<1>5. \A s \in SUBSET S : g[s] = addUp(g, s, a)
  <2> SUFFICES ASSUME NEW s \in SUBSET S PROVE Cardinality(s) <= Cardinality(S)
    BY <1>4
  <2> QED BY FS_Subset
<1>6. isSum(g, S, a)
  BY <1>4, <1>5 DEF isSum
<1> QED BY <1>4, <1>6

\* The recursion behind a total.
LEMMA SumUnfold ==
  ASSUME NEW S, IsFiniteSet(S), NEW a, \A x \in S : a[x] \in Nat
  PROVE  \A s \in SUBSET S : sumOver(S, a)[s] = addUp(sumOver(S, a), s, a)
<1>1. \E g : isSum(g, S, a)
  BY SumExists
<1>2. isSum(sumOver(S, a), S, a)
  BY <1>1 DEF sumOver
<1> DEFINE g == sumOver(S, a)
<1>3. g = [s \in SUBSET S |-> addUp(g, s, a)]
  BY <1>2 DEF isSum
<1> HIDE DEF g
<1>4. \A s \in SUBSET S : g[s] = addUp(g, s, a)
  BY <1>3
<1> QED BY <1>4 DEF g

\* A part of a set adds up to the same on its own.
LEMMA SumsAgree ==
  ASSUME NEW S, IsFiniteSet(S), NEW a, \A x \in S : a[x] \in Nat, NEW T \in SUBSET S
  PROVE  \A s \in SUBSET T : sumOver(S, a)[s] = sumOver(T, a)[s]
<1> DEFINE g == sumOver(S, a)
           h == sumOver(T, a)
           N == {n \in Nat : \A s \in SUBSET T : Cardinality(s) = n => g[s] = h[s]}
<1>0. IsFiniteSet(T) /\ \A s \in SUBSET T : Cardinality(s) \in Nat /\ IsFiniteSet(s)
  BY FS_Subset, FS_CardinalityType
<1>1. /\ \A s \in SUBSET T : g[s] = addUp(g, s, a)
      /\ \A s \in SUBSET T : h[s] = addUp(h, s, a)
  BY <1>0, SumUnfold
<1> HIDE DEF g, h
<1>2. 0 \in N
  <2> SUFFICES ASSUME NEW s \in SUBSET T, Cardinality(s) = 0 PROVE g[s] = h[s]
    OBVIOUS
  <2>1. s = {}
    BY <1>0, FS_EmptySet
  <2>2. addUp(g, s, a) = 0 /\ addUp(h, s, a) = 0
    BY <2>1 DEF addUp
  <2> QED BY <1>1, <2>2
<1>3. ASSUME NEW n \in Nat, n \in N PROVE n + 1 \in N
  <2> SUFFICES ASSUME NEW s \in SUBSET T, Cardinality(s) = n + 1 PROVE g[s] = h[s]
    BY <1>3
  <2>1. s # {}
    <3>1. Cardinality({}) = 0 /\ n + 1 # 0
      BY FS_EmptySet
    <3> QED BY <3>1
  <2> DEFINE s1 == s \ {pick(s)}
  <2>2. s1 \in SUBSET T /\ Cardinality(s1) = n
    BY <1>0, <2>1, PickSmaller
  <2>3. g[s1] = h[s1]
    BY <1>3, <2>2
  <2>4. addUp(g, s, a) = addUp(h, s, a)
    BY <2>1, <2>3 DEF addUp
  <2> QED BY <1>1, <2>4
<1> HIDE DEF N
<1>4. Nat \subseteq N
  BY <1>2, <1>3, EveryNumber
<1> QED BY <1>0, <1>4 DEF N, g, h

\* The total of no requests is 0; one request is taken out of any others.
LEMMA TotalRest ==
  ASSUME NEW S, IsFiniteSet(S), NEW a, \A x \in S : a[x] \in Nat
  PROVE  /\ S = {} => Total(S, a) = 0
         /\ S # {} => Total(S, a) = a[pick(S)] + Total(S \ {pick(S)}, a)
<1>1. Total(S, a) = addUp(sumOver(S, a), S, a)
  BY TotalDef, SumUnfold
<1>2. ASSUME S = {} PROVE Total(S, a) = 0
  BY <1>1, <1>2 DEF addUp
<1>3. ASSUME S # {} PROVE Total(S, a) = a[pick(S)] + Total(S \ {pick(S)}, a)
  <2> DEFINE T == S \ {pick(S)}
  <2>1. sumOver(S, a)[T] = sumOver(T, a)[T]
    BY SumsAgree
  <2>2. Total(T, a) = sumOver(T, a)[T]
    BY TotalDef
  <2> QED BY <1>1, <1>3, <2>1, <2>2 DEF addUp
<1> QED BY <1>2, <1>3

\* A total is a natural number.
LEMMA TotalType ==
  ASSUME NEW S, IsFiniteSet(S), NEW a, \A x \in S : a[x] \in Nat
  PROVE  Total(S, a) \in Nat
<1> DEFINE N == {n \in Nat : \A s \in SUBSET S : Cardinality(s) = n => Total(s, a) \in Nat}
<1>0. \A s \in SUBSET S : Cardinality(s) \in Nat /\ IsFiniteSet(s)
  BY FS_Subset, FS_CardinalityType
<1>1. 0 \in N
  <2> SUFFICES ASSUME NEW s \in SUBSET S, Cardinality(s) = 0 PROVE Total(s, a) = 0
    OBVIOUS
  <2>1. s = {}
    BY <1>0, FS_EmptySet
  <2> QED BY <1>0, <2>1, TotalRest
<1>2. ASSUME NEW n \in Nat, n \in N PROVE n + 1 \in N
  <2> SUFFICES ASSUME NEW s \in SUBSET S, Cardinality(s) = n + 1 PROVE Total(s, a) \in Nat
    BY <1>2
  <2>1. s # {}
    <3>1. Cardinality({}) = 0 /\ n + 1 # 0
      BY FS_EmptySet
    <3> QED BY <3>1
  <2> DEFINE s1 == s \ {pick(s)}
  <2>2. pick(s) \in S /\ s1 \in SUBSET S /\ Cardinality(s1) = n
    BY <1>0, <2>1, PickSmaller
  <2>3. Total(s1, a) \in Nat
    BY <1>2, <2>2
  <2>4. Total(s, a) = a[pick(s)] + Total(s1, a)
    BY <1>0, <2>1, TotalRest
  <2> QED BY <2>2, <2>3, <2>4
<1> HIDE DEF N
<1>3. Nat \subseteq N
  BY <1>1, <1>2, EveryNumber
<1> QED BY <1>0, <1>3 DEF N

\* One more request adds what it is worth, whichever order they are added in.
LEMMA TotalAdd ==
  ASSUME NEW U, IsFiniteSet(U), NEW a, \A x \in U : a[x] \in Nat,
         NEW S \in SUBSET U, NEW x \in U \ S
  PROVE  Total(S \cup {x}, a) = Total(S, a) + a[x]
<1> DEFINE N == {n \in Nat : \A T \in SUBSET U : \A y \in U \ T :
                   Cardinality(T) = n => Total(T \cup {y}, a) = Total(T, a) + a[y]}
<1>0. \A s \in SUBSET U : /\ Cardinality(s) \in Nat /\ IsFiniteSet(s)
                          /\ \A z \in s : a[z] \in Nat
                          /\ Total(s, a) \in Nat
  BY FS_Subset, FS_CardinalityType, TotalType
<1>1. 0 \in N
  <2> SUFFICES ASSUME NEW T \in SUBSET U, NEW y \in U \ T, Cardinality(T) = 0
               PROVE  Total(T \cup {y}, a) = Total(T, a) + a[y]
    OBVIOUS
  <2>1. T = {} /\ T \cup {y} = {y} /\ {y} \in SUBSET U
    BY <1>0, FS_EmptySet
  <2>2. Total(T, a) = 0
    BY <1>0, <2>1, TotalRest
  <2>3. pick({y}) = y /\ {y} \ {pick({y})} = {}
    BY DEF pick
  <2>4. Total({y}, a) = a[y] + Total({}, a)
    BY <1>0, <2>1, <2>3, TotalRest
  <2> QED BY <1>0, <2>1, <2>2, <2>4
<1>2. ASSUME NEW n \in Nat, n \in N PROVE n + 1 \in N
  <2> SUFFICES ASSUME NEW T \in SUBSET U, NEW y \in U \ T, Cardinality(T) = n + 1
               PROVE  Total(T \cup {y}, a) = Total(T, a) + a[y]
    BY <1>2
  <2> DEFINE V == T \cup {y}
             p == pick(V)
  <2>1. V \in SUBSET U /\ V # {} /\ p \in V
    BY DEF pick
  <2>2. Total(V, a) = a[p] + Total(V \ {p}, a)
    BY <1>0, <2>1, TotalRest
  <2> HIDE DEF p
  <2>3. CASE p = y
    <3>1. V \ {p} = T
      BY <2>3
    <3>2. Total(V, a) = a[y] + Total(T, a) /\ a[y] \in Nat /\ Total(T, a) \in Nat
      BY <1>0, <2>2, <2>3, <3>1
    <3> HIDE DEF V
    <3>3. Total(V, a) = Total(T, a) + a[y]
      BY <3>2
    <3> QED BY <3>3 DEF V
  <2>4. CASE p # y
    <3> DEFINE T1 == T \ {p}
    <3>1. p \in T /\ T1 \in SUBSET U /\ V \ {p} = T1 \cup {y} /\ T = T1 \cup {p}
          /\ y \in U \ T1 /\ p \in U \ T1
      BY <2>1, <2>4
    <3>2. Cardinality(T1) = n
      <4>1. Cardinality(T1) = Cardinality(T) - 1
        BY <1>0, <3>1, FS_RemoveElement
      <4> QED BY <4>1
    <3> HIDE DEF T1
    <3>3. Total(T1 \cup {y}, a) = Total(T1, a) + a[y]
      BY <1>2, <3>1, <3>2
    <3>4. Total(T1 \cup {p}, a) = Total(T1, a) + a[p]
      BY <1>2, <3>1, <3>2
    <3>5. Total(V, a) = a[p] + Total(T1 \cup {y}, a) /\ Total(T, a) = Total(T1 \cup {p}, a)
      BY <2>2, <3>1
    <3>6. Total(T1, a) \in Nat /\ a[y] \in Nat /\ a[p] \in Nat
      BY <1>0, <3>1
    <3> HIDE DEF V
    <3>7. Total(V, a) = Total(T, a) + a[y]
      BY <3>3, <3>4, <3>5, <3>6
    <3> QED BY <3>7 DEF V
  <2> QED BY <2>3, <2>4
<1> HIDE DEF N
<1>3. Nat \subseteq N
  BY <1>1, <1>2, EveryNumber
<1> QED BY <1>0, <1>3 DEF N

\* A part of the requests totals no more than all of them.
LEMMA TotalMonotone ==
  ASSUME NEW S, IsFiniteSet(S), NEW a, \A x \in S : a[x] \in Nat, NEW T \in SUBSET S
  PROVE  Total(T, a) <= Total(S, a)
<1> DEFINE F == {U \in SUBSET S : Total(T, a) <= Total(T \cup U, a)}
<1>0. IsFiniteSet(S \ T) /\ \A U \in SUBSET S : Total(U, a) \in Nat
  BY FS_Subset, TotalType
<1>1. {} \in F
  <2>1. T \cup {} = T
    OBVIOUS
  <2> QED BY <1>0, <2>1
<1>2. ASSUME NEW U \in SUBSET (S \ T), NEW x \in (S \ T) \ U, U \in F PROVE U \cup {x} \in F
  <2>1. T \cup (U \cup {x}) = (T \cup U) \cup {x} /\ T \cup U \in SUBSET S
        /\ x \in S \ (T \cup U) /\ U \cup {x} \in SUBSET S
    OBVIOUS
  <2>2. Total((T \cup U) \cup {x}, a) = Total(T \cup U, a) + a[x]
    BY <2>1, TotalAdd
  <2>3. Total(T, a) <= Total(T \cup U, a) /\ a[x] \in Nat
        /\ Total(T, a) \in Nat /\ Total(T \cup U, a) \in Nat
    BY <1>0, <1>2, <2>1
  <2>4. Total(T, a) <= Total((T \cup U) \cup {x}, a)
    BY <2>2, <2>3
  <2> QED BY <2>1, <2>4
<1> HIDE DEF F
<1>3. S \ T \in F
  BY <1>0, <1>1, <1>2, EveryFiniteSet
<1>4. T \cup (S \ T) = S
  OBVIOUS
<1> QED BY <1>3, <1>4 DEF F

\* In smaller units every amount and so the total is multiplied by the same.
LEMMA TotalScaled ==
  ASSUME NEW S, IsFiniteSet(S), NEW a, NEW b, NEW k \in Nat,
         \A x \in S : a[x] \in Nat /\ b[x] = a[x] * k
  PROVE  Total(S, b) = Total(S, a) * k
<1> DEFINE F == {U \in SUBSET S : Total(U, b) = Total(U, a) * k}
<1>0. \A x \in S : a[x] \in Nat /\ b[x] \in Nat
  OBVIOUS
<1>1. {} \in F
  <2>1. IsFiniteSet({})
    BY FS_EmptySet
  <2>2. \A c : Total({}, c) = 0
    BY <2>1, TotalRest
  <2>3. 0 * k = 0
    OBVIOUS
  <2> QED BY <2>2, <2>3
<1>2. ASSUME NEW U \in SUBSET S, NEW x \in S \ U, U \in F PROVE U \cup {x} \in F
  <2>1. Total(U \cup {x}, a) = Total(U, a) + a[x] /\ Total(U \cup {x}, b) = Total(U, b) + b[x]
    BY <1>0, TotalAdd
  <2>2. IsFiniteSet(U)
    BY FS_Subset
  <2>0. Total(U, a) \in Nat /\ a[x] \in Nat
    BY <1>0, <2>2, TotalType
  <2>3. PICK t \in Nat, v \in Nat : t = Total(U, a) /\ v = a[x]
    BY <2>0
  <2>4. (t + v) * k = t * k + v * k
    OBVIOUS
  <2>5. Total(U, b) = t * k /\ b[x] = v * k
    BY <1>2, <2>3
  <2>6. Total(U \cup {x}, b) = Total(U \cup {x}, a) * k
    BY <2>1, <2>3, <2>4, <2>5
  <2> QED BY <2>6
<1> HIDE DEF F
<1>3. S \in F
  BY <1>1, <1>2, EveryFiniteSet
<1> QED BY <1>3 DEF F

\* A total depends on the amounts of its requests only.
LEMMA TotalSame ==
  ASSUME NEW S, IsFiniteSet(S), NEW a, NEW b, \A x \in S : a[x] \in Nat /\ b[x] = a[x]
  PROVE  Total(S, b) = Total(S, a)
<1>1. \A x \in S : a[x] \in Nat /\ b[x] = a[x] * 1
  OBVIOUS
<1>2. Total(S, b) = Total(S, a) * 1 /\ Total(S, a) \in Nat
  BY <1>1, TotalScaled, TotalType
<1> QED BY <1>2

-----------------------------------------------------------------------------
(* Decimals. *)

\* The larger of two integers (commonScale, replayTtl).
LEMMA MaxOfTwo ==
  ASSUME NEW a \in Int, NEW b \in Int
  PROVE  Max({a, b}) \in {a, b} /\ Max({a, b}) >= a /\ Max({a, b}) >= b
<1>1. \E x \in {a, b} : \A y \in {a, b} : x >= y
  <2>1. CASE a >= b
    BY <2>1
  <2>2. CASE b >= a
    BY <2>2
  <2> QED BY <2>1, <2>2
<1> QED BY <1>1 DEF Max

\* Both of two amounts can be written with commonScale digits.
LEMMA CommonScale ==
  ASSUME NEW x \in Decimal, NEW y \in Decimal
  PROVE  /\ commonScale(x, y) \in Nat
         /\ commonScale(x, y) >= x.scale /\ commonScale(x, y) >= y.scale
         /\ commonScale(x, y) \in {x.scale, y.scale}
<1>1. PICK a \in Nat, b \in Nat : a = x.scale /\ b = y.scale
  BY DEF Decimal
<1>2. commonScale(x, y) = Max({a, b})
  BY <1>1 DEF commonScale
<1>3. Max({a, b}) \in {a, b} /\ Max({a, b}) >= a /\ Max({a, b}) >= b
  BY MaxOfTwo
<1> QED BY <1>1, <1>2, <1>3

\* Aligning gives a natural number.
LEMMA AlignedType ==
  ASSUME NEW x \in Decimal, NEW s \in Nat, x.scale <= s
  PROVE  aligned(x, s) \in Nat
<1>1. s - x.scale \in Nat /\ x.coefficient \in Nat
  BY DEF Decimal
<1>2. PICK p \in Nat, c \in Nat : p = tenTo[s - x.scale] /\ c = x.coefficient
  BY <1>1, TenToPositive
<1>3. c * p \in Nat
  OBVIOUS
<1> QED BY <1>2, <1>3 DEF aligned

\* With k digits more, 10 ** k times as much.
LEMMA AlignedFiner ==
  ASSUME NEW x \in Decimal, NEW s \in Nat, x.scale <= s, NEW k \in Nat
  PROVE  aligned(x, s + k) = aligned(x, s) * tenTo[k]
<1>1. PICK d \in Nat, c \in Nat : s - x.scale = d /\ c = x.coefficient
  BY DEF Decimal
<1>2. (s + k) - x.scale = d + k
  BY <1>1 DEF Decimal
<1>3. PICK p \in Nat, q \in Nat : p = tenTo[d] /\ q = tenTo[k]
  BY TenToPositive
<1>4. tenTo[d + k] = p * q
  BY <1>3, TenToSum
<1>5. c * (p * q) = (c * p) * q
  OBVIOUS
<1>6. aligned(x, s + k) = c * tenTo[d + k] /\ aligned(x, s) = c * tenTo[d]
  BY <1>1, <1>2 DEF aligned
<1> QED BY <1>3, <1>4, <1>5, <1>6

\* Multiplying by a positive number keeps the order.
LEMMA TimesKeepsOrder ==
  ASSUME NEW a \in Nat, NEW b \in Nat, NEW p \in Nat \ {0}
  PROVE  a <= b <=> a * p <= b * p
<1>1. ASSUME NEW x \in Nat, NEW y \in Nat, x <= y PROVE x * p <= y * p
  <2>1. PICK d \in Nat : y = x + d
    BY <1>1
  <2>2. (x + d) * p = x * p + d * p /\ x * p \in Nat /\ d * p \in Nat
    OBVIOUS
  <2> QED BY <2>1, <2>2
<1>2. ASSUME ~(a <= b) PROVE ~(a * p <= b * p)
  <2>1. b + 1 <= a /\ b + 1 \in Nat
    BY <1>2
  <2>2. (b + 1) * p <= a * p
    BY <1>1, <2>1
  <2>3. (b + 1) * p = b * p + p /\ b * p \in Nat /\ a * p \in Nat
    OBVIOUS
  <2> QED BY <2>2, <2>3
<1> QED BY <1>1, <1>2

\* Amounts compare alike at every scale both can be written with.
THEOREM CompareAligned ==
  ASSUME NEW x \in Decimal, NEW y \in Decimal, NEW s \in Nat, x.scale <= s, y.scale <= s
  PROVE  decimalAtMost(x, y) <=> aligned(x, s) <= aligned(y, s)
<1> DEFINE c == commonScale(x, y)
<1>1. c \in Nat /\ x.scale <= c /\ y.scale <= c /\ c <= s
  BY CommonScale DEF Decimal
<1>2. decimalAtMost(x, y) <=> aligned(x, c) <= aligned(y, c)
  <2>1. PICK a \in Nat, b \in Nat : a = aligned(x, c) /\ b = aligned(y, c)
    BY <1>1, AlignedType
  <2>2. compareDecimal(x, y) = IF a = b THEN 0 ELSE IF a > b THEN 1 ELSE -1
    BY <2>1 DEF compareDecimal
  <2> QED BY <2>1, <2>2 DEF decimalAtMost
<1> HIDE DEF c
<1>3. PICK k \in Nat : s = c + k
  BY <1>1
<1>4. aligned(x, s) = aligned(x, c) * tenTo[k] /\ aligned(y, s) = aligned(y, c) * tenTo[k]
  BY <1>1, <1>3, AlignedFiner
<1>5. aligned(x, c) <= aligned(y, c) <=> aligned(x, c) * tenTo[k] <= aligned(y, c) * tenTo[k]
  BY <1>1, AlignedType, TenToPositive, TimesKeepsOrder
<1> QED BY <1>2, <1>4, <1>5

\* The sum of two amounts is exact.
THEOREM AddAligned ==
  ASSUME NEW x \in Decimal, NEW y \in Decimal
  PROVE  /\ addDecimal(x, y) \in Decimal
         /\ addDecimal(x, y).scale = commonScale(x, y)
         /\ \A s \in Nat : commonScale(x, y) <= s =>
              aligned(addDecimal(x, y), s) = aligned(x, s) + aligned(y, s)
<1> DEFINE c == commonScale(x, y)
           z == addDecimal(x, y)
<1>1. c \in Nat /\ x.scale <= c /\ y.scale <= c
  BY CommonScale DEF Decimal
<1>2. PICK a \in Nat, b \in Nat : a = aligned(x, c) /\ b = aligned(y, c)
  BY <1>1, AlignedType
<1>3. z = D(a + b, c)
  BY <1>2 DEF addDecimal
<1> HIDE DEF c, z
<1>4. z \in Decimal /\ z.scale = c /\ z.coefficient = a + b
  BY <1>1, <1>3 DEF D, Decimal
<1>5. ASSUME NEW s \in Nat, c <= s PROVE aligned(z, s) = aligned(x, s) + aligned(y, s)
  <2>1. PICK k \in Nat : s = c + k
    BY <1>1, <1>5
  <2>2. PICK p \in Nat : p = tenTo[k]
    BY TenToPositive
  <2>3. s - c = k
    BY <1>1, <2>1
  <2>4. aligned(z, s) = (a + b) * p
    BY <1>4, <2>2, <2>3 DEF aligned
  <2>5. aligned(x, s) = a * p /\ aligned(y, s) = b * p
    BY <1>1, <1>2, <2>1, <2>2, AlignedFiner
  <2>6. (a + b) * p = a * p + b * p
    OBVIOUS
  <2> QED BY <2>4, <2>5, <2>6
<1> QED BY <1>4, <1>5 DEF c, z

\* The largest of finitely many scales.
LEMMA MaxOfFinite ==
  ASSUME NEW S \in SUBSET Nat, IsFiniteSet(S), S # {}
  PROVE  Max(S) \in S /\ \A y \in S : y <= Max(S)
<1> DEFINE F == {T \in SUBSET S : T # {} => \E x \in T : \A y \in T : x >= y}
<1>1. {} \in F
  OBVIOUS
<1>2. ASSUME NEW T \in SUBSET S, NEW x \in S \ T, T \in F PROVE T \cup {x} \in F
  <2>1. CASE T = {}
    BY <2>1
  <2>2. CASE T # {}
    <3>1. PICK m \in T : \A y \in T : m >= y
      BY <1>2, <2>2
    <3>2. m \in Nat /\ x \in Nat /\ T \subseteq Nat
      OBVIOUS
    <3>3. CASE m >= x
      <4>1. \A y \in T \cup {x} : m >= y
        BY <3>1, <3>3
      <4> QED BY <4>1
    <3>4. CASE x >= m
      <4>1. \A y \in T \cup {x} : x >= y
        BY <3>1, <3>2, <3>4
      <4> QED BY <4>1
    <3> QED BY <3>2, <3>3, <3>4
  <2> QED BY <2>1, <2>2
<1> HIDE DEF F
<1>3. S \in F
  BY <1>1, <1>2, EveryFiniteSet
<1>4. \E x \in S : \A y \in S : x >= y
  BY <1>3 DEF F
<1>5. Max(S) \in S /\ \A y \in S : Max(S) >= y
  BY <1>4 DEF Max
<1> QED BY <1>5

\* compareDecimal returns -1, 0 or 1.
LEMMA AtMostUnlessAbove ==
  ASSUME NEW x, NEW y
  PROVE  decimalAtMost(x, y) <=> ~(compareDecimal(x, y) > 0)
<1>1. compareDecimal(x, y) \in {-1, 0, 1}
  BY DEF compareDecimal
<1> QED BY <1>1 DEF decimalAtMost

\* Adding the literal "0" changes nothing, the number of digits included.
LEMMA AddZero ==
  ASSUME NEW x \in Decimal
  PROVE  addDecimal(x, ZeroText) = x
<1>1. PICK c \in Nat, s \in Nat : x = D(c, s)
  BY DEF Decimal, D
<1>2. x.coefficient = c /\ x.scale = s /\ ZeroText.coefficient = 0 /\ ZeroText.scale = 0
      /\ ZeroText \in Decimal
  BY <1>1 DEF D, ZeroText, Decimal
<1>3. commonScale(x, ZeroText) = s
  BY <1>2, CommonScale
<1>4. s - s = 0 /\ tenTo[0] = 1 /\ tenTo[s] \in Nat /\ s - 0 = s
  BY TenTo, TenToPositive
<1>5. aligned(x, s) = c
  BY <1>2, <1>4 DEF aligned
<1>6. aligned(ZeroText, s) = 0
  BY <1>2, <1>4 DEF aligned
<1> QED BY <1>1, <1>3, <1>5, <1>6 DEF addDecimal

\* An amount never falls when another is added.
LEMMA AddAtLeast ==
  ASSUME NEW x \in Decimal, NEW y \in Decimal
  PROVE  decimalAtMost(x, addDecimal(x, y))
<1> DEFINE c == commonScale(x, y)
           z == addDecimal(x, y)
<1>1. c \in Nat /\ x.scale <= c /\ y.scale <= c
  BY CommonScale DEF Decimal
<1>2. z \in Decimal /\ z.scale = c /\ c <= c /\ aligned(z, c) = aligned(x, c) + aligned(y, c)
  BY <1>1, AddAligned
<1>3. aligned(x, c) \in Nat /\ aligned(y, c) \in Nat
  BY <1>1, AlignedType
<1> HIDE DEF c, z
<1>4. decimalAtMost(x, z) <=> aligned(x, c) <= aligned(z, c)
  BY <1>1, <1>2, CompareAligned
<1>5. decimalAtMost(x, z)
  BY <1>2, <1>3, <1>4
<1> QED BY <1>5 DEF z
=============================================================================
