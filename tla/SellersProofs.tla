---------------------------- MODULE SellersProofs ----------------------------
(***************************************************************************)
(* What holds of the sandbox's answers for every request it can be sent,   *)
(* with amounts of any size and scale.                                     *)
(*                                                                         *)
(* The profile validators compare amounts as texts, the evaluator as       *)
(* numbers.  The first part shows that the digits of a number spell it,    *)
(* and so that both orders are one.  The second reads what a request, its  *)
(* evaluation and its answer say, and shows as an invariant that a trusted *)
(* request has the answer that its seller computes.  The properties of     *)
(* Sellers follow from it, seller by seller.                               *)
(***************************************************************************)
EXTENDS Sellers, DecimalProofs, SequenceTheorems

-----------------------------------------------------------------------------
(* Numbers and their digits. *)

Digit == 0 .. 9

\* p holds the numbers that the beginnings of the text s spell.
Beginnings(s, p) ==
  /\ p \in [0 .. Len(s) -> Nat] /\ p[0] = 0
  /\ \A i \in 1 .. Len(s) : p[i] = 10 * p[i - 1] + s[i]

Spells(s, n) == s \in Seq(Digit) /\ \E p : Beginnings(s, p) /\ p[Len(s)] = n

\* One digit spells itself.
LEMMA SpellsOne == ASSUME NEW n \in Digit PROVE Spells(<<n>>, n)
<1> DEFINE p == [i \in 0 .. 1 |-> IF i = 0 THEN 0 ELSE n]
<1>1. <<n>> \in Seq(Digit) /\ Len(<<n>>) = 1 /\ <<n>>[1] = n
  OBVIOUS
<1>2. n \in Nat
  BY DEF Digit
<1>3. p \in [0 .. 1 -> Nat] /\ p[0] = 0 /\ p[1] = n
  BY <1>2
<1> HIDE DEF p
<1>4. \A i \in 1 .. 1 : i = 1 /\ p[i - 1] = 0 /\ p[i] = n
  BY <1>3
<1>5. \A i \in 1 .. 1 : p[i] = 10 * p[i - 1] + <<n>>[i]
  BY <1>1, <1>2, <1>4
<1>6. Beginnings(<<n>>, p)
  BY <1>1, <1>3, <1>5 DEF Beginnings
<1> QED BY <1>1, <1>3, <1>6 DEF Spells

\* A further digit: ten times as much, and the digit.
LEMMA SpellsAppend ==
  ASSUME NEW s, NEW n, Spells(s, n), NEW d \in Digit
  PROVE  Spells(Append(s, d), 10 * n + d) /\ Len(Append(s, d)) = Len(s) + 1
<1>1. s \in Seq(Digit)
  BY DEF Spells
<1>2. PICK p : Beginnings(s, p) /\ p[Len(s)] = n
  BY DEF Spells
<1>3. PICK k \in Nat : k = Len(s)
  BY <1>1, LenProperties
<1> DEFINE t == Append(s, d)
           q == [i \in 0 .. k + 1 |-> IF i = k + 1 THEN 10 * n + d ELSE p[i]]
<1>4. t \in Seq(Digit) /\ Len(t) = k + 1 /\ t[k + 1] = d /\ \A i \in 1 .. k : t[i] = s[i]
  BY <1>1, <1>3
<1>5. p \in [0 .. k -> Nat] /\ p[0] = 0 /\ p[k] = n /\ n \in Nat /\ d \in Nat
      /\ \A i \in 1 .. k : p[i] = 10 * p[i - 1] + s[i]
  BY <1>2, <1>3 DEF Beginnings, Digit
<1>6. q \in [0 .. k + 1 -> Nat] /\ q[0] = 0 /\ q[k + 1] = 10 * n + d /\ \A i \in 0 .. k : q[i] = p[i]
  BY <1>5
<1> HIDE DEF q, t
<1>7. ASSUME NEW i \in 1 .. k + 1 PROVE q[i] = 10 * q[i - 1] + t[i]
  <2>1. CASE i = k + 1
    BY <1>4, <1>5, <1>6, <2>1
  <2>2. CASE i # k + 1
    <3>1. i \in 1 .. k /\ i \in 0 .. k /\ i - 1 \in 0 .. k
      BY <2>2
    <3> QED BY <1>4, <1>5, <1>6, <3>1
  <2> QED BY <2>1, <2>2
<1>8. Beginnings(t, q)
  BY <1>4, <1>6, <1>7 DEF Beginnings
<1>9. Spells(t, 10 * n + d)
  BY <1>4, <1>6, <1>8 DEF Spells
<1> QED BY <1>3, <1>4, <1>9 DEF t

\* A text of zeros.
LEMMA Zeros ==
  ASSUME NEW n \in Nat
  PROVE  zeros(n) \in Seq(Digit) /\ Len(zeros(n)) = n /\ \A i \in 1 .. n : zeros(n)[i] = 0
<1>1. zeros(n) \in [1 .. n -> Digit] /\ \A i \in 1 .. n : zeros(n)[i] = 0
  BY DEF zeros, Digit
<1>2. zeros(n) \in Seq(Digit)
  BY <1>1, SeqDef
<1>3. Len(zeros(n)) = n
  BY <1>1, <1>2, LenProperties
<1> QED BY <1>1, <1>2, <1>3

\* Zeros before a text change nothing.
LEMMA SpellsZerosBefore ==
  ASSUME NEW s, NEW n, Spells(s, n), NEW k \in Nat
  PROVE  Spells(zeros(k) \o s, n) /\ Len(zeros(k) \o s) = k + Len(s)
<1>1. s \in Seq(Digit)
  BY DEF Spells
<1>2. PICK p : Beginnings(s, p) /\ p[Len(s)] = n
  BY DEF Spells
<1>3. PICK l \in Nat : l = Len(s)
  BY <1>1, LenProperties
<1> DEFINE t == zeros(k) \o s
           q == [i \in 0 .. k + l |-> IF i <= k THEN 0 ELSE p[i - k]]
<1>4. t \in Seq(Digit) /\ Len(t) = k + l
      /\ \A i \in 1 .. k + l : t[i] = IF i <= k THEN 0 ELSE s[i - k]
  <2>1. zeros(k) \in Seq(Digit) /\ Len(zeros(k)) = k /\ \A i \in 1 .. k : zeros(k)[i] = 0
    BY Zeros
  <2>2. /\ zeros(k) \o s \in Seq(Digit)
        /\ Len(zeros(k) \o s) = Len(zeros(k)) + Len(s)
        /\ \A i \in 1 .. Len(zeros(k)) + Len(s) : (zeros(k) \o s)[i] =
             IF i <= Len(zeros(k)) THEN zeros(k)[i] ELSE s[i - Len(zeros(k))]
    BY <1>1, <2>1, ConcatProperties
  <2>3. \A i \in 1 .. k + l : i <= k => i \in 1 .. k
    OBVIOUS
  <2> HIDE DEF q
  <2> QED BY <1>3, <2>1, <2>2, <2>3
<1>5. p \in [0 .. l -> Nat] /\ p[0] = 0 /\ p[l] = n
      /\ \A i \in 1 .. l : p[i] = 10 * p[i - 1] + s[i]
  BY <1>2, <1>3 DEF Beginnings
<1>6. q \in [0 .. k + l -> Nat] /\ q[0] = 0 /\ \A i \in 0 .. k + l : q[i] = IF i <= k THEN 0 ELSE p[i - k]
  BY <1>5
<1>7. q[k + l] = n
  <2>1. k + l \in 0 .. k + l /\ (k + l) - k = l
    OBVIOUS
  <2>2. CASE l = 0
    BY <1>5, <1>6, <2>1, <2>2
  <2>3. CASE l # 0
    <3>1. ~(k + l <= k)
      BY <2>3
    <3> HIDE DEF q
    <3> QED BY <1>5, <1>6, <2>1, <3>1
  <2> QED BY <2>2, <2>3
<1> HIDE DEF q, t
<1>8. ASSUME NEW i \in 1 .. k + l PROVE q[i] = 10 * q[i - 1] + t[i]
  <2>1. i \in 0 .. k + l /\ i - 1 \in 0 .. k + l
    OBVIOUS
  <2>2. CASE i <= k
    <3>1. i - 1 <= k
      BY <2>2
    <3> QED BY <1>4, <1>6, <2>1, <2>2, <3>1
  <2>3. CASE i = k + 1
    <3>1. i - 1 <= k /\ ~(i <= k) /\ i - k = 1 /\ 1 \in 1 .. l /\ 1 - 1 = 0
      BY <2>3
    <3>2. q[i - 1] = 0 /\ q[i] = p[1] /\ t[i] = s[1]
      BY <1>4, <1>6, <2>1, <3>1
    <3>3. p[1] = 10 * p[0] + s[1]
      BY <1>5, <3>1
    <3> QED BY <1>5, <3>2, <3>3
  <2>4. CASE i > k + 1
    <3>1. ~(i - 1 <= k) /\ ~(i <= k) /\ i - k \in 1 .. l /\ (i - 1) - k = (i - k) - 1
      BY <2>4
    <3>2. q[i - 1] = p[(i - k) - 1] /\ q[i] = p[i - k] /\ t[i] = s[i - k]
      BY <1>4, <1>6, <2>1, <3>1
    <3> QED BY <1>5, <3>1, <3>2
  <2> QED BY <2>2, <2>3, <2>4
<1>9. Beginnings(t, q)
  BY <1>4, <1>6, <1>8 DEF Beginnings
<1>10. Spells(t, n)
  BY <1>4, <1>7, <1>9 DEF Spells
<1> QED BY <1>3, <1>4, <1>10 DEF t

\* Zeros after a text multiply by a power of ten.
LEMMA SpellsZerosAfter ==
  ASSUME NEW s, NEW n, Spells(s, n), NEW k \in Nat
  PROVE  Spells(s \o zeros(k), n * tenTo[k]) /\ Len(s \o zeros(k)) = Len(s) + k
<1>1. s \in Seq(Digit)
  BY DEF Spells
<1>2. PICK p : Beginnings(s, p) /\ p[Len(s)] = n
  BY DEF Spells
<1>3. PICK l \in Nat : l = Len(s)
  BY <1>1, LenProperties
<1>5. p \in [0 .. l -> Nat] /\ p[0] = 0 /\ p[l] = n /\ n \in Nat
      /\ \A i \in 1 .. l : p[i] = 10 * p[i - 1] + s[i]
  BY <1>2, <1>3 DEF Beginnings
<1> DEFINE t == s \o zeros(k)
           q == [i \in 0 .. l + k |-> IF i <= l THEN p[i] ELSE n * tenTo[i - l]]
<1>4. t \in Seq(Digit) /\ Len(t) = l + k
      /\ \A i \in 1 .. l + k : t[i] = IF i <= l THEN s[i] ELSE 0
  <2>1. zeros(k) \in Seq(Digit) /\ Len(zeros(k)) = k /\ \A i \in 1 .. k : zeros(k)[i] = 0
    BY Zeros
  <2>2. /\ s \o zeros(k) \in Seq(Digit)
        /\ Len(s \o zeros(k)) = Len(s) + Len(zeros(k))
        /\ \A i \in 1 .. Len(s) + Len(zeros(k)) : (s \o zeros(k))[i] =
             IF i <= Len(s) THEN s[i] ELSE zeros(k)[i - Len(s)]
    BY <1>1, <2>1, ConcatProperties
  <2>3. \A i \in 1 .. l + k : ~(i <= l) => i - l \in 1 .. k
    OBVIOUS
  <2> HIDE DEF q
  <2> QED BY <1>3, <2>1, <2>2, <2>3
<1>6. \A i \in Nat : n * tenTo[i] \in Nat
  <2> SUFFICES ASSUME NEW i \in Nat PROVE n * tenTo[i] \in Nat
    OBVIOUS
  <2>1. PICK c \in Nat : c = tenTo[i]
    BY TenToPositive
  <2>2. n * c \in Nat
    BY <1>5
  <2> QED BY <2>1, <2>2
<1>7. q \in [0 .. l + k -> Nat] /\ \A i \in 0 .. l + k : q[i] = IF i <= l THEN p[i] ELSE n * tenTo[i - l]
  <2>1. \A i \in 0 .. l + k : IF i <= l THEN i \in 0 .. l ELSE i - l \in Nat
    OBVIOUS
  <2> QED BY <1>5, <1>6, <2>1
<1> HIDE DEF q, t
<1>8. q[0] = 0 /\ \A i \in 0 .. k : q[l + i] = n * tenTo[i]
  <2>1. 0 \in 0 .. l + k /\ 0 <= l
    OBVIOUS
  <2>2. ASSUME NEW i \in 0 .. k PROVE q[l + i] = n * tenTo[i]
    <3>1. l + i \in 0 .. l + k /\ (l + i) - l = i
      OBVIOUS
    <3>2. CASE i = 0
      <4>1. tenTo[0] = 1 /\ n * 1 = n /\ l + i = l /\ l <= l
        BY <1>5, <3>2, TenTo
      <4> QED BY <1>5, <1>7, <3>1, <3>2, <4>1
    <3>3. CASE i # 0
      <4>1. ~(l + i <= l)
        BY <3>3
      <4> QED BY <1>7, <3>1, <4>1
    <3> QED BY <3>2, <3>3
  <2> QED BY <1>5, <1>7, <2>1, <2>2
<1>9. ASSUME NEW i \in 1 .. l + k PROVE q[i] = 10 * q[i - 1] + t[i]
  <2>1. i \in 0 .. l + k /\ i - 1 \in 0 .. l + k
    OBVIOUS
  <2>2. CASE i <= l
    <3>1. i - 1 <= l /\ i \in 1 .. l
      BY <2>2
    <3> QED BY <1>4, <1>5, <1>7, <2>1, <2>2, <3>1
  <2>3. CASE i > l
    <3>1. PICK j \in Nat : i = l + (j + 1) /\ i - 1 = l + j /\ j \in 0 .. k /\ j + 1 \in 0 .. k
      <4>1. (i - l) - 1 \in Nat /\ i = l + (((i - l) - 1) + 1) /\ i - 1 = l + ((i - l) - 1)
            /\ (i - l) - 1 \in 0 .. k /\ ((i - l) - 1) + 1 \in 0 .. k
        BY <2>3
      <4> QED BY <4>1
    <3>2. PICK c \in Nat : c = tenTo[j] /\ tenTo[j + 1] = 10 * c
      BY TenTo, TenToPositive
    <3>3. q[i] = n * (10 * c) /\ q[i - 1] = n * c /\ t[i] = 0
      BY <1>4, <1>8, <2>1, <2>3, <3>1, <3>2
    <3>4. n * (10 * c) = 10 * (n * c) + 0
      BY <1>5
    <3> QED BY <3>3, <3>4
  <2> QED BY <2>2, <2>3
<1>10. Beginnings(t, q)
  BY <1>4, <1>7, <1>8, <1>9 DEF Beginnings
<1>11. q[l + k] = n * tenTo[k]
  BY <1>8
<1>12. Spells(t, n * tenTo[k])
  BY <1>4, <1>10, <1>11 DEF Spells
<1> QED BY <1>3, <1>4, <1>12 DEF t

\* The last digit decides between numbers with the same tens.
LEMMA DigitOrder ==
  ASSUME NEW a \in Nat, NEW b \in Nat, NEW c \in Nat, NEW d \in Nat, c < 10, d < 10
  PROVE  /\ 10 * a + c = 10 * b + d <=> (a = b /\ c = d)
         /\ 10 * a + c > 10 * b + d <=> (a > b \/ (a = b /\ c > d))
<1>1. CASE a = b
  BY <1>1
<1>2. CASE a > b
  <2>1. a >= b + 1
    BY <1>2
  <2> QED BY <1>2, <2>1
<1>3. CASE a < b
  <2>1. b >= a + 1
    BY <1>3
  <2> QED BY <1>3, <2>1
<1> QED BY <1>1, <1>2, <1>3

\* Texts of one length are in the order of the numbers they spell.
LEMMA TextOrder ==
  ASSUME NEW s, NEW t, NEW m, NEW n, Spells(s, m), Spells(t, n), Len(s) = Len(t)
  PROVE  /\ m \in Nat /\ n \in Nat
         /\ compareTextOf(s, t) = IF m = n THEN 0 ELSE IF m > n THEN 1 ELSE -1
<1>1. s \in Seq(Digit) /\ t \in Seq(Digit)
  BY DEF Spells
<1>2. PICK l \in Nat : l = Len(s) /\ l = Len(t)
  BY <1>1, LenProperties
<1>3. DOMAIN s = 1 .. l /\ DOMAIN t = 1 .. l
      /\ \A i \in 1 .. l : s[i] \in Nat /\ s[i] < 10 /\ t[i] \in Nat /\ t[i] < 10
  BY <1>1, <1>2, LenProperties DEF Digit
<1>4. PICK p : Beginnings(s, p) /\ p[Len(s)] = m
  BY DEF Spells
<1>5. PICK q : Beginnings(t, q) /\ q[Len(t)] = n
  BY DEF Spells
<1>6. /\ p \in [0 .. l -> Nat] /\ p[0] = 0 /\ p[l] = m
      /\ \A i \in 1 .. l : p[i] = 10 * p[i - 1] + s[i]
  BY <1>2, <1>4 DEF Beginnings
<1>7. /\ q \in [0 .. l -> Nat] /\ q[0] = 0 /\ q[l] = n
      /\ \A i \in 1 .. l : q[i] = 10 * q[i - 1] + t[i]
  BY <1>2, <1>5 DEF Beginnings
<1> DEFINE first(i) == s[i] > t[i] /\ \A j \in 1 .. (i - 1) : s[j] = t[j]
           T == {k \in Nat : k <= l => /\ p[k] = q[k] <=> \A j \in 1 .. k : s[j] = t[j]
                                       /\ p[k] > q[k] <=> \E i \in 1 .. k : first(i)}
<1>8. 0 \in T
  BY <1>6, <1>7
<1>9. ASSUME NEW k \in Nat, k \in T PROVE k + 1 \in T
  <2> SUFFICES ASSUME k + 1 <= l
               PROVE  /\ p[k + 1] = q[k + 1] <=> \A j \in 1 .. k + 1 : s[j] = t[j]
                      /\ p[k + 1] > q[k + 1] <=> \E i \in 1 .. k + 1 : first(i)
    OBVIOUS
  <2>1. k <= l /\ k + 1 \in 1 .. l /\ k \in 0 .. l /\ k + 1 \in 0 .. l /\ (k + 1) - 1 = k
    OBVIOUS
  <2>2. /\ p[k] = q[k] <=> \A j \in 1 .. k : s[j] = t[j]
        /\ p[k] > q[k] <=> \E i \in 1 .. k : first(i)
    BY <1>9, <2>1
  <2>0. p[k] \in Nat /\ q[k] \in Nat /\ s[k + 1] \in Nat /\ t[k + 1] \in Nat
    BY <1>3, <1>6, <1>7, <2>1
  <2>3. PICK a \in Nat, b \in Nat, c \in Nat, d \in Nat :
          a = p[k] /\ b = q[k] /\ c = s[k + 1] /\ d = t[k + 1]
    BY <2>0
  <2>3a. c < 10 /\ d < 10 /\ p[k + 1] = 10 * a + c /\ q[k + 1] = 10 * b + d
    BY <1>3, <1>6, <1>7, <2>1, <2>3
  <2>4. /\ 10 * a + c = 10 * b + d <=> (a = b /\ c = d)
        /\ 10 * a + c > 10 * b + d <=> (a > b \/ (a = b /\ c > d))
    BY <2>3a, DigitOrder
  <2>5. \A j : j \in 1 .. k + 1 <=> j \in 1 .. k \/ j = k + 1
    OBVIOUS
  <2>6. (\A j \in 1 .. k + 1 : s[j] = t[j]) <=> (\A j \in 1 .. k : s[j] = t[j]) /\ c = d
    BY <2>3, <2>5
  <2>7. first(k + 1) <=> c > d /\ \A j \in 1 .. k : s[j] = t[j]
    BY <2>1, <2>3
  <2> HIDE DEF first
  <2>8. (\E i \in 1 .. k + 1 : first(i)) <=> (\E i \in 1 .. k : first(i)) \/ first(k + 1)
    BY <2>5
  <2>9. p[k + 1] = q[k + 1] <=> \A j \in 1 .. k + 1 : s[j] = t[j]
    BY <2>2, <2>3, <2>3a, <2>4, <2>6
  <2>10. p[k + 1] > q[k + 1] <=> \E i \in 1 .. k + 1 : first(i)
    BY <2>2, <2>3, <2>3a, <2>4, <2>7, <2>8
  <2> QED BY <2>9, <2>10
<1> HIDE DEF T
<1>10. Nat \subseteq T
  BY <1>8, <1>9, EveryNumber
<1>11. l \in T /\ l <= l
  BY <1>10
<1>12. /\ m = n <=> \A j \in 1 .. l : s[j] = t[j]
       /\ m > n <=> \E i \in 1 .. l : first(i)
  BY <1>6, <1>7, <1>11 DEF T
<1>13. s = t <=> \A j \in 1 .. l : s[j] = t[j]
  BY <1>1, <1>2, SeqEqual
<1>14. textAfter(s, t) <=> \E i \in 1 .. l : first(i)
  BY <1>3 DEF textAfter
<1> HIDE DEF first
<1>15. l \in 0 .. l
  OBVIOUS
<1>16. m \in Nat /\ n \in Nat
  BY <1>6, <1>7, <1>15
<1>17. compareTextOf(s, t) = IF m = n THEN 0 ELSE IF m > n THEN 1 ELSE -1
  BY <1>12, <1>13, <1>14 DEF compareTextOf
<1> QED BY <1>16, <1>17

\* A text spells less than the power of ten with as many zeros as it has digits.
LEMMA SpellsBelow ==
  ASSUME NEW s, NEW n, Spells(s, n)
  PROVE  n \in Nat /\ Len(s) \in Nat /\ n < tenTo[Len(s)]
<1>1. s \in Seq(Digit)
  BY DEF Spells
<1>2. PICK l \in Nat : l = Len(s)
  BY <1>1, LenProperties
<1>3. PICK p : Beginnings(s, p) /\ p[Len(s)] = n
  BY DEF Spells
<1>4. /\ p \in [0 .. l -> Nat] /\ p[0] = 0 /\ p[l] = n
      /\ \A i \in 1 .. l : p[i] = 10 * p[i - 1] + s[i]
  BY <1>2, <1>3 DEF Beginnings
<1>5. \A i \in 1 .. l : s[i] \in Nat /\ s[i] < 10
  BY <1>1, <1>2, LenProperties DEF Digit
<1> DEFINE T == {k \in Nat : k <= l => p[k] < tenTo[k]}
<1>6. 0 \in T
  <2>1. p[0] = 0 /\ tenTo[0] = 1 /\ 0 < 1
    BY <1>4, TenTo
  <2>2. p[0] < tenTo[0]
    BY <2>1
  <2> QED BY <2>2
<1>7. ASSUME NEW k \in Nat, k \in T PROVE k + 1 \in T
  <2> SUFFICES ASSUME k + 1 <= l PROVE p[k + 1] < tenTo[k + 1]
    OBVIOUS
  <2>1. k <= l /\ k + 1 \in 1 .. l /\ k \in 0 .. l /\ (k + 1) - 1 = k
    OBVIOUS
  <2>2. PICK a \in Nat, c \in Nat : a = p[k] /\ c = s[k + 1] /\ c < 10 /\ p[k + 1] = 10 * a + c
    BY <1>4, <1>5, <2>1
  <2>3. PICK z \in Nat : z = tenTo[k] /\ tenTo[k + 1] = 10 * z
    BY TenTo, TenToPositive
  <2>4. a < z
    BY <1>7, <2>1, <2>2, <2>3
  <2> QED BY <2>2, <2>3, <2>4
<1> HIDE DEF T
<1>8. l \in T /\ l \in 0 .. l /\ l <= l
  BY <1>6, <1>7, EveryNumber
<1> QED BY <1>2, <1>4, <1>8 DEF T

-----------------------------------------------------------------------------
(* The digits of a number. *)

\* One step of the recursion of digits.
DigitsStep(g, m) == IF m < 10 THEN <<m>> ELSE Append(g[m \div 10], m % 10)

\* A tenth of a number is smaller, what remains is a digit.
LEMMA Tenth ==
  ASSUME NEW n \in Nat, n >= 10
  PROVE  /\ n \div 10 \in Nat /\ n % 10 \in Digit /\ n = 10 * (n \div 10) + (n % 10)
         /\ n \div 10 < n /\ n \div 10 >= 1
BY DEF Digit

\* The recursion of digits.
LEMMA DigitsUnfold == \A n \in Nat : digits[n] = DigitsStep(digits, n)
<1> DEFINE V == [Nat -> Seq(Nat)]
           a == [m \in Nat |-> <<m>>]
           F == [x \in Nat \X V |-> [m \in Nat |-> DigitsStep(x[2], m)]]
<1>1. ASSUME NEW g \in V PROVE [m \in Nat |-> DigitsStep(g, m)] \in V
  <2> SUFFICES ASSUME NEW m \in Nat PROVE DigitsStep(g, m) \in Seq(Nat)
    OBVIOUS
  <2>1. CASE m < 10
    BY <2>1 DEF DigitsStep
  <2>2. CASE ~(m < 10)
    <3>1. m \div 10 \in Nat /\ m % 10 \in Nat
      BY <2>2, Tenth DEF Digit
    <3>2. g[m \div 10] \in Seq(Nat)
      BY <3>1
    <3> QED BY <2>2, <3>1, <3>2 DEF DigitsStep
  <2> QED BY <2>1, <2>2
<1>2. F \in [Nat \X V -> V]
  BY <1>1
<1>3. a \in V
  OBVIOUS
<1>4. \A n \in Nat, g \in V : F[<<n, g>>] = [m \in Nat |-> DigitsStep(g, m)]
  OBVIOUS
<1> HIDE DEF F, a
<1>5. PICK f : Follows(f, a, F, V)
  BY <1>2, <1>3, Recursion
<1>6. /\ f \in [Nat -> V]
      /\ \A n, m \in Nat : f[n + 1][m] = DigitsStep(f[n], m)
  <2>1. f \in [Nat -> V] /\ \A n \in Nat : f[n + 1] = F[<<n + 1, f[n]>>]
    BY <1>5 DEF Follows
  <2>2. ASSUME NEW n \in Nat PROVE f[n + 1] = [m \in Nat |-> DigitsStep(f[n], m)]
    <3> HIDE DEF V
    <3>1. f[n] \in V /\ n + 1 \in Nat
      BY <2>1
    <3> QED BY <1>4, <2>1, <3>1
  <2> QED BY <2>1, <2>2
<1>6a. \A m \in Nat : f[0][m] = <<m>>
  BY <1>5 DEF Follows, a
<1> HIDE DEF V
<1> DEFINE settled(n) == \A m \in Nat : m <= n => f[n + 1][m] = f[n][m]
           T == {n \in Nat : settled(n)}
<1>7. 0 \in T
  <2> SUFFICES ASSUME NEW m \in Nat, m <= 0 PROVE f[0 + 1][m] = f[0][m]
    OBVIOUS
  <2>1. m < 10 /\ f[0 + 1][m] = DigitsStep(f[0], m) /\ f[0][m] = <<m>>
    BY <1>6, <1>6a
  <2> QED BY <2>1 DEF DigitsStep
<1>8. ASSUME NEW n \in Nat, n \in T PROVE n + 1 \in T
  <2> SUFFICES ASSUME NEW m \in Nat, m <= n + 1 PROVE f[(n + 1) + 1][m] = f[n + 1][m]
    OBVIOUS
  <2>1. f[(n + 1) + 1][m] = DigitsStep(f[n + 1], m) /\ f[n + 1][m] = DigitsStep(f[n], m)
    BY <1>6
  <2>2. CASE m < 10
    BY <2>1, <2>2 DEF DigitsStep
  <2>3. CASE m >= 10
    <3>1. m \div 10 \in Nat /\ m \div 10 <= n
      BY <2>3, Tenth
    <3>2. f[n + 1][m \div 10] = f[n][m \div 10]
      BY <1>8, <3>1
    <3> QED BY <2>1, <2>3, <3>2 DEF DigitsStep
  <2> QED BY <2>2, <2>3
<1> HIDE DEF T
<1>9. Nat \subseteq T
  BY <1>7, <1>8, EveryNumber
<1>10. \A n \in Nat : settled(n)
  BY <1>9 DEF T
<1> HIDE DEF settled
<1>11. ASSUME NEW m \in Nat PROVE \A k \in Nat : f[m + k][m] = f[m][m]
  <2> DEFINE W == {k \in Nat : f[m + k][m] = f[m][m]}
  <2>1. 0 \in W
    OBVIOUS
  <2>2. ASSUME NEW k \in Nat, k \in W PROVE k + 1 \in W
    <3>1. m + (k + 1) = (m + k) + 1 /\ m + k \in Nat /\ m <= m + k
      OBVIOUS
    <3>2. f[(m + k) + 1][m] = f[m + k][m]
      BY <1>10, <3>1 DEF settled
    <3> QED BY <2>2, <3>1, <3>2
  <2> HIDE DEF W
  <2>3. Nat \subseteq W
    BY <2>1, <2>2, EveryNumber
  <2> QED BY <2>3 DEF W
<1> DEFINE d == [n \in Nat |-> f[n][n]]
<1>12. ASSUME NEW n \in Nat PROVE d[n] = DigitsStep(d, n)
  <2>1. CASE n < 10
    <3>1. CASE n = 0
      BY <1>6a, <2>1, <3>1 DEF DigitsStep
    <3>2. CASE n # 0
      <4>1. n - 1 \in Nat /\ (n - 1) + 1 = n
        BY <3>2
      <4>2. f[n][n] = DigitsStep(f[n - 1], n)
        BY <1>6, <4>1
      <4> QED BY <2>1, <4>2 DEF DigitsStep
    <3> QED BY <3>1, <3>2
  <2>2. CASE n >= 10
    <3>1. PICK j \in Nat : j = n \div 10 /\ j < n
      BY <2>2, Tenth
    <3>2. n - 1 \in Nat /\ (n - 1) + 1 = n /\ (n - 1) - j \in Nat /\ j + ((n - 1) - j) = n - 1
      BY <3>1
    <3>3. f[n][n] = DigitsStep(f[n - 1], n)
      BY <1>6, <3>2
    <3>4. f[j + ((n - 1) - j)][j] = f[j][j]
      BY <1>11, <3>1, <3>2
    <3>5. d[j] = f[n - 1][j] /\ d[n] = f[n][n]
      BY <3>1, <3>2, <3>4
    <3> HIDE DEF d
    <3> QED BY <2>2, <3>1, <3>3, <3>5 DEF DigitsStep
  <2> QED BY <2>1, <2>2
<1> HIDE DEF d
<1>13. DOMAIN d = Nat
  BY DEF d
<1>14. d = [n \in Nat |-> d[n]]
  BY DEF d
<1>15. d = [n \in Nat |-> IF n < 10 THEN <<n>> ELSE Append(d[n \div 10], n % 10)]
  BY <1>12, <1>14 DEF DigitsStep
<1>16. digits = [n \in Nat |-> IF n < 10 THEN <<n>> ELSE Append(digits[n \div 10], n % 10)]
  BY <1>15 DEF digits
<1> QED BY <1>16 DEF DigitsStep

\* Every number is written with the digits that spell it, the first of which
\* is not 0 unless it is the only one.
LEMMA DigitsSpell ==
  \A n \in Nat : /\ Spells(digits[n], n) /\ Len(digits[n]) \in Nat \ {0}
                 /\ Len(digits[n]) > 1 => tenTo[Len(digits[n]) - 1] <= n
<1> DEFINE good(n) == /\ Spells(digits[n], n) /\ Len(digits[n]) \in Nat \ {0}
                      /\ Len(digits[n]) > 1 => tenTo[Len(digits[n]) - 1] <= n
           T == {n \in Nat : \A m \in Nat : m <= n => good(m)}
<1>1. ASSUME NEW n \in Nat, n < 10 PROVE good(n)
  <2>0. digits[n] = DigitsStep(digits, n)
    BY DigitsUnfold
  <2>1. digits[n] = <<n>> /\ n \in Digit
    BY <1>1, <2>0 DEF DigitsStep, Digit
  <2>2. Spells(<<n>>, n) /\ Len(<<n>>) = 1
    BY <2>1, SpellsOne
  <2> QED BY <2>1, <2>2
<1>2. ASSUME NEW n \in Nat, n >= 10, good(n \div 10) PROVE good(n)
  <2>1. PICK t \in Nat, r \in Digit : t = n \div 10 /\ r = n % 10 /\ n = 10 * t + r /\ t >= 1 /\ r \in Nat
    BY <1>2, Tenth DEF Digit
  <2>0. digits[n] = DigitsStep(digits, n)
    BY DigitsUnfold
  <2>2. digits[n] = Append(digits[t], r)
    BY <1>2, <2>0, <2>1 DEF DigitsStep
  <2>3. PICK l \in Nat \ {0} : l = Len(digits[t])
    BY <1>2, <2>1
  <2>4. Spells(digits[t], t) /\ l > 1 => tenTo[l - 1] <= t
    BY <1>2, <2>1, <2>3
  <2>5. Spells(digits[t], t)
    BY <1>2, <2>1
  <2>6. Spells(digits[n], n) /\ Len(digits[n]) = l + 1
    BY <2>1, <2>2, <2>3, <2>5, SpellsAppend
  <2>7. tenTo[l] <= n
    <3>1. PICK k \in Nat : l = k + 1 /\ l - 1 = k
      <4>1. l - 1 \in Nat /\ l = (l - 1) + 1
        OBVIOUS
      <4> QED BY <4>1
    <3>2. PICK z \in Nat : z = tenTo[k] /\ tenTo[l] = 10 * z
      BY <3>1, TenTo, TenToPositive
    <3>3. z <= t
      <4>1. CASE k = 0
        BY <2>1, <3>2, <4>1, TenTo
      <4>2. CASE k # 0
        BY <2>4, <2>5, <3>1, <3>2, <4>2
      <4> QED BY <4>1, <4>2
    <3> QED BY <2>1, <3>2, <3>3
  <2>8. (l + 1) - 1 = l /\ l + 1 \in Nat \ {0}
    OBVIOUS
  <2> QED BY <2>6, <2>7, <2>8
<1> HIDE DEF good
<1>3. 0 \in T
  <2>1. \A m \in Nat : m <= 0 => m < 10
    OBVIOUS
  <2> QED BY <1>1, <2>1
<1>4. ASSUME NEW n \in Nat, n \in T PROVE n + 1 \in T
  <2> SUFFICES ASSUME NEW m \in Nat, m <= n + 1 PROVE good(m)
    OBVIOUS
  <2>1. CASE m < 10
    BY <1>1, <2>1
  <2>2. CASE m >= 10
    <3>1. m \div 10 \in Nat /\ m \div 10 <= n
      BY <2>2, Tenth
    <3> QED BY <1>2, <1>4, <2>2, <3>1
  <2> QED BY <2>1, <2>2
<1> HIDE DEF T
<1>5. Nat \subseteq T
  BY <1>3, <1>4, EveryNumber
<1>6. ASSUME NEW n \in Nat PROVE good(n)
  <2>1. n \in T /\ n <= n
    BY <1>5
  <2> QED BY <2>1 DEF T
<1> QED BY <1>6 DEF good

-----------------------------------------------------------------------------
(* Amounts as texts. *)

\* All digits of an amount: they spell the coefficient, there is at least one
\* before the point, and the first of several before the point is not 0.
LEMMA Written ==
  ASSUME NEW x \in Decimal
  PROVE  /\ Spells(written(x), x.coefficient)
         /\ Len(written(x)) \in Nat /\ Len(written(x)) > x.scale
         /\ Len(written(x)) > x.scale + 1 => tenTo[Len(written(x)) - 1] <= x.coefficient
<1>1. PICK c \in Nat, s \in Nat : c = x.coefficient /\ s = x.scale
  BY DEF Decimal
<1>2. Spells(digits[c], c) /\ Len(digits[c]) \in Nat \ {0}
      /\ (Len(digits[c]) > 1 => tenTo[Len(digits[c]) - 1] <= c)
  BY DigitsSpell
<1>3. PICK l \in Nat \ {0} : l = Len(digits[c])
  BY <1>2
<1>4. CASE l > s
  <2>1. written(x) = digits[c]
    BY <1>1, <1>3, <1>4 DEF written
  <2>2. l > s + 1 => l > 1
    OBVIOUS
  <2> QED BY <1>1, <1>2, <1>3, <1>4, <2>1, <2>2
<1>5. CASE ~(l > s)
  <2>1. (s + 1) - l \in Nat /\ ((s + 1) - l) + l = s + 1
    BY <1>5
  <2>2. written(x) = zeros((s + 1) - l) \o digits[c]
    <3>1. written(x) = IF Len(digits[c]) > s THEN digits[c]
                       ELSE zeros((s + 1) - Len(digits[c])) \o digits[c]
      BY <1>1 DEF written
    <3>2. ~(Len(digits[c]) > s) /\ (s + 1) - Len(digits[c]) = (s + 1) - l
      BY <1>3, <1>5
    <3> QED BY <3>1, <3>2
  <2>3. Spells(zeros((s + 1) - l) \o digits[c], c)
        /\ Len(zeros((s + 1) - l) \o digits[c]) = ((s + 1) - l) + Len(digits[c])
    BY <1>2, <2>1, SpellsZerosBefore
  <2>4. Len(written(x)) = s + 1 /\ Spells(written(x), c)
    BY <1>3, <2>1, <2>2, <2>3
  <2> QED BY <1>1, <2>4
<1> QED BY <1>4, <1>5

\* The point divides the digits; the fraction may be padded.
LEMMA Divided ==
  ASSUME NEW x \in Decimal, NEW k \in Nat
  PROVE  /\ whole(x) \in Seq(Digit) /\ Len(whole(x)) = Len(written(x)) - x.scale
         /\ fraction(x) \o zeros(k) \in Seq(Digit)
         /\ Len(fraction(x)) = x.scale /\ Len(fraction(x) \o zeros(k)) = x.scale + k
         /\ whole(x) \o (fraction(x) \o zeros(k)) = written(x) \o zeros(k)
<1> DEFINE w == written(x)
<1>1. w \in Seq(Digit)
  BY Written DEF Spells
<1>2. PICK l \in Nat, s \in Nat : l = Len(w) /\ s = x.scale /\ l > s
  <2>1. Len(w) \in Nat /\ x.scale \in Nat /\ Len(w) > x.scale
    BY Written DEF Decimal
  <2> QED BY <2>1
<1> HIDE DEF w
<1>3. \A i \in 1 .. l : w[i] \in Digit
  BY <1>1, <1>2, ElementOfSeq
<1>4. /\ SubSeq(w, 1, l - s) \in Seq(Digit) /\ Len(SubSeq(w, 1, l - s)) = l - s
      /\ \A i \in 1 .. l - s : SubSeq(w, 1, l - s)[i] = w[i]
  <2>1. 1 \in Int /\ l - s \in Int /\ 1 <= l - s /\ (l - s) - 1 + 1 = l - s
        /\ \A i \in 1 .. l - s : i \in 1 .. l /\ (1 + i) - 1 = i
    BY <1>2
  <2>2. \A i \in 1 .. l - s : w[i] \in Digit
    BY <1>3, <2>1
  <2>3. /\ SubSeq(w, 1, l - s) \in Seq(Digit)
        /\ Len(SubSeq(w, 1, l - s)) = IF 1 <= l - s THEN (l - s) - 1 + 1 ELSE 0
        /\ \A i \in 1 .. (l - s) - 1 + 1 : SubSeq(w, 1, l - s)[i] = w[1 + i - 1]
    BY <2>1, <2>2, SubSeqProperties
  <2> QED BY <2>1, <2>3
<1>5. /\ SubSeq(w, l - s + 1, l) \in Seq(Digit) /\ Len(SubSeq(w, l - s + 1, l)) = s
      /\ \A i \in 1 .. s : SubSeq(w, l - s + 1, l)[i] = w[(l - s) + i]
  <2> DEFINE a == l - s + 1
  <2>1. a \in Int /\ l \in Int /\ (IF a <= l THEN l - a + 1 ELSE 0) = s /\ l - a + 1 = s
        /\ (\A i \in a .. l : i \in 1 .. l) /\ \A i \in 1 .. s : a + i - 1 = (l - s) + i
    BY <1>2
  <2> HIDE DEF a
  <2>2. \A i \in a .. l : w[i] \in Digit
    BY <1>3, <2>1
  <2>3. /\ SubSeq(w, a, l) \in Seq(Digit)
        /\ Len(SubSeq(w, a, l)) = IF a <= l THEN l - a + 1 ELSE 0
        /\ \A i \in 1 .. l - a + 1 : SubSeq(w, a, l)[i] = w[a + i - 1]
    BY <2>1, <2>2, SubSeqProperties
  <2>4. /\ SubSeq(w, a, l) \in Seq(Digit) /\ Len(SubSeq(w, a, l)) = s
        /\ \A i \in 1 .. s : SubSeq(w, a, l)[i] = w[(l - s) + i]
    BY <2>1, <2>3
  <2> QED BY <2>4 DEF a
<1>6. PICK h : h = whole(x) /\ h \in Seq(Digit) /\ Len(h) = l - s /\ \A i \in 1 .. l - s : h[i] = w[i]
  BY <1>2, <1>4 DEF whole, w
<1>7. PICK f : f = fraction(x) /\ f \in Seq(Digit) /\ Len(f) = s /\ \A i \in 1 .. s : f[i] = w[(l - s) + i]
  BY <1>2, <1>5 DEF fraction, w
<1>8. PICK z : z = zeros(k) /\ z \in Seq(Digit) /\ Len(z) = k
  BY Zeros
<1>9. /\ f \o z \in Seq(Digit) /\ Len(f \o z) = s + k
      /\ \A i \in 1 .. s + k : (f \o z)[i] = IF i <= s THEN f[i] ELSE z[i - s]
  <2>1. /\ f \o z \in Seq(Digit) /\ Len(f \o z) = Len(f) + Len(z)
        /\ \A i \in 1 .. Len(f) + Len(z) : (f \o z)[i] = IF i <= Len(f) THEN f[i] ELSE z[i - Len(f)]
    <3>1. f \in Seq(Digit) /\ z \in Seq(Digit)
      BY <1>7, <1>8
    <3> QED BY <3>1, ConcatProperties
  <2> QED BY <1>7, <1>8, <2>1
<1>10. PICK g : g = f \o z
  OBVIOUS
<1>11. /\ h \o g \in Seq(Digit) /\ Len(h \o g) = l + k
       /\ \A i \in 1 .. l + k : (h \o g)[i] = IF i <= l - s THEN h[i] ELSE g[i - (l - s)]
  <2>1. /\ h \o g \in Seq(Digit) /\ Len(h \o g) = Len(h) + Len(g)
        /\ \A i \in 1 .. Len(h) + Len(g) : (h \o g)[i] = IF i <= Len(h) THEN h[i] ELSE g[i - Len(h)]
    <3>1. h \in Seq(Digit) /\ g \in Seq(Digit)
      BY <1>6, <1>9, <1>10
    <3> QED BY <3>1, ConcatProperties
  <2>2. (l - s) + (s + k) = l + k
    OBVIOUS
  <2> QED BY <1>6, <1>9, <1>10, <2>1, <2>2
<1>12. /\ w \o z \in Seq(Digit) /\ Len(w \o z) = l + k
       /\ \A i \in 1 .. l + k : (w \o z)[i] = IF i <= l THEN w[i] ELSE z[i - l]
  <2>1. /\ w \o z \in Seq(Digit) /\ Len(w \o z) = Len(w) + Len(z)
        /\ \A i \in 1 .. Len(w) + Len(z) : (w \o z)[i] = IF i <= Len(w) THEN w[i] ELSE z[i - Len(w)]
    BY <1>1, <1>8, ConcatProperties
  <2> QED BY <1>2, <1>8, <2>1
<1>13. ASSUME NEW i \in 1 .. l + k PROVE (h \o g)[i] = (w \o z)[i]
  <2>1. CASE i <= l - s
    <3>1. i \in 1 .. l - s /\ i <= l
      BY <2>1
    <3> QED BY <1>6, <1>11, <1>12, <2>1, <3>1
  <2>2. CASE ~(i <= l - s) /\ i <= l
    <3>1. i - (l - s) \in 1 .. s /\ i - (l - s) \in 1 .. s + k /\ i - (l - s) <= s /\ (l - s) + (i - (l - s)) = i
      BY <2>2
    <3>2. g[i - (l - s)] = f[i - (l - s)]
      BY <1>9, <1>10, <3>1
    <3>3. f[i - (l - s)] = w[i]
      BY <1>7, <3>1
    <3> QED BY <1>11, <1>12, <2>2, <3>2, <3>3
  <2>3. CASE ~(i <= l)
    <3>1. ~(i <= l - s) /\ i - (l - s) \in 1 .. s + k /\ ~(i - (l - s) <= s) /\ (i - (l - s)) - s = i - l
      BY <2>3
    <3>2. g[i - (l - s)] = z[i - l]
      BY <1>9, <1>10, <3>1
    <3> QED BY <1>11, <1>12, <2>3, <3>1, <3>2
  <2> QED BY <2>1, <2>2, <2>3
<1>14. h \o g = w \o z
  BY <1>11, <1>12, <1>13, SeqEqual
<1> QED BY <1>2, <1>6, <1>7, <1>8, <1>9, <1>10, <1>14 DEF w

\* Texts in two parts are compared part by part.
LEMMA TwoParts ==
  ASSUME NEW a \in Seq(Digit), NEW b \in Seq(Digit), Len(a) = Len(b),
         NEW c \in Seq(Digit), NEW d \in Seq(Digit), Len(c) = Len(d)
  PROVE  compareTextOf(a \o c, b \o d) = IF a # b THEN compareTextOf(a, b) ELSE compareTextOf(c, d)
<1>1. PICK l \in Nat, k \in Nat : l = Len(a) /\ k = Len(c)
  BY LenProperties
<1>2. PICK s : /\ s = a \o c /\ s \in Seq(Digit) /\ Len(s) = l + k
               /\ \A i \in 1 .. l + k : s[i] = IF i <= l THEN a[i] ELSE c[i - l]
  <2>1. /\ a \o c \in Seq(Digit) /\ Len(a \o c) = Len(a) + Len(c)
        /\ \A i \in 1 .. Len(a) + Len(c) : (a \o c)[i] = IF i <= Len(a) THEN a[i] ELSE c[i - Len(a)]
    BY ConcatProperties
  <2> QED BY <1>1, <2>1
<1>3. PICK t : /\ t = b \o d /\ t \in Seq(Digit) /\ Len(t) = l + k
               /\ \A i \in 1 .. l + k : t[i] = IF i <= l THEN b[i] ELSE d[i - l]
  <2>1. /\ b \o d \in Seq(Digit) /\ Len(b \o d) = Len(b) + Len(d)
        /\ \A i \in 1 .. Len(b) + Len(d) : (b \o d)[i] = IF i <= Len(b) THEN b[i] ELSE d[i - Len(b)]
    BY ConcatProperties
  <2> QED BY <1>1, <2>1
<1>4. /\ \A i \in 1 .. l : i \in 1 .. l + k /\ i <= l
      /\ \A i \in 1 .. k : l + i \in 1 .. l + k /\ ~(l + i <= l) /\ (l + i) - l = i
  OBVIOUS
<1>5. /\ \A i \in 1 .. l : s[i] = a[i] /\ t[i] = b[i]
      /\ \A i \in 1 .. k : s[l + i] = c[i] /\ t[l + i] = d[i]
  BY <1>2, <1>3, <1>4
<1>6. DOMAIN a = 1 .. l /\ DOMAIN c = 1 .. k /\ DOMAIN s = 1 .. l + k
  BY <1>1, <1>2, LenProperties
<1>7. /\ a = b <=> \A i \in 1 .. l : a[i] = b[i]
      /\ c = d <=> \A i \in 1 .. k : c[i] = d[i]
      /\ s = t <=> \A i \in 1 .. l + k : s[i] = t[i]
  <2>1. a = b <=> \A i \in 1 .. l : a[i] = b[i]
    BY <1>1, SeqEqual
  <2>2. c = d <=> \A i \in 1 .. k : c[i] = d[i]
    BY <1>1, SeqEqual
  <2>3. s = t <=> \A i \in 1 .. l + k : s[i] = t[i]
    BY <1>2, <1>3, SeqEqual
  <2> QED BY <2>1, <2>2, <2>3
<1>8. \A i \in 1 .. l + k : i \in 1 .. l \/ (i - l \in 1 .. k /\ i = l + (i - l))
  OBVIOUS
<1>9. s = t <=> a = b /\ c = d
  <2>1. ASSUME a = b, c = d PROVE s = t
    BY <1>2, <1>3, <2>1
  <2>2. ASSUME s = t PROVE a = b /\ c = d
    BY <1>5, <1>7, <2>2
  <2> QED BY <2>1, <2>2
<1>10. CASE a # b
  <2>1. ASSUME textAfter(a, b) PROVE textAfter(s, t)
    <3>1. PICK i \in 1 .. l : a[i] > b[i] /\ \A j \in 1 .. (i - 1) : a[j] = b[j]
      BY <1>6, <2>1 DEF textAfter
    <3>2. \A j \in 1 .. (i - 1) : j \in 1 .. l
      OBVIOUS
    <3>3. s[i] > t[i] /\ \A j \in 1 .. (i - 1) : s[j] = t[j]
      BY <1>5, <3>1, <3>2
    <3> QED BY <1>4, <1>6, <3>3 DEF textAfter
  <2>2. ASSUME textAfter(s, t) PROVE textAfter(a, b)
    <3>1. PICK i \in 1 .. l + k : s[i] > t[i] /\ \A j \in 1 .. (i - 1) : s[j] = t[j]
      BY <1>6, <2>2 DEF textAfter
    <3>2. i \in 1 .. l
      <4> SUFFICES ASSUME i > l PROVE FALSE
        OBVIOUS
      <4>1. \A j \in 1 .. l : j \in 1 .. (i - 1)
        OBVIOUS
      <4>2. \A j \in 1 .. l : a[j] = b[j]
        BY <1>5, <3>1, <4>1
      <4> QED BY <1>7, <1>10, <4>2
    <3>3. \A j \in 1 .. (i - 1) : j \in 1 .. l
      BY <3>2
    <3>4. a[i] > b[i] /\ \A j \in 1 .. (i - 1) : a[j] = b[j]
      BY <1>5, <3>1, <3>2, <3>3
    <3> QED BY <1>6, <3>2, <3>4 DEF textAfter
  <2> QED BY <1>2, <1>3, <1>9, <1>10, <2>1, <2>2 DEF compareTextOf
<1>11. CASE a = b
  <2>0. \A i \in 1 .. l : a[i] \in Nat
    <3>1. \A i \in 1 .. l : a[i] \in Digit
      BY <1>1, ElementOfSeq
    <3>2. \A v \in Digit : v \in Nat
      BY DEF Digit
    <3> QED BY <3>1, <3>2
  <2>1. ASSUME textAfter(c, d) PROVE textAfter(s, t)
    <3>1. PICK i \in 1 .. k : c[i] > d[i] /\ \A j \in 1 .. (i - 1) : c[j] = d[j]
      BY <1>6, <2>1 DEF textAfter
    <3>2. ASSUME NEW j \in 1 .. ((l + i) - 1) PROVE s[j] = t[j]
      <4>1. CASE j \in 1 .. l
        BY <1>5, <1>11, <4>1
      <4>2. CASE ~(j \in 1 .. l)
        <5>1. j - l \in 1 .. (i - 1) /\ j - l \in 1 .. k /\ j = l + (j - l)
          BY <4>2
        <5>2. c[j - l] = d[j - l]
          BY <3>1, <5>1
        <5>3. s[l + (j - l)] = c[j - l] /\ t[l + (j - l)] = d[j - l]
          BY <1>5, <5>1
        <5> QED BY <5>1, <5>2, <5>3
      <4> QED BY <4>1, <4>2
    <3>3. s[l + i] > t[l + i] /\ l + i \in 1 .. l + k
      BY <1>4, <1>5, <3>1
    <3> QED BY <1>6, <3>2, <3>3 DEF textAfter
  <2>2. ASSUME textAfter(s, t) PROVE textAfter(c, d)
    <3>1. PICK i \in 1 .. l + k : s[i] > t[i] /\ \A j \in 1 .. (i - 1) : s[j] = t[j]
      BY <1>6, <2>2 DEF textAfter
    <3>2. ~(i \in 1 .. l)
      <4> SUFFICES ASSUME i \in 1 .. l PROVE FALSE
        OBVIOUS
      <4>1. PICK v \in Nat : v = a[i]
        BY <2>0
      <4>2. v > v
        BY <1>5, <1>11, <3>1, <4>1
      <4> QED BY <4>2
    <3>3. i - l \in 1 .. k /\ i = l + (i - l)
      BY <3>2
    <3>4. c[i - l] > d[i - l]
      <4>1. s[l + (i - l)] = c[i - l] /\ t[l + (i - l)] = d[i - l]
        BY <1>5, <3>3
      <4> QED BY <3>1, <3>3, <4>1
    <3>5. ASSUME NEW j \in 1 .. ((i - l) - 1) PROVE c[j] = d[j]
      <4>1. l + j \in 1 .. (i - 1) /\ j \in 1 .. k
        BY <3>3
      <4> QED BY <1>5, <3>1, <4>1
    <3> QED BY <1>6, <3>3, <3>4, <3>5 DEF textAfter
  <2> QED BY <1>2, <1>3, <1>9, <1>11, <2>1, <2>2 DEF compareTextOf
<1> QED BY <1>10, <1>11

\* More zeros, a larger power.
LEMMA TenToMonotone == ASSUME NEW m \in Nat, NEW n \in Nat, m <= n PROVE tenTo[m] <= tenTo[n]
<1>1. PICK k \in Nat : n = m + k
  OBVIOUS
<1>2. PICK a \in Nat, b \in Nat \ {0} : a = tenTo[m] /\ b = tenTo[k]
  BY TenToPositive
<1>3. tenTo[n] = a * b
  BY <1>1, <1>2, TenToSum
<1>4. 1 * a <= b * a /\ b * a = a * b /\ 1 * a = a
  <2>1. CASE a = 0
    BY <2>1
  <2>2. CASE a # 0
    <3>1. 1 * a <= b * a
      BY <2>2, TimesKeepsOrder
    <3> QED BY <3>1
  <2> QED BY <2>1, <2>2
<1> QED BY <1>2, <1>3, <1>4

\* The padded digits of an amount spell it in units of any finer scale.
LEMMA PaddedSpells ==
  ASSUME NEW x \in Decimal, NEW s \in Nat, x.scale <= s
  PROVE  /\ s - x.scale \in Nat
         /\ Spells(written(x) \o zeros(s - x.scale), aligned(x, s))
         /\ Len(written(x) \o zeros(s - x.scale)) = (Len(written(x)) - x.scale) + s
<1>1. PICK k \in Nat : k = s - x.scale
  BY DEF Decimal
<1>2. Spells(written(x), x.coefficient) /\ Len(written(x)) \in Nat
  BY Written
<1>3. /\ Spells(written(x) \o zeros(k), x.coefficient * tenTo[k])
      /\ Len(written(x) \o zeros(k)) = Len(written(x)) + k
  BY <1>2, SpellsZerosAfter
<1>4. Len(written(x)) + k = (Len(written(x)) - x.scale) + s
  BY <1>1, <1>2 DEF Decimal
<1> QED BY <1>1, <1>3, <1>4 DEF aligned

\* The amount with more digits before the point is the larger one.
LEMMA LongerIsLarger ==
  ASSUME NEW x \in Decimal, NEW y \in Decimal, NEW s \in Nat, x.scale <= s, y.scale <= s,
         Len(written(x)) - x.scale > Len(written(y)) - y.scale
  PROVE  aligned(x, s) > aligned(y, s)
<1>1. PICK l \in Nat, u \in Nat : l = Len(written(x)) /\ u = x.scale /\ l > u
  BY Written DEF Decimal
<1>2. PICK m \in Nat, v \in Nat : m = Len(written(y)) /\ v = y.scale /\ m > v
  BY Written DEF Decimal
<1>3. PICK c \in Nat : c = x.coefficient
  BY DEF Decimal
<1>4. l > u + 1 /\ l - 1 \in Nat /\ s - u \in Nat /\ (m - v) + s \in Nat
      /\ (m - v) + s <= (l - 1) + (s - u) /\ (l - 1) + (s - u) \in Nat
  <2>1. l - u > m - v /\ u <= s /\ l > u /\ m > v
    BY <1>1, <1>2
  <2> QED BY <2>1
<1>5. tenTo[l - 1] <= c
  BY <1>1, <1>3, <1>4, Written
<1>6. PICK a \in Nat, b \in Nat \ {0} : a = tenTo[l - 1] /\ b = tenTo[s - u]
  BY <1>4, TenToPositive
<1>7. a * b <= c * b
  BY <1>5, <1>6, TimesKeepsOrder
<1>8. tenTo[(l - 1) + (s - u)] = a * b /\ aligned(x, s) = c * b
  BY <1>1, <1>3, <1>4, <1>6, TenToSum DEF aligned
<1>9. tenTo[(m - v) + s] <= tenTo[(l - 1) + (s - u)]
  BY <1>4, TenToMonotone
<1>10. Spells(written(y) \o zeros(s - v), aligned(y, s)) /\ Len(written(y) \o zeros(s - v)) = (m - v) + s
  BY <1>2, PaddedSpells
<1>11. aligned(y, s) \in Nat /\ aligned(y, s) < tenTo[(m - v) + s]
  BY <1>10, SpellsBelow
<1>12. tenTo[(m - v) + s] \in Nat /\ a * b \in Nat /\ c * b \in Nat
  BY <1>4, <1>6, TenToPositive
<1> QED BY <1>7, <1>8, <1>9, <1>11, <1>12

\* compareDecimal of index.ts, on the digits of two amounts, is compareDecimal of
\* evaluator.ts, on their values: for amounts of any size, and whatever zeros they
\* are written with.
THEOREM TextsAndValues ==
  ASSUME NEW x \in Decimal, NEW y \in Decimal
  PROVE  compareTexts(x, y) = compareDecimal(x, y)
<1>1. PICK s \in Nat : s = commonScale(x, y) /\ x.scale <= s /\ y.scale <= s
  BY CommonScale
<1>2. PICK a \in Nat, b \in Nat : a = aligned(x, s) /\ b = aligned(y, s)
  BY <1>1, AlignedType
<1>3. compareDecimal(x, y) = IF a = b THEN 0 ELSE IF a > b THEN 1 ELSE -1
  BY <1>1, <1>2 DEF compareDecimal
<1>4. isDecimal(x) /\ isDecimal(y)
  BY DEF isDecimal, Decimal
<1>5. PICK h \in Nat, k \in Nat : h = Len(written(x)) - x.scale /\ k = Len(written(y)) - y.scale
  <2>1. Len(written(x)) - x.scale \in Nat /\ Len(written(y)) - y.scale \in Nat
    BY Written DEF Decimal
  <2> QED BY <2>1
<1>6. PICK e \in Nat, f \in Nat : e = s - x.scale /\ f = s - y.scale
  BY <1>1, PaddedSpells
<1>7. /\ Spells(written(x) \o zeros(e), a) /\ Len(written(x) \o zeros(e)) = h + s
      /\ Spells(written(y) \o zeros(f), b) /\ Len(written(y) \o zeros(f)) = k + s
  BY <1>1, <1>2, <1>5, <1>6, PaddedSpells
<1>8. /\ whole(x) \in Seq(Digit) /\ Len(whole(x)) = h
      /\ fraction(x) \o zeros(e) \in Seq(Digit)
      /\ Len(fraction(x)) = x.scale /\ Len(fraction(x) \o zeros(e)) = x.scale + e
      /\ whole(x) \o (fraction(x) \o zeros(e)) = written(x) \o zeros(e)
  BY <1>5, Divided
<1>9. /\ whole(y) \in Seq(Digit) /\ Len(whole(y)) = k
      /\ fraction(y) \o zeros(f) \in Seq(Digit)
      /\ Len(fraction(y)) = y.scale /\ Len(fraction(y) \o zeros(f)) = y.scale + f
      /\ whole(y) \o (fraction(y) \o zeros(f)) = written(y) \o zeros(f)
  BY <1>5, Divided
<1>10. CASE h > k
  <2>1. a > b
    BY <1>1, <1>2, <1>5, <1>10, LongerIsLarger
  <2>2. compareTexts(x, y) = 1
    BY <1>4, <1>8, <1>9, <1>10 DEF compareTexts
  <2> QED BY <1>3, <2>1, <2>2
<1>11. CASE k > h
  <2>1. b > a
    BY <1>1, <1>2, <1>5, <1>11, LongerIsLarger
  <2>2. compareTexts(x, y) = -1
    BY <1>4, <1>8, <1>9, <1>11 DEF compareTexts
  <2> QED BY <1>3, <2>1, <2>2
<1>12. CASE h = k
  <2>1. compareTextOf(written(x) \o zeros(e), written(y) \o zeros(f))
          = IF a = b THEN 0 ELSE IF a > b THEN 1 ELSE -1
    BY <1>7, <1>12, TextOrder
  <2>2. x.scale + e = s /\ y.scale + f = s
    BY <1>1, <1>6 DEF Decimal
  <2>3. compareTextOf(whole(x) \o (fraction(x) \o zeros(e)), whole(y) \o (fraction(y) \o zeros(f)))
          = IF whole(x) # whole(y) THEN compareTextOf(whole(x), whole(y))
            ELSE compareTextOf(fraction(x) \o zeros(e), fraction(y) \o zeros(f))
    <3>1. /\ whole(x) \in Seq(Digit) /\ whole(y) \in Seq(Digit) /\ Len(whole(x)) = Len(whole(y))
          /\ fraction(x) \o zeros(e) \in Seq(Digit) /\ fraction(y) \o zeros(f) \in Seq(Digit)
          /\ Len(fraction(x) \o zeros(e)) = Len(fraction(y) \o zeros(f))
      BY <1>8, <1>9, <1>12, <2>2
    <3>2. PICK p \in Seq(Digit), q \in Seq(Digit), u \in Seq(Digit), v \in Seq(Digit) :
            p = whole(x) /\ q = whole(y) /\ u = fraction(x) \o zeros(e) /\ v = fraction(y) \o zeros(f)
      BY <3>1
    <3>3. Len(p) = Len(q) /\ Len(u) = Len(v)
      BY <3>1, <3>2
    <3>4. compareTextOf(p \o u, q \o v) = IF p # q THEN compareTextOf(p, q) ELSE compareTextOf(u, v)
      BY <3>3, TwoParts
    <3> QED BY <3>2, <3>4
  <2>4. compareFractions(x, y) = compareTextOf(fraction(x) \o zeros(e), fraction(y) \o zeros(f))
    BY <1>1, <1>6, <1>8, <1>9 DEF compareFractions, padEnd, commonScale
  <2>5. compareTexts(x, y) = IF whole(x) # whole(y) THEN compareTextOf(whole(x), whole(y))
                             ELSE compareFractions(x, y)
    BY <1>4, <1>8, <1>9, <1>12 DEF compareTexts
  <2> QED BY <1>3, <1>8, <1>9, <2>1, <2>3, <2>4, <2>5
<1> QED BY <1>10, <1>11, <1>12

-----------------------------------------------------------------------------
(* What an allowed request has passed. *)

\* What the requests are assumed to be, and that an absent value is none.
LEMMA Conforms == ASSUME NEW x \in Exchanges PROVE conforms(x)
  BY ExchangesConform

\* The request each seller builds.
LEMMA RequestsBuilt ==
  ASSUME NEW x
  PROVE  /\ x.seller = "commerce" => requestOf(x) = evaluated(x, commerceOf(x), None)
         /\ x.seller = "rwa" =>
              requestOf(x) = evaluated(x, None, [rwaOf(x) EXCEPT !.approval_roles = Schema!items(@)])
         /\ x.seller = "metered" => requestOf(x) = evaluated(x, None, None)
  BY DEF requestOf

\* An allowed request gave no reason to deny it.
LEMMA NoReason ==
  ASSUME NEW q, allows(q)
  PROVE  /\ checkEnvelope(q.mandate, q.envelope, q.evaluation_time) = {}
         /\ checkConsumption(q.mandate, normalizedUsage(q.usage), effectiveConsumption(q)) = {}
         /\ checkProfiles(q, normalizedUsage(q.usage)) = {}
  BY DEF allows, reasonCodes

\* A decimal is no larger than another: the comparison is not 1.
LEMMA ComparedValues ==
  ASSUME NEW x \in Decimal, NEW y \in Decimal
  PROVE  /\ compareDecimal(x, y) \in {-1, 0, 1}
         /\ exceeds(x, y) <=> compareDecimal(x, y) > 0
         /\ positive(x) <=> compareDecimal(x, ZeroText) > 0
<1>1. compareDecimal(x, y) \in {-1, 0, 1} /\ compareDecimal(x, ZeroText) \in {-1, 0, 1}
  BY DEF compareDecimal
<1>2. ZeroText \in Decimal /\ isDecimal(x)
  BY DEF ZeroText, D, Decimal, isDecimal
<1>3. compareTexts(x, y) = compareDecimal(x, y) /\ compareTexts(x, ZeroText) = compareDecimal(x, ZeroText)
  BY <1>2, TextsAndValues
<1> QED BY <1>1, <1>2, <1>3 DEF exceeds, positive

\* The order of amounts is transitive.
LEMMA AtMostTransitive ==
  ASSUME NEW x \in Decimal, NEW y \in Decimal, NEW z \in Decimal, decimalAtMost(x, y), decimalAtMost(y, z)
  PROVE  decimalAtMost(x, z)
<1>1. x.scale \in Nat /\ y.scale \in Nat /\ z.scale \in Nat
  BY DEF Decimal
<1>2. PICK s \in Nat : s = x.scale + y.scale + z.scale
  BY <1>1
<1>3. x.scale <= s /\ y.scale <= s /\ z.scale <= s
  BY <1>1, <1>2
<1>4. aligned(x, s) \in Nat /\ aligned(y, s) \in Nat /\ aligned(z, s) \in Nat
  BY <1>3, AlignedType
<1>5. aligned(x, s) <= aligned(y, s) /\ aligned(y, s) <= aligned(z, s)
  BY <1>3, CompareAligned
<1>6. aligned(x, s) <= aligned(z, s)
  BY <1>4, <1>5
<1> QED BY <1>3, <1>6, CompareAligned

\* The sum of two amounts does not depend on their order.
LEMMA AddCommutes == ASSUME NEW x \in Decimal, NEW y \in Decimal PROVE addDecimal(x, y) = addDecimal(y, x)
<1>1. {x.scale, y.scale} = {y.scale, x.scale}
  OBVIOUS
<1>2. commonScale(x, y) = commonScale(y, x)
  BY <1>1 DEF commonScale
<1>3. commonScale(x, y) \in Nat /\ x.scale <= commonScale(x, y) /\ y.scale <= commonScale(x, y)
  BY CommonScale
<1>4. aligned(x, commonScale(x, y)) \in Nat /\ aligned(y, commonScale(x, y)) \in Nat
  BY <1>3, AlignedType
<1> QED BY <1>2, <1>4 DEF addDecimal

\* What stays within a limit when more is added to it stays within it alone.
LEMMA PartWithin ==
  ASSUME NEW used \in Decimal, NEW x \in Decimal, NEW limit \in Decimal,
         ~(compareDecimal(addDecimal(used, x), limit) > 0)
  PROVE  ~(compareDecimal(x, limit) > 0)
<1>1. addDecimal(x, used) \in Decimal /\ addDecimal(used, x) = addDecimal(x, used)
  BY AddAligned, AddCommutes
<1>2. decimalAtMost(x, addDecimal(x, used))
  BY AddAtLeast
<1>3. decimalAtMost(addDecimal(x, used), limit)
  BY <1>1, AtMostUnlessAbove
<1>4. decimalAtMost(x, limit)
  BY <1>1, <1>2, <1>3, AtMostTransitive
<1> QED BY <1>4, AtMostUnlessAbove

\* The usage before a request.
LEMMA UsageBefore ==
  ASSUME NEW x \in Exchanges
  PROVE  normalizedUsage(x.usage) \in UsageSnapshot /\ normalizedUsage(x.usage).currency \in Currencies \cup {Empty}
<1>1. x.usage # None => x.usage \in UsageSnapshot /\ x.usage.currency \in Currencies \cup {Empty}
  BY Conforms DEF conforms
<1>2. ZeroText \in Decimal
  BY DEF ZeroText, D, Decimal
<1> QED BY <1>1, <1>2, EmptyIsText DEF normalizedUsage, orElse, UsageSnapshot

-----------------------------------------------------------------------------
(* Purchases. *)

\* The members of the context a purchase is evaluated with.
LEMMA PurchaseContext ==
  ASSUME NEW x \in Exchanges, x.seller = "commerce"
  PROVE  LET signed == x.envelope.extensions.commerce
         IN  /\ purchaseConforms(x) /\ commerceOf(x) # None
             /\ DOMAIN commerceOf(x) = {"merchant_organisation_id", "service_id", "offer_id", "currency", "quantity",
                                        "unit_price", "total_amount", "idempotency_key", "terms_digest"}
             /\ commerceOf(x).merchant_organisation_id = x.envelope.counterparty
             /\ commerceOf(x).service_id = x.envelope.resource
             /\ commerceOf(x).offer_id = signed.offer_id
             /\ commerceOf(x).currency = signed.currency
             /\ commerceOf(x).quantity = signed.quantity
             /\ commerceOf(x).unit_price = signed.quoted_unit_price
             /\ commerceOf(x).total_amount = signed.quoted_total
             /\ commerceOf(x).idempotency_key = signed.idempotency_key
             /\ commerceOf(x).terms_digest = signed.terms_digest
<1> DEFINE signed == x.envelope.extensions.commerce
<1>1. purchaseConforms(x)
  BY Conforms DEF conforms
<1>2. commerceOf(x) # None
  BY UndefinedIsNoValue
<1>3. PICK s : s = signed
  OBVIOUS
<1>4. PICK m, r : m = x.envelope.counterparty /\ r = x.envelope.resource
  OBVIOUS
<1>5. commerceOf(x) = merge(quoted(s), [merchant_organisation_id |-> m, service_id |-> r])
  BY <1>3, <1>4 DEF commerceOf
<1>6. /\ DOMAIN commerceOf(x) = {"merchant_organisation_id", "service_id", "offer_id", "currency", "quantity",
                                 "unit_price", "total_amount", "idempotency_key", "terms_digest"}
      /\ commerceOf(x).merchant_organisation_id = m /\ commerceOf(x).service_id = r
      /\ commerceOf(x).offer_id = s.offer_id /\ commerceOf(x).currency = s.currency
      /\ commerceOf(x).quantity = s.quantity /\ commerceOf(x).unit_price = s.quoted_unit_price
      /\ commerceOf(x).total_amount = s.quoted_total /\ commerceOf(x).idempotency_key = s.idempotency_key
      /\ commerceOf(x).terms_digest = s.terms_digest
  BY <1>5 DEF merge, quoted
<1> QED BY <1>1, <1>2, <1>3, <1>4, <1>6

\* What the evaluator reads of a document's extension that is there.
LEMMA ExtensionRead ==
  ASSUME NEW d, NEW f, has(d, "extensions"), has(d.extensions, f)
  PROVE  extension(d, f) = d.extensions[f] /\ d.extensions[f] # None
<1>1. d.extensions # None /\ f \in DOMAIN d.extensions /\ d.extensions[f] # None
  BY DEF has, Schema!has, Schema!present
<1> QED BY <1>1 DEF extension, member

\* The members of the evaluator's request.
LEMMA AuthorityRead ==
  ASSUME NEW m
  PROVE  /\ authority(m).id = m.id /\ authority(m).profile = m.profile /\ authority(m).limits = m.limits
         /\ authority(m).commerce = extension(m, "commerce")
         /\ authority(m).rwa = IF extension(m, "rwa") = None THEN None
                               ELSE [extension(m, "rwa") EXCEPT !.required_roles = Schema!items(@)]
  BY DEF authority

\* What the evaluator reads of a request.
LEMMA EvaluatedRead ==
  ASSUME NEW x, NEW commerce, NEW rwa
  PROVE  LET q == evaluated(x, commerce, rwa)
         IN  /\ q.mandate = authority(x.mandate) /\ q.envelope = transaction(x.envelope)
             /\ q.usage = x.usage /\ q.consumption = x.consumption /\ q.evaluation_time = x.at
             /\ q.commerce = commerce /\ q.rwa = rwa
  BY DEF evaluated

\* An allowed purchase is within every limit of the Mandate.
LEMMA PurchaseAllowed ==
  ASSUME NEW x \in Exchanges, x.seller = "commerce", allows(requestOf(x))
  PROVE  /\ commerceReasons(x.mandate.extensions.commerce, commerceOf(x), normalizedUsage(x.usage)) = {}
         /\ x.envelope.mandate_id = x.mandate.id
<1> DEFINE q == requestOf(x)
           limits == x.mandate.extensions.commerce
<1>1. q = evaluated(x, commerceOf(x), None)
  BY RequestsBuilt
<1>2. /\ q.mandate = authority(x.mandate) /\ q.envelope = transaction(x.envelope) /\ q.usage = x.usage
      /\ q.commerce = commerceOf(x)
  BY <1>1, EvaluatedRead
<1>3. purchaseConforms(x) /\ commerceOf(x) # None
  BY PurchaseContext
<1>4. has(x.mandate, "extensions") /\ has(x.mandate.extensions, "commerce")
  BY <1>3 DEF purchaseConforms, Schema!commerceMandate, Schema!profiled, has
<1>5. authority(x.mandate).commerce = limits /\ limits # None
  BY <1>4, ExtensionRead, AuthorityRead
<1>6. checkProfiles(q, normalizedUsage(q.usage)) = {} /\ checkEnvelope(q.mandate, q.envelope, q.evaluation_time) = {}
  BY NoReason
<1>7. checkCommerce(authority(x.mandate), transaction(x.envelope), commerceOf(x), normalizedUsage(x.usage)) = {}
  BY <1>2, <1>3, <1>6 DEF checkProfiles
<1>8. commerceReasons(limits, commerceOf(x), normalizedUsage(x.usage)) = {}
  BY <1>3, <1>5, <1>7 DEF checkCommerce
<1>9. transaction(x.envelope).mandate_id = x.envelope.mandate_id
  BY DEF transaction
<1>10. Reason(q.envelope.mandate_id # q.mandate.id, "MANDATE_REFERENCE_MISMATCH") = {}
  BY <1>6 DEF checkEnvelope
<1>11. q.envelope.mandate_id = q.mandate.id
  BY <1>10 DEF Reason
<1>12. x.envelope.mandate_id = x.mandate.id
  BY <1>2, <1>9, <1>11, AuthorityRead
<1> QED BY <1>8, <1>12

\* No reason to deny a purchase: every member is as the Mandate's limits say.
LEMMA NoCommerceReason ==
  ASSUME NEW limits, NEW context, NEW usage
  PROVE  commerceReasons(limits, context, usage) = {} <=>
           /\ context.merchant_organisation_id = limits.merchant_organisation_id
           /\ context.service_id = limits.service_id /\ context.offer_id = limits.offer_id
           /\ context.currency = limits.currency
           /\ usage.amount = ZeroText \/ usage.currency = context.currency
           /\ ~(compareDecimal(context.unit_price, limits.max_unit_price) > 0)
           /\ compareDecimal(context.total_amount, multiplyDecimal(context.unit_price, context.quantity)) = 0
           /\ ~(compareDecimal(addDecimal(usage.amount, context.total_amount), limits.max_total) > 0)
           /\ ~(context.quantity > limits.max_quantity)
           /\ limits.terms_digest = None \/ context.terms_digest = limits.terms_digest
  BY DEF commerceReasons, Reason

\* No issue with the terms of a Receipt: the same, with amounts compared as texts.
LEMMA WithinMandate ==
  ASSUME NEW commerce, NEW limit
  PROVE  commerceWithin(commerce, limit) = {} <=>
           /\ commerce.merchant_organisation_id = limit.merchant_organisation_id
           /\ commerce.service_id = limit.service_id /\ commerce.offer_id = limit.offer_id
           /\ commerce.currency = limit.currency
           /\ limit.terms_digest = None \/ commerce.terms_digest = limit.terms_digest
           /\ ~(commerce.quantity > limit.max_quantity)
           /\ ~exceeds(commerce.unit_price, limit.max_unit_price)
           /\ ~exceeds(commerce.total_amount, limit.max_total)
  BY DEF commerceWithin, Reason

\* The terms a Receipt carries are those of the context, and the fulfilment.
LEMMA FulfilledRead ==
  ASSUME NEW x, NEW status
  PROVE  /\ DOMAIN fulfilledTerms(x, status) = DOMAIN commerceOf(x) \cup {"fulfilment_status"}
         /\ \A f \in DOMAIN commerceOf(x) \ {"fulfilment_status"} : fulfilledTerms(x, status)[f] = commerceOf(x)[f]
         /\ fulfilledTerms(x, status).fulfilment_status = status
<1> DEFINE r == [fulfilment_status |-> status]
<1>1. DOMAIN r = {"fulfilment_status"} /\ r.fulfilment_status = status
  OBVIOUS
<1>2. PICK c : c = commerceOf(x)
  OBVIOUS
<1>3. fulfilledTerms(x, status) = merge(c, r)
  BY <1>2 DEF fulfilledTerms
<1> HIDE DEF r
<1>4. /\ DOMAIN merge(c, r) = DOMAIN c \cup {"fulfilment_status"}
      /\ \A f \in DOMAIN c \ {"fulfilment_status"} : merge(c, r)[f] = c[f]
      /\ merge(c, r)["fulfilment_status"] = status
  BY <1>1 DEF merge
<1> QED BY <1>2, <1>3, <1>4

\* The members of the Receipt a seller has issued.
LEMMA ReceiptRead ==
  ASSUME NEW x, NEW granted, NEW profile, NEW terms
  PROVE  LET r == receiptOf(x, granted, profile, terms)
         IN  /\ DOMAIN r = {"oati_version", "id", "transaction_id", "agent_id", "organisation_id", "mandate_id",
                            "decision", "outcome", "occurred_at", "issuer", "profile", "extensions",
                            "policy_digest", "proof"}
             /\ r.oati_version = "1.0" /\ r.id = <<"receipt">> \o Tail(x.envelope.id)
             /\ r.transaction_id = x.envelope.id /\ r.agent_id = x.envelope.agent_id
             /\ r.organisation_id = x.envelope.organisation_id /\ r.mandate_id = x.envelope.mandate_id
             /\ r.decision = IF granted THEN "allow" ELSE "deny"
             /\ r.outcome = IF granted THEN "succeeded" ELSE "denied"
             /\ r.occurred_at = x.at /\ r.issuer = <<"issuer", "seller">> /\ r.profile = profile
             /\ r.extensions = terms /\ r.policy_digest = "policy"
             /\ r.proof = [x.envelope.proof EXCEPT !.verification_method = <<"key", "seller">>]
  BY DEF receiptOf

\* The Receipt's identifier: another kind, the rest of the transaction's.
LEMMA ReceiptIdentifier ==
  ASSUME NEW x \in Exchanges
  PROVE  LET id == <<"receipt">> \o Tail(x.envelope.id)
         IN  Schema!isIdentifier("receipt", id) /\ Len(id) > 1 /\ Head(id) = "receipt"
<1>1. x.envelope.id \in Seq(Schema!items(x.envelope.id)) /\ Schema!envelope(x.envelope)
  BY Conforms DEF conforms
<1>2. Schema!isIdentifier("tx", x.envelope.id)
  BY <1>1 DEF Schema!envelope
<1>3. PICK S, id : id = x.envelope.id /\ id \in Seq(S)
  BY <1>1
<1>4. Len(id) > 1
  BY <1>2, <1>3 DEF Schema!isIdentifier
<1>5. PICK k : k = "receipt"
  OBVIOUS
<1>6. PICK T : T = S \cup {k}
  OBVIOUS
<1>7. Tail(id) \in Seq(T) /\ Len(Tail(id)) = Len(id) - 1
  BY <1>3, <1>4, <1>6
<1>8. <<k>> \in Seq(T) /\ Len(<<k>>) = 1 /\ <<k>>[1] = k
  BY <1>6
<1>9. PICK t \in Seq(T) : t = Tail(id)
  BY <1>7
<1>10. <<k>> \o t \in Seq(T) /\ Len(<<k>> \o t) = 1 + Len(t) /\ (<<k>> \o t)[1] = k
  BY <1>8
<1>11. Len(<<k>> \o t) > 1 /\ Head(<<k>> \o t) = k
  BY <1>4, <1>7, <1>9, <1>10
<1> QED BY <1>3, <1>5, <1>9, <1>11 DEF Schema!isIdentifier

\* What the schema of Envelopes says of the members that a Receipt repeats.
LEMMA EnvelopeMembers ==
  ASSUME NEW x \in Exchanges
  PROVE  LET e == x.envelope
         IN  /\ Schema!envelope(e) /\ {"id", "agent_id", "organisation_id", "mandate_id", "resource"} \subseteq Schema!present(e)
             /\ Schema!isIdentifier("tx", e.id) /\ Schema!isIdentifier("agent", e.agent_id)
             /\ Schema!isIdentifier("org", e.organisation_id) /\ Schema!isIdentifier("mandate", e.mandate_id)
             /\ e.id # None /\ e.agent_id # None /\ e.organisation_id # None /\ e.mandate_id # None
<1>1. Schema!envelope(x.envelope)
  BY Conforms DEF conforms
<1>2. {"id", "agent_id", "organisation_id", "mandate_id", "resource"} \subseteq Schema!present(x.envelope)
  BY <1>1 DEF Schema!envelope, Schema!closed
<1>3. \A f \in Schema!present(x.envelope) : x.envelope[f] # None
  BY DEF Schema!present
<1> QED BY <1>1, <1>2, <1>3 DEF Schema!envelope

\* The Receipt of a verified Envelope has the identifiers and the proof that the
\* validators ask for.
LEMMA CoreOfReceipt ==
  ASSUME NEW x \in Exchanges, x.trusted, NEW granted, NEW profile, NEW terms
  PROVE  validateReceiptCore(receiptOf(x, granted, profile, terms)) = {}
<1> DEFINE r == receiptOf(x, granted, profile, terms)
<1>1. /\ r.id = <<"receipt">> \o Tail(x.envelope.id) /\ r.transaction_id = x.envelope.id
      /\ r.mandate_id = x.envelope.mandate_id
      /\ r.proof = [x.envelope.proof EXCEPT !.verification_method = <<"key", "seller">>]
      /\ "proof" \in DOMAIN r
  BY ReceiptRead
<1> HIDE DEF r
<1>2. r.proof # None
  BY <1>1, UndefinedIsNoValue
<1>3. Head(r.id) = "receipt" /\ Head(r.transaction_id) = "tx" /\ Head(r.mandate_id) = "mandate"
  BY <1>1, ReceiptIdentifier, EnvelopeMembers DEF Schema!isIdentifier
<1>4. has(r, "proof")
  BY <1>1, <1>2 DEF has, Schema!has, Schema!present
<1>5. validateReceiptCore(r) = {}
  BY <1>3, <1>4 DEF validateReceiptCore, startsWith, Reason
<1> QED BY <1>5 DEF r

\* The validator's view of a purchase: the Mandate named and every member as its
\* limits say, in the order of the numbers.
PurchaseValid(x) ==
  LET context == commerceOf(x)
      limits == x.mandate.extensions.commerce
  IN  /\ x.envelope.mandate_id = x.mandate.id
      /\ context.merchant_organisation_id = limits.merchant_organisation_id
      /\ context.service_id = limits.service_id /\ context.offer_id = limits.offer_id
      /\ context.currency = limits.currency
      /\ ~(compareDecimal(context.unit_price, limits.max_unit_price) > 0)
      /\ compareDecimal(context.total_amount, multiplyDecimal(context.unit_price, context.quantity)) = 0
      /\ ~(compareDecimal(context.total_amount, limits.max_total) > 0)
      /\ ~(context.quantity > limits.max_quantity)
      /\ limits.terms_digest = None \/ context.terms_digest = limits.terms_digest

\* The amounts of a purchase are decimals, its quantity a positive number.
LEMMA PurchaseAmounts ==
  ASSUME NEW x \in Exchanges, x.seller = "commerce"
  PROVE  LET context == commerceOf(x)
             limits == x.mandate.extensions.commerce
         IN  /\ context.unit_price \in Decimal /\ context.total_amount \in Decimal
             /\ context.quantity \in Nat /\ context.quantity >= 1 /\ context.currency \in Currencies
             /\ limits.max_unit_price \in Decimal /\ limits.max_total \in Decimal
             /\ multiplyDecimal(context.unit_price, context.quantity) \in Decimal
             /\ multiplyText(context.unit_price, context.quantity)
                  = IF context.quantity > MaxSafeInteger THEN NotDecimal
                    ELSE multiplyDecimal(context.unit_price, context.quantity)
<1> DEFINE context == commerceOf(x)
<1>1. /\ context.unit_price \in Decimal /\ context.total_amount \in Decimal
      /\ context.quantity \in Nat \ {0} /\ context.currency \in Currencies
      /\ x.mandate.extensions.commerce.max_unit_price \in Decimal
      /\ x.mandate.extensions.commerce.max_total \in Decimal
  BY PurchaseContext DEF purchaseConforms
<1>2. PICK price, n : price = context.unit_price /\ n = context.quantity
  OBVIOUS
<1>3. price.coefficient \in Nat /\ price.scale \in Nat /\ n \in Nat /\ n >= 1
  BY <1>1, <1>2 DEF Decimal
<1>4. PICK c \in Nat, s \in Nat, k \in Nat : c = price.coefficient /\ s = price.scale /\ k = n
  BY <1>3
<1>5. c * k \in Nat
  OBVIOUS
<1>6. [coefficient |-> c * k, scale |-> s] \in Decimal
  BY <1>5 DEF Decimal
<1>7. multiplyDecimal(price, n) = [coefficient |-> c * k, scale |-> s]
  BY <1>4 DEF multiplyDecimal, D
<1>8. multiplyText(price, n) = IF n > MaxSafeInteger THEN NotDecimal ELSE [coefficient |-> c * k, scale |-> s]
  BY <1>4, MaxSafeIntegerNat DEF multiplyText, D, isDecimal
<1> QED BY <1>1, <1>2, <1>3, <1>6, <1>7, <1>8

\* The Receipt of a purchase has no issues exactly when the purchase is valid
\* and its quantity a safe integer; a valid one beyond those has one issue.
LEMMA ReceiptIssues ==
  ASSUME NEW x \in Exchanges, x.seller = "commerce", x.trusted
  PROVE  LET issues == validateCommerceReceipt(commerceReceiptOf(x), x.mandate)
             unsafe == commerceOf(x).quantity > MaxSafeInteger
         IN  /\ issues = {} <=> PurchaseValid(x) /\ ~unsafe
             /\ PurchaseValid(x) =>
                  issues = Reason(unsafe, "total amount must equal unit price multiplied by quantity")
<1> DEFINE context == commerceOf(x)
           limits == x.mandate.extensions.commerce
<1>1. PICK status, granted : /\ status \in {"fulfilled", "failed"}
                             /\ commerceReceiptOf(x) = receiptOf(x, granted, CommerceProfile,
                                                                 [commerce |-> fulfilledTerms(x, status)])
  BY DEF commerceReceiptOf
<1>2. PICK t : t = fulfilledTerms(x, status)
  OBVIOUS
<1>3. PICK r : r = commerceReceiptOf(x)
  OBVIOUS
<1>4. r.extensions = [commerce |-> t] /\ r.profile = CommerceProfile /\ r.mandate_id = x.envelope.mandate_id
  <2>1. PICK terms : terms = [commerce |-> t]
    OBVIOUS
  <2>2. r = receiptOf(x, granted, CommerceProfile, terms)
    BY <1>1, <1>2, <1>3, <2>1
  <2>3. PICK s : s = receiptOf(x, granted, CommerceProfile, terms)
    OBVIOUS
  <2>4. s.extensions = terms /\ s.profile = CommerceProfile /\ s.mandate_id = x.envelope.mandate_id
    BY <2>3 DEF receiptOf
  <2> QED BY <2>1, <2>2, <2>3, <2>4
<1>5. t # None /\ r.extensions.commerce = t /\ has(r.extensions, "commerce")
  BY <1>1, <1>2, <1>4, UndefinedIsNoValue DEF has, Schema!has, Schema!present
<1>6. validateReceiptCore(r) = {}
  BY <1>1, <1>3, CoreOfReceipt
<1>7. /\ t.merchant_organisation_id = context.merchant_organisation_id /\ t.service_id = context.service_id
      /\ t.offer_id = context.offer_id /\ t.currency = context.currency /\ t.quantity = context.quantity
      /\ t.unit_price = context.unit_price /\ t.total_amount = context.total_amount
      /\ t.terms_digest = context.terms_digest
  <2>1. DOMAIN context = {"merchant_organisation_id", "service_id", "offer_id", "currency", "quantity",
                          "unit_price", "total_amount", "idempotency_key", "terms_digest"}
    BY PurchaseContext
  <2>2. \A f \in DOMAIN context \ {"fulfilment_status"} : t[f] = context[f]
    <3>1. /\ DOMAIN fulfilledTerms(x, status) = DOMAIN commerceOf(x) \cup {"fulfilment_status"}
          /\ \A f \in DOMAIN commerceOf(x) \ {"fulfilment_status"} : fulfilledTerms(x, status)[f] = commerceOf(x)[f]
          /\ fulfilledTerms(x, status).fulfilment_status = status
      BY FulfilledRead
    <3> QED BY <1>2, <3>1
  <2> QED BY <2>1, <2>2
<1>8. PICK price \in Decimal, total \in Decimal, most \in Decimal, budget \in Decimal, product \in Decimal, n \in Nat :
        /\ price = context.unit_price /\ total = context.total_amount /\ n = context.quantity
        /\ most = limits.max_unit_price /\ budget = limits.max_total
        /\ product = multiplyDecimal(price, n)
        /\ multiplyText(price, n) = IF n > MaxSafeInteger THEN NotDecimal ELSE product
  BY PurchaseAmounts
<1>9. n >= 1 /\ context.currency \in Currencies /\ isDecimal(price) /\ isDecimal(total)
  BY <1>8, PurchaseAmounts DEF Decimal, isDecimal
<1>10. validateCommerceReceipt(r, x.mandate)
         = Reason(n > MaxSafeInteger \/ compareTexts(total, product) # 0,
                  "total amount must equal unit price multiplied by quantity")
           \cup Reason(r.mandate_id # x.mandate.id, "receipt mandate_id does not match Mandate")
           \cup commerceWithin(t, limits)
  <2>1. /\ t.quantity = n /\ t.unit_price = price /\ t.total_amount = total /\ t.currency \in Currencies
        /\ compareTexts(total, multiplyText(t.unit_price, t.quantity)) # 0
             <=> n > MaxSafeInteger \/ compareTexts(total, product) # 0
    <3>1. t.quantity = n /\ t.unit_price = price /\ t.total_amount = total /\ t.currency \in Currencies
      BY <1>7, <1>8, <1>9
    <3>2. compareTexts(total, NotDecimal) # 0
      <4>1. ~isDecimal(NotDecimal)
        BY DEF isDecimal, NotDecimal, D
      <4> QED BY <4>1, UndefinedIsNoValue DEF compareTexts
    <3> QED BY <1>8, <3>1, <3>2
  <2>2. /\ r.profile = CommerceProfile /\ has(r.extensions, "commerce") /\ r.extensions.commerce = t
        /\ validateReceiptCore(r) = {} /\ ~(n < 1) /\ isDecimal(price) /\ isDecimal(total)
    BY <1>4, <1>5, <1>6, <1>8, <1>9
  <2> QED BY <2>1, <2>2 DEF validateCommerceReceipt, Reason
<1>11. compareTexts(total, product) = compareDecimal(total, product)
  BY TextsAndValues
<1>12. (exceeds(price, most) <=> compareDecimal(price, most) > 0) /\ (exceeds(total, budget) <=> compareDecimal(total, budget) > 0)
  BY ComparedValues
<1>13. commerceWithin(t, limits) = {} <=>
         /\ context.merchant_organisation_id = limits.merchant_organisation_id
         /\ context.service_id = limits.service_id /\ context.offer_id = limits.offer_id
         /\ context.currency = limits.currency
         /\ limits.terms_digest = None \/ context.terms_digest = limits.terms_digest
         /\ ~(context.quantity > limits.max_quantity)
         /\ ~exceeds(price, most) /\ ~exceeds(total, budget)
  BY <1>7, <1>8, WithinMandate
<1>14. PurchaseValid(x) <=>
         compareTexts(total, product) = 0 /\ r.mandate_id = x.mandate.id /\ commerceWithin(t, limits) = {}
  BY <1>4, <1>8, <1>11, <1>12, <1>13 DEF PurchaseValid
<1> QED BY <1>3, <1>8, <1>10, <1>14 DEF Reason

-----------------------------------------------------------------------------
(* The inductive invariant: a trusted request has the answer that its      *)
(* seller computes.                                                        *)

receiptFor(x) ==
  CASE x.seller = "commerce" -> commerceReceiptOf(x)
    [] x.seller = "rwa"      -> rwaReceiptOf(x)
    [] x.seller = "metered"  -> receiptOf(x, allows(requestOf(x)), None, << >>)

\* The answer a to the request x is what its seller computes.
Answered(x, a) ==
  /\ a.status = IF allows(requestOf(x)) THEN 200 ELSE 403
  /\ a.usage = nextUsageOf(requestOf(x)) /\ a.receipt = receiptFor(x)
  /\ DOMAIN a = {"status", "usage", "receipt"}

SellersInv ==
  /\ exchange \in Exchanges
  /\ (answer # None /\ exchange.known /\ exchange.trusted) => Answered(exchange, answer)

\* Nothing is answered yet.
LEMMA SellersInit == Init => SellersInv
  BY DEF Init, SellersInv

\* A reply is the answer the seller computes.
LEMMA ReplyStep ==
  ASSUME NEW receipt, receipt = receiptFor(exchange), exchange \in Exchanges, reply(receipt)
  PROVE  SellersInv'
<1>1. exchange' = exchange
  BY DEF reply
<1>2. PICK x, r : x = exchange /\ r = receipt
  OBVIOUS
<1>3. PICK s, u : s = (IF allows(requestOf(x)) THEN 200 ELSE 403) /\ u = nextUsageOf(requestOf(x))
  OBVIOUS
<1>4. answer' = [status |-> s, usage |-> u, receipt |-> r]
  BY <1>2, <1>3 DEF reply
<1>5. answer'.status = s /\ answer'.usage = u /\ answer'.receipt = r /\ DOMAIN answer' = {"status", "usage", "receipt"}
  BY <1>4
<1>6. Answered(x, answer')
  BY <1>2, <1>3, <1>5 DEF Answered
<1>7. Answered(exchange', answer')
  BY <1>1, <1>2, <1>6
<1> QED BY <1>1, <1>7 DEF SellersInv

\* Every step keeps the invariant: it refuses an untrusted request, or replies.
LEMMA SellersStep == SellersInv /\ [Next]_vars => SellersInv'
<1> SUFFICES ASSUME SellersInv, [Next]_vars PROVE SellersInv'
  OBVIOUS
<1>1. exchange \in Exchanges
  BY DEF SellersInv
<1>2. CASE refuse
  <2>1. exchange' = exchange /\ ~(exchange.known /\ exchange.trusted)
    BY <1>2 DEF refuse
  <2> QED BY <1>1, <2>1 DEF SellersInv
<1>3. CASE purchase
  <2>1. exchange.seller = "commerce" /\ reply(commerceReceiptOf(exchange))
    BY <1>3 DEF purchase
  <2>2. receiptFor(exchange) = commerceReceiptOf(exchange)
    BY <2>1 DEF receiptFor
  <2> QED BY <1>1, <2>1, <2>2, ReplyStep
<1>4. CASE mint
  <2>1. exchange.seller = "rwa" /\ reply(rwaReceiptOf(exchange))
    BY <1>4 DEF mint
  <2>2. receiptFor(exchange) = rwaReceiptOf(exchange)
    BY <2>1 DEF receiptFor
  <2> QED BY <1>1, <2>1, <2>2, ReplyStep
<1>5. CASE meter
  <2>1. exchange.seller = "metered" /\ reply(receiptOf(exchange, allows(requestOf(exchange)), None, << >>))
    BY <1>5 DEF meter
  <2>2. receiptFor(exchange) = receiptOf(exchange, allows(requestOf(exchange)), None, << >>)
    BY <2>1 DEF receiptFor
  <2> QED BY <1>1, <2>1, <2>2, ReplyStep
<1>6. CASE UNCHANGED vars
  BY <1>6 DEF vars, SellersInv
<1> QED BY <1>2, <1>3, <1>4, <1>5, <1>6 DEF Next

\* A trusted request that is answered has its seller's answer: 200 or 403 as the
\* evaluator decides, the usage it leaves, and the Receipt over both.
THEOREM SellersInvariant == Spec => []SellersInv
  BY SellersInit, SellersStep, PTL DEF Spec

\* A trusted request that is answered has its seller's answer, and its status says
\* whether the evaluator allowed it.
LEMMA SoldAnswer ==
  ASSUME SellersInv, NEW seller, sold(seller)
  PROVE  /\ exchange \in Exchanges /\ exchange.seller = seller /\ exchange.known /\ exchange.trusted
         /\ Answered(exchange, answer) /\ (allowed <=> allows(requestOf(exchange)))
  BY DEF SellersInv, sold, Answered, allowed

\* The amounts of a purchase are in the same order for the validators of index.ts,
\* which compare digits, and for evaluator.ts, which compares numbers, for amounts
\* of any size.
THEOREM OrderOfTexts == Spec => []AmountsInOrder
<1>1. SellersInv => AmountsInOrder
  <2> SUFFICES ASSUME SellersInv, exchange.seller = "commerce" PROVE AmountsInOrder
    BY DEF AmountsInOrder
  <2>1. exchange \in Exchanges
    BY DEF SellersInv
  <2>2. /\ commerceOf(exchange).unit_price \in Decimal /\ commerceOf(exchange).total_amount \in Decimal
        /\ exchange.mandate.extensions.commerce.max_unit_price \in Decimal
        /\ exchange.mandate.extensions.commerce.max_total \in Decimal
    BY <2>1, PurchaseAmounts
  <2>3. \A a, b \in Decimal : compareTexts(a, b) = compareDecimal(a, b)
    BY TextsAndValues
  <2> QED BY <2>2, <2>3 DEF AmountsInOrder
<1> QED BY <1>1, SellersInvariant, PTL

\* validateCommerceReceipt accepts the Receipt of every purchase that evaluator.ts
\* allowed, except that it has the issue of the total, and no other, if the quantity
\* is no safe integer; and what it accepts of a first purchase the evaluator's
\* Commerce rules do not deny: for every Mandate, usage and amount.
THEOREM EvaluatorAndValidatorAgree == Spec => []CommerceAgree
<1>1. SellersInv => CommerceAgree
  <2> SUFFICES ASSUME SellersInv, sold("commerce") PROVE CommerceAgree
    BY DEF CommerceAgree
  <2> DEFINE context == commerceOf(exchange)
             limits == exchange.mandate.extensions.commerce
             usage == normalizedUsage(exchange.usage)
  <2>1. /\ exchange \in Exchanges /\ exchange.seller = "commerce" /\ exchange.trusted
        /\ Answered(exchange, answer) /\ (allowed <=> allows(requestOf(exchange)))
    BY SoldAnswer
  <2>2. answer.receipt = commerceReceiptOf(exchange)
    BY <2>1 DEF Answered, receiptFor
  <2>3. LET issues == validateCommerceReceipt(answer.receipt, exchange.mandate)
            unsafe == context.quantity > MaxSafeInteger
        IN  /\ issues = {} <=> PurchaseValid(exchange) /\ ~unsafe
            /\ PurchaseValid(exchange) =>
                 issues = Reason(unsafe, "total amount must equal unit price multiplied by quantity")
    BY <2>1, <2>2, ReceiptIssues
  <2>4. /\ context.total_amount \in Decimal /\ limits.max_total \in Decimal /\ usage.amount \in Decimal
    BY <2>1, PurchaseAmounts, UsageBefore DEF UsageSnapshot
  <2>5. ASSUME allowed PROVE PurchaseValid(exchange)
    <3>1. commerceReasons(limits, context, usage) = {} /\ exchange.envelope.mandate_id = exchange.mandate.id
      BY <2>1, <2>5, PurchaseAllowed
    <3>2. ~(compareDecimal(addDecimal(usage.amount, context.total_amount), limits.max_total) > 0)
      BY <3>1, NoCommerceReason
    <3>3. ~(compareDecimal(context.total_amount, limits.max_total) > 0)
      BY <2>4, <3>2, PartWithin
    <3> QED BY <3>1, <3>3, NoCommerceReason DEF PurchaseValid
  <2>6. ASSUME PurchaseValid(exchange), exchange.usage = None PROVE commerceReasons(limits, context, usage) = {}
    <3>1. usage.amount = ZeroText
      BY <2>6 DEF normalizedUsage, orElse
    <3>2. addDecimal(usage.amount, context.total_amount) = context.total_amount
      BY <2>4, <3>1, AddCommutes, AddZero
    <3> QED BY <2>6, <3>1, <3>2, NoCommerceReason DEF PurchaseValid
  <2> QED BY <2>3, <2>5, <2>6 DEF CommerceAgree
<1> QED BY <1>1, SellersInvariant, PTL

\* What an allowed request leaves of its currency, quantity and amount.
LEMMA NextUsageRead ==
  ASSUME NEW q
  PROVE  LET usage == normalizedUsage(q.usage)
             delta == effectiveConsumption(q)
         IN  /\ nextUsage(q).currency = IF delta.currency # Empty THEN delta.currency ELSE usage.currency
             /\ nextUsage(q).quantity = addDecimal(usage.quantity, delta.quantity)
             /\ nextUsage(q).amount = addDecimal(usage.amount, delta.amount)
             /\ nextUsage(q).minted_supply = IF q.rwa # None THEN addDecimal(q.rwa.current_supply, q.rwa.quantity)
                                             ELSE usage.minted_supply
  BY DEF nextUsage, applyConsumption

\* A transaction under terms that keep the currency of what was spent, or under a
\* budget that does, leaves that currency.
LEMMA BudgetKept ==
  ASSUME NEW q, allows(q), budgetChecked(q.mandate, effectiveConsumption(q)),
         hasType(limitOf(q.mandate, "currency"), "string"), limitOf(q.mandate, "currency").value # Empty
  PROVE  LET usage == normalizedUsage(q.usage)
         IN  usage.amount = ZeroText \/ nextUsage(q).currency = usage.currency
<1> DEFINE usage == normalizedUsage(q.usage)
           delta == effectiveConsumption(q)
           limit == limitOf(q.mandate, "currency")
<1>1. checkConsumption(q.mandate, usage, delta) = {}
  BY NoReason
<1>2. Reason(budgetChecked(q.mandate, delta) /\ budgetCurrencyMismatch(q.mandate, usage, delta), "BUDGET_CURRENCY_MISMATCH") = {}
  BY <1>1 DEF checkConsumption
<1>3. ~budgetCurrencyMismatch(q.mandate, usage, delta)
  BY <1>2 DEF Reason
<1>4. delta.currency = limit.value /\ (usage.amount = ZeroText \/ usage.currency = limit.value)
  BY <1>3 DEF budgetCurrencyMismatch
<1>5. nextUsage(q).currency = IF delta.currency # Empty THEN delta.currency ELSE usage.currency
  BY NextUsageRead
<1> QED BY <1>4, <1>5

\* A budget that has been spent from keeps its currency, for every budget, usage
\* and amount that evaluator.ts accepts.
THEOREM BudgetsInOneCurrency == Spec => []BudgetKeepsCurrency
<1>1. SellersInv => BudgetKeepsCurrency
  <2> DEFINE q == requestOf(exchange)
             usage == normalizedUsage(exchange.usage)
             limit == limitOf(authority(exchange.mandate), "currency")
  <2>1. ASSUME SellersInv, sold("commerce"), allowed, exchange.usage # None
        PROVE  exchange.usage.amount = ZeroText \/ answer.usage.currency = exchange.usage.currency
    <3>1. /\ exchange \in Exchanges /\ exchange.seller = "commerce"
          /\ Answered(exchange, answer) /\ allows(q)
      BY <2>1, SoldAnswer
    <3>2. answer.usage = nextUsage(q)
      BY <3>1 DEF Answered, nextUsageOf
    <3>3. q = evaluated(exchange, commerceOf(exchange), None) /\ commerceOf(exchange) # None
      BY <3>1, RequestsBuilt, PurchaseContext
    <3>4. q.usage = exchange.usage /\ q.commerce = commerceOf(exchange)
      BY <3>3, EvaluatedRead
    <3>5. usage = exchange.usage
      BY <2>1 DEF normalizedUsage, orElse
    <3>6. effectiveConsumption(q).currency = commerceOf(exchange).currency
      BY <3>3, <3>4 DEF effectiveConsumption
    <3>7. usage.amount = ZeroText \/ usage.currency = commerceOf(exchange).currency
      BY <3>1, PurchaseAllowed, NoCommerceReason
    <3>8. nextUsage(q).currency = IF effectiveConsumption(q).currency # Empty THEN effectiveConsumption(q).currency
                                  ELSE usage.currency
      BY <3>4, NextUsageRead
    <3> QED BY <3>2, <3>5, <3>6, <3>7, <3>8
  <2>2. ASSUME SellersInv, sold("metered"), allowed, exchange.usage # None,
               budgetChecked(authority(exchange.mandate), effectiveConsumption(q)),
               hasType(limit, "string"), limit.value # Empty
        PROVE  exchange.usage.amount = ZeroText \/ answer.usage.currency = exchange.usage.currency
    <3>1. exchange.seller = "metered" /\ Answered(exchange, answer) /\ allows(q)
      BY <2>2, SoldAnswer
    <3>2. answer.usage = nextUsage(q)
      BY <3>1 DEF Answered, nextUsageOf
    <3>3. q = evaluated(exchange, None, None)
      BY <3>1, RequestsBuilt
    <3>4. q.usage = exchange.usage /\ q.mandate = authority(exchange.mandate)
      BY <3>3, EvaluatedRead
    <3>5. usage = exchange.usage
      BY <2>2 DEF normalizedUsage, orElse
    <3>6. usage.amount = ZeroText \/ nextUsage(q).currency = usage.currency
      BY <2>2, <3>1, <3>4, BudgetKept
    <3> QED BY <3>2, <3>5, <3>6
  <2> QED BY <2>1, <2>2 DEF BudgetKeepsCurrency
<1> QED BY <1>1, SellersInvariant, PTL

-----------------------------------------------------------------------------
(* Mints. *)

\* The members of the context a mint is evaluated with: what is attested over what
\* is signed over the seller's own terms.
LEMMA MintContext ==
  ASSUME NEW x \in Exchanges, x.seller = "rwa"
  PROVE  /\ mintConforms(x) /\ rwaOf(x) # None
         /\ DOMAIN rwaOf(x) = LimitTerms \cup MintTerms \cup AttestedTerms
         /\ \A f \in AttestedTerms : rwaOf(x)[f] = x.attested[f]
         /\ \A f \in MintTerms : rwaOf(x)[f] = x.envelope.extensions.rwa[f]
<1>1. mintConforms(x)
  BY Conforms DEF conforms
<1>2. rwaOf(x) # None
  BY UndefinedIsNoValue
<1>3. PICK t, s, a : t = x.terms /\ s = x.envelope.extensions.rwa /\ a = x.attested
  OBVIOUS
<1>4. DOMAIN t = LimitTerms /\ DOMAIN s = MintTerms /\ DOMAIN a = AttestedTerms
  BY <1>1, <1>3 DEF mintConforms
<1>5. rwaOf(x) = merge(merge(t, s), a)
  BY <1>3 DEF rwaOf
<1>6. MintTerms \cap AttestedTerms = {}
  BY DEF MintTerms, AttestedTerms, RwaIdentity
<1>7. DOMAIN merge(t, s) = LimitTerms \cup MintTerms /\ \A f \in MintTerms : merge(t, s)[f] = s[f]
  BY <1>4 DEF merge
<1>8. PICK m : m = merge(t, s)
  OBVIOUS
<1>9. /\ DOMAIN merge(m, a) = DOMAIN m \cup AttestedTerms
      /\ \A f \in AttestedTerms : merge(m, a)[f] = a[f]
      /\ \A f \in DOMAIN m \ AttestedTerms : merge(m, a)[f] = m[f]
  BY <1>4 DEF merge
<1>10. DOMAIN m = LimitTerms \cup MintTerms /\ \A f \in MintTerms : m[f] = s[f]
  BY <1>7, <1>8
<1>11. rwaOf(x) = merge(m, a)
  BY <1>5, <1>8
<1>12. DOMAIN rwaOf(x) = LimitTerms \cup MintTerms \cup AttestedTerms
  BY <1>9, <1>10, <1>11
<1>13. \A f \in AttestedTerms : rwaOf(x)[f] = a[f]
  BY <1>9, <1>11
<1>14. \A f \in MintTerms : rwaOf(x)[f] = s[f]
  BY <1>6, <1>9, <1>10, <1>11
<1> QED BY <1>1, <1>2, <1>3, <1>12, <1>13, <1>14

\* The amounts of a mint are decimals.
LEMMA MintAmounts ==
  ASSUME NEW x \in Exchanges, x.seller = "rwa"
  PROVE  /\ rwaOf(x).quantity \in Decimal /\ rwaOf(x).current_supply \in Decimal
         /\ rwaOf(x).approval_count \in Nat /\ rwaOf(x).operation \in Schema!Operations
         /\ x.mandate.extensions.rwa.max_quantity \in Decimal /\ x.mandate.extensions.rwa.minimum_approvals \in Nat
         /\ x.claim.value \in Decimal
<1>1. "quantity" \in MintTerms /\ "operation" \in MintTerms /\ "current_supply" \in AttestedTerms /\ "approval_count" \in AttestedTerms
  BY DEF MintTerms, AttestedTerms, RwaIdentity
<1>2. /\ rwaOf(x).quantity = x.envelope.extensions.rwa.quantity /\ rwaOf(x).operation = x.envelope.extensions.rwa.operation
      /\ rwaOf(x).current_supply = x.attested.current_supply /\ rwaOf(x).approval_count = x.attested.approval_count
  BY <1>1, MintContext
<1>3. mintConforms(x)
  BY MintContext
<1> QED BY <1>2, <1>3 DEF mintConforms

\* The request of a mint: the context with its roles as a set.
LEMMA MintRequest ==
  ASSUME NEW x \in Exchanges, x.seller = "rwa"
  PROVE  LET q == requestOf(x)
         IN  /\ q.mandate = authority(x.mandate) /\ q.envelope = transaction(x.envelope) /\ q.usage = x.usage
             /\ q.commerce = None /\ q.consumption = None
             /\ \A f \in DOMAIN rwaOf(x) \ {"approval_roles"} : q.rwa[f] = rwaOf(x)[f]
<1>1. PICK r : r = rwaOf(x)
  OBVIOUS
<1>2. PICK w : w = [r EXCEPT !.approval_roles = Schema!items(@)]
  OBVIOUS
<1>3. requestOf(x) = evaluated(x, None, w)
  BY <1>1, <1>2, RequestsBuilt
<1>4. \A f \in DOMAIN r \ {"approval_roles"} : w[f] = r[f]
  BY <1>2
<1>5. x.consumption = None
  BY MintContext DEF mintConforms
<1> QED BY <1>1, <1>3, <1>4, <1>5, EvaluatedRead

\* The limits of a mint Mandate as the evaluator reads them.
LEMMA MintLimits ==
  ASSUME NEW x \in Exchanges, x.seller = "rwa"
  PROVE  LET limits == x.mandate.extensions.rwa
             read == authority(x.mandate).rwa
         IN  /\ authority(x.mandate).profile = RwaProfile
             /\ \A f \in RwaIdentity \cup {"max_quantity", "minimum_approvals"} : read[f] = limits[f]
<1> DEFINE limits == x.mandate.extensions.rwa
<1>1. Schema!rwaMandate(x.mandate)
  BY MintContext DEF mintConforms
<1>2. /\ has(x.mandate, "extensions") /\ has(x.mandate.extensions, "rwa") /\ x.mandate.profile = RwaProfile
  BY <1>1 DEF Schema!rwaMandate, Schema!profiled, has, Schema!RwaProfile, RwaProfile
<1>3. {"asset_id", "state_claim_id", "network", "token_contract", "operation", "unit", "max_quantity", "one_time",
       "minimum_approvals"} \subseteq DOMAIN limits
  BY <1>1 DEF Schema!rwaMandate, Schema!closed, Schema!present
<1>4. extension(x.mandate, "rwa") = limits /\ limits # None
  BY <1>2, ExtensionRead
<1>5. PICK l : l = limits
  OBVIOUS
<1>6. authority(x.mandate).rwa = [l EXCEPT !.required_roles = Schema!items(@)]
  BY <1>4, <1>5, AuthorityRead
<1>7. \A f \in DOMAIN l \ {"required_roles"} : [l EXCEPT !.required_roles = Schema!items(@)][f] = l[f]
  OBVIOUS
<1>8. RwaIdentity \cup {"max_quantity", "minimum_approvals"} \subseteq DOMAIN l \ {"required_roles"}
  BY <1>3, <1>5 DEF RwaIdentity
<1>9. \A f \in RwaIdentity \cup {"max_quantity", "minimum_approvals"} : authority(x.mandate).rwa[f] = limits[f]
  BY <1>5, <1>6, <1>7, <1>8
<1> QED BY <1>2, <1>9, AuthorityRead

\* An allowed mint is the Mandate's asset, approved often enough, and all that was
\* minted stays within the Mandate.
LEMMA MintAllowed ==
  ASSUME NEW x \in Exchanges, x.seller = "rwa", allows(requestOf(x))
  PROVE  LET limits == x.mandate.extensions.rwa
             minted == addDecimal(normalizedUsage(x.usage).quantity, rwaOf(x).quantity)
         IN  /\ x.envelope.mandate_id = x.mandate.id
             /\ sameFields(rwaOf(x), limits, RwaIdentity)
             /\ ~(compareDecimal(minted, limits.max_quantity) > 0)
             /\ ~(rwaOf(x).approval_count < limits.minimum_approvals)
             /\ nextUsage(requestOf(x)).quantity = minted
             /\ nextUsage(requestOf(x)).minted_supply = addDecimal(rwaOf(x).current_supply, rwaOf(x).quantity)
<1> DEFINE limits == x.mandate.extensions.rwa
           usage == normalizedUsage(x.usage)
<1>1. PICK q : q = requestOf(x)
  OBVIOUS
<1>2. /\ q.mandate = authority(x.mandate) /\ q.envelope = transaction(x.envelope) /\ q.usage = x.usage
      /\ q.commerce = None /\ q.consumption = None
      /\ \A f \in DOMAIN rwaOf(x) \ {"approval_roles"} : q.rwa[f] = rwaOf(x)[f]
  BY <1>1, MintRequest
<1>3. /\ checkProfiles(q, normalizedUsage(q.usage)) = {} /\ checkEnvelope(q.mandate, q.envelope, q.evaluation_time) = {}
  BY <1>1, NoReason
<1>4. PICK m : m = authority(x.mandate)
  OBVIOUS
<1>5. /\ m.profile = RwaProfile
      /\ \A f \in RwaIdentity \cup {"max_quantity", "minimum_approvals"} : m.rwa[f] = limits[f]
  BY <1>4, MintLimits
<1>6. checkRwa(m, q.envelope, q.rwa, usage, hasMintedSupply(q.usage), q.evaluation_time) = {}
  BY <1>2, <1>3, <1>4, <1>5 DEF checkProfiles
<1>7. /\ q.rwa # None /\ sameFields(q.rwa, m.rwa, RwaIdentity)
      /\ ~(compareDecimal(addDecimal(usage.quantity, q.rwa.quantity), m.rwa.max_quantity) > 0)
      /\ ~(q.rwa.approval_count < m.rwa.minimum_approvals)
  <2>1. q.rwa # None /\ m.rwa # None
    BY <1>6 DEF checkRwa
  <2>2. /\ Reason(~sameFields(q.rwa, m.rwa, RwaIdentity), "RWA_TARGET_MISMATCH") = {}
        /\ Reason(compareDecimal(addDecimal(usage.quantity, q.rwa.quantity), m.rwa.max_quantity) > 0,
                  "RWA_QUANTITY_EXCEEDED") = {}
        /\ Reason(q.rwa.approval_count < m.rwa.minimum_approvals, "RWA_APPROVAL_THRESHOLD_NOT_MET") = {}
    BY <1>6, <2>1 DEF checkRwa
  <2> QED BY <2>1, <2>2 DEF Reason
<1>8. RwaIdentity \cup {"quantity", "approval_count", "current_supply"} \subseteq DOMAIN rwaOf(x) \ {"approval_roles"}
  BY MintContext DEF MintTerms, AttestedTerms, RwaIdentity
<1>9. /\ q.rwa.quantity = rwaOf(x).quantity /\ q.rwa.approval_count = rwaOf(x).approval_count
      /\ q.rwa.current_supply = rwaOf(x).current_supply
      /\ \A f \in RwaIdentity : q.rwa[f] = rwaOf(x)[f]
  BY <1>2, <1>8
<1>10. sameFields(rwaOf(x), limits, RwaIdentity)
  BY <1>5, <1>7, <1>9 DEF sameFields
<1>11. m.rwa.max_quantity = limits.max_quantity /\ m.rwa.minimum_approvals = limits.minimum_approvals
  BY <1>5
<1>12. effectiveConsumption(q).quantity = q.rwa.quantity
  BY <1>2, <1>7 DEF effectiveConsumption
<1>13. /\ nextUsage(q).quantity = addDecimal(usage.quantity, rwaOf(x).quantity)
       /\ nextUsage(q).minted_supply = addDecimal(rwaOf(x).current_supply, rwaOf(x).quantity)
  BY <1>2, <1>7, <1>9, <1>12, NextUsageRead
<1>14. x.envelope.mandate_id = x.mandate.id
  <2>1. Reason(q.envelope.mandate_id # q.mandate.id, "MANDATE_REFERENCE_MISMATCH") = {}
    BY <1>3 DEF checkEnvelope
  <2>2. q.envelope.mandate_id = q.mandate.id
    BY <2>1 DEF Reason
  <2>3. transaction(x.envelope).mandate_id = x.envelope.mandate_id
    BY DEF transaction
  <2> QED BY <1>2, <2>2, <2>3, AuthorityRead
<1> QED BY <1>1, <1>7, <1>9, <1>10, <1>11, <1>13, <1>14

\* The terms in the Receipt of a mint.
LEMMA MintedRead ==
  ASSUME NEW x
  PROVE  LET t == mintedTerms(x)
         IN  /\ DOMAIN t = {"asset_id", "state_claim_id", "operation", "network", "token_contract", "quantity", "unit",
                            "approval_count", "resulting_supply", "chain_transaction_hash"}
             /\ \A f \in RwaIdentity \cup {"quantity", "approval_count"} : t[f] = rwaOf(x)[f]
             /\ t.resulting_supply = nextUsageOf(requestOf(x)).minted_supply
             /\ t.chain_transaction_hash = x.envelope.id
<1>1. PICK r, s, h : r = rwaOf(x) /\ s = nextUsageOf(requestOf(x)).minted_supply /\ h = x.envelope.id
  OBVIOUS
<1>2. mintedTerms(x) = [asset_id |-> r.asset_id, state_claim_id |-> r.state_claim_id, operation |-> r.operation,
                        network |-> r.network, token_contract |-> r.token_contract, quantity |-> r.quantity,
                        unit |-> r.unit, approval_count |-> r.approval_count, resulting_supply |-> s,
                        chain_transaction_hash |-> h]
  BY <1>1 DEF mintedTerms
<1> QED BY <1>1, <1>2 DEF RwaIdentity

\* The Receipt of a mint that a seller has issued.
LEMMA MintReceiptRead ==
  ASSUME NEW x
  PROVE  LET r == rwaReceiptOf(x)
         IN  /\ r.extensions = [rwa |-> mintedTerms(x)] /\ r.extensions.rwa = mintedTerms(x)
             /\ r.profile = RwaProfile /\ r.mandate_id = x.envelope.mandate_id
<1>1. PICK terms, t, profile, a : /\ t = mintedTerms(x) /\ terms = [rwa |-> t] /\ profile = RwaProfile
                                  /\ a = allows(requestOf(x))
  OBVIOUS
<1>2. rwaReceiptOf(x) = receiptOf(x, a, profile, terms)
  BY <1>1 DEF rwaReceiptOf
<1>3. PICK s : s = receiptOf(x, a, profile, terms)
  OBVIOUS
<1>4. s.extensions = terms /\ s.profile = profile /\ s.mandate_id = x.envelope.mandate_id
  BY <1>3 DEF receiptOf
<1>5. terms.rwa = t
  BY <1>1
<1> QED BY <1>1, <1>2, <1>3, <1>4, <1>5

\* The Receipt of an allowed mint of something has no issues.
LEMMA MintReceiptValid ==
  ASSUME NEW x \in Exchanges, x.seller = "rwa", x.trusted, allows(requestOf(x)), positive(rwaOf(x).quantity)
  PROVE  validateRwaReceipt(rwaReceiptOf(x), x.mandate) = {}
<1> DEFINE limits == x.mandate.extensions.rwa
<1>1. PICK r, t : r = rwaReceiptOf(x) /\ t = mintedTerms(x)
  OBVIOUS
<1>2. /\ r.extensions.rwa = t /\ r.extensions = [rwa |-> t] /\ r.profile = RwaProfile /\ r.mandate_id = x.envelope.mandate_id
  BY <1>1, MintReceiptRead
<1>3. t # None
  BY <1>1, UndefinedIsNoValue
<1>4. validateReceiptCore(r) = {}
  <2>1. PICK a, terms : a = allows(requestOf(x)) /\ terms = [rwa |-> mintedTerms(x)]
    OBVIOUS
  <2>2. rwaReceiptOf(x) = receiptOf(x, a, RwaProfile, terms)
    BY <2>1 DEF rwaReceiptOf
  <2>3. validateReceiptCore(receiptOf(x, a, RwaProfile, terms)) = {}
    BY CoreOfReceipt
  <2> QED BY <1>1, <2>2, <2>3
<1>5. /\ DOMAIN t = {"asset_id", "state_claim_id", "operation", "network", "token_contract", "quantity", "unit",
                     "approval_count", "resulting_supply", "chain_transaction_hash"}
      /\ \A f \in RwaIdentity \cup {"quantity", "approval_count"} : t[f] = rwaOf(x)[f]
      /\ t.resulting_supply = nextUsageOf(requestOf(x)).minted_supply
      /\ t.chain_transaction_hash = x.envelope.id
  BY <1>1, MintedRead
<1>6. PICK amount \in Decimal, supply \in Decimal, used \in Decimal, most \in Decimal, n \in Nat, least \in Nat :
        /\ amount = rwaOf(x).quantity /\ n = rwaOf(x).approval_count
        /\ supply = nextUsageOf(requestOf(x)).minted_supply /\ used = normalizedUsage(x.usage).quantity
        /\ most = limits.max_quantity /\ least = limits.minimum_approvals
  <2>1. /\ rwaOf(x).quantity \in Decimal /\ rwaOf(x).approval_count \in Nat /\ limits.max_quantity \in Decimal
        /\ limits.minimum_approvals \in Nat /\ rwaOf(x).current_supply \in Decimal
    BY MintAmounts
  <2>2. normalizedUsage(x.usage).quantity \in Decimal
    BY UsageBefore DEF UsageSnapshot
  <2>3. nextUsageOf(requestOf(x)).minted_supply = addDecimal(rwaOf(x).current_supply, rwaOf(x).quantity)
    BY MintAllowed DEF nextUsageOf
  <2>4. addDecimal(rwaOf(x).current_supply, rwaOf(x).quantity) \in Decimal
    BY <2>1, AddAligned
  <2> QED BY <2>1, <2>2, <2>3, <2>4
<1>7. /\ t.quantity = amount /\ t.approval_count = n /\ t.resulting_supply = supply
      /\ \A f \in RwaIdentity : t[f] = limits[f]
  <2>1. sameFields(rwaOf(x), limits, RwaIdentity)
    BY MintAllowed
  <2> QED BY <1>5, <1>6, <2>1 DEF sameFields
<1>8. ~exceeds(amount, most) /\ ~(n < least) /\ r.mandate_id = x.mandate.id /\ ~(n < 0)
  <2>1. /\ ~(compareDecimal(addDecimal(used, amount), most) > 0) /\ ~(n < least) /\ x.envelope.mandate_id = x.mandate.id
    BY <1>6, MintAllowed
  <2>2. ~(compareDecimal(amount, most) > 0)
    BY <2>1, PartWithin
  <2> QED BY <1>2, <2>1, <2>2, ComparedValues
<1>9. positive(amount) /\ isDecimal(supply)
  BY <1>6 DEF Decimal, isDecimal
<1>10. /\ has(t, "chain_transaction_hash") /\ has(t, "resulting_supply") /\ has(r.extensions, "rwa")
  <2>1. x.envelope.id # None /\ supply # None
    BY EnvelopeMembers, UndefinedIsNoValue
  <2>2. t.chain_transaction_hash # None /\ t.resulting_supply # None
    BY <1>5, <1>7, <2>1
  <2>3. "rwa" \in DOMAIN r.extensions
    BY <1>2
  <2> QED BY <1>2, <1>3, <1>5, <2>2, <2>3 DEF has, Schema!has, Schema!present
<1>11. rwaWithin(t, limits) = {}
  <2>1. /\ t.asset_id = limits.asset_id /\ t.state_claim_id = limits.state_claim_id /\ t.operation = limits.operation
        /\ t.unit = limits.unit /\ sameFields(t, limits, {"network", "token_contract"})
    BY <1>7 DEF sameFields, RwaIdentity
  <2> QED BY <1>6, <1>7, <1>8, <2>1 DEF rwaWithin, Reason
<1>12. validateRwaReceipt(r, x.mandate) = {}
  BY <1>2, <1>4, <1>7, <1>8, <1>9, <1>10, <1>11 DEF validateRwaReceipt, Reason
<1> QED BY <1>1, <1>12

\* The Receipt of a mint that evaluator.ts allowed passes validateRwaReceipt, and
\* under a Mandate that validateMintMandate accepts all that was minted stays within
\* the State Claim: for every claim, Mandate, usage and amount.
THEOREM MintsWithinClaim == Spec => []MintWithinClaim
<1>1. SellersInv => MintWithinClaim
  <2> SUFFICES ASSUME SellersInv, sold("rwa"), allowed PROVE MintWithinClaim
    BY DEF MintWithinClaim
  <2> DEFINE limits == exchange.mandate.extensions.rwa
             minted == addDecimal(normalizedUsage(exchange.usage).quantity, rwaOf(exchange).quantity)
  <2>1. /\ exchange \in Exchanges /\ exchange.seller = "rwa" /\ exchange.trusted
        /\ Answered(exchange, answer) /\ allows(requestOf(exchange))
    BY SoldAnswer
  <2>2. answer.receipt = rwaReceiptOf(exchange)
    BY <2>1 DEF Answered, receiptFor
  <2>3. positive(rwaOf(exchange).quantity) => validateRwaReceipt(answer.receipt, exchange.mandate) = {}
    BY <2>1, <2>2, MintReceiptValid
  <2>4. ~(compareDecimal(minted, limits.max_quantity) > 0) /\ answer.usage.quantity = minted
    BY <2>1, MintAllowed DEF Answered, nextUsageOf
  <2>5. /\ minted \in Decimal /\ limits.max_quantity \in Decimal /\ exchange.claim.value \in Decimal
    <3>1. normalizedUsage(exchange.usage).quantity \in Decimal
      BY <2>1, UsageBefore DEF UsageSnapshot
    <3>2. rwaOf(exchange).quantity \in Decimal /\ limits.max_quantity \in Decimal /\ exchange.claim.value \in Decimal
      BY <2>1, MintAmounts
    <3> QED BY <3>1, <3>2, AddAligned
  <2>6. ASSUME validateMintMandate(exchange.mandate, exchange.claim, exchange.at) = {}
        PROVE  compareDecimal(answer.usage.quantity, exchange.claim.value) <= 0
    <3>1. claimIssues(limits, exchange.claim, exchange.at) = {}
      <4>1. has(exchange.mandate, "extensions") /\ has(exchange.mandate.extensions, "rwa")
        BY <2>6 DEF validateMintMandate
      <4> QED BY <2>6, <4>1 DEF validateMintMandate
    <3>2. Reason(exceeds(limits.max_quantity, exchange.claim.value), "mint authority exceeds claimed reserve") = {}
      BY <3>1 DEF claimIssues
    <3>3. ~exceeds(limits.max_quantity, exchange.claim.value)
      BY <3>2 DEF Reason
    <3>4. ~(compareDecimal(limits.max_quantity, exchange.claim.value) > 0)
      BY <2>5, <3>3, ComparedValues
    <3>5. decimalAtMost(minted, limits.max_quantity) /\ decimalAtMost(limits.max_quantity, exchange.claim.value)
      BY <2>4, <3>4, AtMostUnlessAbove
    <3>6. decimalAtMost(minted, exchange.claim.value)
      BY <2>5, <3>5, AtMostTransitive
    <3> QED BY <2>4, <3>6 DEF decimalAtMost
  <2> QED BY <2>3, <2>6 DEF MintWithinClaim
<1> QED BY <1>1, SellersInvariant, PTL

-----------------------------------------------------------------------------
(* Answers feed the next evaluation. *)

Consumed ==
  [calls : Nat, amount : Decimal, currency : Currencies \cup {Empty}, quantity : Decimal, idempotency_key : Text,
   consume : BOOLEAN]

\* A usage that an evaluation leaves: like a snapshot, with a currency code.
Left ==
  [calls : Nat, amount : Decimal, currency : Currencies \cup {Empty}, quantity : Decimal, consumed : BOOLEAN,
   idempotency_keys : SUBSET Text, minted_supply : Decimal]

\* Zero, and numbers of calls, are amounts.
LEMMA DecimalOf == /\ ZeroText \in Decimal
                   /\ \A n \in Nat : decimalOf(n) \in Decimal
  BY DEF ZeroText, decimalOf, D, Decimal

\* The members of what a request consumes.
LEMMA ConsumptionMembers ==
  ASSUME NEW q
  PROVE  LET e == effectiveConsumption(q)
         IN  /\ e.consume \in BOOLEAN
             /\ e = [calls |-> e.calls, amount |-> e.amount, currency |-> e.currency, quantity |-> e.quantity,
                     idempotency_key |-> e.idempotency_key, consume |-> e.consume]
  BY DEF effectiveConsumption

\* What a purchase consumes: the total, in its currency, once per key.
LEMMA PurchaseConsumes ==
  ASSUME NEW x \in Exchanges, x.seller = "commerce"
  PROVE  LET e == effectiveConsumption(requestOf(x))
         IN  /\ e.calls \in Nat /\ e.amount \in Decimal /\ e.currency \in Currencies \cup {Empty} /\ e.quantity \in Decimal
             /\ e.idempotency_key \in Text
<1>1. PICK q : q = requestOf(x)
  OBVIOUS
<1>2. q = evaluated(x, commerceOf(x), None) /\ commerceOf(x) # None
  BY <1>1, RequestsBuilt, PurchaseContext
<1>3. x.consumption = None
  BY PurchaseContext DEF purchaseConforms
<1>4. q.commerce = commerceOf(x) /\ q.consumption = None /\ q.commerce # None
  BY <1>2, <1>3, EvaluatedRead
<1>5. /\ commerceOf(x).total_amount \in Decimal /\ commerceOf(x).quantity \in Nat /\ commerceOf(x).currency \in Currencies
  BY PurchaseAmounts
<1>6. commerceOf(x).idempotency_key \in Text
  BY PurchaseContext DEF purchaseConforms
<1>7. effectiveConsumption(q).calls = 1
  BY <1>4 DEF effectiveConsumption, orElse, NoConsumption
<1>8. /\ effectiveConsumption(q).amount = commerceOf(x).total_amount
      /\ effectiveConsumption(q).currency = commerceOf(x).currency
      /\ effectiveConsumption(q).quantity = decimalOf(commerceOf(x).quantity)
      /\ effectiveConsumption(q).idempotency_key = commerceOf(x).idempotency_key
  BY <1>4 DEF effectiveConsumption
<1> QED BY <1>1, <1>5, <1>6, <1>7, <1>8, DecimalOf

\* What a mint consumes: the quantity, and what it was minted on top of.
LEMMA MintConsumes ==
  ASSUME NEW x \in Exchanges, x.seller = "rwa"
  PROVE  LET q == requestOf(x)
             e == effectiveConsumption(q)
         IN  /\ e.calls \in Nat /\ e.amount \in Decimal /\ e.currency \in Currencies \cup {Empty} /\ e.quantity \in Decimal
             /\ e.idempotency_key \in Text
             /\ q.rwa.quantity \in Decimal /\ q.rwa.current_supply \in Decimal
<1>1. PICK q : q = requestOf(x)
  OBVIOUS
<1>2. /\ q.commerce = None /\ q.consumption = None
      /\ \A f \in DOMAIN rwaOf(x) \ {"approval_roles"} : q.rwa[f] = rwaOf(x)[f]
  BY <1>1, MintRequest
<1>3. {"quantity", "current_supply"} \subseteq DOMAIN rwaOf(x) \ {"approval_roles"}
  BY MintContext DEF MintTerms, AttestedTerms, RwaIdentity
<1>4. q.rwa.quantity \in Decimal /\ q.rwa.current_supply \in Decimal
  BY <1>2, <1>3, MintAmounts
<1>5. effectiveConsumption(q).calls = 1 /\ effectiveConsumption(q).amount = ZeroText
      /\ effectiveConsumption(q).currency = Empty /\ effectiveConsumption(q).idempotency_key = Empty
  BY <1>2 DEF effectiveConsumption, orElse, NoConsumption
<1>6. effectiveConsumption(q).quantity \in {q.rwa.quantity, ZeroText}
  BY <1>2 DEF effectiveConsumption, orElse, NoConsumption
<1>7. effectiveConsumption(q).quantity \in Decimal
  BY <1>4, <1>6, DecimalOf
<1> QED BY <1>1, <1>4, <1>5, <1>7, DecimalOf, EmptyIsText

\* What a metered call consumes.
LEMMA CallConsumes ==
  ASSUME NEW x \in Exchanges, x.seller = "metered"
  PROVE  LET e == effectiveConsumption(requestOf(x))
         IN  /\ e.calls \in Nat /\ e.amount \in Decimal /\ e.currency \in Currencies \cup {Empty} /\ e.quantity \in Decimal
             /\ e.idempotency_key \in Text
<1>1. PICK q : q = requestOf(x)
  OBVIOUS
<1>2. q = evaluated(x, None, None)
  BY <1>1, RequestsBuilt
<1>3. q.commerce = None /\ q.rwa = None /\ q.consumption = x.consumption
  BY <1>2, EvaluatedRead
<1>4. callConforms(x)
  BY Conforms DEF conforms
<1>5. PICK s : s = orElse(x.consumption, NoConsumption)
  OBVIOUS
<1>6. /\ s.calls \in Nat \cup {None} /\ s.amount \in Decimal \cup {None} /\ s.quantity \in Decimal \cup {None}
      /\ s.currency \in Currencies \cup {None} /\ s.idempotency_key \in Text \cup {None}
  BY <1>4, <1>5 DEF callConforms, orElse, NoConsumption
<1>7. /\ effectiveConsumption(q).calls = orElse(s.calls, 1)
      /\ effectiveConsumption(q).amount = orElse(s.amount, ZeroText)
      /\ effectiveConsumption(q).currency = orElse(s.currency, Empty)
      /\ effectiveConsumption(q).quantity = orElse(s.quantity, ZeroText)
      /\ effectiveConsumption(q).idempotency_key = orElse(s.idempotency_key, Empty)
  BY <1>3, <1>5 DEF effectiveConsumption
<1>8. effectiveConsumption(q).calls \in Nat
  BY <1>6, <1>7 DEF orElse
<1>9. effectiveConsumption(q).amount \in Decimal /\ effectiveConsumption(q).quantity \in Decimal
  BY <1>6, <1>7, DecimalOf DEF orElse
<1>10. effectiveConsumption(q).currency \in Currencies \cup {Empty} /\ effectiveConsumption(q).idempotency_key \in Text
  BY <1>6, <1>7, EmptyIsText DEF orElse
<1> QED BY <1>1, <1>8, <1>9, <1>10

\* What any request consumes, whatever its seller.
LEMMA ConsumesType ==
  ASSUME NEW x \in Exchanges
  PROVE  effectiveConsumption(requestOf(x)) \in Consumed
<1>1. PICK q : q = requestOf(x)
  OBVIOUS
<1>2. x.seller = "commerce" \/ x.seller = "rwa" \/ x.seller = "metered"
  BY Conforms DEF conforms
<1>3. PICK e : e = effectiveConsumption(q)
  OBVIOUS
<1>4. /\ e.calls \in Nat /\ e.amount \in Decimal /\ e.currency \in Currencies \cup {Empty} /\ e.quantity \in Decimal
      /\ e.idempotency_key \in Text
  BY <1>1, <1>2, <1>3, PurchaseConsumes, MintConsumes, CallConsumes
<1>5. /\ e.consume \in BOOLEAN
      /\ e = [calls |-> e.calls, amount |-> e.amount, currency |-> e.currency, quantity |-> e.quantity,
              idempotency_key |-> e.idempotency_key, consume |-> e.consume]
  BY <1>3, ConsumptionMembers
<1>6. e \in Consumed
  BY <1>4, <1>5 DEF Consumed
<1> QED BY <1>1, <1>3, <1>6

\* The usage a request finds.
LEMMA FoundUsage ==
  ASSUME NEW x \in Exchanges
  PROVE  normalizedUsage(x.usage) \in Left
<1>1. PICK u : u = normalizedUsage(x.usage)
  OBVIOUS
<1>2. u \in UsageSnapshot /\ u.currency \in Currencies \cup {Empty}
  BY <1>1, UsageBefore
<1>3. u \in Left
  BY <1>2 DEF UsageSnapshot, Left
<1> QED BY <1>1, <1>3

\* The request is made of the usage found, and only the RWA seller gives an RWA context.
LEMMA RequestRead ==
  ASSUME NEW x \in Exchanges
  PROVE  /\ requestOf(x).usage = x.usage
         /\ requestOf(x).rwa # None =>
              requestOf(x).rwa.quantity \in Decimal /\ requestOf(x).rwa.current_supply \in Decimal
<1>1. x.seller = "commerce" \/ x.seller = "rwa" \/ x.seller = "metered"
  BY Conforms DEF conforms
<1>2. CASE x.seller = "commerce"
  <2>1. requestOf(x) = evaluated(x, commerceOf(x), None)
    BY <1>2, RequestsBuilt
  <2> QED BY <2>1 DEF evaluated
<1>3. CASE x.seller = "rwa"
  BY <1>3, MintRequest, MintConsumes
<1>4. CASE x.seller = "metered"
  <2>1. requestOf(x) = evaluated(x, None, None)
    BY <1>4, RequestsBuilt
  <2> QED BY <2>1 DEF evaluated
<1> QED BY <1>1, <1>2, <1>3, <1>4

\* What an evaluation leaves is what one can find.
LEMMA AppliedType ==
  ASSUME NEW u \in Left, NEW e \in Consumed, NEW q,
         q.rwa # None => q.rwa.quantity \in Decimal /\ q.rwa.current_supply \in Decimal
  PROVE  applyConsumption(u, e, q) \in Left
<1>1. PICK v : v = applyConsumption(u, e, q)
  OBVIOUS
<1>2. v.calls \in Nat
  <2>1. PICK m \in Nat, n \in Nat : m = u.calls /\ n = e.calls
    BY DEF Left, Consumed
  <2>2. v.calls = m + n
    BY <1>1, <2>1 DEF applyConsumption
  <2> QED BY <2>2
<1>3. v.amount \in Decimal /\ v.quantity \in Decimal
  <2>1. u.amount \in Decimal /\ e.amount \in Decimal /\ u.quantity \in Decimal /\ e.quantity \in Decimal
    BY DEF Left, Consumed
  <2>2. v.amount = addDecimal(u.amount, e.amount) /\ v.quantity = addDecimal(u.quantity, e.quantity)
    BY <1>1 DEF applyConsumption
  <2> QED BY <2>1, <2>2, AddAligned
<1>4. v.currency \in Currencies \cup {Empty}
  <2>1. u.currency \in Currencies \cup {Empty} /\ e.currency \in Currencies \cup {Empty}
    BY DEF Left, Consumed
  <2>2. v.currency \in {e.currency, u.currency}
    BY <1>1 DEF applyConsumption
  <2> QED BY <2>1, <2>2
<1>5. v.consumed \in BOOLEAN
  BY <1>1 DEF applyConsumption
<1>6. v.idempotency_keys \in SUBSET Text
  <2>1. u.idempotency_keys \in SUBSET Text /\ e.idempotency_key \in Text
    BY DEF Left, Consumed
  <2>2. v.idempotency_keys = u.idempotency_keys \cup (IF e.idempotency_key # Empty THEN {e.idempotency_key} ELSE {})
    BY <1>1 DEF applyConsumption
  <2> QED BY <2>1, <2>2
<1>7. v.minted_supply \in Decimal
  <2>1. u.minted_supply \in Decimal
    BY DEF Left
  <2>2. v.minted_supply = IF q.rwa # None THEN addDecimal(q.rwa.current_supply, q.rwa.quantity) ELSE u.minted_supply
    BY <1>1 DEF applyConsumption
  <2> QED BY <2>1, <2>2, AddAligned
<1>8. v = [calls |-> v.calls, amount |-> v.amount, currency |-> v.currency, quantity |-> v.quantity,
           consumed |-> v.consumed, idempotency_keys |-> v.idempotency_keys, minted_supply |-> v.minted_supply]
  BY <1>1 DEF applyConsumption
<1>9. v \in Left
  BY <1>2, <1>3, <1>4, <1>5, <1>6, <1>7, <1>8 DEF Left
<1> QED BY <1>1, <1>9

\* The usage of an answer is one that the seller can keep.
LEMMA AnswerUsage ==
  ASSUME NEW x \in Exchanges
  PROVE  nextUsageOf(requestOf(x)) \in Left
<1>1. PICK q : q = requestOf(x)
  OBVIOUS
<1>2. q.usage = x.usage /\ (q.rwa # None => q.rwa.quantity \in Decimal /\ q.rwa.current_supply \in Decimal)
  BY <1>1, RequestRead
<1>3. normalizedUsage(q.usage) \in Left
  BY <1>2, FoundUsage
<1>4. effectiveConsumption(q) \in Consumed
  BY <1>1, ConsumesType
<1>5. nextUsage(q) \in Left
  BY <1>2, <1>3, <1>4, AppliedType DEF nextUsage
<1> QED BY <1>1, <1>3, <1>5 DEF nextUsageOf

\* The usage as it is sent with the next request.
sent(usage) == [usage EXCEPT !.currency = IF @ = Empty THEN None ELSE @]

\* It satisfies the schema once a currency that was never named is left out.
LEMMA SentConforms ==
  ASSUME NEW u \in Left
  PROVE  Schema!usageSnapshot(sent(u)) /\ sent(u) # None
<1>1. PICK c : c = IF u.currency = Empty THEN None ELSE u.currency
  OBVIOUS
<1>2. c \in Currencies \cup {None}
  BY <1>1 DEF Left
<1>3. PICK v : v = sent(u)
  OBVIOUS
<1>4. v = [u EXCEPT !.currency = c]
  BY <1>1, <1>3 DEF sent
<1>5. v \in SentUsage
  BY <1>2, <1>4 DEF Left, SentUsage
<1>6. v # None
  BY <1>5, UndefinedIsNoValue
<1>7. DOMAIN v = {"calls", "amount", "currency", "quantity", "consumed", "idempotency_keys", "minted_supply"}
  BY <1>5 DEF SentUsage
<1>8. /\ v.calls \in Nat /\ v.amount \in Decimal /\ v.quantity \in Decimal /\ v.minted_supply \in Decimal
      /\ v.currency \in Currencies \cup {None}
  BY <1>5 DEF SentUsage
<1>9. v.calls >= 0
  BY <1>8
<1>10. v.amount.scale >= 0 /\ v.quantity.scale >= 0 /\ v.minted_supply.scale >= 0
  BY <1>8 DEF Decimal
<1>11. Schema!closed(v, {}, {"calls", "amount", "currency", "quantity", "consumed", "idempotency_keys", "minted_supply"})
  BY <1>7 DEF Schema!closed, Schema!present
<1>12. Schema!Amounts \cap Schema!present(v) \subseteq {"amount", "quantity", "minted_supply"}
  BY <1>7 DEF Schema!Amounts, Schema!present
<1>13. \A f \in Schema!Amounts \cap Schema!present(v) : Schema!isDecimal(v[f])
  BY <1>10, <1>12 DEF Schema!isDecimal
<1>14. \A f \in {"currency"} \cap Schema!present(v) : Schema!isCurrency(v[f])
  BY <1>8 DEF Schema!isCurrency, Schema!present
<1>15. Schema!usageSnapshot(v)
  BY <1>9, <1>11, <1>13, <1>14 DEF Schema!usageSnapshot, Schema!each
<1> QED BY <1>3, <1>6, <1>15

\* A proof signed with another key satisfies the schema of proofs as well.
LEMMA ProofConforms ==
  ASSUME NEW p, Schema!proof(p)
  PROVE  Schema!proof([p EXCEPT !.verification_method = <<"key", "seller">>])
<1> DEFINE fields == {"type", "cryptosuite", "algorithm", "created", "expires", "verification_method",
                      "proof_purpose", "audience", "nonce", "signature"}
<1>1. PICK key : key = <<"key", "seller">>
  OBVIOUS
<1>2. Schema!isIdentifier("key", key) /\ key # None
  BY <1>1, UndefinedIsNoValue DEF Schema!isIdentifier
<1>3. PICK s : s = [p EXCEPT !.verification_method = key]
  OBVIOUS
<1>4. Schema!closed(p, fields, {})
  BY DEF Schema!proof
<1>5. fields \subseteq DOMAIN p /\ \A f \in DOMAIN p : p[f] # None => f \in fields
  BY <1>4 DEF Schema!closed, Schema!present
<1>6. \A f \in fields : p[f] # None
  BY <1>4 DEF Schema!closed, Schema!present
<1>7. "verification_method" \in DOMAIN p
  BY <1>5
<1>8. /\ DOMAIN s = DOMAIN p /\ s["verification_method"] = key
      /\ \A f \in DOMAIN p \ {"verification_method"} : s[f] = p[f]
  BY <1>3, <1>7
<1>9. \A f \in fields : s[f] # None
  BY <1>2, <1>5, <1>6, <1>8
<1>10. \A f \in DOMAIN s : s[f] # None => f \in fields
  BY <1>5, <1>8
<1>11. Schema!closed(s, fields, {})
  BY <1>5, <1>8, <1>9, <1>10 DEF Schema!closed, Schema!present
<1>12. /\ s.type = p.type /\ s.proof_purpose = p.proof_purpose /\ s.cryptosuite = p.cryptosuite /\ s.algorithm = p.algorithm
       /\ s.created = p.created /\ s.expires = p.expires /\ s.audience = p.audience /\ s.nonce = p.nonce
  BY <1>5, <1>8
<1>13. /\ p.type = "OatiJwsProof2026" /\ p.proof_purpose = "assertionMethod"
       /\ p.cryptosuite \in {"eddsa-jcs-2022", "ecdsa-jcs-2019"} /\ p.algorithm \in {"EdDSA", "ES256"}
       /\ Len(p.audience) >= 1 /\ Schema!uniqueItems(p.audience) /\ Blank \notin Schema!items(p.audience)
       /\ Schema!longNonce(p.nonce)
  BY DEF Schema!proof
<1>14. Schema!isTime(p.created) /\ Schema!isTime(p.expires)
  <2>1. \A f \in {"created", "expires"} \cap Schema!present(p) : Schema!isTime(p[f])
    BY DEF Schema!proof, Schema!each
  <2>2. {"created", "expires"} \subseteq Schema!present(p)
    BY <1>5, <1>6 DEF Schema!present
  <2> QED BY <2>1, <2>2
<1>15. \A f \in {"created", "expires"} \cap Schema!present(s) : Schema!isTime(s[f])
  BY <1>12, <1>14
<1>16. Schema!isIdentifier("key", s.verification_method)
  BY <1>2, <1>8
<1>17. Schema!proof(s)
  BY <1>11, <1>12, <1>13, <1>15, <1>16 DEF Schema!proof, Schema!each
<1> QED BY <1>1, <1>3, <1>17

\* The Receipt for a verified Envelope satisfies the schema of Receipts, whatever
\* its profile and its terms.
LEMMA ReceiptConforms ==
  ASSUME NEW x \in Exchanges, x.trusted, NEW a, NEW profile \in Uris \cup {None}, NEW terms
  PROVE  Schema!receipt(receiptOf(x, a, profile, terms))
<1> DEFINE required == {"oati_version", "id", "transaction_id", "agent_id", "organisation_id", "mandate_id",
                        "decision", "outcome", "occurred_at", "issuer", "proof"}
           optional == {"policy_digest", "request_digest", "response_digest", "commercial_profile", "profile", "extensions"}
<1>1. PICK r : r = receiptOf(x, a, profile, terms)
  OBVIOUS
<1>2. /\ DOMAIN r = {"oati_version", "id", "transaction_id", "agent_id", "organisation_id", "mandate_id",
                     "decision", "outcome", "occurred_at", "issuer", "profile", "extensions", "policy_digest", "proof"}
      /\ r.oati_version = "1.0" /\ r.id = <<"receipt">> \o Tail(x.envelope.id)
      /\ r.transaction_id = x.envelope.id /\ r.agent_id = x.envelope.agent_id
      /\ r.organisation_id = x.envelope.organisation_id /\ r.mandate_id = x.envelope.mandate_id
      /\ r.decision \in {"allow", "deny"} /\ r.outcome \in {"succeeded", "denied"}
      /\ r.occurred_at = x.at /\ r.issuer = <<"issuer", "seller">> /\ r.profile = profile
      /\ r.proof = [x.envelope.proof EXCEPT !.verification_method = <<"key", "seller">>]
  BY <1>1 DEF receiptOf
<1>3. /\ Schema!isIdentifier("tx", x.envelope.id) /\ Schema!isIdentifier("agent", x.envelope.agent_id)
      /\ Schema!isIdentifier("org", x.envelope.organisation_id) /\ Schema!isIdentifier("mandate", x.envelope.mandate_id)
      /\ x.envelope.id # None /\ x.envelope.agent_id # None /\ x.envelope.organisation_id # None
      /\ x.envelope.mandate_id # None /\ Schema!envelope(x.envelope)
  BY EnvelopeMembers
<1>4. Schema!isIdentifier("receipt", r.id)
  BY <1>2, ReceiptIdentifier
<1>5. x.at \in Nat /\ has(x.envelope, "proof")
  BY Conforms DEF conforms
<1>6. /\ r.id # None /\ r.proof # None
  BY <1>2, UndefinedIsNoValue
<1>7. /\ r.oati_version # None /\ r.decision # None /\ r.outcome # None
  BY <1>2, UndefinedIsNoValue
<1>8. r.issuer # None /\ r.occurred_at # None
  BY <1>2, <1>5, UndefinedIsNoValue
<1>9. \A f \in required : r[f] # None
  BY <1>2, <1>3, <1>6, <1>7, <1>8
<1>10. Schema!closed(r, required, optional)
  BY <1>2, <1>9 DEF Schema!closed, Schema!present
<1>11. Schema!proof(x.envelope.proof)
  <2>1. \A f \in {"proof"} \cap Schema!present(x.envelope) : Schema!proof(x.envelope[f])
    BY <1>3 DEF Schema!envelope, Schema!proven, Schema!each
  <2> QED BY <1>5, <2>1 DEF has, Schema!has
<1>12. Schema!proof(r.proof)
  BY <1>2, <1>11, ProofConforms
<1>13. Schema!proven(r)
  BY <1>12 DEF Schema!proven, Schema!each
<1>14. Schema!nonEmpty(r.issuer)
  BY <1>2, IssuerIsNotBlank DEF Schema!nonEmpty
<1>15. Schema!has(r, "profile") => r.profile \in Uris
  BY <1>2 DEF Schema!has, Schema!present
<1>16. Schema!Version(r) /\ Schema!isTime(r.occurred_at)
  BY <1>2, <1>5 DEF Schema!Version, Schema!isTime
<1>17. r.decision \in Schema!Decisions /\ r.outcome \in {"succeeded", "failed", "denied", "pending", "unknown"}
  BY <1>2 DEF Schema!Decisions
<1>18. Schema!receipt(r)
  BY <1>2, <1>3, <1>4, <1>10, <1>13, <1>14, <1>15, <1>16, <1>17 DEF Schema!receipt
<1> QED BY <1>1, <1>18

\* The context of a purchase satisfies its schema.
LEMMA PurchaseContextConforms ==
  ASSUME NEW x \in Exchanges, x.seller = "commerce"
  PROVE  Schema!commerceContext(commerceOf(x))
<1> DEFINE required == {"merchant_organisation_id", "service_id", "offer_id", "currency", "quantity", "unit_price",
                        "total_amount", "idempotency_key"}
<1>1. PICK c : c = commerceOf(x)
  OBVIOUS
<1>2. PICK s : s = x.envelope.extensions.commerce
  OBVIOUS
<1>3. /\ DOMAIN c = required \cup {"terms_digest"}
      /\ c.merchant_organisation_id = x.envelope.counterparty /\ c.service_id = x.envelope.resource
      /\ c.offer_id = s.offer_id /\ c.currency = s.currency /\ c.quantity = s.quantity
      /\ c.unit_price = s.quoted_unit_price /\ c.total_amount = s.quoted_total
      /\ c.idempotency_key = s.idempotency_key
  BY <1>1, <1>2, PurchaseContext
<1>4. purchaseConforms(x)
  BY PurchaseContext
<1>5. /\ PurchaseTerms \ {"terms_digest"} \subseteq Schema!present(s) /\ has(x.envelope, "counterparty")
      /\ s.idempotency_key \in Text \ {Empty, Blank}
  BY <1>2, <1>4 DEF purchaseConforms
<1>6. x.envelope.resource # None
  BY EnvelopeMembers DEF Schema!present
<1>7. x.envelope.counterparty # None
  BY <1>5 DEF has, Schema!has, Schema!present
<1>8. /\ s.offer_id # None /\ s.currency # None /\ s.quantity # None /\ s.quoted_unit_price # None
      /\ s.quoted_total # None /\ s.idempotency_key # None
  BY <1>5 DEF Schema!present, PurchaseTerms
<1>9. \A f \in required : c[f] # None
  BY <1>3, <1>6, <1>7, <1>8
<1>10. Schema!closed(c, required, {"terms_digest"})
  BY <1>3, <1>9 DEF Schema!closed, Schema!present
<1>11. /\ c.unit_price \in Decimal /\ c.total_amount \in Decimal /\ c.quantity >= 1 /\ c.currency \in Currencies
  BY <1>1, PurchaseAmounts
<1>12. c.unit_price.scale >= 0 /\ c.total_amount.scale >= 0
  BY <1>11 DEF Decimal
<1>13. (Schema!Amounts \ {"quantity"}) \cap Schema!present(c) \subseteq {"unit_price", "total_amount"}
  BY <1>3 DEF Schema!Amounts, Schema!present
<1>14. \A f \in (Schema!Amounts \ {"quantity"}) \cap Schema!present(c) : Schema!isDecimal(c[f])
  BY <1>12, <1>13 DEF Schema!isDecimal
<1>15. Schema!nonEmpty(c.idempotency_key) /\ Schema!isCurrency(c.currency)
  BY <1>3, <1>5, <1>11 DEF Schema!nonEmpty, Schema!isCurrency
<1>16. Schema!commerceContext(c)
  BY <1>10, <1>11, <1>14, <1>15 DEF Schema!commerceContext, Schema!each
<1> QED BY <1>1, <1>16

\* The context of a mint as it is sent: without the limits of the seller's own terms.
sentContext(x) ==
  [rwaOf(x) EXCEPT !.max_quantity = None, !.one_time = None, !.minimum_approvals = None, !.required_roles = None]

\* The context of a mint satisfies its schema.
LEMMA MintContextConforms ==
  ASSUME NEW x \in Exchanges, x.seller = "rwa"
  PROVE  Schema!rwaContext(sentContext(x))
<1> DEFINE required == {"asset_id", "state_claim_id", "network", "token_contract", "operation", "unit", "quantity",
                        "reserve", "approval_count", "approval_roles", "current_supply", "claim_valid_until"}
           limited == {"max_quantity", "one_time", "minimum_approvals", "required_roles"}
<1>1. PICK c, w : c = rwaOf(x) /\ w = sentContext(x)
  OBVIOUS
<1>2. w = [c EXCEPT !.max_quantity = None, !.one_time = None, !.minimum_approvals = None, !.required_roles = None]
  BY <1>1 DEF sentContext
<1>3. PICK s, a : s = x.envelope.extensions.rwa /\ a = x.attested
  OBVIOUS
<1>4. /\ DOMAIN c = LimitTerms \cup MintTerms \cup AttestedTerms
      /\ \A f \in AttestedTerms : c[f] = a[f]
      /\ \A f \in MintTerms : c[f] = s[f]
  BY <1>1, <1>3, MintContext
<1>5. /\ MintTerms \subseteq Schema!present(s) /\ AttestedTerms \ {"maximum_supply"} \subseteq Schema!present(a)
      /\ s.operation \in Schema!Operations /\ s.quantity \in Decimal
      /\ a.reserve \in Decimal /\ a.current_supply \in Decimal /\ a.maximum_supply \in Decimal \cup {None}
      /\ a.approval_count \in Nat /\ Schema!uniqueItems(a.approval_roles) /\ a.claim_valid_until \in Nat
  BY <1>3, MintContext DEF mintConforms
<1>6. DOMAIN c = required \cup limited \cup {"maximum_supply"}
  BY <1>4 DEF LimitTerms, MintTerms, AttestedTerms, RwaIdentity
<1>7. /\ DOMAIN w = DOMAIN c /\ \A f \in limited : w[f] = None
      /\ \A f \in DOMAIN c \ limited : w[f] = c[f]
  BY <1>2, <1>6
<1>8. required \subseteq DOMAIN c \ limited /\ "maximum_supply" \in DOMAIN c \ limited
  BY <1>6
<1>9. required \subseteq MintTerms \cup (AttestedTerms \ {"maximum_supply"})
  BY DEF MintTerms, AttestedTerms, RwaIdentity
<1>10. \A f \in MintTerms : s[f] # None
  BY <1>5 DEF Schema!present
<1>11. \A f \in AttestedTerms \ {"maximum_supply"} : a[f] # None
  BY <1>5 DEF Schema!present
<1>12. \A f \in required : w[f] # None
  <2> TAKE f \in required
  <2>1. w[f] = c[f]
    BY <1>7, <1>8
  <2>2. CASE f \in MintTerms
    BY <1>4, <1>10, <2>1, <2>2
  <2>3. CASE f \in AttestedTerms \ {"maximum_supply"}
    BY <1>4, <1>11, <2>1, <2>3
  <2> QED BY <1>9, <2>2, <2>3
<1>13. Schema!present(w) \subseteq required \cup {"maximum_supply"}
  BY <1>6, <1>7 DEF Schema!present
<1>14. required \subseteq Schema!present(w)
  BY <1>6, <1>7, <1>12 DEF Schema!present
<1>15. Schema!closed(w, required, {"maximum_supply"})
  BY <1>13, <1>14 DEF Schema!closed
<1>16. /\ "operation" \in MintTerms /\ "quantity" \in MintTerms /\ "approval_count" \in AttestedTerms
       /\ "approval_roles" \in AttestedTerms /\ "claim_valid_until" \in AttestedTerms /\ "reserve" \in AttestedTerms
       /\ "current_supply" \in AttestedTerms /\ "maximum_supply" \in AttestedTerms
  BY DEF MintTerms, AttestedTerms, RwaIdentity
<1>17. /\ c.operation = s.operation /\ c.quantity = s.quantity /\ c.approval_count = a.approval_count
       /\ c.approval_roles = a.approval_roles /\ c.claim_valid_until = a.claim_valid_until
       /\ c.reserve = a.reserve /\ c.current_supply = a.current_supply /\ c.maximum_supply = a.maximum_supply
  BY <1>4, <1>16
<1>18. /\ w.operation = c.operation /\ w.quantity = c.quantity /\ w.approval_count = c.approval_count
       /\ w.approval_roles = c.approval_roles /\ w.claim_valid_until = c.claim_valid_until
       /\ w.reserve = c.reserve /\ w.current_supply = c.current_supply /\ w.maximum_supply = c.maximum_supply
  BY <1>7, <1>8
<1>19. /\ w.operation \in Schema!Operations /\ w.approval_count \in Nat /\ Schema!uniqueItems(w.approval_roles)
       /\ Schema!isTime(w.claim_valid_until)
  BY <1>5, <1>17, <1>18 DEF Schema!isTime
<1>20. w.approval_count >= 0
  BY <1>19
<1>21. Schema!Amounts \cap Schema!present(w) \subseteq {"quantity", "reserve", "current_supply", "maximum_supply"}
  BY <1>13 DEF Schema!Amounts
<1>22. \A f \in Schema!Amounts \cap Schema!present(w) : w[f] \in Decimal
  <2>1. w.quantity \in Decimal /\ w.reserve \in Decimal /\ w.current_supply \in Decimal /\ w.maximum_supply \in Decimal \cup {None}
    BY <1>5, <1>17, <1>18
  <2> QED BY <1>21, <2>1 DEF Schema!present
<1>23. \A f \in Schema!Amounts \cap Schema!present(w) : Schema!isDecimal(w[f])
  <2>1. \A v \in Decimal : Schema!isDecimal(v)
    BY DEF Decimal, Schema!isDecimal
  <2> QED BY <1>22, <2>1
<1>24. Schema!rwaContext(w)
  BY <1>15, <1>19, <1>20, <1>23 DEF Schema!rwaContext, Schema!each
<1> QED BY <1>1, <1>24

\* The Mandate of any request satisfies the schema of Mandates.
LEMMA MandateConforms ==
  ASSUME NEW x \in Exchanges
  PROVE  Schema!mandate(x.mandate) /\ x.mandate # None /\ x.envelope # None
<1>1. x.seller = "commerce" \/ x.seller = "rwa" \/ x.seller = "metered"
  BY Conforms DEF conforms
<1>2. CASE x.seller = "commerce"
  <2>1. Schema!commerceMandate(x.mandate)
    BY <1>2, PurchaseContext DEF purchaseConforms
  <2> QED BY <2>1, UndefinedIsNoValue DEF Schema!commerceMandate
<1>3. CASE x.seller = "rwa"
  <2>1. Schema!rwaMandate(x.mandate)
    BY <1>3, MintContext DEF mintConforms
  <2> QED BY <2>1, UndefinedIsNoValue DEF Schema!rwaMandate
<1>4. CASE x.seller = "metered"
  <2>1. callConforms(x)
    BY <1>4, Conforms DEF conforms
  <2> QED BY <2>1, UndefinedIsNoValue DEF callConforms
<1> QED BY <1>1, <1>2, <1>3, <1>4

\* What a request supplies of its consumption, if anything, satisfies its schema.
LEMMA ConsumptionConforms ==
  ASSUME NEW x \in Exchanges, x.consumption # None
  PROVE  Schema!consumption(x.consumption)
<1>1. x.seller = "commerce" \/ x.seller = "rwa" \/ x.seller = "metered"
  BY Conforms DEF conforms
<1>2. CASE x.seller = "commerce"
  BY <1>2, PurchaseContext DEF purchaseConforms
<1>3. CASE x.seller = "rwa"
  BY <1>3, MintContext DEF mintConforms
<1>4. CASE x.seller = "metered"
  <2>1. callConforms(x)
    BY <1>4, Conforms DEF conforms
  <2> QED BY <2>1 DEF callConforms
<1> QED BY <1>1, <1>2, <1>3, <1>4

\* A request with a usage that an evaluation left satisfies the schema of
\* evaluation requests.
LEMMA RequestConforms ==
  ASSUME NEW x \in Exchanges, NEW u \in Left
  PROVE  Schema!evaluationRequest(requestDocument(x, sent(u)))
<1> DEFINE required == {"oati_version", "evaluation_time", "mandate", "envelope", "usage"}
           optional == {"parent_mandate", "delegation_depth", "consumption", "commerce", "rwa"}
<1>1. PICK c : c = IF x.seller = "commerce" THEN commerceOf(x) ELSE None
  OBVIOUS
<1>2. PICK w : w = IF x.seller # "rwa" THEN None ELSE sentContext(x)
  OBVIOUS
<1>3. PICK v : v = sent(u)
  OBVIOUS
<1>4. PICK d : d = requestDocument(x, v)
  OBVIOUS
<1>5. d = [oati_version |-> "1.0", evaluation_time |-> x.at, mandate |-> x.mandate, envelope |-> x.envelope, usage |-> v,
           consumption |-> x.consumption, commerce |-> c, rwa |-> w]
  BY <1>1, <1>2, <1>4 DEF requestDocument, sentContext
<1>6. /\ DOMAIN d = {"oati_version", "evaluation_time", "mandate", "envelope", "usage", "consumption", "commerce", "rwa"}
      /\ d.oati_version = "1.0" /\ d.evaluation_time = x.at /\ d.mandate = x.mandate /\ d.envelope = x.envelope
      /\ d.usage = v /\ d.consumption = x.consumption /\ d.commerce = c /\ d.rwa = w
  BY <1>5
<1>7. x.at \in Nat /\ Schema!envelope(x.envelope)
  BY Conforms DEF conforms
<1>8. Schema!mandate(x.mandate) /\ x.mandate # None /\ x.envelope # None
  BY MandateConforms
<1>9. Schema!usageSnapshot(v) /\ v # None
  BY <1>3, SentConforms
<1>10. \A f \in required : d[f] # None
  BY <1>6, <1>7, <1>8, <1>9, UndefinedIsNoValue
<1>11. Schema!closed(d, required, optional)
  BY <1>6, <1>10 DEF Schema!closed, Schema!present
<1>12. \A f \in {"mandate", "parent_mandate"} \cap Schema!present(d) : Schema!mandate(d[f])
  BY <1>6, <1>8 DEF Schema!present
<1>13. \A f \in {"consumption"} \cap Schema!present(d) : Schema!consumption(d[f])
  BY <1>6, ConsumptionConforms DEF Schema!present
<1>14. \A f \in {"commerce"} \cap Schema!present(d) : Schema!commerceContext(d[f])
  BY <1>1, <1>6, PurchaseContextConforms DEF Schema!present
<1>15. \A f \in {"rwa"} \cap Schema!present(d) : Schema!rwaContext(d[f])
  BY <1>2, <1>6, MintContextConforms DEF Schema!present
<1>16. ~Schema!has(d, "delegation_depth")
  BY <1>6 DEF Schema!has, Schema!present
<1>17. Schema!Version(d) /\ Schema!isTime(d.evaluation_time) /\ Schema!envelope(d.envelope) /\ Schema!usageSnapshot(d.usage)
  BY <1>6, <1>7, <1>9 DEF Schema!Version, Schema!isTime
<1>18. Schema!evaluationRequest(d)
  BY <1>11, <1>12, <1>13, <1>14, <1>15, <1>16, <1>17 DEF Schema!evaluationRequest, Schema!each
<1> QED BY <1>3, <1>4, <1>18

\* The profiles of Mandates that the sellers ask for.
LEMMA ProfileUri ==
  ASSUME NEW x \in Exchanges
  PROVE  /\ x.seller = "commerce" => CommerceProfile \in Uris
         /\ x.seller = "rwa" => RwaProfile \in Uris
<1>1. Schema!mandate(x.mandate)
  BY MandateConforms
<1>2. Schema!has(x.mandate, "profile") => x.mandate.profile \in Uris
  BY <1>1 DEF Schema!mandate
<1>3. ASSUME x.seller = "commerce" PROVE CommerceProfile \in Uris
  <2>1. Schema!commerceMandate(x.mandate)
    BY <1>3, PurchaseContext DEF purchaseConforms
  <2>2. Schema!has(x.mandate, "profile") /\ x.mandate.profile = CommerceProfile
    BY <2>1 DEF Schema!commerceMandate, Schema!profiled, Schema!CommerceProfile, CommerceProfile
  <2> QED BY <1>2, <2>2
<1>4. ASSUME x.seller = "rwa" PROVE RwaProfile \in Uris
  <2>1. Schema!rwaMandate(x.mandate)
    BY <1>4, MintContext DEF mintConforms
  <2>2. Schema!has(x.mandate, "profile") /\ x.mandate.profile = RwaProfile
    BY <2>1 DEF Schema!rwaMandate, Schema!profiled, Schema!RwaProfile, RwaProfile
  <2> QED BY <1>2, <2>2
<1> QED BY <1>3, <1>4

\* Every Receipt a seller issues satisfies the schema of Receipts.
LEMMA SellerReceiptConforms ==
  ASSUME NEW x \in Exchanges, x.trusted
  PROVE  Schema!receipt(receiptFor(x))
<1>1. x.seller = "commerce" \/ x.seller = "rwa" \/ x.seller = "metered"
  BY Conforms DEF conforms
<1>2. \A a, terms : \A profile \in Uris \cup {None} : Schema!receipt(receiptOf(x, a, profile, terms))
  BY ReceiptConforms
<1>3. CASE x.seller = "commerce"
  <2>1. receiptFor(x) = commerceReceiptOf(x) /\ CommerceProfile \in Uris \cup {None}
    BY <1>3, ProfileUri DEF receiptFor
  <2> QED BY <1>2, <2>1 DEF commerceReceiptOf
<1>4. CASE x.seller = "rwa"
  <2>1. receiptFor(x) = rwaReceiptOf(x) /\ RwaProfile \in Uris \cup {None}
    BY <1>4, ProfileUri DEF receiptFor
  <2> QED BY <1>2, <2>1 DEF rwaReceiptOf
<1>5. CASE x.seller = "metered"
  <2>1. receiptFor(x) = receiptOf(x, allows(requestOf(x)), None, << >>)
    BY <1>5 DEF receiptFor
  <2> QED BY <1>2, <2>1
<1> QED BY <1>1, <1>3, <1>4, <1>5

\* The Receipt of an allowed mint satisfies the schema of its profile.
LEMMA MintReceiptConforms ==
  ASSUME NEW x \in Exchanges, x.seller = "rwa", x.trusted, allows(requestOf(x))
  PROVE  Schema!rwaReceipt(rwaReceiptOf(x))
<1> DEFINE members == {"asset_id", "state_claim_id", "operation", "network", "token_contract", "quantity", "unit",
                       "chain_transaction_hash", "approval_count", "resulting_supply"}
<1>1. PICK r, t : r = rwaReceiptOf(x) /\ t = mintedTerms(x)
  OBVIOUS
<1>2. /\ r.extensions.rwa = t /\ r.extensions = [rwa |-> t] /\ r.profile = RwaProfile
  BY <1>1, MintReceiptRead
<1>3. t # None /\ [rwa |-> t] # None
  BY <1>1, UndefinedIsNoValue
<1>4. Schema!receipt(r)
  <2>1. Schema!receipt(receiptFor(x)) /\ receiptFor(x) = rwaReceiptOf(x)
    BY SellerReceiptConforms DEF receiptFor
  <2> QED BY <1>1, <2>1
<1>5. /\ "profile" \in DOMAIN r /\ "extensions" \in DOMAIN r
  <2>1. PICK a, terms : a = allows(requestOf(x)) /\ terms = [rwa |-> mintedTerms(x)]
    OBVIOUS
  <2>2. r = receiptOf(x, a, RwaProfile, terms)
    BY <1>1, <2>1 DEF rwaReceiptOf
  <2> QED BY <2>2 DEF receiptOf
<1>6. RwaProfile # None
  BY NoneIsNoProfile
<1>7. Schema!profiled(r, Schema!RwaProfile, "rwa")
  <2>1. Schema!has(r, "profile") /\ Schema!has(r, "extensions")
    BY <1>2, <1>3, <1>5, <1>6 DEF Schema!has, Schema!present
  <2>2. Schema!has(r.extensions, "rwa")
    BY <1>2, <1>3 DEF Schema!has, Schema!present
  <2> QED BY <1>2, <2>1, <2>2 DEF Schema!profiled, Schema!RwaProfile, RwaProfile
<1>8. /\ DOMAIN t = members
      /\ \A f \in RwaIdentity \cup {"quantity", "approval_count"} : t[f] = rwaOf(x)[f]
      /\ t.resulting_supply = nextUsageOf(requestOf(x)).minted_supply
      /\ t.chain_transaction_hash = x.envelope.id
  BY <1>1, MintedRead
<1>9. /\ rwaOf(x).quantity \in Decimal /\ rwaOf(x).approval_count \in Nat /\ rwaOf(x).operation \in Schema!Operations
      /\ nextUsageOf(requestOf(x)).minted_supply \in Decimal
  <2>1. nextUsageOf(requestOf(x)) \in Left
    BY AnswerUsage
  <2> QED BY <2>1, MintAmounts DEF Left
<1>10. \A f \in RwaIdentity : rwaOf(x)[f] # None
  <2>1. \A f \in RwaIdentity : f \in MintTerms
    BY DEF MintTerms
  <2>2. MintTerms \subseteq Schema!present(x.envelope.extensions.rwa)
    BY MintContext DEF mintConforms
  <2>3. \A f \in MintTerms : x.envelope.extensions.rwa[f] # None
    BY <2>2 DEF Schema!present
  <2> QED BY <2>1, <2>3, MintContext
<1>11. /\ t.quantity \in Decimal /\ t.approval_count \in Nat /\ t.operation \in Schema!Operations
       /\ t.resulting_supply \in Decimal
  BY <1>8, <1>9 DEF RwaIdentity
<1>12. \A f \in members : t[f] # None
  <2>1. \A f \in RwaIdentity : t[f] # None
    BY <1>8, <1>10
  <2>2. t.quantity # None /\ t.approval_count # None /\ t.resulting_supply # None
    BY <1>11, UndefinedIsNoValue
  <2>3. t.chain_transaction_hash # None
    BY <1>8, EnvelopeMembers
  <2> QED BY <2>1, <2>2, <2>3 DEF RwaIdentity
<1>13. Schema!closed(t, members, {})
  BY <1>8, <1>12 DEF Schema!closed, Schema!present
<1>14. t.approval_count >= 0 /\ Schema!isDecimal(t.quantity) /\ Schema!isDecimal(t.resulting_supply)
  BY <1>11 DEF Schema!isDecimal, Decimal
<1>15. Schema!rwaReceipt(r)
  BY <1>2, <1>4, <1>7, <1>11, <1>13, <1>14 DEF Schema!rwaReceipt
<1> QED BY <1>1, <1>15

\* The Receipt of an allowed purchase under terms with a digest satisfies the schema
\* of its profile, but for the idempotency key among its terms.
LEMMA PurchaseReceiptConforms ==
  ASSUME NEW x \in Exchanges, x.seller = "commerce", x.trusted, allows(requestOf(x)),
         commerceOf(x).terms_digest # None
  PROVE  Schema!commerceReceipt(withoutKey(commerceReceiptOf(x)))
<1> DEFINE members == {"merchant_organisation_id", "service_id", "offer_id", "currency", "quantity", "unit_price",
                       "total_amount", "fulfilment_status", "terms_digest"}
<1>1. PICK a : a = allows(requestOf(x))
  OBVIOUS
<1>2. PICK t : t = fulfilledTerms(x, "fulfilled")
  OBVIOUS
<1>3. PICK terms : terms = [commerce |-> t]
  OBVIOUS
<1>4. PICK profile : profile = CommerceProfile
  OBVIOUS
<1>5. PICK r : r = receiptOf(x, a, profile, terms)
  OBVIOUS
<1>6. commerceReceiptOf(x) = r
  BY <1>1, <1>2, <1>3, <1>4, <1>5 DEF commerceReceiptOf
<1>7. PICK k : k = [t EXCEPT !.idempotency_key = None]
  OBVIOUS
<1>8. PICK keyless : keyless = [commerce |-> k]
  OBVIOUS
<1>9. PICK s : s = receiptOf(x, a, profile, keyless)
  OBVIOUS
<1>10. r.extensions = terms /\ terms.commerce = t
  BY <1>3, <1>5 DEF receiptOf
<1>11. withoutKey(r) = [r EXCEPT !.extensions = keyless]
  BY <1>7, <1>8, <1>10 DEF withoutKey
<1>12. [r EXCEPT !.extensions = keyless] = s
  <2>1. PICK i, e, d, o, p : /\ i = <<"receipt">> \o Tail(x.envelope.id) /\ e = <<"issuer", "seller">>
                             /\ d = (IF a THEN "allow" ELSE "deny") /\ o = (IF a THEN "succeeded" ELSE "denied")
                             /\ p = [x.envelope.proof EXCEPT !.verification_method = <<"key", "seller">>]
    OBVIOUS
  <2>2. PICK transaction_id, agent, org, m, at :
          /\ transaction_id = x.envelope.id /\ agent = x.envelope.agent_id /\ org = x.envelope.organisation_id
          /\ m = x.envelope.mandate_id /\ at = x.at
    OBVIOUS
  <2>3. r = [oati_version |-> "1.0", id |-> i, transaction_id |-> transaction_id, agent_id |-> agent,
             organisation_id |-> org, mandate_id |-> m, decision |-> d, outcome |-> o, occurred_at |-> at, issuer |-> e,
             profile |-> profile, extensions |-> terms, policy_digest |-> "policy", proof |-> p]
    BY <1>5, <2>1, <2>2 DEF receiptOf
  <2>4. s = [oati_version |-> "1.0", id |-> i, transaction_id |-> transaction_id, agent_id |-> agent,
             organisation_id |-> org, mandate_id |-> m, decision |-> d, outcome |-> o, occurred_at |-> at, issuer |-> e,
             profile |-> profile, extensions |-> keyless, policy_digest |-> "policy", proof |-> p]
    BY <1>9, <2>1, <2>2 DEF receiptOf
  <2> QED BY <2>3, <2>4
<1>13. profile \in Uris \cup {None} /\ profile # None
  BY <1>4, ProfileUri, NoneIsNoProfile
<1>14. Schema!receipt(s)
  BY <1>9, <1>13, ReceiptConforms
<1>15. /\ s.profile = profile /\ s.extensions = keyless /\ "profile" \in DOMAIN s /\ "extensions" \in DOMAIN s
  BY <1>9 DEF receiptOf
<1>16. k # None /\ keyless # None
  BY <1>2, <1>7, <1>8, UndefinedIsNoValue
<1>17. keyless.commerce = k /\ DOMAIN keyless = {"commerce"}
  BY <1>8
<1>18. Schema!profiled(s, Schema!CommerceProfile, "commerce")
  <2>1. Schema!has(s, "profile") /\ Schema!has(s, "extensions")
    BY <1>13, <1>15, <1>16 DEF Schema!has, Schema!present
  <2>2. Schema!has(s.extensions, "commerce")
    BY <1>15, <1>16, <1>17 DEF Schema!has, Schema!present
  <2> QED BY <1>4, <1>15, <2>1, <2>2 DEF Schema!profiled, Schema!CommerceProfile, CommerceProfile
<1>19. PICK c : c = commerceOf(x)
  OBVIOUS
<1>20. /\ DOMAIN t = DOMAIN c \cup {"fulfilment_status"}
       /\ \A f \in DOMAIN c \ {"fulfilment_status"} : t[f] = c[f]
       /\ t.fulfilment_status = "fulfilled"
  <2>1. /\ DOMAIN fulfilledTerms(x, "fulfilled") = DOMAIN commerceOf(x) \cup {"fulfilment_status"}
        /\ \A f \in DOMAIN commerceOf(x) \ {"fulfilment_status"} : fulfilledTerms(x, "fulfilled")[f] = commerceOf(x)[f]
        /\ fulfilledTerms(x, "fulfilled").fulfilment_status = "fulfilled"
    BY FulfilledRead
  <2> QED BY <1>2, <1>19, <2>1
<1>21. DOMAIN c = {"merchant_organisation_id", "service_id", "offer_id", "currency", "quantity",
                   "unit_price", "total_amount", "idempotency_key", "terms_digest"}
  BY <1>19, PurchaseContext
<1>22. /\ DOMAIN k = members \cup {"idempotency_key"} /\ k["idempotency_key"] = None
       /\ \A f \in members \ {"fulfilment_status"} : k[f] = c[f]
       /\ k["fulfilment_status"] = "fulfilled"
  <2>1. DOMAIN t = members \cup {"idempotency_key"}
    BY <1>20, <1>21
  <2>2. DOMAIN k = DOMAIN t /\ k["idempotency_key"] = None /\ \A f \in DOMAIN t \ {"idempotency_key"} : k[f] = t[f]
    BY <1>7, <2>1
  <2>3. \A f \in members \ {"fulfilment_status"} : t[f] = c[f]
    BY <1>20, <1>21
  <2>4. \A f \in members : f \in DOMAIN t \ {"idempotency_key"}
    BY <2>1
  <2> QED BY <1>20, <2>1, <2>2, <2>3, <2>4
<1>23. \A f \in members \ {"fulfilment_status"} : c[f] # None
  <2>1. Schema!commerceContext(c)
    BY <1>19, PurchaseContextConforms
  <2>2. \A f \in {"merchant_organisation_id", "service_id", "offer_id", "currency", "quantity", "unit_price",
                  "total_amount", "idempotency_key"} : c[f] # None
    BY <2>1 DEF Schema!commerceContext, Schema!closed, Schema!present
  <2>3. c.terms_digest # None
    BY <1>19
  <2> QED BY <2>2, <2>3
<1>24. "fulfilled" # None
  BY UndefinedIsNoValue
<1>25. \A f \in members : k[f] # None
  BY <1>22, <1>23, <1>24
<1>26. Schema!closed(k, members, {"billing_reference"})
  BY <1>22, <1>25 DEF Schema!closed, Schema!present
<1>27. /\ c.unit_price \in Decimal /\ c.total_amount \in Decimal /\ c.quantity >= 1 /\ c.currency \in Currencies
  BY <1>19, PurchaseAmounts
<1>28. /\ Schema!isCurrency(k.currency) /\ Schema!isDecimal(k.unit_price) /\ Schema!isDecimal(k.total_amount)
       /\ k.quantity >= 1 /\ k.fulfilment_status \in {"fulfilled", "partial", "failed", "refunded"}
  <2>1. k.currency = c.currency /\ k.unit_price = c.unit_price /\ k.total_amount = c.total_amount /\ k.quantity = c.quantity
    BY <1>22
  <2>2. \A v \in Decimal : Schema!isDecimal(v)
    BY DEF Decimal, Schema!isDecimal
  <2> QED BY <1>22, <1>27, <2>1, <2>2 DEF Schema!isCurrency
<1>29. Schema!commerceReceipt(s)
  BY <1>14, <1>15, <1>17, <1>18, <1>26, <1>28 DEF Schema!commerceReceipt
<1> QED BY <1>6, <1>11, <1>12, <1>29

\* What service.mjs answers satisfies the schemas that the next request is held
\* against: a Receipt, and a usage that can be sent again, for every request.
THEOREM AnswersAreInput == Spec => []AnswersConform
<1>1. SellersInv => AnswersConform
  <2> SUFFICES ASSUME SellersInv PROVE AnswersConform
    OBVIOUS
  <2>1. ASSUME NEW seller \in {"commerce", "rwa", "metered"}, sold(seller)
        PROVE  /\ Schema!receipt(answer.receipt)
               /\ Schema!evaluationRequest(requestDocument(exchange, sent(answer.usage)))
    <3>1. exchange \in Exchanges /\ exchange.trusted /\ Answered(exchange, answer)
      BY <2>1, SoldAnswer
    <3>2. answer.receipt = receiptFor(exchange) /\ answer.usage = nextUsageOf(requestOf(exchange))
      BY <3>1 DEF Answered
    <3>3. answer.usage \in Left
      BY <3>1, <3>2, AnswerUsage
    <3> QED BY <3>1, <3>2, <3>3, SellerReceiptConforms, RequestConforms
  <2>2. ASSUME sold("rwa"), allowed PROVE Schema!rwaReceipt(answer.receipt)
    <3>1. /\ exchange \in Exchanges /\ exchange.seller = "rwa" /\ exchange.trusted
          /\ Answered(exchange, answer) /\ allows(requestOf(exchange))
      BY <2>2, SoldAnswer
    <3>2. answer.receipt = rwaReceiptOf(exchange)
      BY <3>1 DEF Answered, receiptFor
    <3> QED BY <3>1, <3>2, MintReceiptConforms
  <2>3. ASSUME sold("commerce"), allowed, commerceOf(exchange).terms_digest # None
        PROVE  Schema!commerceReceipt(withoutKey(answer.receipt))
    <3>1. /\ exchange \in Exchanges /\ exchange.seller = "commerce" /\ exchange.trusted
          /\ Answered(exchange, answer) /\ allows(requestOf(exchange))
      BY <2>3, SoldAnswer
    <3>2. answer.receipt = commerceReceiptOf(exchange)
      BY <3>1 DEF Answered, receiptFor
    <3> QED BY <2>3, <3>1, <3>2, PurchaseReceiptConforms
  <2> QED BY <2>1, <2>2, <2>3 DEF AnswersConform, sent
<1> QED BY <1>1, SellersInvariant, PTL

=============================================================================
