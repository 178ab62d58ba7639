----------------------------- MODULE NumberFacts -----------------------------
(***************************************************************************)
(* Lemmas about numbers that the proofs of other modules cite:             *)
(* induction, the existence of a function that is defined by recursion on  *)
(* a number and that there is only one, what is needed of division, and    *)
(* two facts on finite sets.  The induction theorems of the library take   *)
(* an operator; these take a set, and rest on the theorem that a set of    *)
(* numbers has a least element, which takes one too.                       *)
(***************************************************************************)
EXTENDS Integers, FiniteSetTheorems, WellFoundedInduction, TLAPS

(* A set of numbers that is not empty has a least element.                 *)
LEMMA LeastNumber ==
  ASSUME NEW T, T \subseteq Nat, T # {}
  PROVE  \E x \in T : \A y \in T : x <= y
<1> DEFINE R == {p \in Nat \X Nat : p[1] < p[2]}
<1>1. R = OpToRel(<, Nat)
  BY DEF OpToRel
<1>2. IsWellFoundedOn(R, Nat)
  BY <1>1, NatLessThanWellFounded
<1> HIDE DEF R
<1>3. PICK x \in T : \A y \in T : ~ (<<y, x>> \in R)
  BY <1>2, WFMin
<1>4. ASSUME NEW y \in T
      PROVE  x <= y
  <2>1. /\ x \in Nat
        /\ y \in Nat
    OBVIOUS
  <2>2. ~ (y < x)
    <3>1. ~ (<<y, x>> \in R)
      BY <1>3
    <3> QED BY <2>1, <3>1 DEF R
  <2> QED BY <2>1, <2>2
<1> QED BY <1>4

(* Induction up to a bound: a set that has 0, and with a number the next   *)
(* one, has all numbers up to the bound.                                   *)
LEMMA UpTo ==
  ASSUME NEW N \in Nat, NEW T,
         0 \in T, \A n \in 0..(N - 1) : n \in T => n + 1 \in T
  PROVE  0..N \subseteq T
<1> SUFFICES ASSUME (0..N) \ T # {}
             PROVE  FALSE
  OBVIOUS
<1>0. (0..N) \ T \subseteq Nat
  OBVIOUS
<1>1. PICK x \in (0..N) \ T : \A y \in (0..N) \ T : x <= y
  BY <1>0, LeastNumber
<1>2. x # 0 /\ x \in 0..N
  OBVIOUS
<1>3. x - 1 \in 0..(N - 1) /\ x - 1 \in T
  BY <1>1, <1>2
<1>4. (x - 1) + 1 = x
  BY <1>2
<1> QED BY <1>3, <1>4

(* f is given by its first value and by what step makes of each value.     *)
Recursive(f, N, D, c, step) ==
  /\ f \in [0..N -> D]
  /\ f[0] = c
  /\ \A n \in 1..N : f[n] = step[n][f[n - 1]]

(* A function that is defined by recursion on the numbers up to a bound    *)
(* exists.                                                                 *)
LEMMA RecursionExists ==
  ASSUME NEW N \in Nat, NEW D, NEW c \in D, NEW step \in [1..N -> [D -> D]]
  PROVE  \E f : Recursive(f, N, D, c, step)
<1> DEFINE Upto(k, f) == f[0] = c /\ \A n \in 1..k : f[n] = step[n][f[n - 1]]
           T == {k \in 0..N : \E f \in [0..k -> D] : Upto(k, f)}
<1>1. 0 \in T
  <2> DEFINE g == [n \in 0..0 |-> c]
  <2>1. g \in [0..0 -> D] /\ g[0] = c
    OBVIOUS
  <2>2. Upto(0, g) /\ 0 \in 0..N
    BY <2>1
  <2> HIDE DEF g, Upto
  <2> QED BY <2>1, <2>2
<1>2. ASSUME NEW k \in 0..(N - 1), k \in T
      PROVE  k + 1 \in T
  <2>1. PICK f \in [0..k -> D] : Upto(k, f)
    BY <1>2
  <2> DEFINE g == [n \in 0..(k + 1) |->
                     IF n = k + 1 THEN step[n][f[k]] ELSE f[n]]
  <2>2. f[k] \in D /\ step[k + 1] \in [D -> D]
    OBVIOUS
  <2>3. g \in [0..(k + 1) -> D]
    BY <2>2
  <2>4. Upto(k + 1, g)
    <3>1. ASSUME NEW n \in 1..(k + 1)
          PROVE  g[n] = step[n][g[n - 1]]
      <4>1. CASE n = k + 1
        BY <4>1
      <4>2. CASE n # k + 1
        <5>1. n \in 1..k /\ n - 1 \in 0..k /\ n - 1 # k + 1
          BY <4>2
        <5>2. f[n] = step[n][f[n - 1]]
          BY <2>1, <5>1
        <5> QED BY <5>1, <5>2, <4>2
      <4> QED BY <4>1, <4>2
    <3>2. g[0] = c
      BY <2>1
    <3> QED BY <3>1, <3>2
  <2>5. k + 1 \in 0..N
    OBVIOUS
  <2> HIDE DEF g, Upto
  <2> QED BY <2>3, <2>4, <2>5
<1> HIDE DEF T
<1>3. 0..N \subseteq T
  BY <1>1, <1>2, UpTo
<1>4. N \in T
  BY <1>3
<1> QED BY <1>4 DEF T, Recursive

(* Two functions with the same recursion have the same values.             *)
LEMMA RecursionUnique ==
  ASSUME NEW N \in Nat, NEW f, NEW g,
         f[0] = g[0], \A n \in 1..N : f[n - 1] = g[n - 1] => f[n] = g[n]
  PROVE  \A n \in 0..N : f[n] = g[n]
<1> DEFINE T == {n \in 0..N : f[n] = g[n]}
<1>1. 0 \in T
  OBVIOUS
<1>2. ASSUME NEW n \in 0..(N - 1), n \in T
      PROVE  n + 1 \in T
  <2>1. n + 1 \in 1..N /\ (n + 1) - 1 = n /\ n + 1 \in 0..N
    OBVIOUS
  <2>2. f[n + 1] = g[n + 1]
    BY <2>1, <1>2
  <2> QED BY <2>1, <2>2
<1> HIDE DEF T
<1>3. 0..N \subseteq T
  BY <1>1, <1>2, UpTo
<1> QED BY <1>3 DEF T

(* What the quotient is: the multiple below a number, less than one divisor*)
(* away.                                                                   *)
LEMMA DivBounds ==
  ASSUME NEW x \in Int, NEW p \in Nat \ {0}
  PROVE  /\ x \div p \in Int
         /\ (x \div p) * p <= x
         /\ x < (x \div p) * p + p
OBVIOUS

(* Multiplication keeps the order.                                         *)
LEMMA TimesMonotone ==
  ASSUME NEW a \in Int, NEW b \in Int, NEW p \in Nat, a <= b
  PROVE  a * p <= b * p
OBVIOUS

(* The quotient is the only number with those bounds.                      *)
LEMMA DivUnique ==
  ASSUME NEW x \in Int, NEW q \in Int, NEW p \in Nat \ {0},
         q * p <= x, x < q * p + p
  PROVE  x \div p = q
<1> DEFINE d == x \div p
<1>1. d \in Int /\ d * p <= x /\ x < d * p + p
  BY DivBounds
<1> HIDE DEF d
<1>2. CASE d < q
  <2>1. (d + 1) * p <= q * p
    BY <1>1, <1>2, TimesMonotone
  <2>2. (d + 1) * p = d * p + p
    BY <1>1
  <2> QED BY <2>1, <2>2, <1>1
<1>3. CASE d > q
  <2>1. (q + 1) * p <= d * p
    BY <1>1, <1>3, TimesMonotone
  <2>2. (q + 1) * p = q * p + p
    BY <1>1
  <2> QED BY <2>1, <2>2, <1>1
<1> QED BY <1>1, <1>2, <1>3 DEF d

(* A multiple below a number bounds the quotient from below.               *)
LEMMA DivAtLeast ==
  ASSUME NEW x \in Int, NEW q \in Int, NEW p \in Nat \ {0}, q * p <= x
  PROVE  q <= x \div p
<1> DEFINE d == x \div p
<1>1. d \in Int /\ x < d * p + p
  BY DivBounds
<1> HIDE DEF d
<1>2. SUFFICES ASSUME d + 1 <= q
               PROVE  FALSE
  BY <1>1 DEF d
<1>3. (d + 1) * p <= q * p
  BY <1>1, <1>2, TimesMonotone
<1>4. (d + 1) * p = d * p + p /\ d * p \in Int /\ q * p \in Int
  BY <1>1
<1> QED BY <1>1, <1>3, <1>4

(* A multiple above a number bounds the quotient from above.               *)
LEMMA DivAtMost ==
  ASSUME NEW x \in Int, NEW q \in Int, NEW p \in Nat \ {0}, x < q * p + p
  PROVE  x \div p <= q
<1> DEFINE d == x \div p
<1>1. d \in Int /\ d * p <= x
  BY DivBounds
<1> HIDE DEF d
<1>2. SUFFICES ASSUME q + 1 <= d
               PROVE  FALSE
  BY <1>1 DEF d
<1>3. (q + 1) * p <= d * p
  BY <1>1, <1>2, TimesMonotone
<1>4. (q + 1) * p = q * p + p /\ d * p \in Int /\ q * p \in Int
  BY <1>1
<1> QED BY <1>1, <1>3, <1>4

(* Division keeps the order.                                               *)
LEMMA DivMonotone ==
  ASSUME NEW x \in Int, NEW y \in Int, NEW p \in Nat \ {0}, x <= y
  PROVE  x \div p <= y \div p
<1> DEFINE d == x \div p
<1>1. d \in Int /\ d * p <= x
  BY DivBounds
<1> HIDE DEF d
<1>2. d * p \in Int /\ d * p <= y
  BY <1>1
<1>3. d <= y \div p
  BY <1>1, <1>2, DivAtLeast
<1> QED BY <1>3 DEF d

(* A multiple of the divisor can be taken out of a quotient.               *)
LEMMA DivOfSum ==
  ASSUME NEW x \in Int, NEW y \in Int, NEW p \in Nat \ {0}
  PROVE  /\ x \div p + y \div p <= (x + y) \div p
         /\ (x + y) \div p <= x \div p + y \div p + 1
<1> DEFINE d == x \div p
           e == y \div p
<1>1. /\ d \in Int /\ d * p <= x /\ x < d * p + p
      /\ e \in Int /\ e * p <= y /\ y < e * p + p
  BY DivBounds
<1> HIDE DEF d, e
<1>2. /\ (d + e) * p = d * p + e * p
      /\ (d + e + 1) * p = d * p + e * p + p
      /\ d * p \in Int /\ e * p \in Int
  BY <1>1
<1>3. /\ (d + e) * p <= x + y
      /\ x + y < (d + e + 1) * p + p
  BY <1>1, <1>2
<1>4. d + e <= (x + y) \div p
  BY <1>1, <1>3, DivAtLeast
<1>5. (x + y) \div p <= d + e + 1
  BY <1>1, <1>3, DivAtMost
<1> QED BY <1>4, <1>5 DEF d, e

(* A number that the divisor divides is the multiple of it that the        *)
(* quotient says.                                                          *)
LEMMA DivOfMultiple ==
  ASSUME NEW x \in Int, NEW p \in Nat \ {0}, x % p = 0
  PROVE  x = (x \div p) * p
OBVIOUS

(* A list of n different elements of a finite set is not longer than it.   *)
LEMMA Pigeonhole ==
  ASSUME NEW S, IsFiniteSet(S), NEW n \in Nat, NEW f \in [1..n -> S],
         \A i, j \in 1..n : f[i] = f[j] => i = j
  PROVE  n <= Cardinality(S)
<1>1. f \in Injection(1..n, S)
  BY DEF Injection, IsInjective
<1>2. IsFiniteSet(1..n) /\ Cardinality(1..n) = n
  <2>1. 1 \in Int /\ n \in Int
    OBVIOUS
  <2>2. IsFiniteSet(1..n) /\ Cardinality(1..n) = IF 1 > n THEN 0 ELSE n - 1 + 1
    BY <2>1, FS_Interval
  <2> QED BY <2>2
<1>3. Cardinality(1..n) <= Cardinality(S)
  BY <1>1, FS_Injection
<1> QED BY <1>2, <1>3

(* What a function makes of a finite set is finite.                        *)
LEMMA ImageIsFinite ==
  ASSUME NEW S, IsFiniteSet(S), NEW f
  PROVE  IsFiniteSet({f[x] : x \in S})
<1> DEFINE g == [x \in S |-> f[x]]
           R == {f[x] : x \in S}
<1>1. g \in Surjection(S, R)
  BY DEF Surjection
<1> QED BY <1>1, FS_Surjection

=============================================================================
