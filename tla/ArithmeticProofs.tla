-------------------------- MODULE ArithmeticProofs --------------------------
(***************************************************************************)
(* Proofs about the operators of the interpreter, for every width and      *)
(* every value: the comparisons are an order, the lower words of sums,     *)
(* differences and products are exact, division and remainder agree, and   *)
(* the conversions compose.                                                *)
(***************************************************************************)
EXTENDS Arithmetic, NumberFacts

-----------------------------------------------------------------------------
(* The powers of 2.                                                        *)

(* The widths, one above the other.                                        *)
LEMMA Widths ==
  /\ ByteBits \in 1..LongBits /\ ShortBits \in 1..LongBits
  /\ WordBits \in 1..LongBits /\ LongBits \in 1..LongBits
  /\ ByteBits <= ShortBits - 1 /\ ShortBits <= WordBits - 1
  /\ WordBits <= LongBits - 1
  /\ LongBits \in Nat
BY ArithmeticAssumption

(* The function Power without its CHOOSE.                                  *)
LEMMA PowerDef ==
  /\ Power[0] = 1
  /\ \A n \in 1..LongBits : Power[n] = 2 * Power[n - 1]
<1> DEFINE N == LongBits
           Recurs(f) == f = [n \in 0..N |-> IF n = 0 THEN 1 ELSE 2 * f[n - 1]]
           step == [n \in 1..N |-> [x \in Nat |-> 2 * x]]
<1>1. N \in Nat
  BY Widths
<1>2. Power = CHOOSE f : Recurs(f)
  BY DEF Power
<1>3. \E f : Recurs(f)
  <2>1. step \in [1..N -> [Nat -> Nat]] /\ 1 \in Nat
    OBVIOUS
  <2>2. PICK f : Recursive(f, N, Nat, 1, step)
    <3> HIDE DEF step, N
    <3> QED BY <1>1, <2>1, RecursionExists
  <2>3. /\ f \in [0..N -> Nat] /\ f[0] = 1
        /\ \A n \in 1..N : f[n] = step[n][f[n - 1]]
    BY <2>2 DEF Recursive
  <2>4. \A n \in 1..N : f[n] = 2 * f[n - 1]
    <3>1. ASSUME NEW n \in 1..N
          PROVE  f[n] = 2 * f[n - 1]
      <4>1. n - 1 \in 0..N
        BY <1>1
      <4>2. f[n - 1] \in Nat
        BY <2>3, <4>1
      <4>3. step[n] = [x \in Nat |-> 2 * x]
        OBVIOUS
      <4> QED BY <2>3, <4>2, <4>3
    <3> QED BY <3>1
  <2>5. f = [n \in 0..N |-> f[n]]
    BY <2>3
  <2>6. \A n \in 0..N : f[n] = IF n = 0 THEN 1 ELSE 2 * f[n - 1]
    <3>1. \A n \in 0..N : n = 0 \/ n \in 1..N
      BY <1>1
    <3> QED BY <2>3, <2>4, <3>1
  <2> QED BY <2>5, <2>6
<1>4. Recurs(Power)
  BY <1>2, <1>3
<1> HIDE DEF step
<1>5. \A n \in 0..N : Power[n] = IF n = 0 THEN 1 ELSE 2 * Power[n - 1]
  BY <1>4
<1>6. 0 \in 0..N /\ \A n \in 1..N : n \in 0..N /\ n # 0
  BY <1>1
<1> QED BY <1>5, <1>6

(* A power is a positive number.                                           *)
LEMMA PowerIsPositive ==
  \A n \in 0..LongBits : Power[n] \in Nat \ {0}
<1> DEFINE T == {n \in 0..LongBits : Power[n] \in Nat \ {0}}
<1>1. LongBits \in Nat
  BY Widths
<1>2. 0 \in T
  BY <1>1, PowerDef
<1>3. ASSUME NEW k \in 0..(LongBits - 1), k \in T
      PROVE  k + 1 \in T
  <2>1. k + 1 \in 1..LongBits /\ k + 1 \in 0..LongBits /\ (k + 1) - 1 = k
    BY <1>1
  <2>2. Power[k + 1] = 2 * Power[k]
    BY <2>1, PowerDef
  <2>3. Power[k] \in Nat \ {0}
    BY <1>3
  <2> QED BY <2>1, <2>2, <2>3
<1> HIDE DEF T
<1>4. 0..LongBits \subseteq T
  BY <1>1, <1>2, <1>3, UpTo
<1> QED BY <1>4 DEF T

(* A power divides every higher one.                                       *)
LEMMA PowerDivides ==
  ASSUME NEW m \in 0..LongBits, NEW n \in 0..LongBits, m <= n
  PROVE  \E k \in Nat \ {0} : Power[n] = k * Power[m]
<1> DEFINE D == n - m
           T == {d \in 0..D : \E k \in Nat \ {0} : Power[m + d] = k * Power[m]}
<1>1. LongBits \in Nat /\ D \in Nat /\ m \in Nat /\ n \in Nat /\ m + D = n
  BY Widths
<1> HIDE DEF D
<1>2. Power[m] \in Nat \ {0}
  BY PowerIsPositive
<1>3. 0 \in T
  <2>1. m + 0 = m /\ Power[m] = 1 * Power[m] /\ 0 \in 0..D
    BY <1>1, <1>2
  <2> QED BY <2>1
<1>4. ASSUME NEW d \in 0..(D - 1), d \in T
      PROVE  d + 1 \in T
  <2>1. PICK k \in Nat \ {0} : Power[m + d] = k * Power[m]
    BY <1>4
  <2>2. /\ m + (d + 1) \in 1..LongBits /\ (m + (d + 1)) - 1 = m + d
        /\ d + 1 \in 0..D
    BY <1>1
  <2>3. Power[m + (d + 1)] = 2 * Power[m + d]
    BY <2>2, PowerDef
  <2>4. 2 * (k * Power[m]) = (2 * k) * Power[m] /\ 2 * k \in Nat \ {0}
    BY <1>2
  <2> QED BY <2>1, <2>2, <2>3, <2>4
<1> HIDE DEF T
<1>5. 0..D \subseteq T
  BY <1>1, <1>3, <1>4, UpTo
<1>6. D \in T
  BY <1>1, <1>5
<1> QED BY <1>1, <1>6 DEF T

(* A power is at most every higher one.                                    *)
LEMMA PowerGrows ==
  ASSUME NEW m \in 0..LongBits, NEW n \in 0..LongBits, m <= n
  PROVE  Power[m] <= Power[n]
<1>1. Power[m] \in Nat \ {0} /\ Power[n] \in Nat \ {0}
  BY PowerIsPositive
<1>2. PICK k \in Nat \ {0} : Power[n] = k * Power[m]
  BY PowerDivides
<1>3. 1 * Power[m] <= k * Power[m]
  BY <1>1, TimesMonotone
<1> QED BY <1>1, <1>2, <1>3

-----------------------------------------------------------------------------
(* Remainders.                                                             *)

(* What is left of a number is what is left when a multiple is taken off.  *)
LEMMA ModUnique ==
  ASSUME NEW x \in Int, NEW m \in Nat \ {0}, NEW q \in Int, NEW r \in 0..(m - 1),
         x = q * m + r
  PROVE  x % m = r
<1>1. q * m \in Int /\ q * m <= x /\ x < q * m + m
  OBVIOUS
<1>2. x \div m = q
  BY <1>1, DivUnique
<1>3. x = (x \div m) * m + (x % m) /\ x % m \in Int
  OBVIOUS
<1> QED BY <1>1, <1>2, <1>3

(* The remainder, and the multiple that it is away from its number.        *)
LEMMA ModFacts ==
  ASSUME NEW x \in Int, NEW m \in Nat \ {0}
  PROVE  /\ x % m \in 0..(m - 1)
         /\ \E q \in Int : x % m = x + q * m
<1> DEFINE q == x \div m
<1>1. x % m \in 0..(m - 1) /\ x = q * m + (x % m) /\ q \in Int
  OBVIOUS
<1> HIDE DEF q
<1>2. -q \in Int /\ (-q) * m = -(q * m) /\ q * m \in Int
  BY <1>1
<1>3. x % m = x + (-q) * m
  BY <1>1, <1>2
<1> QED BY <1>1, <1>2, <1>3

(* Numbers that are a multiple apart have the same remainder.              *)
LEMMA SameRemainder ==
  ASSUME NEW x \in Int, NEW m \in Nat \ {0}, NEW q \in Int
  PROVE  (x + q * m) % m = x % m /\ (q * m) % m = 0
<1>1. PICK p \in Int : x % m = x + p * m
  BY ModFacts
<1>2. x % m \in 0..(m - 1)
  BY ModFacts
<1>3. /\ q * m \in Int /\ p * m \in Int /\ q - p \in Int
      /\ (q - p) * m = q * m - p * m
  OBVIOUS
<1>4. x + q * m = (q - p) * m + (x % m)
  BY <1>1, <1>3
<1>5. q * m = q * m + 0 /\ 0 \in 0..(m - 1)
  BY <1>3
<1>6. (x + q * m) % m = x % m
  <2> DEFINE r == x % m
             y == x + q * m
             k == q - p
  <2>1. r \in 0..(m - 1) /\ y \in Int /\ k \in Int /\ y = k * m + r
    BY <1>2, <1>3, <1>4
  <2> HIDE DEF r, y, k
  <2>2. y % m = r
    BY <2>1, ModUnique
  <2> QED BY <2>2 DEF r, y
<1>7. (q * m) % m = 0
  BY <1>3, <1>5, ModUnique
<1> QED BY <1>6, <1>7

-----------------------------------------------------------------------------
(* What an assignment to a member of a width keeps.                        *)

(* The halves of the range of a width.                                     *)
LEMMA HalfRange ==
  ASSUME NEW bits \in 1..LongBits
  PROVE  /\ Power[bits] \in Nat \ {0} /\ Power[bits - 1] \in Nat \ {0}
         /\ Power[bits] = 2 * Power[bits - 1]
         /\ bits - 1 \in 0..LongBits /\ bits \in 0..LongBits
<1>1. bits - 1 \in 0..LongBits /\ bits \in 0..LongBits
  BY Widths
<1> QED BY <1>1, PowerIsPositive, PowerDef

(* The value is in the range of the width, and a multiple of its power     *)
(* away from what was assigned.                                            *)
LEMMA SignedFits ==
  ASSUME NEW bits \in 1..LongBits, NEW x \in Int
  PROVE  /\ Signed(x, bits) \in -Power[bits - 1]..(Power[bits - 1] - 1)
         /\ Signed(x, bits) \in Int
         /\ \E q \in Int : Signed(x, bits) = x + q * Power[bits]
<1> DEFINE h == Power[bits - 1]
           m == Power[bits]
<1>1. m \in Nat \ {0} /\ h \in Nat \ {0} /\ m = 2 * h
  BY HalfRange
<1>2. Signed(x, bits) = ((x + h) % m) - h
  BY DEF Signed
<1> HIDE DEF h, m
<1>3. x + h \in Int
  BY <1>1
<1>4. /\ (x + h) % m \in 0..(m - 1)
      /\ \E q \in Int : (x + h) % m = (x + h) + q * m
  BY <1>1, <1>3, ModFacts
<1>5. PICK q \in Int : (x + h) % m = (x + h) + q * m
  BY <1>4
<1>6. q * m \in Int
  BY <1>1
<1>7. Signed(x, bits) = x + q * m
  BY <1>1, <1>2, <1>5, <1>6
<1>8. Signed(x, bits) \in (-h)..(h - 1) /\ Signed(x, bits) \in Int
  BY <1>1, <1>2, <1>4
<1> QED BY <1>7, <1>8 DEF h, m

(* What fits is kept.                                                      *)
LEMMA SignedKeeps ==
  ASSUME NEW bits \in 1..LongBits,
         NEW x \in -Power[bits - 1]..(Power[bits - 1] - 1)
  PROVE  Signed(x, bits) = x
<1> DEFINE h == Power[bits - 1]
           m == Power[bits]
<1>1. m \in Nat \ {0} /\ h \in Nat \ {0} /\ m = 2 * h
  BY HalfRange
<1>2. Signed(x, bits) = ((x + h) % m) - h /\ x \in (-h)..(h - 1)
  BY DEF Signed
<1> HIDE DEF h, m
<1> DEFINE r == x + h
<1>3. r \in 0..(m - 1) /\ r \in Int /\ r = 0 * m + r /\ x = r - h
  BY <1>1, <1>2
<1>4. (x + h) % m = r
  <2> HIDE DEF r
  <2>1. r % m = r
    BY <1>1, <1>3, ModUnique
  <2> QED BY <2>1 DEF r
<1> QED BY <1>1, <1>2, <1>3, <1>4

(* What is a multiple apart becomes the same.                              *)
LEMMA SignedSame ==
  ASSUME NEW bits \in 1..LongBits, NEW x \in Int, NEW y \in Int, NEW q \in Int,
         y = x + q * Power[bits]
  PROVE  Signed(y, bits) = Signed(x, bits)
<1> DEFINE h == Power[bits - 1]
           m == Power[bits]
           z == x + h
<1>1. m \in Nat \ {0} /\ h \in Nat \ {0}
  BY HalfRange
<1>2. Signed(x, bits) = (z % m) - h /\ Signed(y, bits) = ((y + h) % m) - h
      /\ y = x + q * m
  BY DEF Signed
<1> HIDE DEF h, m
<1>3. z \in Int /\ q * m \in Int
  BY <1>1
<1>4. y + h = z + q * m
  BY <1>1, <1>2, <1>3
<1> HIDE DEF z
<1>5. (z + q * m) % m = z % m
  BY <1>1, <1>3, SameRemainder
<1> QED BY <1>2, <1>4, <1>5

(* Numbers with the same word, as a multiple of the power of its width.    *)
LEMMA SameWordIf ==
  ASSUME NEW x \in Int, NEW y \in Int, NEW q \in Int, x = y + q * Power[WordBits]
  PROVE  SameWord(x, y)
<1> DEFINE m == Power[WordBits]
<1>1. m \in Nat \ {0} /\ x = y + q * m
  BY Widths, PowerIsPositive
<1> HIDE DEF m
<1>2. q * m \in Int
  BY <1>1
<1>3. x - y = q * m
  BY <1>1, <1>2
<1>4. (q * m) % m = 0
  BY <1>1, SameRemainder
<1> QED BY <1>3, <1>4 DEF SameWord, m

-----------------------------------------------------------------------------
(* The comparisons.                                                        *)

(* The values of the operands.                                             *)
LEMMA OperandsAreTyped ==
  ASSUME NEW b \in Operands
  PROVE  /\ b.type \in {Int32, Int64, IntPtr, MFloat, Object, Link}
         /\ b.value \in Int
         /\ b.type \in {Int32, IntPtr, MFloat} =>
              b.value \in -Power[WordBits - 1]..(Power[WordBits - 1] - 1)
         /\ b.type \in {Object, Link} => b.value \in 0..(Power[WordBits] - 1)
         /\ b = [type |-> b.type, value |-> b.value]
<1>1. /\ Power[WordBits] \in Nat \ {0} /\ Power[WordBits - 1] \in Nat \ {0}
      /\ Power[LongBits - 1] \in Nat \ {0}
  BY Widths, HalfRange
<1>2. /\ Words \subseteq -Power[WordBits - 1]..(Power[WordBits - 1] - 1)
      /\ Longs \subseteq -Power[LongBits - 1]..(Power[LongBits - 1] - 1)
      /\ Addresses \subseteq 0..(Power[WordBits] - 1)
      /\ Floats \subseteq Words
  BY ArithmeticAssumption
<1>3. /\ Words \subseteq Int /\ Longs \subseteq Int
      /\ Addresses \subseteq Int /\ Floats \subseteq Int
  BY <1>1, <1>2
<1> DEFINE low == -Power[WordBits - 1]..(Power[WordBits - 1] - 1)
           top == 0..(Power[WordBits] - 1)
<1>4. Words \subseteq low /\ Floats \subseteq low /\ Addresses \subseteq top
  BY <1>2
<1> HIDE DEF low, top
<1>5. /\ b.type \in {Int32, Int64, IntPtr, MFloat, Object, Link}
      /\ b.value \in Int
      /\ b = [type |-> b.type, value |-> b.value]
  BY <1>3 DEF Operands
<1>6. b.type \in {Int32, IntPtr, MFloat} => b.value \in low
  BY <1>4 DEF Operands, Int32, Int64, IntPtr, MFloat, Object, Link
<1>7. b.type \in {Object, Link} => b.value \in top
  BY <1>4 DEF Operands, Int32, Int64, IntPtr, MFloat, Object, Link
<1> QED BY <1>5, <1>6, <1>7 DEF low, top

(* The INTPTR that a pointer is cast to is as good as the pointer.         *)
LEMMA CastIsExact ==
  ASSUME NEW x \in 0..(Power[WordBits] - 1), NEW y \in 0..(Power[WordBits] - 1),
         Signed(x, WordBits) = Signed(y, WordBits)
  PROVE  x = y
<1> DEFINE m == Power[WordBits]
<1>1. WordBits \in 1..LongBits /\ m \in Nat \ {0}
  BY Widths, HalfRange
<1> HIDE DEF m
<1>2. x \in 0..(m - 1) /\ y \in 0..(m - 1)
  BY DEF m
<1>3. PICK p \in Int : Signed(x, WordBits) = x + p * m
  BY <1>1, <1>2, SignedFits DEF m
<1>4. PICK q \in Int : Signed(y, WordBits) = y + q * m
  BY <1>1, <1>2, SignedFits DEF m
<1>5. /\ p * m \in Int /\ q * m \in Int /\ p - q \in Int
      /\ (p - q) * m = p * m - q * m
  BY <1>1
<1>6. y = x + (p - q) * m
  <2>1. x + p * m = y + q * m
    BY <1>3, <1>4
  <2>2. x \in Int /\ y \in Int
    BY <1>1, <1>2
  <2> DEFINE u == p * m
             v == q * m
             w == (p - q) * m
  <2>3. u \in Int /\ v \in Int /\ w = u - v /\ x + u = y + v
    BY <1>5, <2>1
  <2> HIDE DEF u, v, w
  <2>4. y = x + w
    BY <2>2, <2>3
  <2> QED BY <2>4 DEF w
<1>7. y % m = x % m
  <2> DEFINE k == p - q
  <2>1. k \in Int /\ y = x + k * m /\ x \in Int
    BY <1>2, <1>5, <1>6
  <2> HIDE DEF k
  <2>2. (x + k * m) % m = x % m
    BY <1>1, <1>2, <2>1, SameRemainder
  <2> QED BY <2>1, <2>2
<1>8. x % m = x /\ y % m = y
  <2>1. x = 0 * m + x /\ y = 0 * m + y /\ x \in Int /\ y \in Int
    BY <1>1, <1>2
  <2> QED BY <1>1, <1>2, <2>1, ModUnique
<1> QED BY <1>7, <1>8

(* Two operands of types that have an order are both pointers, or neither  *)
(* is.                                                                     *)
LEMMA EqualsIsExact ==
  ASSUME NEW a \in Operands, NEW b \in Operands, TypePair(a, b) \in Ordered
  PROVE  ExIsEquals(a, b) = (a.value = b.value)
<1>1. TypePair(a, b) \in Comparable
  BY DEF Comparable
<1>2. CASE a.type = Link /\ b.type = Link
  <2>1. /\ a.value \in 0..(Power[WordBits] - 1)
        /\ b.value \in 0..(Power[WordBits] - 1)
    BY <1>2, OperandsAreTyped
  <2>2. /\ AsIntPtr(a) = Signed(a.value, WordBits)
        /\ AsIntPtr(b) = Signed(b.value, WordBits)
    BY <1>2 DEF AsIntPtr
  <2>3. AsIntPtr(a) = AsIntPtr(b) <=> a.value = b.value
    <3> DEFINE x == a.value
               y == b.value
    <3>1. /\ x \in 0..(Power[WordBits] - 1) /\ y \in 0..(Power[WordBits] - 1)
          /\ AsIntPtr(a) = Signed(x, WordBits) /\ AsIntPtr(b) = Signed(y, WordBits)
      BY <2>1, <2>2
    <3> HIDE DEF x, y
    <3>2. AsIntPtr(a) = AsIntPtr(b) <=> x = y
      BY <3>1, CastIsExact
    <3> QED BY <3>2 DEF x, y
  <2> QED BY <1>1, <2>3 DEF ExIsEquals
<1>3. CASE a.type # Link /\ b.type # Link
  <2>1. AsIntPtr(a) = a.value /\ AsIntPtr(b) = b.value
    BY <1>3 DEF AsIntPtr
  <2> QED BY <1>1, <2>1 DEF ExIsEquals
<1>4. (a.type = Link) = (b.type = Link)
  BY DEF TypePair, Ordered, Int32, Int64, IntPtr, MFloat, Link
<1> QED BY <1>2, <1>3, <1>4

(* The statement of OrderIsConsistent about two blocks.                    *)
IsOrder(a, b) ==
  LET lower == ExIsLower(a, b)
      equal == ExIsEquals(a, b)
      greater == ExIsGreater(a, b)
  IN /\ ~(lower /\ equal) /\ ~(lower /\ greater) /\ ~(equal /\ greater)
     /\ equal = ExIsEquals(b, a)
     /\ TypePair(a, b) \in Ordered =>
          /\ lower \/ equal \/ greater
          /\ ExIsGreaterEquals(a, b) = ~lower
          /\ ExIsLowerEquals(a, b) = ~greater
          /\ lower = ExIsGreater(b, a)

(* What OrderIsConsistent says, of two operands: of pairs without an order *)
(* the comparisons of two objects, and of a pointer with an INTPTR, are    *)
(* left.                                                                   *)
LEMMA OperandsAreOrdered ==
  ASSUME NEW a \in Operands, NEW b \in Operands
  PROVE  IsOrder(a, b)
<1>1. a.value \in Int /\ b.value \in Int
  BY OperandsAreTyped
<1>2. ExIsEquals(a, b) = ExIsEquals(b, a)
  <2>1. TypePair(a, b) \in Comparable <=> TypePair(b, a) \in Comparable
    BY DEF TypePair, Comparable, Ordered
  <2> QED BY <2>1 DEF ExIsEquals
<1>3. CASE TypePair(a, b) \in Ordered
  <2>1. TypePair(b, a) \in Ordered
    BY <1>3 DEF TypePair, Ordered, Int32, Int64, IntPtr, MFloat, Link
  <2>2. /\ ExIsEquals(a, b) = (a.value = b.value)
        /\ ExIsLower(a, b) = (a.value < b.value)
        /\ ExIsGreater(a, b) = (a.value > b.value)
        /\ ExIsGreaterEquals(a, b) = (a.value >= b.value)
        /\ ExIsLowerEquals(a, b) = (a.value <= b.value)
        /\ ExIsGreater(b, a) = (b.value > a.value)
    <3>1. ExIsEquals(a, b) = (a.value = b.value)
      BY <1>3, EqualsIsExact
    <3>2. ExIsLower(a, b) = (a.value < b.value)
      BY <1>3 DEF ExIsLower
    <3>3. ExIsGreater(a, b) = (a.value > b.value)
      <4>1. TypePair(a, b) \in Ordered \union {<<Object, Object>>}
        BY <1>3
      <4>2. ExIsGreater(a, b) <=> a.value > b.value
        BY <4>1 DEF ExIsGreater
      <4>3. ExIsGreater(a, b) \in BOOLEAN /\ (a.value > b.value) \in BOOLEAN
        BY <1>1 DEF ExIsGreater
      <4> QED BY <4>2, <4>3
    <3>4. ExIsGreaterEquals(a, b) = (a.value >= b.value)
      BY <1>3 DEF ExIsGreaterEquals
    <3>5. ExIsLowerEquals(a, b) = (a.value <= b.value)
      BY <1>3 DEF ExIsLowerEquals
    <3>6. ExIsGreater(b, a) = (b.value > a.value)
      <4>1. TypePair(b, a) \in Ordered \union {<<Object, Object>>}
        BY <2>1
      <4>2. ExIsGreater(b, a) <=> b.value > a.value
        BY <4>1 DEF ExIsGreater
      <4>3. ExIsGreater(b, a) \in BOOLEAN /\ (b.value > a.value) \in BOOLEAN
        BY <1>1 DEF ExIsGreater
      <4> QED BY <4>2, <4>3
    <3> QED BY <3>1, <3>2, <3>3, <3>4, <3>5, <3>6
  <2> DEFINE x == a.value
             y == b.value
  <2>3. /\ (x < y) \/ (x = y) \/ (x > y)
        /\ ~(x < y /\ x = y) /\ ~(x < y /\ x > y) /\ ~(x = y /\ x > y)
        /\ (x >= y) = ~(x < y) /\ (x <= y) = ~(x > y) /\ (x < y) = (y > x)
    BY <1>1
  <2> HIDE DEF x, y
  <2>4. /\ ExIsEquals(a, b) = (x = y) /\ ExIsLower(a, b) = (x < y)
        /\ ExIsGreater(a, b) = (x > y) /\ ExIsGreaterEquals(a, b) = (x >= y)
        /\ ExIsLowerEquals(a, b) = (x <= y) /\ ExIsGreater(b, a) = (y > x)
    BY <2>2 DEF x, y
  <2> QED BY <1>2, <2>3, <2>4, Zenon DEF IsOrder
<1>4. CASE TypePair(a, b) \notin Ordered
  <2>1. ~ ExIsLower(a, b)
    BY <1>4 DEF ExIsLower
  <2>2. ExIsGreater(a, b) => a.type = Object /\ b.type = Object /\ a.value > b.value
    BY <1>4 DEF ExIsGreater, TypePair
  <2>3. ~ (ExIsEquals(a, b) /\ ExIsGreater(a, b))
    <3>1. SUFFICES ASSUME ExIsEquals(a, b), ExIsGreater(a, b)
                   PROVE  FALSE
      OBVIOUS
    <3>2. AsIntPtr(a) = a.value /\ AsIntPtr(b) = b.value
      BY <2>2, <3>1 DEF AsIntPtr, Object, Link
    <3>3. AsIntPtr(a) = AsIntPtr(b)
      BY <3>1 DEF ExIsEquals
    <3>4. a.value > b.value
      BY <2>2, <3>1
    <3> QED BY <1>1, <3>2, <3>3, <3>4
  <2> QED BY <1>2, <1>4, <2>1, <2>3 DEF IsOrder
<1> QED BY <1>3, <1>4

-----------------------------------------------------------------------------
(* Sums, differences and products.                                         *)

(* What a type keeps of an integer has its lower word.                     *)
LEMMA ResultIsExact ==
  ASSUME NEW type \in {Int32, Int64, IntPtr, Link}, NEW v \in Int
  PROVE  /\ Result(type, v).type = type
         /\ Result(type, v).value \in Int
         /\ \E q \in Int : Result(type, v).value = v + q * Power[WordBits]
<1>1. WordBits \in 1..LongBits /\ Power[WordBits] \in Nat \ {0}
  BY Widths, HalfRange
<1>2. CASE type = Int64 \/ type = Link
  <2>1. Result(type, v) = [type |-> type, value |-> v % Power[WordBits]]
    BY <1>2 DEF Result, Block, Int64, Link, Object, MFloat
  <2>2. v % Power[WordBits] \in Int
        /\ \E q \in Int : v % Power[WordBits] = v + q * Power[WordBits]
    <3> DEFINE m == Power[WordBits]
    <3>1. m \in Nat \ {0}
      BY <1>1
    <3> HIDE DEF m
    <3>2. v % m \in 0..(m - 1) /\ \E q \in Int : v % m = v + q * m
      BY <3>1, ModFacts
    <3>3. v % m \in Int
      BY <3>1, <3>2
    <3> QED BY <3>2, <3>3 DEF m
  <2> QED BY <2>1, <2>2
<1>3. CASE type = Int32 \/ type = IntPtr
  <2>1. Result(type, v) = [type |-> type, value |-> Signed(v, WordBits)]
    BY <1>3 DEF Result, Block, Bits, Int32, Int64, IntPtr, Link, Object, MFloat
  <2>2. Signed(v, WordBits) \in Int
        /\ \E q \in Int : Signed(v, WordBits) = v + q * Power[WordBits]
    BY <1>1, SignedFits
  <2> QED BY <2>1, <2>2
<1> QED BY <1>2, <1>3

(* So it is the same word.                                                 *)
LEMMA ResultIsSameWord ==
  ASSUME NEW type \in {Int32, Int64, IntPtr, Link}, NEW v \in Int
  PROVE  SameWord(Result(type, v).value, v)
<1>1. PICK q \in Int : Result(type, v).value = v + q * Power[WordBits]
  BY ResultIsExact
<1>2. Result(type, v).value \in Int
  BY ResultIsExact
<1> DEFINE r == Result(type, v).value
<1>3. r \in Int /\ r = v + q * Power[WordBits]
  BY <1>1, <1>2
<1> HIDE DEF r
<1>4. SameWord(r, v)
  BY <1>3, SameWordIf
<1> QED BY <1>4 DEF r

(* The types of the results.                                               *)
LEMMA ResultTypes ==
  /\ \A p \in DOMAIN Numbers : Numbers[p] \in {Int32, Int64, IntPtr, MFloat}
  /\ \A p \in DOMAIN Sums : Sums[p] \in {Int32, Int64, IntPtr, Link, MFloat}
  /\ \A p \in DOMAIN Differences :
       Differences[p] \in {Int32, Int64, IntPtr, Link, MFloat}
<1>1. \A p \in DOMAIN Numbers : Numbers[p] \in {Int32, Int64, IntPtr, MFloat}
  BY DEF Numbers
<1>2. \A p \in DOMAIN Sums : Sums[p] \in {Int32, Int64, IntPtr, Link, MFloat}
  BY <1>1 DEF Sums
<1>3. \A p \in DOMAIN Differences :
        Differences[p] \in {Int32, Int64, IntPtr, Link, MFloat}
  BY <1>1 DEF Differences
<1> QED BY <1>1, <1>2, <1>3

(* ExAdd                                                                   *)
LEMMA SumIsExact ==
  ASSUME NEW a \in Operands, NEW b \in Operands,
         ~ Stops(ExAdd(a, b)), ExAdd(a, b).type # MFloat
  PROVE  SameWord(ExAdd(a, b).value, a.value + b.value)
<1> DEFINE p == TypePair(a, b)
<1>1. p \in DOMAIN Sums
  BY DEF ExAdd, Apply, Stops
<1>2. Sums[p] # MFloat
  BY <1>1 DEF ExAdd, Apply
<1>3. ExAdd(a, b) = Result(Sums[p], a.value + b.value)
  BY <1>1, <1>2 DEF ExAdd, Apply, Plus
<1>4. Sums[p] \in {Int32, Int64, IntPtr, Link}
  BY <1>1, <1>2, ResultTypes
<1>5. a.value + b.value \in Int
  BY OperandsAreTyped
<1> QED BY <1>3, <1>4, <1>5, ResultIsSameWord

(* ExSub                                                                   *)
LEMMA DifferenceIsExact ==
  ASSUME NEW a \in Operands, NEW b \in Operands,
         ~ Stops(ExSub(a, b)), ExSub(a, b).type # MFloat
  PROVE  SameWord(ExSub(a, b).value, a.value - b.value)
<1> DEFINE p == TypePair(a, b)
<1>1. p \in DOMAIN Differences
  BY DEF ExSub, Apply, Stops
<1>2. Differences[p] # MFloat
  BY <1>1 DEF ExSub, Apply
<1>3. ExSub(a, b) = Result(Differences[p], a.value - b.value)
  BY <1>1, <1>2 DEF ExSub, Apply, Minus
<1>4. Differences[p] \in {Int32, Int64, IntPtr, Link}
  BY <1>1, <1>2, ResultTypes
<1>5. a.value - b.value \in Int
  BY OperandsAreTyped
<1> QED BY <1>3, <1>4, <1>5, ResultIsSameWord

(* ExMul                                                                   *)
LEMMA ProductIsExact ==
  ASSUME NEW a \in Operands, NEW b \in Operands,
         ~ Stops(ExMul(a, b)), ExMul(a, b).type # MFloat
  PROVE  SameWord(ExMul(a, b).value, a.value * b.value)
<1> DEFINE p == TypePair(a, b)
<1>1. p \in DOMAIN Numbers
  BY DEF ExMul, Apply, Stops
<1>2. Numbers[p] # MFloat
  BY <1>1 DEF ExMul, Apply
<1>3. ExMul(a, b) = Result(Numbers[p], a.value * b.value)
  BY <1>1, <1>2 DEF ExMul, Apply, Times
<1>4. Numbers[p] \in {Int32, Int64, IntPtr, Link}
  BY <1>1, <1>2, ResultTypes
<1>5. a.value * b.value \in Int
  BY OperandsAreTyped
<1> QED BY <1>3, <1>4, <1>5, ResultIsSameWord

-----------------------------------------------------------------------------
(* Division.                                                               *)

(* C's quotient and remainder: towards zero.                               *)
LEMMA QuotientFacts ==
  ASSUME NEW x \in Int, NEW y \in Int, y # 0
  PROVE  /\ Quotient(x, y) \in Int /\ Remainder(x, y) \in Int
         /\ Quotient(x, y) * y + Remainder(x, y) = x
         /\ Magnitude(Remainder(x, y)) < Magnitude(y)
         /\ Remainder(x, y) # 0 => (Remainder(x, y) < 0) = (x < 0)
<1> DEFINE e == Magnitude(x)
           c == Magnitude(y)
           d == e \div c
           q == Quotient(x, y)
           r == Remainder(x, y)
<1>1. /\ e \in Nat /\ e = IF x < 0 THEN -x ELSE x
      /\ c \in Nat \ {0} /\ c = IF y < 0 THEN -y ELSE y
  BY DEF Magnitude
<1>2. q = IF (x < 0) = (y < 0) THEN d ELSE -d
  BY DEF Quotient
<1>3. r = x - y * q
  BY DEF Remainder
<1>4. d \in Int /\ d * c <= e /\ e < d * c + c
  <2>1. e \in Int /\ c \in Nat \ {0}
    BY <1>1
  <2> HIDE DEF e, c
  <2> QED BY <2>1, DivBounds
<1> HIDE DEF d, e, c
<1> DEFINE n == d * c
<1>5. n \in Int /\ n <= e /\ e < n + c
  BY <1>1, <1>4
<1>6. q \in Int /\ y * q \in Int /\ q * y = y * q
  BY <1>2, <1>4
<1>7. y * q = IF x < 0 THEN -n ELSE n
  <2> HIDE DEF q
  <2>1. CASE y < 0
    <3>1. y = -c
      BY <1>1, <2>1
    <3>2. q = IF x < 0 THEN d ELSE -d
      BY <1>2, <2>1
    <3>3. (-c) * d = -(d * c) /\ (-c) * (-d) = d * c
      BY <1>1, <1>4
    <3> QED BY <3>1, <3>2, <3>3
  <2>2. CASE ~ (y < 0)
    <3>1. y = c
      BY <1>1, <2>2
    <3>2. q = IF x < 0 THEN -d ELSE d
      BY <1>2, <2>2
    <3>3. c * d = d * c /\ c * (-d) = -(d * c)
      BY <1>1, <1>4
    <3> QED BY <3>1, <3>2, <3>3
  <2> QED BY <2>1, <2>2
<1> HIDE DEF n, q, r
<1>8. r \in Int /\ r = (IF x < 0 THEN -(e - n) ELSE e - n) /\ y * q + r = x
  BY <1>1, <1>3, <1>5, <1>6, <1>7
<1>9. /\ Magnitude(r) < c
      /\ r # 0 => (r < 0) = (x < 0)
  BY <1>1, <1>5, <1>8 DEF Magnitude
<1>10. q * y + r = x
  BY <1>6, <1>8
<1> QED BY <1>6, <1>8, <1>9, <1>10 DEF q, r, c

(* The lower words of a quotient and its remainder give the dividend's.    *)
LEMMA WordsDivideBack ==
  ASSUME NEW x \in Int, NEW y \in Int, NEW q \in Int, NEW r \in Int,
         NEW u \in Int, NEW v \in Int, NEW i \in Int, NEW j \in Int,
         q * y + r = x, u = q + i * Power[WordBits], v = r + j * Power[WordBits]
  PROVE  SameWord(u * y + v, x)
<1> DEFINE m == Power[WordBits]
<1>1. m \in Nat \ {0} /\ u = q + i * m /\ v = r + j * m
  BY Widths, HalfRange
<1> HIDE DEF m
<1> DEFINE k == i * y + j
           w == u * y + v
<1>2. k \in Int /\ w \in Int
  OBVIOUS
<1>3. w = x + k * m
  <2>1. u * y = q * y + (i * m) * y
    BY <1>1
  <2>2. k * m = (i * m) * y + j * m
    BY <1>1
  <2> DEFINE a == q * y
             b == (i * m) * y
             c == j * m
             d == u * y
             e == k * m
  <2>3. a \in Int /\ b \in Int /\ c \in Int
    BY <1>1
  <2>4. d = a + b /\ e = b + c /\ v = r + c /\ a + r = x /\ w = d + v
    BY <1>1, <2>1, <2>2
  <2> HIDE DEF a, b, c, d, e, w
  <2>5. w = x + e
    BY <2>3, <2>4
  <2> QED BY <2>5 DEF e
<1> HIDE DEF k, w
<1>4. SameWord(w, x)
  BY <1>2, <1>3, SameWordIf DEF m
<1> QED BY <1>4 DEF w

(* ExDiv and ExRem                                                         *)
LEMMA DivisionIsExact ==
  ASSUME NEW a \in Operands, NEW b \in Operands,
         ~ Stops(ExDiv(a, b)), ExDiv(a, b).type # MFloat
  PROVE  DividesBack(a.value, b.value, ExDiv(a, b), ExRem(a, b))
<1> DEFINE p == TypePair(a, b)
           type == Numbers[p]
           x == a.value
           y == b.value
           q == Quotient(x, y)
           r == Remainder(x, y)
<1>1. Divides(a, b) /\ p \in DOMAIN Numbers
  <2>1. p \in DOMAIN Numbers
    BY DEF ExDiv, Divide, Apply, Stops
  <2> QED BY <2>1 DEF ExDiv, Divide, Stops
<1>2. type # MFloat
  BY <1>1 DEF ExDiv, Divide, Apply
<1>3. /\ ExDiv(a, b) = Result(type, q)
      /\ ExRem(a, b) = Result(type, r)
  BY <1>1, <1>2 DEF ExDiv, ExRem, Divide, Apply
<1>4. type \in {Int32, Int64, IntPtr, Link}
  BY <1>1, <1>2, ResultTypes
<1>5. /\ a.type # MFloat
      /\ type # Int64 => b.type \in {Int32, IntPtr}
  BY <1>1, <1>2 DEF TypePair, Numbers, Int32, Int64, IntPtr, MFloat
<1>6. x \in Int /\ y \in Int /\ y # 0
  BY <1>1, <1>5, OperandsAreTyped DEF Divides
<1>7. /\ q \in Int /\ r \in Int /\ q * y + r = x
      /\ Magnitude(r) < Magnitude(y)
      /\ r # 0 => (r < 0) = (x < 0)
  <2> HIDE DEF x, y
  <2> QED BY <1>6, QuotientFacts
<1> DEFINE u == Result(type, q)
           v == Result(type, r)
<1>8. /\ u.value \in Int /\ v.value \in Int /\ u.type = type
      /\ \E i \in Int : u.value = q + i * Power[WordBits]
      /\ \E j \in Int : v.value = r + j * Power[WordBits]
  <2> HIDE DEF type, q, r
  <2> QED BY <1>4, <1>7, ResultIsExact
<1>9. type # Int64 => v.value = r
  <2>1. SUFFICES ASSUME type # Int64
                 PROVE  v.value = r
    OBVIOUS
  <2>2. type \in {Int32, IntPtr}
    BY <1>1, <1>2, <2>1, ResultTypes
  <2>3. v.value = Signed(r, WordBits)
    <3> HIDE DEF r, type
    <3> QED BY <2>2 DEF Result, Block, Bits, Int32, Int64, IntPtr, Link, Object, MFloat
  <2> DEFINE h == Power[WordBits - 1]
  <2>4. WordBits \in 1..LongBits /\ h \in Nat \ {0}
    BY Widths, HalfRange
  <2>5. y \in (-h)..(h - 1)
    BY <1>5, <2>1, OperandsAreTyped
  <2> HIDE DEF h, x, y, r, q, type
  <2>6. r \in (-h)..(h - 1)
    BY <1>6, <1>7, <2>4, <2>5 DEF Magnitude
  <2>7. Signed(r, WordBits) = r
    BY <2>4, <2>6, SignedKeeps DEF h
  <2> QED BY <2>3, <2>7
<1> HIDE DEF u, v, x, y, r, q, type
<1>10. SameWord(u.value * y + v.value, x)
  <2>1. PICK i \in Int : u.value = q + i * Power[WordBits]
    BY <1>8
  <2>2. PICK j \in Int : v.value = r + j * Power[WordBits]
    BY <1>8
  <2> DEFINE c == u.value
             d == v.value
  <2>3. c \in Int /\ d \in Int /\ c = q + i * Power[WordBits]
        /\ d = r + j * Power[WordBits]
    BY <1>8, <2>1, <2>2
  <2> HIDE DEF c, d
  <2>4. SameWord(c * y + d, x)
    BY <1>6, <1>7, <2>3, WordsDivideBack
  <2> QED BY <2>4 DEF c, d
<1>11. DividesBack(x, y, u, v)
  BY <1>7, <1>8, <1>9, <1>10 DEF DividesBack
<1> QED BY <1>3, <1>11 DEF u, v, x, y

-----------------------------------------------------------------------------
(* Conversions.                                                            *)

(* y is a multiple of m away from x.                                       *)
Apart(x, y, m) == \E q \in Int : y = x + q * m

(* A multiple of a power is one of every lower power.                      *)
LEMMA ApartInSteps ==
  ASSUME NEW m \in 0..LongBits, NEW n \in 0..LongBits, m <= n,
         NEW x \in Int, NEW y \in Int, Apart(x, y, Power[n])
  PROVE  Apart(x, y, Power[m])
<1>1. PICK k \in Nat \ {0} : Power[n] = k * Power[m]
  BY PowerDivides
<1>2. PICK q \in Int : y = x + q * Power[n]
  BY DEF Apart
<1> DEFINE a == Power[m]
<1>3. a \in Nat \ {0}
  BY PowerIsPositive
<1> HIDE DEF a
<1>4. q * (k * a) = (q * k) * a /\ q * k \in Int
  BY <1>3
<1>5. y = x + (q * k) * a
  BY <1>1, <1>2, <1>4 DEF a
<1>6. \E p \in Int : y = x + p * a
  BY <1>4, <1>5
<1> QED BY <1>6 DEF Apart, a

(* The statement of ConversionsCompose about a block.                      *)
AreConverted(b) ==
  /\ LET byte == ExConvI8(b)
         short == ExConvI16(b)
         word == ExConvI32(b)
     IN /\ byte.value \in 0 .. Power[ByteBits] - 1
        /\ (byte.value - b.value) % Power[ByteBits] = 0
        /\ short.value \in -Power[ShortBits - 1] .. Power[ShortBits - 1] - 1
        /\ (short.value - b.value) % Power[ShortBits] = 0
        /\ SameWord(word.value, b.value)
        /\ ExConvI8(short) = byte /\ ExConvI8(word) = byte /\ ExConvI16(word) = short
  /\ b.type = Int32 =>
       /\ ExConvI32(ExConvI64(b)) = b
       /\ ExConvI32(ExConvIntPtr(b)) = b
       /\ ExConvI32(ExConvMFloat(b)) = b

(* A value that fits a word is not changed by a block of an integer type.  *)
LEMMA BlockKeeps ==
  ASSUME NEW v \in -Power[WordBits - 1]..(Power[WordBits - 1] - 1)
  PROVE  /\ v \in Int
         /\ Block(Int32, v) = [type |-> Int32, value |-> v]
         /\ Block(IntPtr, v) = [type |-> IntPtr, value |-> v]
         /\ Block(Int64, v) = [type |-> Int64, value |-> v]
<1>1. /\ WordBits \in 1..LongBits /\ LongBits \in 1..LongBits
      /\ WordBits - 1 \in 0..LongBits /\ LongBits - 1 \in 0..LongBits
      /\ WordBits - 1 <= LongBits - 1
  BY Widths
<1>2. Signed(v, WordBits) = v
  BY <1>1, SignedKeeps
<1> DEFINE h == Power[WordBits - 1]
           l == Power[LongBits - 1]
<1>3. h \in Nat \ {0} /\ l \in Nat \ {0} /\ h <= l
  BY <1>1, HalfRange, PowerGrows
<1>4. v \in (-h)..(h - 1)
  OBVIOUS
<1> HIDE DEF h, l
<1>5. v \in (-l)..(l - 1) /\ v \in Int
  BY <1>3, <1>4
<1>6. Signed(v, LongBits) = v
  BY <1>1, <1>5, SignedKeeps DEF l
<1> QED BY <1>2, <1>5, <1>6 DEF Block, Bits, Int32, Int64, IntPtr, MFloat, Link, Object

(* The conversions to a byte, to a short and to a word, as numbers.        *)
LEMMA ConversionsAre ==
  ASSUME NEW b, b.type \in Scalars, b.value \in Int
  PROVE  /\ ExConvI8(b) = [type |-> Int32, value |-> b.value % Power[ByteBits]]
         /\ ExConvI16(b) = [type |-> Int32, value |-> Signed(b.value, ShortBits)]
         /\ ExConvI32(b) = [type |-> Int32, value |-> Signed(b.value, WordBits)]
<1> SUFFICES ASSUME NEW x \in Int, x = b.value
             PROVE  /\ ExConvI8(b) = [type |-> Int32, value |-> x % Power[ByteBits]]
                    /\ ExConvI16(b) = [type |-> Int32, value |-> Signed(x, ShortBits)]
                    /\ ExConvI32(b) = [type |-> Int32, value |-> Signed(x, WordBits)]
  OBVIOUS
<1>1. /\ ExConvI8(b) = Block(Int32, x % Power[ByteBits])
      /\ ExConvI16(b) = Block(Int32, Signed(x, ShortBits))
      /\ ExConvI32(b) = Block(Int32, x)
  BY DEF ExConvI8, ExConvI16, ExConvI32, Convert
<1>2. Block(Int32, x) = [type |-> Int32, value |-> Signed(x, WordBits)]
  BY DEF Block, Bits, Int32, Int64, MFloat, Link, Object
<1> DEFINE B == Power[ByteBits]
           s == Power[ShortBits - 1]
           h == Power[WordBits - 1]
<1>3. /\ ByteBits \in 0..LongBits /\ ShortBits - 1 \in 0..LongBits
      /\ WordBits - 1 \in 0..LongBits /\ ByteBits <= WordBits - 1
      /\ ShortBits - 1 <= WordBits - 1 /\ ShortBits \in 1..LongBits
  BY Widths
<1>4. B \in Nat \ {0} /\ s \in Nat \ {0} /\ h \in Nat \ {0} /\ B <= h /\ s <= h
  BY <1>3, PowerIsPositive, PowerGrows
<1>5. Signed(x, ShortBits) \in (-s)..(s - 1)
  BY <1>3, SignedFits
<1> HIDE DEF B, s, h
<1>6. x % B \in 0..(B - 1)
  BY <1>4, ModFacts
<1>7. x % B \in (-h)..(h - 1) /\ Signed(x, ShortBits) \in (-h)..(h - 1)
  BY <1>4, <1>5, <1>6
<1>8. /\ Block(Int32, x % B) = [type |-> Int32, value |-> x % B]
      /\ Block(Int32, Signed(x, ShortBits))
          = [type |-> Int32, value |-> Signed(x, ShortBits)]
  <2> DEFINE y == x % B
             z == Signed(x, ShortBits)
  <2>1. y \in (-h)..(h - 1) /\ z \in (-h)..(h - 1)
    BY <1>7
  <2> HIDE DEF y, z
  <2>2. /\ Block(Int32, y) = [type |-> Int32, value |-> y]
        /\ Block(Int32, z) = [type |-> Int32, value |-> z]
    BY <2>1, BlockKeeps DEF h
  <2> QED BY <2>2 DEF y, z
<1> QED BY <1>1, <1>2, <1>8 DEF B

(* Numbers that are a multiple of the power of a higher width apart are    *)
(* narrowed to the same byte.                                              *)
LEMMA SameByte ==
  ASSUME NEW n \in 0..LongBits, ByteBits <= n,
         NEW x \in Int, NEW y \in Int, Apart(x, y, Power[n])
  PROVE  y % Power[ByteBits] = x % Power[ByteBits]
<1>1. ByteBits \in 0..LongBits
  BY Widths
<1>2. Apart(x, y, Power[ByteBits])
  BY <1>1, ApartInSteps
<1> DEFINE m == Power[ByteBits]
<1>3. m \in Nat \ {0} /\ Apart(x, y, m)
  BY <1>1, <1>2, PowerIsPositive
<1> HIDE DEF m
<1>4. PICK p \in Int : y = x + p * m
  BY <1>3 DEF Apart
<1>5. (x + p * m) % m = x % m
  BY <1>3, SameRemainder
<1> QED BY <1>4, <1>5 DEF m

(* And to the same short.                                                  *)
LEMMA SameShort ==
  ASSUME NEW n \in 0..LongBits, ShortBits <= n,
         NEW x \in Int, NEW y \in Int, Apart(x, y, Power[n])
  PROVE  Signed(y, ShortBits) = Signed(x, ShortBits)
<1>1. ShortBits \in 0..LongBits /\ ShortBits \in 1..LongBits
  BY Widths
<1>2. Apart(x, y, Power[ShortBits])
  BY <1>1, ApartInSteps
<1>3. PICK p \in Int : y = x + p * Power[ShortBits]
  BY <1>2 DEF Apart
<1> QED BY <1>1, <1>3, SignedSame

(* What ConversionsCompose says, of one operand.                           *)
LEMMA OperandsAreConverted ==
  ASSUME NEW b \in Operands, b.type \in Scalars
  PROVE  AreConverted(b)
<1> SUFFICES ASSUME NEW x \in Int, x = b.value
             PROVE  AreConverted(b)
  BY OperandsAreTyped
<1> DEFINE B == Power[ByteBits]
           S == Power[ShortBits]
           W == Power[WordBits]
           byte == [type |-> Int32, value |-> x % B]
           short == [type |-> Int32, value |-> Signed(x, ShortBits)]
           word == [type |-> Int32, value |-> Signed(x, WordBits)]
<1>1. ExConvI8(b) = byte /\ ExConvI16(b) = short /\ ExConvI32(b) = word
  BY ConversionsAre
<1>2. /\ B \in Nat \ {0} /\ S \in Nat \ {0} /\ W \in Nat \ {0}
      /\ ByteBits \in 0..LongBits /\ ShortBits \in 0..LongBits
      /\ WordBits \in 0..LongBits
      /\ ByteBits <= ShortBits /\ ShortBits <= WordBits /\ ByteBits <= WordBits
      /\ ShortBits \in 1..LongBits /\ WordBits \in 1..LongBits
  BY Widths, PowerIsPositive
<1>3. /\ byte.value \in 0..(B - 1)
      /\ (byte.value - x) % B = 0
  <2> HIDE DEF B
  <2>1. x % B \in 0..(B - 1) /\ \E q \in Int : x % B = x + q * B
    BY <1>2, ModFacts
  <2>2. PICK q \in Int : x % B = x + q * B
    BY <2>1
  <2>3. q * B \in Int
    BY <1>2
  <2>4. (x % B) - x = q * B
    BY <2>2, <2>3
  <2>5. (q * B) % B = 0
    BY <1>2, SameRemainder
  <2> QED BY <2>1, <2>4, <2>5
<1>4. /\ short.value \in -Power[ShortBits - 1]..(Power[ShortBits - 1] - 1)
      /\ (short.value - x) % S = 0
      /\ \E q \in Int : short.value = x + q * S
      /\ short.value \in Int
  <2> DEFINE y == Signed(x, ShortBits)
  <2>1. /\ y \in -Power[ShortBits - 1]..(Power[ShortBits - 1] - 1)
        /\ y \in Int /\ \E q \in Int : y = x + q * S
    BY <1>2, SignedFits
  <2>2. PICK q \in Int : y = x + q * S
    BY <2>1
  <2> HIDE DEF y, S
  <2>3. q * S \in Int
    BY <1>2
  <2>4. y - x = q * S
    BY <2>1, <2>2, <2>3
  <2>5. (q * S) % S = 0
    BY <1>2, SameRemainder
  <2> QED BY <2>1, <2>4, <2>5 DEF y
<1>5. /\ word.value \in Int /\ SameWord(word.value, x)
      /\ \E q \in Int : word.value = x + q * W
  <2> DEFINE y == Signed(x, WordBits)
  <2>1. y \in Int /\ \E q \in Int : y = x + q * W
    BY <1>2, SignedFits
  <2>2. PICK q \in Int : y = x + q * W
    BY <2>1
  <2> HIDE DEF y
  <2>3. SameWord(y, x)
    BY <2>1, <2>2, SameWordIf
  <2> QED BY <2>1, <2>3 DEF y
<1>6. /\ ExConvI8(short) = byte
      /\ ExConvI8(word) = byte /\ ExConvI16(word) = short
  <2>1. /\ short.type \in Scalars /\ word.type \in Scalars
        /\ short.value \in Int /\ word.value \in Int
    BY <1>4, <1>5 DEF Scalars
  <2>2. /\ ExConvI8(short) = [type |-> Int32, value |-> short.value % B]
        /\ ExConvI8(word) = [type |-> Int32, value |-> word.value % B]
        /\ ExConvI16(word) = [type |-> Int32, value |-> Signed(word.value, ShortBits)]
    <3> HIDE DEF short, word
    <3> QED BY <2>1, ConversionsAre
  <2> DEFINE y == short.value
             z == word.value
  <2>3. y \in Int /\ z \in Int
        /\ (\E q \in Int : y = x + q * S) /\ \E q \in Int : z = x + q * W
    BY <1>4, <1>5
  <2> HIDE DEF y, z
  <2>4. Apart(x, y, Power[ShortBits])
    BY <2>3 DEF Apart
  <2>5. Apart(x, z, Power[WordBits])
    BY <2>3 DEF Apart
  <2>6. /\ ShortBits \in 0..LongBits /\ WordBits \in 0..LongBits
        /\ ByteBits <= ShortBits /\ ShortBits <= WordBits /\ ByteBits <= WordBits
        /\ y \in Int /\ z \in Int
    BY <1>2, <2>3
  <2>7. y % B = x % B
    BY <2>4, <2>6, SameByte
  <2>8. z % B = x % B
    BY <2>5, <2>6, SameByte
  <2>9. Signed(z, ShortBits) = Signed(x, ShortBits)
    BY <2>5, <2>6, SameShort
  <2> HIDE DEF B
  <2> QED BY <2>2, <2>7, <2>8, <2>9 DEF y, z
<1>7. ASSUME b.type = Int32
      PROVE  /\ ExConvI32(ExConvI64(b)) = b
             /\ ExConvI32(ExConvIntPtr(b)) = b
             /\ ExConvI32(ExConvMFloat(b)) = b
  <2>1. /\ x \in -Power[WordBits - 1]..(Power[WordBits - 1] - 1)
        /\ b = [type |-> Int32, value |-> x]
    BY <1>7, OperandsAreTyped
  <2>2. /\ Block(Int32, x) = [type |-> Int32, value |-> x]
        /\ Block(IntPtr, x) = [type |-> IntPtr, value |-> x]
        /\ Block(Int64, x) = [type |-> Int64, value |-> x]
    BY <2>1, BlockKeeps
  <2>3. Block(MFloat, x) = [type |-> MFloat, value |-> x]
    BY DEF Block, Int32, Int64, IntPtr, MFloat, Link, Object
  <2>4. /\ ExConvI64(b) = [type |-> Int64, value |-> x]
        /\ ExConvIntPtr(b) = [type |-> IntPtr, value |-> x]
        /\ ExConvMFloat(b) = [type |-> MFloat, value |-> x]
    BY <1>7, <2>2, <2>3 DEF ExConvI64, ExConvIntPtr, ExConvMFloat, Convert, Scalars,
                            Int32, Int64, IntPtr, MFloat
  <2>5. ASSUME NEW type \in Scalars
        PROVE  ExConvI32([type |-> type, value |-> x]) = b
    BY <2>1, <2>2 DEF ExConvI32, Convert
  <2> QED BY <2>4, <2>5 DEF Scalars
<1> HIDE DEF byte, short, word
<1> QED BY <1>1, <1>3, <1>4, <1>5, <1>6, <1>7 DEF AreConverted

-----------------------------------------------------------------------------
(* The machine: two operands, then what the instruction has left.          *)
IInv ==
  /\ executed = None => \E a, b \in Operands : stack = <<a, b>>
  /\ WordsAreExact

(* Before the instruction nothing is said of words.                        *)
LEMMA NothingExecuted == executed = None => WordsAreExact
BY DEF WordsAreExact, None

(* The invariant holds before the instruction.                             *)
LEMMA InitInvariant == Init => IInv
<1> SUFFICES ASSUME Init PROVE IInv
  OBVIOUS
<1>1. executed = None /\ \E a, b \in Operands : stack = <<a, b>>
  BY DEF Init
<1> QED BY <1>1, NothingExecuted DEF IInv

(* The statement of WordsAreExact about two operands and their result.     *)
IsExact(op, x, y, result) ==
  CASE op = "OpAdd" -> SameWord(result.value, x.value + y.value)
    [] op = "OpSub" -> SameWord(result.value, x.value - y.value)
    [] op = "OpMu"  -> SameWord(result.value, x.value * y.value)
    [] op = "OpDiv" -> DividesBack(x.value, y.value, result, ExRem(x, y))

(* What it says is so for each of the operators.                           *)
LEMMA BinaryIsExact ==
  ASSUME NEW a \in Operands, NEW b \in Operands,
         NEW op \in {"OpAdd", "OpSub", "OpMu", "OpDiv"},
         ~ Stops(Binary(op, a, b)), Binary(op, a, b).type # MFloat
  PROVE  IsExact(op, a, b, Binary(op, a, b))
<1>1. CASE op = "OpAdd"
  <2>1. Binary(op, a, b) = ExAdd(a, b)
    BY <1>1 DEF Binary
  <2> QED BY <1>1, <2>1, SumIsExact DEF IsExact
<1>2. CASE op = "OpSub"
  <2>1. Binary(op, a, b) = ExSub(a, b)
    BY <1>2 DEF Binary
  <2> QED BY <1>2, <2>1, DifferenceIsExact DEF IsExact
<1>3. CASE op = "OpMu"
  <2>1. Binary(op, a, b) = ExMul(a, b)
    BY <1>3 DEF Binary
  <2> QED BY <1>3, <2>1, ProductIsExact DEF IsExact
<1>4. CASE op = "OpDiv"
  <2>1. Binary(op, a, b) = ExDiv(a, b)
    BY <1>4 DEF Binary
  <2> QED BY <1>4, <2>1, DivisionIsExact DEF IsExact
<1> QED BY <1>1, <1>2, <1>3, <1>4

(* One instruction.                                                        *)
LEMMA NextKeeps == IInv /\ [Next]_vars => IInv'
<1> SUFFICES ASSUME IInv, [Next]_vars PROVE IInv'
  OBVIOUS
<1>1. ASSUME NEW op \in BinaryOps, Operate(op)
      PROVE  IInv'
  <2>1. PICK a \in Operands, b \in Operands : stack = <<a, b>>
    BY <1>1 DEF IInv, Operate
  <2>2. /\ executed' = [op |-> op, operands |-> <<a, b>>]
        /\ stack' = <<Binary(op, a, b)>>
    BY <1>1, <2>1 DEF Operate, Executed, First, Second
  <2>3. executed' # None
    BY <2>2 DEF None, BinaryOps
  <2>4. WordsAreExact'
    <3>1. /\ executed'.op = op /\ executed'.operands[1] = a
          /\ executed'.operands[2] = b /\ stack'[1] = Binary(op, a, b)
      BY <2>2
    <3>2. CASE op \in {"OpAdd", "OpSub", "OpMu", "OpDiv"}
               /\ ~ Stops(Binary(op, a, b)) /\ Binary(op, a, b).type # MFloat
      <4>1. IsExact(op, a, b, Binary(op, a, b))
        BY <3>2, BinaryIsExact
      <4> QED BY <3>1, <4>1 DEF WordsAreExact, IsExact
    <3>3. CASE ~ (op \in {"OpAdd", "OpSub", "OpMu", "OpDiv"}
                  /\ ~ Stops(Binary(op, a, b)) /\ Binary(op, a, b).type # MFloat)
      BY <3>1, <3>3 DEF WordsAreExact
    <3> QED BY <3>2, <3>3
  <2> QED BY <2>3, <2>4 DEF IInv
<1>2. ASSUME NEW op, op \notin {"none", "OpAdd", "OpSub", "OpMu", "OpDiv"},
             executed'.op = op
      PROVE  IInv'
  <2>1. executed' # None
    BY <1>2 DEF None
  <2>2. WordsAreExact'
    BY <1>2 DEF WordsAreExact
  <2> QED BY <2>1, <2>2 DEF IInv
<1>3. ASSUME NEW op \in UnaryOps, Change(op)
      PROVE  IInv'
  <2>1. executed'.op = op /\ op \notin {"none", "OpAdd", "OpSub", "OpMu", "OpDiv"}
    BY <1>3 DEF Change, Executed, UnaryOps
  <2> QED BY <1>2, <2>1
<1>4. ASSUME NEW op \in Branches, Branch(op)
      PROVE  IInv'
  <2>1. executed'.op = op /\ op \notin {"none", "OpAdd", "OpSub", "OpMu", "OpDiv"}
    BY <1>4 DEF Branch, Executed, Branches
  <2> QED BY <1>2, <2>1
<1>5. ASSUME NEW op \in {"OpBranchIfZero", "OpBranchIfNonZero"}, BranchOnZero(op)
      PROVE  IInv'
  <2>1. executed'.op = op /\ op \notin {"none", "OpAdd", "OpSub", "OpMu", "OpDiv"}
    BY <1>5 DEF BranchOnZero, Executed
  <2> QED BY <1>2, <2>1
<1>6. ASSUME NEW op \in PushOne, Compare(op)
      PROVE  IInv'
  <2>1. executed'.op = op /\ op \notin {"none", "OpAdd", "OpSub", "OpMu", "OpDiv"}
    BY <1>6 DEF Compare, Executed, PushOne
  <2> QED BY <1>2, <2>1
<1>7. CASE UNCHANGED vars
  BY <1>7 DEF IInv, WordsAreExact, vars
<1> QED BY <1>1, <1>3, <1>4, <1>5, <1>6, <1>7 DEF Next

(* Before an instruction there are two operands, and what it leaves has the*)
(* words that it should have.                                              *)
THEOREM Invariant == Spec => []IInv
BY InitInvariant, NextKeeps, PTL DEF Spec

(* For every width and all values: of two operands of types with an order  *)
(* just one of lower, equal and greater holds, the weak comparisons are the*)
(* negations of the strict ones, and no other pair is both equal and       *)
(* greater (opcodes.c:84-640).                                             *)
THEOREM ComparisonsAreAnOrder == Spec => []OrderIsConsistent
<1>1. IInv => OrderIsConsistent
  <2> SUFFICES ASSUME IInv, executed = None PROVE OrderIsConsistent
    BY DEF OrderIsConsistent
  <2>1. PICK a \in Operands, b \in Operands : stack = <<a, b>>
    BY DEF IInv
  <2>2. First = a /\ Second = b
    BY <2>1 DEF First, Second
  <2>3. IsOrder(First, Second)
    BY <2>2, OperandsAreOrdered
  <2> QED BY <2>3 DEF IsOrder, OrderIsConsistent
<1> QED BY <1>1, Invariant, PTL

(* For every width and all values: the lower word of a sum, a difference   *)
(* and a product is that of the exact result, and quotient and remainder   *)
(* give the dividend back (ExAdd, ExSub, ExMul, ExDiv, ExRem).             *)
THEOREM LowerWordsAreExact == Spec => []WordsAreExact
<1>1. IInv => WordsAreExact
  BY DEF IInv
<1> QED BY <1>1, Invariant, PTL

(* For every width and all values: a conversion keeps the bits that fit, to*)
(* narrow in two steps is to narrow in one, and an INT32 survives each     *)
(* wider type (ExConvI8, ExConvI16, ExConvI32, ExConvI64, ExConvIntPtr,    *)
(* ExConvMFloat).                                                          *)
THEOREM ConversionsAreConsistent == Spec => []ConversionsCompose
<1>1. IInv => ConversionsCompose
  <2> SUFFICES ASSUME IInv, executed = None, Second.type \in Scalars
               PROVE  ConversionsCompose
    BY DEF ConversionsCompose
  <2>1. PICK a \in Operands, b \in Operands : stack = <<a, b>>
    BY DEF IInv
  <2>2. Second = b
    BY <2>1 DEF Second
  <2>3. AreConverted(Second)
    BY <2>2, OperandsAreConverted
  <2> QED BY <2>3 DEF AreConverted, ConversionsCompose
<1> QED BY <1>1, Invariant, PTL
=============================================================================
