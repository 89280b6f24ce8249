--------------------------- MODULE BuiltinsProofs ---------------------------
(***************************************************************************)
(* Proofs about Builtins: every function gives what Reference says of the  *)
(* values it is Right for, for integers of every width, and operators give *)
(* each lane what they say.                                                *)
(***************************************************************************)
EXTENDS Builtins, FiniteSetTheorems, WellFoundedInduction, TLAPS

-----------------------------------------------------------------------------
(* Induction, powers of two and division                                   *)

LEMMA Smallest ==
  ASSUME NEW S, S \subseteq Nat, S # {}
  PROVE  \E n \in S : \A m \in S : n <= m
  <1> DEFINE R == OpToRel(<, Nat)
  <1>1. R = {ss \in Nat \X Nat : ss[1] < ss[2]}
    BY DEF OpToRel
  <1>2. IsWellFoundedOn(R, Nat)
    BY NatLessThanWellFounded
  <1> HIDE DEF R
  <1>3. PICK n \in S : \A m \in S : <<m, n>> \notin R
    BY <1>2, WFMin
  <1>4. \A m \in S : ~(m < n)
    BY <1>1, <1>3
  <1> QED BY <1>4

LEMMA Induct ==
  ASSUME NEW S, 0 \in S, \A n \in Nat : n \in S => n + 1 \in S
  PROVE  \A n \in Nat : n \in S
  <1> SUFFICES ASSUME Nat \ S # {} PROVE FALSE
    OBVIOUS
  <1>1. PICK n \in Nat \ S : \A m \in Nat \ S : n <= m
    BY Smallest
  <1>2. n - 1 \in Nat /\ ~(n <= n - 1)
    BY <1>1
  <1>3. n - 1 \in S
    BY <1>1, <1>2
  <1>4. (n - 1) + 1 \in S
    BY <1>2, <1>3
  <1> QED BY <1>1, <1>4

LEMMA PowIsCard ==
  ASSUME NEW n \in Nat
  PROVE  IsFiniteSet(SUBSET (1..n)) /\ 2 ^ n = Cardinality(SUBSET (1..n)) /\ 2 ^ n \in Nat
  <1>1. IsFiniteSet(1..n) /\ Cardinality(1..n) = n
    BY FS_Interval
  <1>2. IsFiniteSet(SUBSET (1..n)) /\ Cardinality(SUBSET (1..n)) = 2 ^ Cardinality(1..n)
    BY <1>1, FS_SUBSET
  <1>3. Cardinality(SUBSET (1..n)) \in Nat
    BY <1>2, FS_CardinalityType
  <1> QED BY <1>1, <1>2, <1>3
LEMMA PowStep ==
  ASSUME NEW n \in Nat
  PROVE  2 ^ (n + 1) = 2 * 2 ^ n
  <1> DEFINE A == SUBSET (1..n)
             B == {S \cup {n + 1} : S \in A}
  <1>1. SUBSET (1..n + 1) = A \cup B
    <2>1. ASSUME NEW S \in SUBSET (1..n + 1), n + 1 \in S PROVE S \in B
      <3>1. S \ {n + 1} \in A
        BY DEF A
      <3>2. S = (S \ {n + 1}) \cup {n + 1}
        BY <2>1
      <3> QED BY <3>1, <3>2
    <2>2. ASSUME NEW S \in SUBSET (1..n + 1), n + 1 \notin S PROVE S \in A
      BY <2>2
    <2>3. A \subseteq SUBSET (1..n + 1) /\ B \subseteq SUBSET (1..n + 1)
      <3>1. 1..n \subseteq 1..n + 1 /\ n + 1 \in 1..n + 1
        OBVIOUS
      <3> QED BY <3>1
    <2> QED BY <2>1, <2>2, <2>3
  <1>2. A \cap B = {}
    OBVIOUS
  <1>3. IsFiniteSet(A) /\ 2 ^ n = Cardinality(A) /\ 2 ^ n \in Nat
    BY PowIsCard
  <1>4. 2 ^ (n + 1) = Cardinality(SUBSET (1..n + 1))
    <2>1. n + 1 \in Nat
      OBVIOUS
    <2> QED BY <2>1, PowIsCard, Zenon
  <1> DEFINE f == [S \in A |-> S \cup {n + 1}]
  <1>5. f \in Bijection(A, B)
    <2>1. f \in [A -> B]
      OBVIOUS
    <2>2. ASSUME NEW S \in A, NEW U \in A, f[S] = f[U] PROVE S = U
      <3>1. n + 1 \notin S /\ n + 1 \notin U /\ S \cup {n + 1} = U \cup {n + 1}
        BY <2>2
      <3> QED BY <3>1
    <2>3. \A u \in B : \E S \in A : f[S] = u
      OBVIOUS
    <2> QED BY <2>1, <2>2, <2>3 DEF Bijection, Injection, Surjection, IsInjective
  <1>6. IsFiniteSet(B) /\ Cardinality(B) = Cardinality(A)
    BY <1>3, <1>5, FS_Bijection DEF ExistsBijection
  <1>7. Cardinality(A \cup B) = Cardinality(A) + Cardinality(B) - Cardinality(A \cap B)
    BY <1>3, <1>6, FS_Union
  <1>8. Cardinality(A \cap B) = 0
    BY <1>2, FS_EmptySet
  <1>9. 2 ^ (n + 1) = 2 ^ n + 2 ^ n - 0
    BY <1>1, <1>3, <1>4, <1>6, <1>7, <1>8, Zenon
  <1> QED BY <1>3, <1>9

LEMMA PowPlus ==
  ASSUME NEW a \in Nat, NEW b \in Nat
  PROVE  2 ^ (a + b) = 2 ^ a * 2 ^ b
  <1> DEFINE S == {m \in Nat : 2 ^ (a + m) = 2 ^ a * 2 ^ m}
  <1>0. \A n \in Nat : 2 ^ n \in Nat /\ 2 ^ (n + 1) = 2 * 2 ^ n
    BY PowIsCard, PowStep
  <1>1. 0 \in S
    <2>1. 2 ^ 0 = 1
      OBVIOUS
    <2>2. a + 0 = a
      OBVIOUS
    <2>3. 2 ^ (a + 0) = 2 ^ a
      BY <2>2
    <2>4. 2 ^ a * 1 = 2 ^ a
      BY <1>0
    <2> QED BY <2>1, <2>3, <2>4
  <1>2. ASSUME NEW n \in Nat, n \in S PROVE n + 1 \in S
    <2> DEFINE x == 2 ^ a
               y == 2 ^ n
               z == 2 ^ (a + n)
    <2>1. x \in Nat /\ y \in Nat /\ z \in Nat /\ z = x * y
      <3>1. a + n \in Nat
        OBVIOUS
      <3> QED BY <1>0, <1>2, <3>1
    <2>2. 2 ^ (a + n + 1) = 2 * z /\ 2 ^ (n + 1) = 2 * y
      <3>1. a + n \in Nat
        OBVIOUS
      <3> QED BY <1>0, <3>1
    <2>3. a + (n + 1) = a + n + 1
      OBVIOUS
    <2>4. 2 ^ (a + (n + 1)) = 2 * z
      BY <2>2, <2>3
    <2> HIDE DEF x, y, z
    <2>5. 2 * z = x * (2 * y)
      BY <2>1
    <2>6. 2 ^ (a + (n + 1)) = 2 ^ a * 2 ^ (n + 1)
      BY <2>2, <2>4, <2>5 DEF x
    <2> QED BY <2>6
  <1> HIDE DEF S
  <1>3. \A n \in Nat : n \in S
    BY <1>1, <1>2, Induct
  <1> QED BY <1>3 DEF S

LEMMA Pow ==
  ASSUME NEW n \in Nat
  PROVE  2 ^ n \in Nat \ {0}
  <1> DEFINE S == {m \in Nat : 2 ^ m \in Nat \ {0}}
  <1>1. 0 \in S
    OBVIOUS
  <1>2. ASSUME NEW m \in Nat, m \in S PROVE m + 1 \in S
    BY <1>2, PowStep
  <1> HIDE DEF S
  <1>3. \A m \in Nat : m \in S
    BY <1>1, <1>2, Induct
  <1> QED BY <1>3 DEF S

LEMMA PowGrows ==
  ASSUME NEW a \in Nat, NEW b \in Nat, a < b
  PROVE  2 * 2 ^ a <= 2 ^ b
  <1> DEFINE d == b - (a + 1)
  <1>1. d \in Nat /\ b = (a + 1) + d /\ a + 1 \in Nat
    OBVIOUS
  <1> HIDE DEF d
  <1>2. 2 ^ b = 2 ^ (a + 1) * 2 ^ d
    BY <1>1, PowPlus
  <1>3. 2 ^ (a + 1) = 2 * 2 ^ a
    BY PowStep
  <1>4. 2 ^ (a + 1) \in Nat /\ 2 ^ d \in Nat \ {0}
    BY <1>1, Pow
  <1> DEFINE x == 2 ^ (a + 1)
             y == 2 ^ d
  <1> HIDE DEF x, y
  <1>5. x * y >= x
    <2>1. x \in Nat /\ y \in Nat /\ y >= 1
      BY <1>4 DEF x, y
    <2> QED BY <2>1
  <1>6. 2 ^ b >= 2 ^ (a + 1)
    BY <1>2, <1>5 DEF x, y
  <1>7. 2 ^ b \in Nat
    BY Pow
  <1> QED BY <1>3, <1>4, <1>6, <1>7

LEMMA DivMod ==
  ASSUME NEW a \in Int, NEW b \in Nat \ {0}
  PROVE  a \div b \in Int /\ a % b \in 0..b - 1 /\ a = b * (a \div b) + (a % b)
OBVIOUS

LEMMA Less ==
  ASSUME NEW b \in Nat \ {0}, NEW q \in Int, NEW d \in Int, NEW r \in 0..b - 1, NEW s \in 0..b - 1,
         b * q + r = b * d + s
  PROVE  q = d /\ r = s
  <1>1. b * q - b * d = b * (q - d)
    OBVIOUS
  <1> DEFINE e == q - d
  <1>2. b * e = s - r /\ e \in Int
    BY <1>1
  <1>3. CASE e >= 1
    <2>1. b * e >= b
      BY <1>3
    <2> QED BY <1>2, <2>1
  <1>4. CASE e <= -1
    <2>1. b * e <= -b
      BY <1>4
    <2> QED BY <1>2, <2>1
  <1>5. CASE e = 0
    BY <1>2, <1>5
  <1> QED BY <1>2, <1>3, <1>4, <1>5

LEMMA DivUnique ==
  ASSUME NEW b \in Nat \ {0}, NEW q \in Int, NEW r \in 0..b - 1
  PROVE  (b * q + r) \div b = q /\ (b * q + r) % b = r
  <1> DEFINE a == b * q + r
  <1>1. a \in Int
    OBVIOUS
  <1>2. a \div b \in Int /\ a % b \in 0..b - 1 /\ a = b * (a \div b) + (a % b)
    BY <1>1, DivMod
  <1> QED BY <1>1, <1>2, Less

LEMMA DivDiv ==
  ASSUME NEW a \in Int, NEW b \in Nat \ {0}, NEW c \in Nat \ {0}
  PROVE  (a \div b) \div c = a \div (b * c)
  <1> DEFINE q == a \div b
             r == a % b
             d == q \div c
             s == q % c
  <1>1. q \in Int /\ r \in 0..b - 1 /\ a = b * q + r
    BY DivMod
  <1>2. d \in Int /\ s \in 0..c - 1 /\ q = c * d + s
    BY <1>1, DivMod
  <1> HIDE DEF q, r, d, s
  <1>3. a = (b * c) * d + (b * s + r)
    <2>1. b * (c * d + s) = (b * c) * d + b * s
      BY <1>2
    <2> QED BY <1>1, <1>2, <2>1
  <1>4. b * s + r \in 0..b * c - 1
    <2>1. b * s <= b * (c - 1) /\ b * s >= 0
      BY <1>2
    <2>2. b * (c - 1) = b * c - b
      OBVIOUS
    <2> QED BY <1>1, <1>2, <2>1, <2>2
  <1>5. b * c \in Nat \ {0}
    OBVIOUS
  <1>6. a \div (b * c) = d
    BY <1>2, <1>3, <1>4, <1>5, DivUnique
  <1> QED BY <1>6 DEF d, q

-----------------------------------------------------------------------------
(* Integer types                                                           *)

Half(t) == 2 ^ (t.bits - 1)

\* The numbers of a type, by the power of two that is half of their number.
LEMMA Sizes ==
  ASSUME NEW t \in Type
  PROVE  /\ Half(t) \in Nat /\ Half(t) >= 2
         /\ 2 ^ t.bits = 2 * Half(t)
         /\ mask(t) = Half(t)
         /\ Lowest(t) = IF t.signed THEN -Half(t) ELSE 0
         /\ Highest(t) = IF t.signed THEN Half(t) - 1 ELSE 2 * Half(t) - 1
  <1>1. t.bits \in Nat /\ t.bits >= 2
    BY DEF Type
  <1> DEFINE b == t.bits - 1
  <1>2. b \in Nat /\ b >= 1 /\ t.bits = b + 1
    BY <1>1
  <1>3. 2 ^ (b + 1) = 2 * 2 ^ b
    BY <1>2, PowStep
  <1>4. 2 ^ b >= 2
    <2>1. 2 ^ 0 = 1
      OBVIOUS
    <2>2. 2 * 2 ^ 0 <= 2 ^ b
      <3>1. 0 \in Nat /\ b \in Nat /\ 0 < b
        BY <1>2
      <3> QED BY <3>1, PowGrows, Zenon
    <2> QED BY <2>1, <2>2
  <1>5. 2 ^ b \in Nat
    BY <1>2, Pow
  <1>6. 2 ^ t.bits = 2 * 2 ^ b
    BY <1>2, <1>3
  <1>7. Half(t) = 2 ^ b
    BY DEF Half
  <1> HIDE DEF b
  <1>8. /\ Half(t) \in Nat /\ Half(t) >= 2
        /\ 2 ^ t.bits = 2 * Half(t)
    BY <1>4, <1>5, <1>6, <1>7
  <1>9. /\ Lowest(t) = IF t.signed THEN -Half(t) ELSE 0
        /\ Highest(t) = IF t.signed THEN Half(t) - 1 ELSE 2 ^ t.bits - 1
        /\ mask(t) = Half(t)
    BY DEF Lowest, Highest, mask, Half
  <1> QED BY <1>8, <1>9

LEMMA Limits ==
  ASSUME NEW t \in Type
  PROVE  /\ t.signed \in BOOLEAN /\ t.promoted \in BOOLEAN
         /\ Lowest(t) \in Int /\ Highest(t) \in Int
         /\ Lowest(t) <= 0 /\ Highest(t) >= 1
         /\ ~t.signed => Lowest(t) = 0 /\ Highest(t) = 2 * Half(t) - 1
         /\ t.signed => Lowest(t) = -Half(t) /\ Highest(t) = Half(t) - 1
         /\ T(t) \subseteq Int
         /\ \A n \in Int : n \in T(t) <=> Lowest(t) <= n /\ n <= Highest(t)
  <1>1. t.signed \in BOOLEAN /\ t.promoted \in BOOLEAN
    BY DEF Type
  <1> DEFINE lo == Lowest(t)
             hi == Highest(t)
             H  == Half(t)
  <1>2. /\ H \in Nat /\ H >= 2
        /\ ~t.signed => lo = 0 /\ hi = 2 * H - 1
        /\ t.signed => lo = -H /\ hi = H - 1
    BY <1>1, Sizes
  <1>3. T(t) = lo..hi
    BY DEF T
  <1> HIDE DEF lo, hi, H
  <1>4. lo \in Int /\ hi \in Int /\ lo <= 0 /\ hi >= 1
    BY <1>1, <1>2
  <1>5. T(t) \subseteq Int /\ \A n \in Int : n \in T(t) <=> lo <= n /\ n <= hi
    BY <1>3, <1>4
  <1>6. /\ lo <= 0 /\ hi >= 1
        /\ ~t.signed => lo = 0 /\ hi = 2 * H - 1
        /\ t.signed => lo = -H /\ hi = H - 1
    BY <1>2, <1>4
  <1> QED BY <1>1, <1>4, <1>5, <1>6 DEF lo, hi, H

\* Conversion to the unsigned type takes away a multiple of twice the half.
LEMMA Unsigned ==
  ASSUME NEW t \in Type, NEW n \in Int
  PROVE  /\ uT(t, n) \in 0..2 * Half(t) - 1
         /\ \A m \in Int : uT(t, 2 * Half(t) * m + n) = uT(t, n)
         /\ \E m \in Int : n = 2 * Half(t) * m + uT(t, n)
         /\ n \in 0..2 * Half(t) - 1 => uT(t, n) = n
  <1> DEFINE W == 2 * Half(t)
  <1>1. W \in Nat \ {0}
    BY Sizes
  <1>2. \A m : uT(t, m) = m % W
    BY Sizes DEF uT
  <1> HIDE DEF W
  <1> DEFINE q == n \div W
             r == n % W
  <1>3. q \in Int /\ r \in 0..W - 1 /\ n = W * q + r
    BY <1>1, DivMod
  <1> HIDE DEF q, r
  <1>4. ASSUME NEW m \in Int PROVE (W * m + n) % W = r
    <2>1. W * m + n = W * (m + q) + r
      <3>1. W * (m + q) = W * m + W * q /\ W * m \in Int /\ W * q \in Int
        BY <1>1, <1>3
      <3> QED BY <1>3, <3>1
    <2>2. m + q \in Int
      BY <1>3
    <2>3. (W * (m + q) + r) % W = r
      BY <1>1, <1>3, <2>2, DivUnique
    <2> QED BY <2>1, <2>3
  <1>5. n \in 0..W - 1 => n % W = n
    <2> SUFFICES ASSUME n \in 0..W - 1 PROVE n % W = n
      OBVIOUS
    <2>1. (W * 0 + n) % W = n
      BY <1>1, DivUnique
    <2>2. W * 0 + n = n
      BY <1>1
    <2> QED BY <2>1, <2>2
  <1>6. uT(t, n) = r
    BY <1>2 DEF r
  <1>7. \A m \in Int : uT(t, W * m + n) = r
    BY <1>2, <1>4
  <1>8. n \in 0..W - 1 => uT(t, n) = n
    BY <1>2, <1>5
  <1> QED BY <1>3, <1>6, <1>7, <1>8 DEF W

LEMMA Conversion ==
  ASSUME NEW t \in Type, NEW n \in Int
  PROVE  /\ Convert(t, n) \in T(t)
         /\ n \in T(t) => Convert(t, n) = n
         /\ Convert(t, n) = uT(t, n) \/ Convert(t, n) = uT(t, n) - 2 * Half(t)
         /\ \A m \in Int : uT(t, m) = uT(t, n) <=> Convert(t, m) = Convert(t, n)
         /\ uT(t, uT(t, n)) = uT(t, n)
  <1> DEFINE H == Half(t)
             W == 2 * H
             lo == Lowest(t)
             hi == Highest(t)
             C(u) == IF u > hi THEN u - W ELSE u
  <1>1. /\ H \in Nat /\ H >= 2 /\ lo \in Int /\ hi \in Int
        /\ t.signed \in BOOLEAN
        /\ ~t.signed => lo = 0 /\ hi = W - 1
        /\ t.signed => lo = -H /\ hi = H - 1
    BY Sizes, Limits
  <1>2. \A m \in Int : uT(t, m) \in 0..W - 1
    BY Unsigned
  <1>3. \A m : Convert(t, m) = C(uT(t, m))
    BY Sizes DEF Convert
  <1>4. \A m \in Int : m \in T(t) <=> lo <= m /\ m <= hi
    BY Limits
  <1>5. n \in T(t) => C(uT(t, n)) = n
    <2> SUFFICES ASSUME n \in T(t) PROVE C(uT(t, n)) = n
      OBVIOUS
    <2>1. CASE n >= 0
      <3>1. n \in 0..W - 1 /\ n <= hi
        BY <1>1, <1>4, <2>1
      <3>2. uT(t, n) = n
        BY <3>1, Unsigned
      <3> QED BY <1>1, <3>1, <3>2
    <2>2. CASE n < 0
      <3>1. n + W \in 0..W - 1 /\ n + W > hi /\ n + W \in Int
        BY <1>1, <1>4, <2>2
      <3>2. uT(t, n + W) = n + W
        BY <3>1, Unsigned
      <3>3. uT(t, W * 1 + n) = uT(t, n)
        BY Unsigned
      <3>4. W * 1 + n = n + W
        BY <1>1
      <3>5. uT(t, n) = n + W
        BY <3>2, <3>3, <3>4
      <3> QED BY <1>1, <3>1, <3>5
    <2> QED BY <2>1, <2>2
  <1>6. \A u \in 0..W - 1 : C(u) \in T(t) /\ (C(u) = u \/ C(u) = u - W)
    <2> TAKE u \in 0..W - 1
    <2>1. C(u) \in Int /\ lo <= C(u) /\ C(u) <= hi /\ (C(u) = u \/ C(u) = u - W)
      BY <1>1
    <2> QED BY <1>4, <2>1
  <1>7. \A u, w \in 0..W - 1 : C(u) = C(w) => u = w
    BY <1>1
  <1>8. uT(t, uT(t, n)) = uT(t, n)
    <2>1. uT(t, n) \in Int /\ uT(t, n) \in 0..W - 1
      BY <1>1, <1>2
    <2> QED BY <2>1, Unsigned
  <1> HIDE DEF C
  <1> QED BY <1>2, <1>3, <1>5, <1>6, <1>7, <1>8 DEF W, H

\* What an arithmetic expression gives where C++ defines it.
LEMMA Arithmetic ==
  ASSUME NEW t \in Type, NEW n \in Int
  PROVE  /\ Arith(t, n) \subseteq Int
         /\ t.promoted \/ n \in T(t) => Arith(t, n) = {n}
         /\ t.promoted \/ ~t.signed \/ n \in T(t) => \A m \in Arith(t, n) : uT(t, m) = uT(t, n)
         /\ Converted(t, n) \subseteq T(t)
         /\ t.promoted \/ ~t.signed \/ n \in T(t) => Converted(t, n) = {Convert(t, n)}
         /\ n \in T(t) => Converted(t, n) = {n}
  <1>1. T(t) \subseteq Int /\ t.signed \in BOOLEAN /\ t.promoted \in BOOLEAN
    BY Limits
  <1>2. uT(t, n) \in Int /\ uT(t, uT(t, n)) = uT(t, n)
    <2>1. uT(t, n) \in 0..2 * Half(t) - 1 /\ Half(t) \in Nat
      BY Unsigned, Sizes
    <2> QED BY <2>1, Conversion
  <1>3. Arith(t, n) \subseteq Int
    BY <1>1, <1>2 DEF Arith
  <1>4. t.promoted \/ n \in T(t) => Arith(t, n) = {n}
    BY DEF Arith
  <1>5. t.promoted \/ ~t.signed \/ n \in T(t) => Arith(t, n) = {n} \/ Arith(t, n) = {uT(t, n)}
    BY DEF Arith
  <1>6. t.promoted \/ ~t.signed \/ n \in T(t) => \A m \in Arith(t, n) : uT(t, m) = uT(t, n)
    BY <1>2, <1>5
  <1>7. Converted(t, n) = {Convert(t, m) : m \in Arith(t, n)}
    BY DEF Converted
  <1>8. Converted(t, n) \subseteq T(t)
    BY <1>3, <1>7, Conversion
  <1>9. n \in T(t) => Convert(t, n) = n
    BY Conversion
  <1>10. ASSUME t.promoted \/ ~t.signed \/ n \in T(t) PROVE Converted(t, n) = {Convert(t, n)}
    <2>1. Convert(t, uT(t, n)) = Convert(t, n)
      BY <1>2, Conversion
    <2> QED BY <1>5, <1>7, <1>10, <2>1
  <1> QED BY <1>3, <1>4, <1>6, <1>8, <1>9, <1>10

-----------------------------------------------------------------------------
(* Functions of one expression                                             *)

\* What FunctionsRight says of one lane.
Says(f, t, i, j, k, r) ==
  Defined(f, t, i, j, k) =>
    /\ Right(f, t, i, j, k) => r = Reference(f, t, i, j, k)
    /\ ~Right(f, t, i, j, k) =>
         r # Reference(f, t, i, j, k) \/ f \in {"mul_hi", "mad_hi", "mad_sat"}

LEMMA AbsIs ==
  ASSUME NEW t \in Type, NEW i \in T(t), NEW j, NEW k, NEW r \in abs(t, i)
  PROVE  r \in 0..2 ^ t.bits - 1 /\ Says("abs", t, i, j, k, r)
  <1> DEFINE H == Half(t)
  <1>1. /\ H \in Nat /\ H >= 2 /\ 2 ^ t.bits = 2 * H /\ i \in Int
        /\ i >= -H /\ i <= 2 * H - 1
    <2>1. /\ Lowest(t) <= i /\ i <= Highest(t) /\ i \in Int
          /\ t.signed \in BOOLEAN
          /\ t.signed => Lowest(t) = -H /\ Highest(t) = H - 1
          /\ ~t.signed => Lowest(t) = 0 /\ Highest(t) = 2 * H - 1
      BY Limits
    <2> QED BY <2>1, Sizes
  <1> HIDE DEF H
  <1>2. CASE i < 0
    <2>1. PICK m \in Arith(t, -i) : r = uT(t, m)
      BY <1>2 DEF abs
    <2>2. m \in Int /\ -i \in Int
      BY <1>1, <2>1, Arithmetic
    <2>3. r \in 0..2 * H - 1
      BY <2>1, <2>2, Unsigned DEF H
    <2>4. Reference("abs", t, i, j, k) = -i
      BY <1>2 DEF Reference
    <2>5. Right("abs", t, i, j, k)
      BY DEF Right
    <2>6. ASSUME Defined("abs", t, i, j, k) PROVE r = -i
      <3>1. t.promoted \/ ~t.signed \/ -i \in T(t)
        BY <2>6 DEF Defined
      <3>2. uT(t, m) = uT(t, -i)
        BY <2>1, <2>2, <3>1, Arithmetic
      <3>3. -i \in 0..2 * H - 1
        BY <1>1, <1>2
      <3>4. uT(t, -i) = -i
        BY <2>2, <3>3, Unsigned DEF H
      <3> QED BY <2>1, <3>2, <3>4
    <2> QED BY <1>1, <2>3, <2>4, <2>5, <2>6 DEF Says
  <1>3. CASE ~(i < 0)
    <2>1. r = i
      BY <1>3 DEF abs
    <2>2. Reference("abs", t, i, j, k) = i
      BY <1>3 DEF Reference
    <2>3. Right("abs", t, i, j, k)
      BY DEF Right
    <2>4. i \in 0..2 * H - 1
      BY <1>1, <1>3
    <2> QED BY <1>1, <2>1, <2>2, <2>3, <2>4 DEF Says
  <1> QED BY <1>2, <1>3

LEMMA AddSatIs ==
  ASSUME NEW t \in Type, NEW i \in T(t), NEW j \in T(t), NEW r \in add_sat(t, i, j)
  PROVE  /\ r \in T(t)
         /\ t.promoted \/ ~t.signed \/ Highest(t) - i \in T(t) =>
              r = IF i + j >= Highest(t) THEN Highest(t) ELSE Convert(t, i + j)
  <1> DEFINE lo == Lowest(t)
             hi == Highest(t)
             H  == Half(t)
  <1>1. /\ lo \in Int /\ hi \in Int /\ lo <= 0 /\ hi >= 1
        /\ i \in Int /\ j \in Int /\ lo <= i /\ i <= hi /\ lo <= j /\ j <= hi
        /\ hi \in T(t)
        /\ t.signed \in BOOLEAN
        /\ ~t.signed => lo = 0
    BY Limits
  <1>2. PICK room \in Arith(t, hi - i) :
          r \in IF room <= j THEN {hi} ELSE Converted(t, i + j)
    BY DEF add_sat
  <1> HIDE DEF lo, hi, H
  <1>3. hi - i \in Int /\ i + j \in Int
    BY <1>1
  <1>4. room \in Int
    BY <1>2, <1>3, Arithmetic
  <1>5. r \in T(t)
    BY <1>1, <1>2, <1>3, Arithmetic
  <1>6. ASSUME t.promoted \/ ~t.signed \/ hi - i \in T(t)
        PROVE  r = IF i + j >= hi THEN hi ELSE Convert(t, i + j)
    <2>1. room = hi - i
      <3>1. t.promoted \/ hi - i \in T(t)
        <4>1. CASE ~t.signed
          <5>1. lo <= hi - i /\ hi - i <= hi
            BY <1>1, <4>1
          <5> QED BY <1>3, <5>1, Limits DEF lo, hi
        <4> QED BY <1>6, <4>1
      <3>2. Arith(t, hi - i) = {hi - i}
        BY <1>3, <3>1, Arithmetic
      <3> QED BY <1>2, <3>2
    <2>2. CASE i + j >= hi
      BY <1>1, <1>2, <2>1, <2>2
    <2>3. CASE i + j < hi
      <3>1. ~(room <= j)
        BY <1>1, <2>1, <2>3
      <3>2. r \in Converted(t, i + j)
        BY <1>2, <3>1
      <3>3. t.promoted \/ ~t.signed \/ i + j \in T(t)
        <4> SUFFICES ASSUME ~t.promoted, t.signed PROVE i + j \in T(t)
          BY <1>1
        <4>1. hi - i \in T(t)
          BY <1>6
        <4>2. hi - i <= hi
          BY <1>3, <4>1, Limits DEF hi
        <4>3. i >= 0
          BY <1>1, <4>2
        <4>4. lo <= i + j /\ i + j <= hi
          BY <1>1, <2>3, <4>3
        <4> QED BY <1>3, <4>4, Limits DEF lo, hi
      <3>4. r = Convert(t, i + j)
        BY <1>3, <3>2, <3>3, Arithmetic
      <3>5. ~(i + j >= hi)
        BY <1>1, <2>3
      <3> QED BY <3>4, <3>5
    <2> QED BY <1>1, <2>2, <2>3
  <1> QED BY <1>5, <1>6 DEF hi

LEMMA Wraps ==
  ASSUME NEW t \in Type, NEW n \in T(t), NEW q \in Int
  PROVE  Convert(t, 2 * Half(t) * q + n) = n
  <1>1. n \in Int /\ Half(t) \in Nat
    BY Limits, Sizes
  <1> DEFINE m == 2 * Half(t) * q + n
  <1>2. m \in Int
    BY <1>1
  <1>3. uT(t, m) = uT(t, n)
    BY <1>1, Unsigned
  <1> HIDE DEF m
  <1>4. Convert(t, m) = Convert(t, n) /\ Convert(t, n) = n
    BY <1>1, <1>2, <1>3, Conversion
  <1> QED BY <1>4 DEF m

\* A number that is too large or too small by less than all the numbers there are.
LEMMA WrapsOnce ==
  ASSUME NEW t \in Type, NEW n \in Int
  PROVE  /\ n + 2 * Half(t) \in T(t) => Convert(t, n) = n + 2 * Half(t)
         /\ n - 2 * Half(t) \in T(t) => Convert(t, n) = n - 2 * Half(t)
  <1>1. Half(t) \in Nat
    BY Sizes
  <1>2. ASSUME n + 2 * Half(t) \in T(t) PROVE Convert(t, n) = n + 2 * Half(t)
    <2>1. n = 2 * Half(t) * (-1) + (n + 2 * Half(t))
      BY <1>1
    <2>2. Convert(t, 2 * Half(t) * (-1) + (n + 2 * Half(t))) = n + 2 * Half(t)
      BY <1>2, Wraps
    <2> QED BY <2>1, <2>2
  <1>3. ASSUME n - 2 * Half(t) \in T(t) PROVE Convert(t, n) = n - 2 * Half(t)
    <2>1. n = 2 * Half(t) * 1 + (n - 2 * Half(t))
      BY <1>1
    <2>2. Convert(t, 2 * Half(t) * 1 + (n - 2 * Half(t))) = n - 2 * Half(t)
      BY <1>3, Wraps
    <2> QED BY <2>1, <2>2
  <1> QED BY <1>2, <1>3

LEMMA Numbers ==
  ASSUME NEW t \in Type
  PROVE  \E H \in Nat, lo \in Int, hi \in Int :
           /\ H = Half(t) /\ lo = Lowest(t) /\ hi = Highest(t)
           /\ H >= 2 /\ hi % 2 = 1 /\ 2 ^ t.bits = 2 * H
           /\ lo <= 0 /\ hi >= 1 /\ hi - lo = 2 * H - 1
           /\ (t.signed /\ lo = -H) \/ (~t.signed /\ lo = 0)
  <1> DEFINE H  == Half(t)
             lo == Lowest(t)
             hi == Highest(t)
  <1>1. /\ H \in Nat /\ H >= 2 /\ lo \in Int /\ hi \in Int
        /\ t.signed \in BOOLEAN
        /\ ~t.signed => lo = 0 /\ hi = 2 * H - 1
        /\ t.signed => lo = -H /\ hi = H - 1
        /\ 2 ^ t.bits = 2 * H
    BY Limits, Sizes
  <1>2. PICK h \in Nat : H = 2 * h
    <2> DEFINE b == t.bits - 2
    <2>1. b \in Nat /\ t.bits - 1 = b + 1
      BY DEF Type
    <2> HIDE DEF b
    <2>2. 2 ^ (b + 1) = 2 * 2 ^ b /\ 2 ^ b \in Nat
      BY <2>1, PowStep, Pow
    <2>3. H = 2 * 2 ^ b
      BY <2>1, <2>2 DEF Half
    <2> QED BY <2>2, <2>3
  <1> HIDE DEF H, lo, hi
  <1>3. /\ lo <= 0 /\ hi >= 1 /\ hi - lo = 2 * H - 1
        /\ (t.signed /\ lo = -H) \/ (~t.signed /\ lo = 0)
    BY <1>1
  <1>4. hi % 2 = 1
    BY <1>1, <1>2
  <1>5. H = Half(t) /\ lo = Lowest(t) /\ hi = Highest(t)
    BY DEF H, lo, hi
  <1> QED BY <1>1, <1>3, <1>4, <1>5

\* The conversion of a sum or a difference of two numbers of a type.
LEMMA Near ==
  ASSUME NEW t \in Type, NEW n \in Int, NEW H, NEW lo, NEW hi,
         H = Half(t), lo = Lowest(t), hi = Highest(t)
  PROVE  /\ n \in T(t) <=> lo <= n /\ n <= hi
         /\ lo - 2 * H <= n /\ n <= hi + 2 * H =>
              Convert(t, n) = IF n < lo THEN n + 2 * H ELSE IF n > hi THEN n - 2 * H ELSE n
  <1>1. /\ H \in Nat /\ lo \in Int /\ hi \in Int /\ hi - lo = 2 * H - 1
    BY Numbers
  <1>2. \A m \in Int : m \in T(t) <=> lo <= m /\ m <= hi
    BY Limits
  <1>3. /\ n \in T(t) => Convert(t, n) = n
        /\ n + 2 * H \in T(t) => Convert(t, n) = n + 2 * H
        /\ n - 2 * H \in T(t) => Convert(t, n) = n - 2 * H
    BY Conversion, WrapsOnce
  <1>4. CASE n < lo
    <2>1. lo - 2 * H <= n => n + 2 * H \in Int /\ lo <= n + 2 * H /\ n + 2 * H <= hi
      BY <1>1, <1>4
    <2> QED BY <1>2, <1>3, <1>4, <2>1
  <1>5. CASE n > hi
    <2>1. n <= hi + 2 * H => n - 2 * H \in Int /\ lo <= n - 2 * H /\ n - 2 * H <= hi
      BY <1>1, <1>5
    <2>2. ~(n < lo)
      BY <1>1, <1>5
    <2> QED BY <1>2, <1>3, <1>5, <2>1, <2>2
  <1>6. CASE lo <= n /\ n <= hi
    <2>1. ~(n < lo) /\ ~(n > hi)
      BY <1>1, <1>6
    <2> QED BY <1>2, <1>3, <1>6, <2>1
  <1> QED BY <1>1, <1>2, <1>4, <1>5, <1>6

LEMMA AbsDiffIs ==
  ASSUME NEW t \in Type, NEW i \in T(t), NEW j \in T(t), NEW k, NEW r \in abs_diff(t, i, j)
  PROVE  r \in 0..2 ^ t.bits - 1 /\ Says("abs_diff", t, i, j, k, r)
  <1>1. PICK H \in Nat, lo \in Int, hi \in Int :
           /\ H = Half(t) /\ lo = Lowest(t) /\ hi = Highest(t)
           /\ H >= 2 /\ hi % 2 = 1 /\ 2 ^ t.bits = 2 * H
           /\ lo <= 0 /\ hi >= 1 /\ hi - lo = 2 * H - 1
           /\ (t.signed /\ lo = -H) \/ (~t.signed /\ lo = 0)
    BY Numbers
  <1>2. i \in Int /\ j \in Int /\ lo <= i /\ i <= hi /\ lo <= j /\ j <= hi /\ i - j \in Int /\ j - i \in Int
    BY <1>1, Limits
  <1>3. PICK diff \in Converted(t, i - j) : r \in abs(t, diff)
    BY DEF abs_diff
  <1>4. diff \in T(t)
    BY <1>2, <1>3, Arithmetic
  <1>5. r \in 0..2 ^ t.bits - 1 /\ Says("abs", t, diff, 0, 0, r)
    BY <1>3, <1>4, AbsIs
  <1>6. ASSUME Defined("abs_diff", t, i, j, k)
        PROVE  r = Reference("abs_diff", t, i, j, k) <=> Right("abs_diff", t, i, j, k)
    <2>1. (t.promoted \/ ~t.signed \/ i - j \in T(t)) /\ (t.promoted \/ ~t.signed \/ j - i \in T(t))
      BY <1>6 DEF Defined
    <2>2. diff = Convert(t, i - j)
      BY <1>2, <1>3, <2>1, Arithmetic
    <2>3. diff = IF i - j < lo THEN i - j + 2 * H ELSE IF i - j > hi THEN i - j - 2 * H ELSE i - j
      <3>1. lo - 2 * H <= i - j /\ i - j <= hi + 2 * H
        BY <1>1, <1>2
      <3> QED BY <1>1, <1>2, <2>2, <3>1, Near
    <2>4. diff \in Int
      BY <1>4, Limits
    <2>5. r = IF diff < 0 THEN -diff ELSE diff
      <3>1. Defined("abs", t, diff, 0, 0) <=> t.promoted \/ ~t.signed \/ -diff \in T(t)
        BY DEF Defined
      <3>2. t.promoted \/ ~t.signed \/ -diff \in T(t)
        <4> SUFFICES ASSUME ~t.promoted, t.signed PROVE -diff \in T(t)
          OBVIOUS
        <4>1. i - j \in T(t) /\ j - i \in T(t)
          BY <2>1
        <4>2. diff = i - j /\ -diff = j - i
          BY <1>2, <2>2, <4>1, Conversion
        <4> QED BY <4>1, <4>2
      <3>3. Right("abs", t, diff, 0, 0) /\ Reference("abs", t, diff, 0, 0) = IF diff < 0 THEN -diff ELSE diff
        BY DEF Right, Reference
      <3> QED BY <1>5, <3>1, <3>2, <3>3 DEF Says
    <2>6. Reference("abs_diff", t, i, j, k) = IF i < j THEN j - i ELSE i - j
      BY DEF Reference
    <2>7. Right("abs_diff", t, i, j, k)
            <=> IF t.signed THEN lo <= i - j /\ i - j <= -lo ELSE i >= j \/ j - i = H
      <3>1. Right("abs_diff", t, i, j, k)
              <=> IF t.signed THEN i - j \in lo..-lo ELSE i >= j \/ j - i = H
        BY <1>1 DEF Right, Half
      <3>2. i - j \in lo..-lo <=> lo <= i - j /\ i - j <= -lo
        BY <1>1, <1>2
      <3> QED BY <3>1, <3>2
    <2>8. CASE t.signed
      BY <1>1, <1>2, <2>3, <2>4, <2>5, <2>6, <2>7, <2>8
    <2>9. CASE ~t.signed
      BY <1>1, <1>2, <2>3, <2>4, <2>5, <2>6, <2>7, <2>9
    <2> QED BY <2>8, <2>9
  <1> QED BY <1>5, <1>6 DEF Says

LEMMA Saturates ==
  ASSUME NEW t \in Type, NEW i \in T(t), NEW j \in T(t), NEW k, NEW r \in add_sat(t, i, j)
  PROVE  r \in T(t) /\ Says("add_sat", t, i, j, k, r)
  <1>1. PICK H \in Nat, lo \in Int, hi \in Int :
           /\ H = Half(t) /\ lo = Lowest(t) /\ hi = Highest(t)
           /\ H >= 2 /\ hi % 2 = 1 /\ 2 ^ t.bits = 2 * H
           /\ lo <= 0 /\ hi >= 1 /\ hi - lo = 2 * H - 1
           /\ (t.signed /\ lo = -H) \/ (~t.signed /\ lo = 0)
    BY Numbers
  <1>2. i \in Int /\ j \in Int /\ lo <= i /\ i <= hi /\ lo <= j /\ j <= hi /\ i + j \in Int
    BY <1>1, Limits
  <1>3. ASSUME Defined("add_sat", t, i, j, k)
        PROVE  r = Reference("add_sat", t, i, j, k) <=> Right("add_sat", t, i, j, k)
    <2>1. t.promoted \/ ~t.signed \/ hi - i \in T(t)
      BY <1>1, <1>3 DEF Defined
    <2>2. r = IF i + j >= hi THEN hi ELSE Convert(t, i + j)
      BY <1>1, <2>1, AddSatIs
    <2>3. Convert(t, i + j) = IF i + j < lo THEN i + j + 2 * H ELSE IF i + j > hi THEN i + j - 2 * H ELSE i + j
      BY <1>1, <1>2, Near
    <2>4. Reference("add_sat", t, i, j, k) = IF i + j < lo THEN lo ELSE IF i + j > hi THEN hi ELSE i + j
      BY <1>1 DEF Reference, Sat
    <2>5. Right("add_sat", t, i, j, k) <=> i + j >= lo
      BY <1>1 DEF Right
    <2> QED BY <1>1, <1>2, <2>2, <2>3, <2>4, <2>5
  <1>4. r \in T(t)
    BY AddSatIs
  <1> QED BY <1>3, <1>4 DEF Says

LEMMA SubSatIs ==
  ASSUME NEW t \in Type, NEW i \in T(t), NEW j \in T(t), NEW k, NEW r \in sub_sat(t, i, j)
  PROVE  r \in T(t) /\ Says("sub_sat", t, i, j, k, r)
  <1>1. PICK H \in Nat, lo \in Int, hi \in Int :
           /\ H = Half(t) /\ lo = Lowest(t) /\ hi = Highest(t)
           /\ H >= 2 /\ hi % 2 = 1 /\ 2 ^ t.bits = 2 * H
           /\ lo <= 0 /\ hi >= 1 /\ hi - lo = 2 * H - 1
           /\ (t.signed /\ lo = -H) \/ (~t.signed /\ lo = 0)
    BY Numbers
  <1>2. /\ i \in Int /\ j \in Int /\ lo <= i /\ i <= hi /\ lo <= j /\ j <= hi
        /\ i - j \in Int /\ lo + j \in Int /\ lo \in T(t)
    BY <1>1, Limits
  <1>3. PICK bound \in Arith(t, lo + j) :
          r \in IF bound >= i THEN {lo} ELSE Converted(t, i - j)
    BY <1>1 DEF sub_sat
  <1>4. r \in T(t)
    BY <1>2, <1>3, Arithmetic
  <1>5. ASSUME Defined("sub_sat", t, i, j, k)
        PROVE  r = Reference("sub_sat", t, i, j, k) <=> Right("sub_sat", t, i, j, k)
    <2>1. t.promoted \/ ~t.signed \/ lo + j \in T(t)
      BY <1>1, <1>5 DEF Defined
    <2>2. bound = lo + j
      <3>1. t.promoted \/ lo + j \in T(t)
        <4>1. CASE ~t.signed
          <5>1. lo <= lo + j /\ lo + j <= hi
            BY <1>1, <1>2, <4>1
          <5> QED BY <1>1, <1>2, <5>1, Near
        <4> QED BY <2>1, <4>1
      <3>2. Arith(t, lo + j) = {lo + j}
        BY <1>2, <3>1, Arithmetic
      <3> QED BY <1>3, <3>2
    <2>3. Reference("sub_sat", t, i, j, k) = IF i - j < lo THEN lo ELSE IF i - j > hi THEN hi ELSE i - j
      BY <1>1 DEF Reference, Sat
    <2>4. Right("sub_sat", t, i, j, k) <=> i - j <= hi
      BY <1>1 DEF Right
    <2>5. CASE lo + j >= i
      <3>1. r = lo
        BY <1>3, <2>2, <2>5
      <3> QED BY <1>1, <1>2, <2>3, <2>4, <2>5, <3>1
    <2>6. CASE lo + j < i
      <3>1. r \in Converted(t, i - j)
        <4>1. ~(lo + j >= i)
          BY <1>2, <2>6
        <4> QED BY <1>3, <2>2, <4>1
      <3>2. t.promoted \/ ~t.signed \/ i - j \in T(t)
        <4> SUFFICES ASSUME ~t.promoted, t.signed PROVE i - j \in T(t)
          OBVIOUS
        <4>1. lo <= lo + j
          BY <1>1, <1>2, <2>1, Near
        <4>2. lo <= i - j /\ i - j <= hi
          BY <1>1, <1>2, <2>6, <4>1
        <4> QED BY <1>1, <1>2, <4>2, Near
      <3>3. r = Convert(t, i - j)
        BY <1>2, <3>1, <3>2, Arithmetic
      <3>4. lo - 2 * H <= i - j /\ i - j <= hi + 2 * H
        BY <1>1, <1>2
      <3>5. r = IF i - j < lo THEN i - j + 2 * H ELSE IF i - j > hi THEN i - j - 2 * H ELSE i - j
        BY <1>1, <1>2, <3>3, <3>4, Near
      <3> QED BY <1>1, <1>2, <2>3, <2>4, <2>6, <3>5
    <2> QED BY <1>2, <2>5, <2>6
  <1> QED BY <1>4, <1>5 DEF Says

LEMMA HaddIs ==
  ASSUME NEW t \in Type, NEW i \in T(t), NEW j \in T(t), NEW k, NEW r \in hadd(t, i, j)
  PROVE  r \in T(t) /\ Says("hadd", t, i, j, k, r)
  <1>1. PICK H \in Nat, lo \in Int, hi \in Int :
           /\ H = Half(t) /\ lo = Lowest(t) /\ hi = Highest(t)
           /\ H >= 2 /\ hi % 2 = 1 /\ 2 ^ t.bits = 2 * H
           /\ lo <= 0 /\ hi >= 1 /\ hi - lo = 2 * H - 1
           /\ (t.signed /\ lo = -H) \/ (~t.signed /\ lo = 0)
    BY Numbers
  <1>2. i \in Int /\ j \in Int /\ lo <= i /\ i <= hi /\ lo <= j /\ j <= hi /\ i + j \in Int
    BY <1>1, Limits
  <1>3. PICK sum \in add_sat(t, i, j) : r = sum \div 2
    BY DEF hadd
  <1>4. sum \in T(t) /\ sum \in Int /\ lo <= sum /\ sum <= hi
    BY <1>1, <1>3, AddSatIs, Limits
  <1>5. r \in T(t)
    <2>1. sum \div 2 \in Int /\ lo <= sum \div 2 /\ sum \div 2 <= hi
      BY <1>1, <1>4
    <2> QED BY <1>1, <1>3, <2>1, Near
  <1>6. ASSUME Defined("hadd", t, i, j, k)
        PROVE  r = Reference("hadd", t, i, j, k) <=> Right("hadd", t, i, j, k)
    <2>1. t.promoted \/ ~t.signed \/ hi - i \in T(t)
      BY <1>1, <1>6 DEF Defined
    <2>2. sum = IF i + j >= hi THEN hi ELSE Convert(t, i + j)
      BY <1>1, <1>3, <2>1, AddSatIs
    <2>3. Convert(t, i + j) = IF i + j < lo THEN i + j + 2 * H ELSE IF i + j > hi THEN i + j - 2 * H ELSE i + j
      BY <1>1, <1>2, Near
    <2>4. Reference("hadd", t, i, j, k) = (i + j) \div 2
      BY DEF Reference
    <2>5. Right("hadd", t, i, j, k) <=> lo <= i + j /\ i + j <= hi
      BY <1>1, <1>2, Near DEF Right
    <2>6. sum = IF i + j >= hi THEN hi ELSE IF i + j < lo THEN i + j + 2 * H ELSE i + j
      BY <1>1, <1>2, <2>2, <2>3
    <2> QED BY <1>1, <1>2, <1>3, <2>4, <2>5, <2>6
  <1> QED BY <1>5, <1>6 DEF Says

LEMMA RhaddIs ==
  ASSUME NEW t \in Type, ~t.promoted, t.signed,
         NEW i \in T(t), NEW j \in T(t), NEW k, NEW r \in rhadd(t, i, j)
  PROVE  r \in T(t) /\ Says("rhadd", t, i, j, k, r)
  <1>1. PICK H \in Nat, lo \in Int, hi \in Int :
           /\ H = Half(t) /\ lo = Lowest(t) /\ hi = Highest(t)
           /\ H >= 2 /\ hi % 2 = 1 /\ 2 ^ t.bits = 2 * H
           /\ lo <= 0 /\ hi >= 1 /\ hi - lo = 2 * H - 1
           /\ (t.signed /\ lo = -H) \/ (~t.signed /\ lo = 0)
    BY Numbers
  <1>2. i \in Int /\ j \in Int /\ lo <= i /\ i <= hi /\ lo <= j /\ j <= hi /\ i + j \in Int
    BY <1>1, Limits
  <1>3. PICK part \in add_sat(t, i, j) : \E s \in add_sat(t, 1, part) : r = s \div 2
    BY DEF rhadd
  <1>4. PICK sum \in add_sat(t, 1, part) : r = sum \div 2
    BY <1>3
  <1>5. 1 \in T(t) /\ part \in T(t) /\ part \in Int /\ lo <= part /\ part <= hi
    <2>1. part \in T(t)
      BY <1>3, AddSatIs
    <2>2. 1 \in T(t)
      BY <1>1, Near
    <2> QED BY <1>1, <2>1, <2>2, Limits
  <1>6. sum \in T(t) /\ sum \in Int /\ lo <= sum /\ sum <= hi
    BY <1>1, <1>4, <1>5, AddSatIs, Limits
  <1>7. r \in T(t)
    <2>1. sum \div 2 \in Int /\ lo <= sum \div 2 /\ sum \div 2 <= hi
      BY <1>1, <1>6
    <2> QED BY <1>1, <1>4, <2>1, Near
  <1>8. ASSUME Defined("rhadd", t, i, j, k)
        PROVE  r = Reference("rhadd", t, i, j, k) <=> Right("rhadd", t, i, j, k)
    <2>1. hi - i \in T(t) /\ hi - i \in Int
      BY <1>1, <1>2, <1>8 DEF Defined
    <2>2. i >= 0
      <3>1. hi - i <= hi
        BY <1>1, <2>1, Near
      <3> QED BY <1>2, <3>1
    <2>3. part = IF i + j >= hi THEN hi ELSE Convert(t, i + j)
      BY <1>1, <1>3, <2>1, AddSatIs
    <2>4. part = IF i + j >= hi THEN hi ELSE i + j
      <3>1. i + j < hi => lo <= i + j /\ i + j <= hi
        BY <1>1, <1>2, <2>2
      <3>2. i + j < hi => Convert(t, i + j) = i + j
        BY <1>1, <1>2, <3>1, Near, Conversion
      <3> QED BY <1>1, <1>2, <2>3, <3>2
    <2>5. sum = IF 1 + part >= hi THEN hi ELSE 1 + part
      <3>1. hi - 1 \in T(t)
        <4>1. hi - 1 \in Int /\ lo <= hi - 1 /\ hi - 1 <= hi
          BY <1>1
        <4> QED BY <1>1, <4>1, Near
      <3>2. sum = IF 1 + part >= hi THEN hi ELSE Convert(t, 1 + part)
        BY <1>1, <1>4, <1>5, <3>1, AddSatIs
      <3>3. 1 + part < hi => 1 + part \in Int /\ lo <= 1 + part /\ 1 + part <= hi
        BY <1>1, <1>5
      <3>4. 1 + part < hi => Convert(t, 1 + part) = 1 + part
        BY <1>1, <1>5, <3>3, Near, Conversion
      <3> QED BY <1>1, <1>5, <3>2, <3>4
    <2>6. Reference("rhadd", t, i, j, k) = (i + j + 1) \div 2
      BY DEF Reference
    <2>7. Right("rhadd", t, i, j, k) <=> lo <= i + j /\ i + j <= hi - 1
      <3>1. Right("rhadd", t, i, j, k) <=> i + j \in lo..hi - 1
        BY <1>1 DEF Right
      <3> QED BY <1>1, <1>2, <3>1
    <2> QED BY <1>1, <1>2, <1>4, <2>2, <2>4, <2>5, <2>6, <2>7
  <1> QED BY <1>7, <1>8 DEF Says

LEMMA Times ==
  ASSUME NEW a \in Nat, NEW b \in Int, NEW c \in Int, b <= c
  PROVE  a * b <= a * c
  <1> DEFINE d == c - b
  <1>1. d \in Nat /\ c = b + d
    OBVIOUS
  <1> HIDE DEF d
  <1>2. a * (b + d) = a * b + a * d
    BY <1>1
  <1>3. a * d \in Nat /\ a * b \in Int
    BY <1>1
  <1> QED BY <1>1, <1>2, <1>3

\* A product, next to the largest number whose product is not above a limit.
LEMMA Multiples ==
  ASSUME NEW hi \in Nat, NEW i \in Nat \ {0}, NEW j \in Int
  PROVE  /\ hi \div i \in Nat
         /\ j <= hi \div i => i * j <= hi
         /\ j < hi \div i => i * j < hi
         /\ j > hi \div i => i * j > hi
  <1> DEFINE q == hi \div i
             m == hi % i
  <1>1. q \in Int /\ m \in 0..i - 1 /\ hi = i * q + m
    BY DivMod
  <1>2. q \in Nat
    <2>1. q < 0 => i * q <= i * (-1)
      BY <1>1, Times
    <2> QED BY <1>1, <2>1
  <1> HIDE DEF q, m
  <1>3. i * j \in Int /\ i * q \in Int
    BY <1>2
  <1>4. j <= q => i * j <= i * q
    BY <1>2, Times
  <1>5. j < q => i * j <= i * q - i
    <2>1. j < q => i * j <= i * (q - 1)
      BY <1>2, Times
    <2>2. i * (q - 1) = i * q - i
      BY <1>2
    <2> QED BY <2>1, <2>2
  <1>6. j > q => i * j >= i * q + i
    <2>1. j > q => i * (q + 1) <= i * j
      BY <1>2, Times
    <2>2. i * (q + 1) = i * q + i
      BY <1>2
    <2> QED BY <1>3, <2>1, <2>2
  <1>7. /\ j <= q => i * j <= hi
        /\ j < q => i * j < hi
        /\ j > q => i * j > hi
    BY <1>1, <1>3, <1>4, <1>5, <1>6
  <1> QED BY <1>2, <1>7 DEF q

LEMMA Quotients ==
  ASSUME NEW hi \in Nat, NEW i \in Int, i # 0
  PROVE  Quotient(hi, i) = IF i > 0 THEN hi \div i ELSE -(hi \div (-i))
  <1>1. CASE i > 0
    <2>1. ~(hi < 0) /\ ~(i < 0)
      BY <1>1
    <2> QED BY <1>1, <2>1 DEF Quotient
  <1>2. CASE i < 0
    <2>1. ~(hi < 0) /\ ~(i > 0)
      BY <1>2
    <2> QED BY <1>2, <2>1 DEF Quotient
  <1> QED BY <1>1, <1>2

LEMMA MulSatIs ==
  ASSUME NEW t \in Type, NEW i \in T(t), NEW j \in T(t), NEW k, NEW r \in mul_sat(t, i, j)
  PROVE  i # 0 /\ r \in T(t) /\ Says("mul_sat", t, i, j, k, r)
  <1>1. PICK H \in Nat, lo \in Int, hi \in Int :
           /\ H = Half(t) /\ lo = Lowest(t) /\ hi = Highest(t)
           /\ H >= 2 /\ hi % 2 = 1 /\ 2 ^ t.bits = 2 * H
           /\ lo <= 0 /\ hi >= 1 /\ hi - lo = 2 * H - 1
           /\ (t.signed /\ lo = -H) \/ (~t.signed /\ lo = 0)
    BY Numbers
  <1>2. i \in Int /\ j \in Int /\ lo <= i /\ i <= hi /\ lo <= j /\ j <= hi /\ i * j \in Int
    BY <1>1, Limits
  <1>3. i # 0 /\ r \in IF Quotient(hi, i) <= j THEN {hi} ELSE Converted(t, i * j)
    BY <1>1 DEF mul_sat
  <1>4. r \in T(t)
    <2>1. hi \in T(t)
      BY <1>1, Near
    <2> QED BY <1>2, <1>3, <2>1, Arithmetic
  <1> DEFINE p == i * j
  <1>5. p \in Int /\ (p \in T(t) <=> lo <= p /\ p <= hi)
    BY <1>1, <1>2, Near
  <1>6. Reference("mul_sat", t, i, j, k) = IF p < lo THEN lo ELSE IF p > hi THEN hi ELSE p
    BY <1>1 DEF Reference, Sat
  <1>7. ASSUME Defined("mul_sat", t, i, j, k), i > 0
        PROVE  r = Reference("mul_sat", t, i, j, k) <=> Right("mul_sat", t, i, j, k)
    <2> DEFINE q == hi \div i
    <2>1. Quotient(hi, i) = q
      BY <1>1, <1>2, <1>7, Quotients
    <2>2. /\ q \in Nat
          /\ j <= q => p <= hi
          /\ j < q => p < hi
          /\ j > q => p > hi
      BY <1>1, <1>2, <1>7, Multiples
    <2>3. Right("mul_sat", t, i, j, k)
            <=> (p >= lo \/ Convert(t, p) = lo) /\ (j = q => p = hi)
      <3>1. ~(i < 0)
        BY <1>2, <1>7
      <3> QED BY <1>1, <3>1 DEF Right
    <2> HIDE DEF p, q
    <2>4. CASE q <= j
      <3>1. r = hi
        BY <1>3, <2>1, <2>4
      <3>2. p >= lo
        <4>1. i * 0 <= i * j
          BY <1>2, <1>7, <2>2, <2>4, Times
        <4> QED BY <1>1, <1>2, <4>1 DEF p
      <3>3. CASE j = q
        BY <1>1, <1>5, <1>6, <2>2, <2>3, <3>1, <3>2, <3>3
      <3>4. CASE j > q
        <4>1. p > hi /\ j # q
          BY <1>2, <2>2, <3>4
        <4> QED BY <1>1, <1>5, <1>6, <2>3, <3>1, <3>2, <4>1
      <3> QED BY <1>2, <2>2, <2>4, <3>3, <3>4
    <2>5. CASE j < q
      <3>1. p < hi /\ j # q /\ ~(q <= j)
        BY <1>2, <2>2, <2>5
      <3>2. r \in Converted(t, p)
        BY <1>3, <2>1, <3>1 DEF p
      <3>3. CASE p >= lo
        <4>1. r = p
          BY <1>1, <1>5, <3>1, <3>2, <3>3, Arithmetic
        <4> QED BY <1>1, <1>5, <1>6, <2>3, <3>1, <3>3, <4>1
      <3>4. CASE p < lo
        <4>1. t.promoted \/ ~t.signed \/ p \in T(t)
          <5>1. ~(j > 0)
            <6>1. j > 0 => i * 1 <= i * j
              BY <1>2, <1>7, Times
            <6> QED BY <1>1, <1>2, <1>7, <3>4, <6>1 DEF p
          <5> QED BY <1>7, <5>1 DEF Defined, p
        <4>2. r = Convert(t, p)
          BY <1>5, <3>2, <4>1, Arithmetic
        <4>3. ~(p >= lo)
          BY <1>1, <1>5, <3>4
        <4> QED BY <1>6, <2>3, <3>1, <3>4, <4>2, <4>3
      <3> QED BY <1>1, <1>5, <3>3, <3>4
    <2> QED BY <1>2, <2>2, <2>4, <2>5
  <1>8. ASSUME Defined("mul_sat", t, i, j, k), i < 0
        PROVE  r = Reference("mul_sat", t, i, j, k) <=> Right("mul_sat", t, i, j, k)
    <2> DEFINE a == -i
               b == -j
               q == hi \div a
    <2>1. a \in Nat \ {0} /\ b \in Int /\ ~(i > 0) /\ p = a * b
      BY <1>2, <1>8
    <2>2. Quotient(hi, i) = -q
      BY <1>1, <1>2, <1>3, <2>1, Quotients
    <2> HIDE DEF p, q
    <2>3. /\ q \in Nat
          /\ b <= q => p <= hi
          /\ b > q => p > hi
      BY <1>1, <2>1, Multiples DEF q
    <2>4. Right("mul_sat", t, i, j, k) <=> p = hi \/ (p > hi /\ Convert(t, p) = hi)
      BY <1>1, <1>8 DEF Right, p
    <2>5. CASE b <= q
      <3>1. r = hi
        <4>1. -q <= j
          BY <1>2, <2>3, <2>5
        <4> QED BY <1>3, <2>2, <4>1
      <3>2. p <= hi
        BY <2>3, <2>5
      <3> QED BY <1>1, <1>5, <1>6, <2>4, <3>1, <3>2 DEF p
    <2>6. CASE b > q
      <3>1. p > hi
        BY <2>3, <2>6
      <3>2. r \in Converted(t, p)
        <4>1. ~(-q <= j)
          BY <1>2, <2>3, <2>6
        <4> QED BY <1>3, <2>2, <4>1 DEF p
      <3>3. t.promoted \/ ~t.signed \/ p \in T(t)
        BY <1>8, <2>1 DEF Defined, p
      <3>4. r = Convert(t, p)
        BY <1>5, <3>2, <3>3, Arithmetic DEF p
      <3>5. p # hi /\ ~(p < lo)
        BY <1>1, <1>5, <3>1 DEF p
      <3>6. Reference("mul_sat", t, i, j, k) = hi
        BY <1>6, <3>1, <3>5
      <3> QED BY <2>4, <3>1, <3>4, <3>5, <3>6
    <2> QED BY <2>1, <2>3, <2>5, <2>6
  <1> HIDE DEF p
  <1>9. i > 0 \/ i < 0
    BY <1>2, <1>3
  <1> QED BY <1>3, <1>4, <1>7, <1>8, <1>9 DEF Says

LEMMA MulHiIs ==
  ASSUME NEW t \in Type, NEW i \in T(t), NEW j \in T(t), NEW k, NEW r \in mul_hi(t, i, j)
  PROVE  /\ r \in T(t)
         /\ Right("mul_hi", t, i, j, k) => r = 0 /\ (i * j) \div 2 ^ t.bits = 0
  <1>1. PICK H \in Nat, lo \in Int, hi \in Int :
           /\ H = Half(t) /\ lo = Lowest(t) /\ hi = Highest(t)
           /\ H >= 2 /\ hi % 2 = 1 /\ 2 ^ t.bits = 2 * H
           /\ lo <= 0 /\ hi >= 1 /\ hi - lo = 2 * H - 1
           /\ (t.signed /\ lo = -H) \/ (~t.signed /\ lo = 0)
    BY Numbers
  <1> DEFINE p == i * j
             m == 2 ^ (t.bits \div 2)
  <1>2. p \in Int
    BY Limits
  <1>3. m \in Nat \ {0} /\ m <= H
    <2> DEFINE h == t.bits \div 2
               b == t.bits - 1
    <2>1. h \in Nat /\ b \in Nat /\ (h = b \/ h < b)
      BY DEF Type
    <2> HIDE DEF h, b
    <2>2. 2 ^ h \in Nat \ {0} /\ 2 ^ b \in Nat
      BY <2>1, Pow
    <2>3. h < b => 2 * 2 ^ h <= 2 ^ b
      BY <2>1, PowGrows
    <2>4. H = 2 ^ b /\ m = 2 ^ h
      BY <1>1 DEF Half, h, b
    <2>5. 2 ^ h <= 2 ^ b
      BY <2>1, <2>2, <2>3
    <2> QED BY <2>2, <2>4, <2>5
  <1> HIDE DEF p, m
  <1>4. PICK x \in Arith(t, p) : r = Convert(t, uT(t, x) - (uT(t, x) % m))
    BY DEF mul_hi, p, m
  <1>5. x \in Int
    BY <1>2, <1>4, Arithmetic
  <1>6. uT(t, x) \in Int
    <2>1. uT(t, x) \in 0..2 * H - 1
      BY <1>1, <1>5, Unsigned
    <2> QED BY <1>1, <2>1
  <1>7. uT(t, x) % m \in Int
    BY <1>3, <1>6, DivMod
  <1>8. r \in T(t)
    <2>1. uT(t, x) - (uT(t, x) % m) \in Int
      BY <1>6, <1>7
    <2> QED BY <1>4, <2>1, Conversion
  <1>9. ASSUME Right("mul_hi", t, i, j, k) PROVE r = 0 /\ (i * j) \div 2 ^ t.bits = 0
    <2>1. p \in 0..m - 1
      BY <1>9 DEF Right, p, m
    <2>2. p \in T(t) /\ p \in 0..2 * H - 1
      <3>1. lo <= p /\ p <= hi /\ p >= 0 /\ p <= 2 * H - 1
        BY <1>1, <1>2, <1>3, <2>1
      <3> QED BY <1>1, <1>2, <3>1, Near
    <2>3. x = p
      BY <1>2, <1>4, <2>2, Arithmetic
    <2>4. uT(t, p) = p
      BY <1>1, <1>2, <2>2, Unsigned
    <2>5. p % m = p
      <3>1. (m * 0 + p) % m = p
        BY <1>3, <2>1, DivUnique
      <3>2. m * 0 + p = p
        BY <1>2, <1>3
      <3> QED BY <3>1, <3>2
    <2>6. r = Convert(t, 0)
      <3>1. p - p = 0
        BY <1>2
      <3>2. r = Convert(t, p - p)
        BY <1>4, <2>3, <2>4, <2>5
      <3> QED BY <3>1, <3>2
    <2>7. Convert(t, 0) = 0
      <3>1. 0 \in T(t)
        BY <1>1, Near
      <3> QED BY <3>1, Conversion
    <2>8. p \div (2 * H) = 0
      <3>1. ((2 * H) * 0 + p) \div (2 * H) = 0
        BY <1>1, <2>2, DivUnique
      <3>2. (2 * H) * 0 + p = p
        BY <1>1, <1>2
      <3> QED BY <3>1, <3>2
    <2> QED BY <1>1, <2>6, <2>7, <2>8 DEF p
  <1> QED BY <1>8, <1>9

LEMMA MadHiIs ==
  ASSUME NEW t \in Type, NEW i \in T(t), NEW j \in T(t), NEW k \in T(t), NEW r \in mad_hi(t, i, j, k)
  PROVE  r \in T(t) /\ Says("mad_hi", t, i, j, k, r)
  <1>1. PICK h \in mul_hi(t, i, j) : r \in Converted(t, h + k)
    BY DEF mad_hi
  <1>2. h \in Int /\ k \in Int
    BY <1>1, MulHiIs, Limits
  <1>3. r \in T(t)
    BY <1>1, <1>2, Arithmetic
  <1>4. ASSUME Right("mad_hi", t, i, j, k) PROVE r = Reference("mad_hi", t, i, j, k)
    <2>1. Right("mul_hi", t, i, j, k)
      BY <1>4 DEF Right
    <2>2. h = 0 /\ (i * j) \div 2 ^ t.bits = 0
      BY <1>1, <2>1, MulHiIs
    <2>3. 0 + k = k
      BY <1>2
    <2>4. r = k /\ Convert(t, k) = k
      BY <1>1, <1>2, <2>2, <2>3, Arithmetic, Conversion
    <2>5. Reference("mad_hi", t, i, j, k) = Convert(t, (i * j) \div 2 ^ t.bits + k)
      BY DEF Reference
    <2> QED BY <2>2, <2>3, <2>4, <2>5
  <1> QED BY <1>3, <1>4 DEF Says

LEMMA MadSatIs ==
  ASSUME NEW t \in Type, NEW i \in T(t), NEW j \in T(t), NEW k \in T(t), NEW r \in mad_sat(t, i, j, k)
  PROVE  i # 0 /\ r \in T(t) /\ Says("mad_sat", t, i, j, k, r)
  <1>1. PICK prod \in mul_sat(t, i, j) : r \in add_sat(t, prod, k)
    BY DEF mad_sat
  <1>2. i # 0 /\ prod \in T(t) /\ Says("mul_sat", t, i, j, k, prod)
    BY <1>1, MulSatIs
  <1>3. r \in T(t) /\ Says("add_sat", t, prod, k, 0, r)
    BY <1>1, <1>2, Saturates
  <1> DEFINE p == i * j
  <1>4. ASSUME Right("mad_sat", t, i, j, k), Defined("mad_sat", t, i, j, k)
        PROVE  r = Reference("mad_sat", t, i, j, k)
    <2>1. i > 0 /\ p \in T(t) /\ j # Highest(t) \div i /\ p + k >= Lowest(t)
      BY <1>4 DEF Right
    <2>2. /\ t.promoted \/ ~t.signed \/ p \in T(t)
          /\ t.promoted \/ ~t.signed \/ Highest(t) - p \in T(t)
      BY <1>4 DEF Defined
    <2>3. i \in Int /\ p \in Int /\ Lowest(t) \in Int /\ Highest(t) \in Int /\ Lowest(t) <= p /\ p <= Highest(t)
      BY <2>1, Limits
    <2> HIDE DEF p
    <2>4. prod = p
      <3>1. Defined("mul_sat", t, i, j, k)
        BY <2>2 DEF Defined, p
      <3>2. Right("mul_sat", t, i, j, k)
        <4>1. ~(i < 0) /\ p >= Lowest(t)
          BY <2>1, <2>3
        <4> QED BY <2>1, <4>1 DEF Right, p
      <3>3. Reference("mul_sat", t, i, j, k) = p
        <4>1. ~(p < Lowest(t)) /\ ~(p > Highest(t))
          BY <2>3
        <4> QED BY <4>1 DEF Reference, Sat, p
      <3> QED BY <1>2, <3>1, <3>2, <3>3 DEF Says
    <2>5. Defined("add_sat", t, p, k, 0) /\ Right("add_sat", t, p, k, 0)
      BY <2>1, <2>2 DEF Defined, Right
    <2>6. Reference("add_sat", t, p, k, 0) = Reference("mad_sat", t, i, j, k)
      BY DEF Reference, p
    <2> QED BY <1>3, <2>4, <2>5, <2>6 DEF Says
  <1> QED BY <1>2, <1>3, <1>4 DEF Says

LEMMA OrderIs ==
  ASSUME NEW t \in Type, NEW i \in T(t), NEW j \in T(t), NEW k \in T(t), NEW r
  PROVE  /\ r \in clamp(i, j, k) => r \in T(t) /\ Says("clamp", t, i, j, k, r)
         /\ r \in max(i, j) => r \in T(t) /\ Says("max", t, i, j, k, r)
         /\ r \in min(i, j) => r \in T(t) /\ Says("min", t, i, j, k, r)
         /\ r \in step(i, j) => r \in T(t) /\ Says("step", t, i, j, k, r)
         /\ r \in sign(i) => r \in T(t) /\ Says("sign", t, i, j, k, r)
  <1>1. i \in Int /\ j \in Int /\ k \in Int /\ 0 \in T(t) /\ 1 \in T(t)
    BY Limits
  <1>2. r \in clamp(i, j, k) => r \in T(t) /\ Says("clamp", t, i, j, k, r)
    BY DEF clamp, Says, Reference, Right
  <1>3. r \in max(i, j) => r \in T(t) /\ Says("max", t, i, j, k, r)
    <2>1. r \in max(i, j) => r \in T(t) /\ r = IF i > j THEN i ELSE j
      BY <1>1 DEF max
    <2> QED BY <2>1 DEF Says, Reference, Right
  <1>4. r \in min(i, j) => r \in T(t) /\ Says("min", t, i, j, k, r)
    <2>1. r \in min(i, j) => r \in T(t) /\ r = IF i > j THEN j ELSE i
      BY <1>1 DEF min
    <2> QED BY <2>1 DEF Says, Reference, Right
  <1>5. r \in step(i, j) => r \in T(t) /\ Says("step", t, i, j, k, r)
    BY <1>1 DEF step, Says, Reference, Right
  <1>6. r \in sign(i) => r \in T(t) /\ Says("sign", t, i, j, k, r)
    <2>1. r \in sign(i) => r = IF i < 0 THEN 1 ELSE 0
      BY DEF sign
    <2>2. Reference("sign", t, i, j, k) = IF i < 0 THEN -1 ELSE IF i > 0 THEN 1 ELSE 0
      BY DEF Reference
    <2>3. Right("sign", t, i, j, k) <=> i = 0
      BY DEF Right
    <2> QED BY <1>1, <2>1, <2>2, <2>3 DEF Says
  <1> QED BY <1>2, <1>3, <1>4, <1>5, <1>6

\* Numbers with the same conversion differ by one that is converted to zero.
LEMMA SameConversion ==
  ASSUME NEW t \in Type, NEW a \in Int, NEW b \in Int
  PROVE  /\ Convert(t, a) = Convert(t, b) <=> Convert(t, a - b) = 0
         /\ \A c \in Int : uT(t, a) = uT(t, b) => uT(t, a + c) = uT(t, b + c)
  <1> DEFINE W == 2 * Half(t)
  <1>1. W \in Nat
    BY Sizes
  <1>2. \A m, c \in Int : uT(t, W * m + c) = uT(t, c)
    BY Unsigned
  <1>3. PICK m \in Int : a = W * m + uT(t, a)
    BY Unsigned
  <1>4. PICK n \in Int : b = W * n + uT(t, b)
    BY Unsigned
  <1>5. PICK d \in Int : a - b = W * d + uT(t, a - b)
    <2>1. a - b \in Int
      OBVIOUS
    <2> QED BY <2>1, Unsigned
  <1>6. uT(t, a) \in Int /\ uT(t, b) \in Int /\ uT(t, a - b) \in Int
    <2>1. a - b \in Int
      OBVIOUS
    <2>2. \A c \in Int : uT(t, c) \in 0..W - 1
      BY Unsigned
    <2> QED BY <1>1, <2>1, <2>2
  <1>7. 0 \in T(t)
    BY Limits
  <1>8. uT(t, 0) = 0
    <2>1. 0 \in 0..W - 1
      BY Sizes
    <2> QED BY <2>1, Unsigned
  <1>9. Convert(t, 0) = 0 /\ a - b \in Int
    BY <1>7, Conversion
  <1> HIDE DEF W
  <1>10. ASSUME uT(t, a) = uT(t, b)
         PROVE  uT(t, a - b) = 0 /\ \A c \in Int : uT(t, a + c) = uT(t, b + c)
    <2> DEFINE e == m - n
    <2>1. e \in Int
      OBVIOUS
    <2>2. W * m = W * e + W * n /\ W * e \in Int /\ W * n \in Int
      BY <1>1
    <2> HIDE DEF e
    <2>3. a = W * e + b
      BY <1>3, <1>4, <1>6, <1>10, <2>2
    <2>4. a - b = W * e + 0
      BY <2>2, <2>3
    <2>5. \A c \in Int : a + c = W * e + (b + c) /\ b + c \in Int
      BY <2>2, <2>3
    <2> QED BY <1>2, <1>8, <2>1, <2>4, <2>5
  <1>11. ASSUME uT(t, a - b) = 0 PROVE uT(t, a) = uT(t, b)
    <2>1. a = W * d + b
      BY <1>1, <1>5, <1>11
    <2> QED BY <1>2, <2>1
  <1>12. \A c \in Int : Convert(t, a) = Convert(t, c) <=> uT(t, a) = uT(t, c)
    BY Conversion
  <1>13. Convert(t, a - b) = Convert(t, 0) <=> uT(t, a - b) = uT(t, 0)
    BY <1>9, Conversion
  <1> QED BY <1>8, <1>9, <1>10, <1>11, <1>12, <1>13

LEMMA MixIs ==
  ASSUME NEW t \in Type, NEW i \in T(t), NEW j \in T(t), NEW k \in T(t), NEW r \in mix(t, i, j, k)
  PROVE  r \in T(t) /\ Says("mix", t, i, j, k, r)
  <1> DEFINE val == i * k + (1 - k) * j
             ref == i + (j - i) * k
  <1>1. i \in Int /\ j \in Int /\ k \in Int
    BY Limits
  <1>2. val \in Int /\ ref \in Int /\ val - ref = (i - j) * (2 * k - 1)
    BY <1>1
  <1>3. r \in Converted(t, val)
    BY DEF mix
  <1>4. r \in T(t)
    BY <1>2, <1>3, Arithmetic
  <1>5. Reference("mix", t, i, j, k) = Convert(t, ref)
    BY DEF Reference
  <1>6. Right("mix", t, i, j, k) <=> Convert(t, (i - j) * (2 * k - 1)) = 0
    BY DEF Right
  <1>7. Defined("mix", t, i, j, k) => t.promoted \/ ~t.signed \/ val \in T(t)
    BY DEF Defined
  <1> HIDE DEF val, ref
  <1>8. Defined("mix", t, i, j, k) => r = Convert(t, val)
    BY <1>2, <1>3, <1>7, Arithmetic
  <1>9. Convert(t, val) = Convert(t, ref) <=> Convert(t, val - ref) = 0
    BY <1>2, SameConversion
  <1> QED BY <1>2, <1>4, <1>5, <1>6, <1>8, <1>9 DEF Says

LEMMA MadIs ==
  ASSUME NEW t \in Type, NEW i \in T(t), NEW j \in T(t), NEW k \in T(t), NEW r \in mad(t, i, j, k)
  PROVE  r \in T(t) /\ Says("mad", t, i, j, k, r)
  <1> DEFINE p == i * j
  <1>1. p \in Int /\ k \in Int /\ p + k \in Int
    BY Limits
  <1>2. Reference("mad", t, i, j, k) = Convert(t, p + k) /\ Right("mad", t, i, j, k)
    BY DEF Reference, Right
  <1>3. Defined("mad", t, i, j, k) =>
          /\ t.promoted \/ ~t.signed \/ p \in T(t)
          /\ t.promoted \/ ~t.signed \/ p + k \in T(t)
    BY DEF Defined
  <1>4. PICK x \in Arith(t, p) : r \in Converted(t, x + k)
    BY DEF mad
  <1> HIDE DEF p
  <1>5. x \in Int /\ x + k \in Int
    BY <1>1, <1>4, Arithmetic
  <1>6. r \in T(t)
    BY <1>4, <1>5, Arithmetic
  <1>7. ASSUME Defined("mad", t, i, j, k) PROVE r = Convert(t, p + k)
    <2>1. uT(t, x) = uT(t, p)
      BY <1>1, <1>3, <1>4, <1>7, Arithmetic
    <2>2. uT(t, x + k) = uT(t, p + k)
      BY <1>1, <1>5, <2>1, SameConversion
    <2>3. Convert(t, x + k) = Convert(t, p + k)
      BY <1>1, <1>5, <2>2, Conversion
    <2>4. t.promoted \/ ~t.signed \/ x + k \in T(t)
      <3>1. p \in T(t) => x = p
        BY <1>1, <1>4, Arithmetic
      <3> QED BY <1>3, <1>7, <3>1
    <2> QED BY <1>4, <1>5, <2>3, <2>4, Arithmetic
  <1> QED BY <1>2, <1>6, <1>7 DEF Says

-----------------------------------------------------------------------------
(* The bits of a number                                                    *)

Bit(n, b) == (n \div 2 ^ b) % 2

LEMMA AddDiv ==
  ASSUME NEW b \in Nat \ {0}, NEW m \in Int, NEW a \in Int
  PROVE  (b * m + a) \div b = m + (a \div b)
  <1> DEFINE q == a \div b
             r == a % b
  <1>1. q \in Int /\ r \in 0..b - 1 /\ a = b * q + r
    BY DivMod
  <1> HIDE DEF q, r
  <1>2. b * m + a = b * (m + q) + r
    BY <1>1
  <1>3. (b * (m + q) + r) \div b = m + q
    <2>1. m + q \in Int
      BY <1>1
    <2> QED BY <1>1, <2>1, DivUnique
  <1> QED BY <1>2, <1>3 DEF q

LEMMA LowBits ==
  ASSUME NEW j \in Nat, NEW b \in Nat, b < j, NEW h \in Int, NEW l \in Int
  PROVE  Bit(2 ^ j * h + l, b) = Bit(l, b)
  <1> DEFINE d == j - (b + 1)
             B == 2 ^ b
             D == 2 ^ d
             f == l \div B
  <1>1. d \in Nat /\ j = (b + 1) + d /\ b + 1 \in Nat
    OBVIOUS
  <1>2. 2 ^ j = (2 * B) * D
    <2> HIDE DEF d
    <2>1. 2 ^ j = 2 ^ (b + 1) * D
      BY <1>1, PowPlus
    <2> QED BY <2>1, PowStep
  <1>3. B \in Nat \ {0} /\ D \in Nat \ {0}
    BY <1>1, Pow
  <1>4. f \in Int
    BY <1>3, DivMod
  <1> HIDE DEF d, B, D
  <1> DEFINE e == D * h
  <1>5. e \in Int /\ ((2 * B) * D) * h = B * (2 * e)
    BY <1>3
  <1> HIDE DEF e
  <1>6. (B * (2 * e) + l) \div B = 2 * e + f
    BY <1>3, <1>5, AddDiv
  <1> HIDE DEF f
  <1>7. (2 * e + f) % 2 = f % 2
    BY <1>4, <1>5
  <1> QED BY <1>2, <1>5, <1>6, <1>7 DEF Bit, f, B

LEMMA HighBits ==
  ASSUME NEW j \in Nat, NEW b \in Nat, j <= b, NEW h \in Int, NEW l \in 0..2 ^ j - 1
  PROVE  Bit(2 ^ j * h + l, b) = Bit(h, b - j)
  <1> DEFINE d == b - j
             A == 2 ^ j
             D == 2 ^ d
  <1>1. d \in Nat /\ b = j + d
    OBVIOUS
  <1>2. 2 ^ b = A * D
    <2> HIDE DEF d
    <2> QED BY <1>1, PowPlus
  <1>3. A \in Nat \ {0} /\ D \in Nat \ {0}
    BY <1>1, Pow
  <1>4. l \in 0..A - 1
    OBVIOUS
  <1> HIDE DEF d, A, D
  <1> DEFINE n == A * h + l
  <1>5. n \in Int /\ n \div A = h
    BY <1>3, <1>4, DivUnique
  <1> HIDE DEF n
  <1>6. n \div (A * D) = h \div D
    <2>1. (n \div A) \div D = n \div (A * D)
      BY <1>3, <1>5, DivDiv
    <2> QED BY <1>5, <2>1
  <1> QED BY <1>2, <1>6 DEF Bit, d, A, D, n

\* The numbers below a power of two whose bits are all set.
LEMMA AllOnes ==
  ASSUME NEW c \in Nat, NEW d \in Nat, d < c
  PROVE  Bit(2 ^ c - 1, d) = 1
  <1> DEFINE e == c - (d + 1)
             E == 2 ^ e
             D == 2 ^ d
  <1>1. e \in Nat /\ c = (d + 1) + e /\ d + 1 \in Nat
    OBVIOUS
  <1>2. 2 ^ c = (2 * D) * E
    <2> HIDE DEF e
    <2>1. 2 ^ c = 2 ^ (d + 1) * E
      BY <1>1, PowPlus
    <2> QED BY <2>1, PowStep
  <1>3. D \in Nat \ {0} /\ E \in Nat \ {0}
    BY <1>1, Pow
  <1> HIDE DEF e, E, D
  <1>4. (2 * D) * E - 1 = D * (2 * E - 1) + (D - 1)
    BY <1>3
  <1>5. (D * (2 * E - 1) + (D - 1)) \div D = 2 * E - 1
    <2>1. 2 * E - 1 \in Int /\ D - 1 \in 0..D - 1
      BY <1>3
    <2> QED BY <1>3, <2>1, DivUnique
  <1>6. (2 * E - 1) % 2 = 1
    BY <1>3
  <1> QED BY <1>2, <1>4, <1>5, <1>6 DEF Bit, D

LEMMA BitsSmall ==
  ASSUME NEW j \in Nat, NEW b \in Nat, j <= b, NEW l \in 0..2 ^ j - 1
  PROVE  l \div 2 ^ b = 0 /\ Bit(l, b) = 0
  <1>1. 2 ^ b \in Nat \ {0} /\ 2 ^ j \in Nat
    BY Pow
  <1>2. 2 ^ j <= 2 ^ b
    <2>1. j < b => 2 * 2 ^ j <= 2 ^ b
      BY PowGrows
    <2>2. j = b \/ j < b
      OBVIOUS
    <2> QED BY <1>1, <2>1, <2>2
  <1> DEFINE B == 2 ^ b
             A == 2 ^ j
  <1>3. B \in Nat \ {0} /\ A \in Nat /\ A <= B /\ l \in 0..A - 1
    BY <1>1, <1>2
  <1> HIDE DEF A, B
  <1>4. l \in 0..B - 1 /\ B * 0 + l = l
    BY <1>3
  <1>5. l \div B = 0
    BY <1>3, <1>4, DivUnique
  <1>6. l \div 2 ^ b = 0
    BY <1>5 DEF B
  <1>7. Bit(l, b) = 0 % 2
    BY <1>6 DEF Bit
  <1> QED BY <1>6, <1>7

\* A number is determined by its bits.
LEMMA SameBits ==
  ASSUME NEW m \in Nat
  PROVE  \A x, y \in 0..2 ^ m - 1 : (\A b \in 0..m - 1 : Bit(x, b) = Bit(y, b)) => x = y
  <1> DEFINE S == {n \in Nat : \A x, y \in 0..2 ^ n - 1 :
                     (\A b \in 0..n - 1 : Bit(x, b) = Bit(y, b)) => x = y}
  <1>1. 0 \in S
    OBVIOUS
  <1>2. ASSUME NEW n \in Nat, n \in S PROVE n + 1 \in S
    <2> SUFFICES ASSUME NEW x \in 0..2 ^ (n + 1) - 1, NEW y \in 0..2 ^ (n + 1) - 1,
                        \A b \in 0..(n + 1) - 1 : Bit(x, b) = Bit(y, b)
                 PROVE  x = y
      OBVIOUS
    <2> DEFINE A == 2 ^ n
    <2>1. A \in Nat \ {0} /\ 2 ^ (n + 1) = 2 * A
      BY Pow, PowStep
    <2>2. ASSUME NEW z \in 0..2 * A - 1
          PROVE  /\ z % A \in 0..A - 1 /\ z = A * Bit(z, n) + (z % A)
                 /\ \A b \in 0..n - 1 : Bit(z, b) = Bit(z % A, b)
      <3> DEFINE q == z \div A
                 s == z % A
      <3>1. q \in Int /\ s \in 0..A - 1 /\ z = A * q + s
        <4>1. z \in Int
          BY <2>1
        <4> HIDE DEF A
        <4> QED BY <2>1, <4>1, DivMod
      <3>2. q \in 0..1
        <4> HIDE DEF q, s, A
        <4>1. q < 0 => A * q <= A * (-1)
          BY <2>1, <3>1, Times
        <4>2. q > 1 => A * 2 <= A * q
          BY <2>1, <3>1, Times
        <4>3. A * q \in Int
          BY <2>1, <3>1
        <4> QED BY <2>1, <3>1, <4>1, <4>2, <4>3
      <3>3. Bit(z, n) = q
        <4>1. q % 2 = q
          BY <3>2
        <4> QED BY <4>1 DEF Bit
      <3>4. ASSUME NEW b \in 0..n - 1 PROVE Bit(z, b) = Bit(s, b)
        <4>1. b \in Nat /\ b < n /\ s \in Int /\ q \in Int
          BY <2>1, <3>1
        <4> HIDE DEF q, s
        <4>2. Bit(2 ^ n * q + s, b) = Bit(s, b)
          BY <4>1, LowBits
        <4> QED BY <3>1, <4>2
      <3> QED BY <3>1, <3>3, <3>4
    <2>3. x \in 0..2 * A - 1 /\ y \in 0..2 * A - 1
      BY <2>1
    <2>4. Bit(x, n) = Bit(y, n)
      <3>1. n \in 0..(n + 1) - 1
        OBVIOUS
      <3> QED BY <2>1, <3>1
    <2>5. \A b \in 0..n - 1 : Bit(x % A, b) = Bit(y % A, b)
      <3>1. \A b \in 0..n - 1 : b \in 0..(n + 1) - 1
        OBVIOUS
      <3> QED BY <2>2, <2>3, <3>1
    <2>6. x % A \in 0..2 ^ n - 1 /\ y % A \in 0..2 ^ n - 1
      BY <2>2, <2>3
    <2>7. x % A = y % A
      BY <1>2, <2>5, <2>6
    <2> QED BY <2>2, <2>3, <2>4, <2>7
  <1> HIDE DEF S
  <1>3. \A n \in Nat : n \in S
    BY <1>1, <1>2, Induct
  <1> QED BY <1>3 DEF S

\* Every set of bits is that of a number.
LEMMA SomeBits ==
  ASSUME NEW m \in Nat
  PROVE  \A B \in SUBSET (0..m - 1) : \E n \in 0..2 ^ m - 1 :
           \A b \in 0..m - 1 : Bit(n, b) = 1 <=> b \in B
  <1> DEFINE S == {l \in Nat : \A B \in SUBSET (0..l - 1) : \E n \in 0..2 ^ l - 1 :
                     \A b \in 0..l - 1 : Bit(n, b) = 1 <=> b \in B}
  <1>1. 0 \in S
    <2>1. 0 \in 0..2 ^ 0 - 1
      OBVIOUS
    <2>2. 0..0 - 1 = {}
      OBVIOUS
    <2> QED BY <2>1, <2>2
  <1>2. ASSUME NEW l \in Nat, l \in S PROVE l + 1 \in S
    <2> SUFFICES ASSUME NEW B \in SUBSET (0..l)
                 PROVE  \E n \in 0..2 ^ (l + 1) - 1 : \A b \in 0..l : Bit(n, b) = 1 <=> b \in B
      <3>1. (l + 1) - 1 = l
        OBVIOUS
      <3> QED BY <3>1
    <2>1. 2 ^ l \in Nat \ {0} /\ 2 ^ (l + 1) = 2 * 2 ^ l
      BY Pow, PowStep
    <2> DEFINE C == B \ {l}
    <2>2. C \in SUBSET (0..l - 1)
      OBVIOUS
    <2>3. PICK n \in 0..2 ^ l - 1 : \A b \in 0..l - 1 : Bit(n, b) = 1 <=> b \in C
      BY <1>2, <2>2
    <2> DEFINE h == IF l \in B THEN 1 ELSE 0
               x == 2 ^ l * h + n
    <2>4. h \in 0..1 /\ h \in Int /\ (h = 1 <=> l \in B)
      OBVIOUS
    <2>5. x \in 0..2 ^ (l + 1) - 1
      <3>1. x = n \/ x = 2 ^ l + n
        <4> DEFINE A == 2 ^ l
        <4>1. A \in Nat /\ n \in Int
          BY <2>1, <2>3
        <4> HIDE DEF A, h
        <4>2. h = 0 => A * h + n = n
          BY <4>1
        <4>3. h = 1 => A * h + n = A + n
          BY <4>1
        <4> QED BY <2>4, <4>2, <4>3 DEF A
      <3> HIDE DEF x
      <3> QED BY <2>1, <2>3, <3>1
    <2>6. Bit(x, l) = h
      <3> HIDE DEF h
      <3>1. Bit(x, l) = Bit(h, l - l)
        <4>1. l <= l /\ h \in Int
          BY <2>4
        <4> QED BY <4>1, HighBits
      <3>2. Bit(h, l - l) = Bit(h, 0)
        <4>1. l - l = 0
          OBVIOUS
        <4> QED BY <4>1
      <3>3. Bit(h, 0) = h
        <4>1. Bit(h, 0) = (h \div 1) % 2
          <5>1. 2 ^ 0 = 1
            OBVIOUS
          <5> QED BY <5>1 DEF Bit
        <4>2. (h \div 1) % 2 = h
          BY <2>4
        <4> QED BY <4>1, <4>2
      <3> QED BY <3>1, <3>2, <3>3
    <2>7. ASSUME NEW b \in 0..l - 1 PROVE Bit(x, b) = Bit(n, b)
      <3>1. b \in Nat /\ b < l /\ n \in Int
        BY <2>1
      <3> HIDE DEF h
      <3> QED BY <2>4, <3>1, LowBits
    <2> HIDE DEF x
    <2>8. \A b \in 0..l : Bit(x, b) = 1 <=> b \in B
      <3> TAKE b \in 0..l
      <3>1. CASE b = l
        BY <2>4, <2>6, <3>1
      <3>2. CASE b # l
        <4>1. b \in 0..l - 1
          BY <3>2
        <4> QED BY <2>3, <2>7, <3>2, <4>1
      <3> QED BY <3>1, <3>2
    <2> QED BY <2>5, <2>8
  <1> HIDE DEF S
  <1>3. \A l \in Nat : l \in S
    BY <1>1, <1>2, Induct
  <1> QED BY <1>3 DEF S

LEMMA BitsAre ==
  ASSUME NEW t \in Type, NEW n \in Int
  PROVE  /\ Bits(t, n) = {b \in 0..t.bits - 1 : Bit(uT(t, n), b) = 1}
         /\ Bits(t, n) = Bits(t, uT(t, n))
  <1>1. uT(t, uT(t, n)) = uT(t, n)
    BY Conversion
  <1> QED BY <1>1 DEF Bits, Bit

LEMMA OfIs ==
  ASSUME NEW t \in Type
  PROVE  /\ \A B \in SUBSET (0..t.bits - 1) : Of(t, B) \in 0..2 * Half(t) - 1
         /\ \A n \in 0..2 * Half(t) - 1 : Of(t, Bits(t, n)) = n
  <1>1. t.bits \in Nat /\ 2 ^ t.bits = 2 * Half(t) /\ Half(t) \in Nat
    BY Sizes DEF Type
  <1> DEFINE m == t.bits
             N == 0..2 * Half(t) - 1
  <1>2. N = 0..2 ^ m - 1 /\ N \subseteq Int
    BY <1>1
  <1>3. \A n \in N : Bits(t, n) = {b \in 0..m - 1 : Bit(n, b) = 1}
    <2> TAKE n \in N
    <2>1. n \in Int /\ uT(t, n) = n
      BY <1>2, Unsigned
    <2> QED BY <2>1, BitsAre
  <1>4. ASSUME NEW x \in N, NEW y \in N, Bits(t, x) = Bits(t, y) PROVE x = y
    <2>1. \A b \in 0..m - 1 : Bit(x, b) = 1 <=> Bit(y, b) = 1
      BY <1>3, <1>4
    <2>2. \A b \in 0..m - 1 : Bit(x, b) \in 0..1 /\ Bit(y, b) \in 0..1
      <3> TAKE b \in 0..m - 1
      <3>1. 2 ^ b \in Nat \ {0} /\ x \in Int /\ y \in Int
        BY <1>1, <1>2, Pow
      <3>2. x \div 2 ^ b \in Int /\ y \div 2 ^ b \in Int
        <4> DEFINE D == 2 ^ b
        <4>1. D \in Nat \ {0}
          BY <3>1
        <4> HIDE DEF D
        <4>2. x \div D \in Int /\ y \div D \in Int
          BY <3>1, <4>1, DivMod
        <4> QED BY <4>2 DEF D
      <3> QED BY <3>2 DEF Bit
    <2>3. \A b \in 0..m - 1 : Bit(x, b) = Bit(y, b)
      BY <2>1, <2>2
    <2>4. x \in 0..2 ^ m - 1 /\ y \in 0..2 ^ m - 1 /\ m \in Nat
      BY <1>1, <1>2
    <2> HIDE DEF N, m
    <2> QED BY <2>3, <2>4, SameBits
  <1>5. ASSUME NEW B \in SUBSET (0..m - 1) PROVE \E n \in N : Bits(t, n) = B
    <2>1. PICK n \in 0..2 ^ m - 1 : \A b \in 0..m - 1 : Bit(n, b) = 1 <=> b \in B
      BY <1>1, SomeBits
    <2>2. n \in N /\ Bits(t, n) = {b \in 0..m - 1 : Bit(n, b) = 1}
      BY <1>2, <1>3, <2>1
    <2>3. Bits(t, n) = B
      BY <2>1, <2>2
    <2> QED BY <2>2, <2>3
  <1>6. \A B : Of(t, B) = CHOOSE n \in N : Bits(t, n) = B
    BY <1>1 DEF Of
  <1> HIDE DEF N
  <1>7. \A B \in SUBSET (0..m - 1) : Of(t, B) \in N
    BY <1>5, <1>6
  <1>8. \A n \in N : Of(t, Bits(t, n)) = n
    <2> TAKE n \in N
    <2>1. Of(t, Bits(t, n)) \in N /\ Bits(t, Of(t, Bits(t, n))) = Bits(t, n)
      BY <1>6
    <2> QED BY <1>4, <2>1
  <1> QED BY <1>7, <1>8 DEF N

\* What rotate puts together: the low bits, shifted to the left, and the high ones,
\* above which a shift of a negative number leaves ones.
OrIs(n, x, y, z) == \A b \in 0..n - 1 : Bit(x, b) = 1 <=> Bit(y, b) = 1 \/ Bit(z, b) = 1

LEMMA OrBits ==
  ASSUME NEW j \in Nat, NEW n \in Nat, j <= n, NEW A, A = 2 ^ j, NEW M, M = 2 ^ (n - j),
         NEW lo \in 0..M - 1, NEW hi \in 0..A - 1, NEW e, NEW s,
         (e = hi /\ s = lo) \/ (e = A * (M - 1) + hi /\ s = M - 1)
  PROVE  OrIs(n, A * s + hi, A * lo + 0, e)
  <1> SUFFICES \A b \in 0..n - 1 : Bit(A * s + hi, b) = 1 <=> Bit(A * lo + 0, b) = 1 \/ Bit(e, b) = 1
    BY DEF OrIs
  <1>1. A \in Nat \ {0} /\ M \in Nat \ {0}
    BY Pow
  <1>2. lo \in Int /\ hi \in Int /\ s \in Int /\ M - 1 \in Int /\ 0 \in 0..A - 1
    BY <1>1
  <1> TAKE b \in 0..n - 1
  <1>3. CASE b < j
    <2>1. b \in Nat /\ 0 \in Int
      OBVIOUS
    <2>0. \A h, l \in Int : Bit(A * h + l, b) = Bit(l, b)
      <3> TAKE h, l \in Int
      <3>1. Bit(2 ^ j * h + l, b) = Bit(l, b)
        BY <1>3, <2>1, LowBits
      <3> QED BY <3>1
    <2>2. Bit(A * s + hi, b) = Bit(hi, b)
      BY <1>2, <2>0
    <2>3. Bit(A * lo + 0, b) = Bit(0, b)
      BY <1>2, <2>0, <2>1
    <2>4. Bit(e, b) = Bit(hi, b)
      <3>1. Bit(A * (M - 1) + hi, b) = Bit(hi, b)
        BY <1>2, <2>0
      <3>2. CASE e = hi
        BY <3>2
      <3>3. CASE e = A * (M - 1) + hi
        BY <3>1, <3>3
      <3> QED BY <3>2, <3>3
    <2>5. Bit(0, b) = 0
      <3>1. 0 \in 0..2 ^ 0 - 1 /\ 0 <= b /\ 0 \in Nat
        BY <2>1
      <3> QED BY <2>1, <3>1, BitsSmall
    <2> QED BY <2>2, <2>3, <2>4, <2>5
  <1>4. CASE j <= b
    <2>1. b \in Nat /\ b - j \in Nat /\ n - j \in Nat /\ b - j < n - j
      BY <1>4
    <2>0. \A h \in Int, l \in 0..A - 1 : Bit(A * h + l, b) = Bit(h, b - j)
      <3> TAKE h \in Int, l \in 0..A - 1
      <3>1. Bit(2 ^ j * h + l, b) = Bit(h, b - j)
        BY <1>4, <2>1, HighBits
      <3> QED BY <3>1
    <2>2. Bit(A * s + hi, b) = Bit(s, b - j)
      BY <1>2, <2>0
    <2>3. Bit(A * lo + 0, b) = Bit(lo, b - j)
      BY <1>2, <2>0
    <2>4. CASE e = hi /\ s = lo
      <3>1. Bit(hi, b) = 0
        BY <1>4, <2>1, BitsSmall
      <3> QED BY <2>2, <2>3, <2>4, <3>1
    <2>5. CASE e = A * (M - 1) + hi /\ s = M - 1
      <3>1. Bit(e, b) = Bit(M - 1, b - j)
        BY <1>2, <2>0, <2>5
      <3>2. Bit(M - 1, b - j) = 1
        BY <2>1, AllOnes
      <3> QED BY <2>2, <2>5, <3>1, <3>2
    <2> QED BY <2>4, <2>5
  <1> QED BY <1>3, <1>4

InParts(t, i, j) ==
  \E A \in Nat \ {0}, M \in Nat \ {0}, d \in Int : \E hi \in 0..A - 1, lo \in 0..M - 1 :
    /\ A = 2 ^ j /\ M = 2 ^ (t.bits - j) /\ A * M = 2 * Half(t)
    /\ i = M * d + lo /\ uT(t, i) = M * hi + lo
    /\ d = IF i < 0 THEN hi - A ELSE hi

LEMMA RotateParts ==
  ASSUME NEW t \in Type, NEW i \in T(t), NEW j \in 0..t.bits
  PROVE  InParts(t, i, j)
  <1> DEFINE A  == 2 ^ j
             M  == 2 ^ (t.bits - j)
             u  == uT(t, i)
             hi == u \div M
             lo == u % M
             d  == IF i < 0 THEN hi - A ELSE hi
  <1>1. j \in Nat /\ t.bits - j \in Nat /\ t.bits = j + (t.bits - j)
    BY DEF Type
  <1>2. A \in Nat \ {0} /\ M \in Nat \ {0}
    BY <1>1, Pow
  <1>3. A * M = 2 * Half(t)
    <2> DEFINE c == t.bits - j
    <2>1. c \in Nat /\ t.bits = j + c
      BY <1>1
    <2> HIDE DEF c
    <2>2. 2 ^ t.bits = 2 ^ j * 2 ^ c
      BY <1>1, <2>1, PowPlus
    <2> QED BY <2>2, Sizes DEF c
  <1>4. PICK H \in Nat, l \in Int, h \in Int :
           /\ H = Half(t) /\ l = Lowest(t) /\ h = Highest(t)
           /\ H >= 2 /\ h % 2 = 1 /\ 2 ^ t.bits = 2 * H
           /\ l <= 0 /\ h >= 1 /\ h - l = 2 * H - 1
           /\ (t.signed /\ l = -H) \/ (~t.signed /\ l = 0)
    BY Numbers
  <1>5. i \in Int /\ l <= i /\ i <= h
    BY <1>4, Limits
  <1>6. u \in 0..2 * H - 1 /\ u = IF i < 0 THEN i + 2 * H ELSE i
    <2>1. CASE i >= 0
      <3>1. i \in 0..2 * H - 1
        BY <1>4, <1>5, <2>1
      <3>2. ~(i < 0)
        BY <1>5, <2>1
      <3> QED BY <1>4, <1>5, <3>1, <3>2, Unsigned
    <2>2. CASE i < 0
      <3>1. i + 2 * H \in Int /\ i + 2 * H \in 0..2 * H - 1 /\ 2 * H * 1 + i = i + 2 * H
        BY <1>4, <1>5, <2>2
      <3>2. uT(t, 2 * H * 1 + i) = uT(t, i)
        BY <1>4, <1>5, Unsigned
      <3>3. uT(t, i + 2 * H) = i + 2 * H
        BY <1>4, <3>1, Unsigned
      <3>4. u = i + 2 * H
        BY <3>1, <3>2, <3>3
      <3> QED BY <2>2, <3>1, <3>4
    <2> QED BY <1>5, <2>1, <2>2
  <1> HIDE DEF A, M, u
  <1>7. u \in Int /\ hi \in Int /\ lo \in 0..M - 1 /\ u = M * hi + lo
    <2>1. u \in Int
      BY <1>4, <1>6
    <2> QED BY <1>2, <2>1, DivMod
  <1>8. hi \in 0..A - 1
    <2> HIDE DEF hi, lo
    <2>1. hi < 0 => M * hi <= M * (-1)
      BY <1>2, <1>7, Times
    <2>2. hi >= A => M * A <= M * hi
      BY <1>2, <1>7, Times
    <2>3. M * A = A * M /\ M * hi \in Int /\ M * A \in Int
      BY <1>2, <1>7
    <2>4. ~(hi < 0) /\ ~(hi >= A)
      BY <1>2, <1>3, <1>4, <1>6, <1>7, <2>1, <2>2, <2>3
    <2> QED BY <1>2, <1>7, <2>4
  <1>9. i = M * d + lo /\ d \in Int
    <2> HIDE DEF hi, lo
    <2>1. M * (hi - A) = M * hi - A * M
      BY <1>2, <1>7
    <2>2. d \in Int
      BY <1>2, <1>7
    <2>3. CASE i < 0
      <3>1. d = hi - A /\ i = u - 2 * H
        BY <1>4, <1>5, <1>6, <1>7, <2>3
      <3> QED BY <1>2, <1>3, <1>4, <1>7, <2>1, <2>2, <3>1
    <2>4. CASE ~(i < 0)
      BY <1>6, <1>7, <2>2, <2>4
    <2> QED BY <2>3, <2>4
  <1>10. d = IF i < 0 THEN hi - A ELSE hi
    OBVIOUS
  <1> HIDE DEF d, hi, lo
  <1>11. /\ A = 2 ^ j /\ M = 2 ^ (t.bits - j) /\ A * M = 2 * Half(t)
         /\ i = M * d + lo /\ uT(t, i) = M * hi + lo
         /\ d = IF i < 0 THEN hi - A ELSE hi
    BY <1>3, <1>7, <1>9, <1>10 DEF A, M, u
  <1> QED BY <1>2, <1>7, <1>8, <1>9, <1>11 DEF InParts

LEMMA RotateIs ==
  ASSUME NEW t \in Type, NEW i \in T(t), NEW j \in T(t), NEW k, NEW r \in rotate(t, i, j)
  PROVE  r \in T(t) /\ Says("rotate", t, i, j, k, r)
  <1> DEFINE far == j \notin (IF t.promoted THEN 0..t.bits ELSE 1..t.bits - 1)
  <1>1. CASE far
    <2>1. r \in T(t)
      BY <1>1 DEF rotate
    <2>2. ~Defined("rotate", t, i, j, k)
      BY <1>1 DEF Defined
    <2> QED BY <2>1, <2>2 DEF Says
  <1>2. CASE ~far
    <2>1. j \in 0..t.bits /\ t.bits \in Nat /\ t.bits >= 2
      <3>1. t.bits \in Nat /\ t.bits >= 2
        BY DEF Type
      <3> QED BY <1>2, <3>1
    <2>2. PICK A \in Nat \ {0}, M \in Nat \ {0}, d \in Int : \E hi \in 0..A - 1, lo \in 0..M - 1 :
           /\ A = 2 ^ j /\ M = 2 ^ (t.bits - j) /\ A * M = 2 * Half(t)
           /\ i = M * d + lo /\ uT(t, i) = M * hi + lo
           /\ d = IF i < 0 THEN hi - A ELSE hi
      <3>1. InParts(t, i, j)
        BY <2>1, RotateParts
      <3> QED BY <3>1 DEF InParts
    <2>3. PICK hi \in 0..A - 1, lo \in 0..M - 1 :
           /\ A = 2 ^ j /\ M = 2 ^ (t.bits - j) /\ A * M = 2 * Half(t)
           /\ i = M * d + lo /\ uT(t, i) = M * hi + lo
           /\ d = IF i < 0 THEN hi - A ELSE hi
      BY <2>2
    <2> DEFINE W == 2 * Half(t)
               e == IF i < 0 THEN A * (M - 1) + hi ELSE hi
               s == IF i < 0 THEN M - 1 ELSE lo
    <2>4. W \in Nat \ {0} /\ W = A * M /\ i \in Int /\ hi \in Int /\ lo \in Int /\ j \in Nat /\ j <= t.bits
      BY <2>1, <2>3, Sizes, Limits
    <2>5. \A x \in 0..M - 1 : A * x + hi \in 0..W - 1 /\ A * x \in 0..W - 1
      <3> TAKE x \in 0..M - 1
      <3>1. A * x <= A * (M - 1) /\ A * 0 <= A * x
        BY <2>2, Times
      <3>2. A * (M - 1) = A * M - A /\ A * 0 = 0 /\ A * x \in Int
        BY <2>2
      <3> HIDE DEF W
      <3> QED BY <2>2, <2>3, <2>4, <3>1, <3>2
    <2>6. r = Convert(t, Of(t, Bits(t, i * A) \cup Bits(t, i \div M)))
      BY <1>2, <2>3 DEF rotate
    <2>7. i * A = W * d + A * lo
      <3>1. (M * d + lo) * A = (A * M) * d + A * lo
        BY <2>2, <2>4
      <3> QED BY <2>3, <3>1
    <2>8. i \div M = d
      BY <2>2, <2>3, DivUnique
    <2> HIDE DEF W
    <2>9. uT(t, i * A) = A * lo
      <3>1. A * lo \in Int /\ A * lo \in 0..W - 1
        BY <2>2, <2>4, <2>5
      <3>2. uT(t, W * d + A * lo) = uT(t, A * lo)
        BY <2>2, <3>1, Unsigned DEF W
      <3>3. uT(t, A * lo) = A * lo
        BY <3>1, Unsigned DEF W
      <3> QED BY <2>7, <3>2, <3>3
    <2>10. uT(t, d) = e /\ e \in Int
      <3>1. CASE i < 0
        <4>1. A * (M - 1) + hi \in Int /\ A * (M - 1) + hi \in 0..W - 1
          BY <2>2, <2>4, <2>5
        <4>2. A * (M - 1) = W - A
          BY <2>2, <2>4
        <4>3. W * 1 + d = A * (M - 1) + hi
          BY <2>2, <2>3, <2>4, <3>1, <4>2
        <4>4. uT(t, W * 1 + d) = uT(t, d)
          BY <2>2, Unsigned DEF W
        <4>5. uT(t, A * (M - 1) + hi) = A * (M - 1) + hi
          BY <4>1, Unsigned DEF W
        <4>6. uT(t, d) = A * (M - 1) + hi
          BY <4>3, <4>4, <4>5
        <4> QED BY <3>1, <4>1, <4>6
      <3>2. CASE ~(i < 0)
        <4>1. hi \in 0..W - 1
          <5>1. A * 0 + hi \in 0..W - 1 /\ A * 0 + hi = hi
            BY <2>2, <2>4, <2>5
          <5> QED BY <5>1
        <4>2. uT(t, hi) = hi
          BY <2>4, <4>1, Unsigned DEF W
        <4>3. d = hi
          BY <2>3, <3>2
        <4> QED BY <2>4, <3>2, <4>2, <4>3
      <3> QED BY <3>1, <3>2
    <2>11. s \in 0..M - 1 /\ s \in Int
      BY <2>2, <2>4
    <2>12. Bits(t, i * A) \cup Bits(t, i \div M) = Bits(t, A * s + hi)
      <3> DEFINE n == t.bits
                 x == A * s + hi
      <3>1. i * A \in Int /\ d \in Int /\ x \in Int /\ x \in 0..W - 1
        BY <2>2, <2>4, <2>5, <2>11
      <3>2. Bits(t, i * A) = {b \in 0..n - 1 : Bit(A * lo, b) = 1}
        BY <2>9, <3>1, BitsAre
      <3>3. Bits(t, i \div M) = {b \in 0..n - 1 : Bit(e, b) = 1}
        BY <2>8, <2>10, <3>1, BitsAre
      <3>4. uT(t, x) = x
        BY <3>1, Unsigned DEF W
      <3>5. Bits(t, x) = {b \in 0..n - 1 : Bit(x, b) = 1}
        BY <3>1, <3>4, BitsAre
      <3>6. \A b \in 0..n - 1 : Bit(x, b) = 1 <=> Bit(A * lo + 0, b) = 1 \/ Bit(e, b) = 1
        <4>1. (e = hi /\ s = lo) \/ (e = A * (M - 1) + hi /\ s = M - 1)
          OBVIOUS
        <4>2. A = 2 ^ j /\ M = 2 ^ (t.bits - j)
          BY <2>3
        <4> HIDE DEF e, s
        <4>3. OrIs(n, A * s + hi, A * lo + 0, e)
          <5> HIDE DEF x
          <5> QED BY <2>1, <2>4, <4>1, <4>2, OrBits
        <4> QED BY <4>3 DEF OrIs
      <3>7. A * lo + 0 = A * lo
        BY <2>2, <2>4
      <3> HIDE DEF x, e, n
      <3>8. Bits(t, i * A) \cup Bits(t, i \div M) = Bits(t, x)
        BY <3>2, <3>3, <3>5, <3>6, <3>7
      <3> QED BY <3>8 DEF x
    <2>13. r = Convert(t, A * s + hi)
      <3>1. Of(t, Bits(t, A * s + hi)) = A * s + hi
        BY <2>5, <2>11, OfIs DEF W
      <3> QED BY <2>6, <2>12, <3>1
    <2>14. r \in T(t)
      <3>1. A * s + hi \in Int
        BY <2>2, <2>4, <2>11
      <3> QED BY <2>13, <3>1, Conversion
    <2>15. Reference("rotate", t, i, j, k) = Convert(t, A * lo + hi)
      <3>1. Reference("rotate", t, i, j, k) = Rotated(t, i, j)
        BY DEF Reference
      <3>2. CASE j < t.bits
        <4>1. j % t.bits = j
          BY <2>1, <2>4, <3>2
        <4>2. Rotated(t, i, j) = Convert(t, ((uT(t, i) * A) % W) + (uT(t, i) \div M))
          BY <2>3, <4>1, Sizes DEF Rotated, W
        <4>3. uT(t, i) * A = W * hi + A * lo
          <5>1. (M * hi + lo) * A = (A * M) * hi + A * lo
            BY <2>2, <2>4
          <5> QED BY <2>3, <2>4, <5>1
        <4>4. (W * hi + A * lo) % W = A * lo
          BY <2>4, <2>5, DivUnique
        <4>5. uT(t, i) \div M = hi
          <5>1. (M * hi + lo) \div M = hi
            BY <2>4, DivUnique
          <5>2. uT(t, i) = M * hi + lo
            BY <2>3
          <5> QED BY <5>1, <5>2
        <4> QED BY <3>1, <4>2, <4>3, <4>4, <4>5
      <3>3. CASE j = t.bits
        <4>1. j % t.bits = 0
          BY <2>1, <3>3
        <4>2. Rotated(t, i, j)
                = Convert(t, ((uT(t, i) * 2 ^ 0) % 2 ^ t.bits) + (uT(t, i) \div 2 ^ (t.bits - 0)))
          BY <4>1 DEF Rotated
        <4>3. M = 1 /\ A = W /\ lo = 0
          <5>1. t.bits - j = 0 /\ 2 ^ 0 = 1
            BY <2>1, <3>3
          <5>2. M = 1
            BY <2>3, <5>1
          <5> QED BY <2>2, <2>3, <2>4, <5>2
        <4>4. uT(t, i) = hi /\ hi \in 0..W - 1 /\ A * lo + hi = hi
          BY <2>2, <2>3, <2>4, <4>3
        <4>5. 2 ^ 0 = 1 /\ t.bits - 0 = t.bits /\ 2 ^ t.bits = W
          BY <2>1, Sizes DEF W
        <4>6. hi % W = hi /\ hi \div W = 0
          <5>1. (W * 0 + hi) % W = hi /\ (W * 0 + hi) \div W = 0
            BY <2>4, <4>4, DivUnique
          <5>2. W * 0 + hi = hi
            BY <2>4
          <5> QED BY <5>1, <5>2
        <4>7. hi * 1 = hi /\ hi + 0 = hi
          BY <2>4
        <4>8. Rotated(t, i, j) = Convert(t, ((hi * 1) % W) + (hi \div W))
          BY <4>2, <4>4, <4>5
        <4> QED BY <3>1, <4>4, <4>6, <4>7, <4>8
      <3> QED BY <2>1, <3>2, <3>3
    <2>16. Right("rotate", t, i, j, k) <=> s = lo
      <3>1. i % M = lo
        BY <2>2, <2>3, DivUnique
      <3>2. Right("rotate", t, i, j, k) <=> (i < 0 => lo = M - 1)
        BY <2>3, <3>1 DEF Right
      <3> QED BY <3>2
    <2>17. r = Reference("rotate", t, i, j, k) <=> s = lo
      <3> HIDE DEF s
      <3>1. ASSUME r = Reference("rotate", t, i, j, k) PROVE s = lo
        <4>1. A * s + hi \in 0..W - 1 /\ A * lo + hi \in 0..W - 1
          BY <2>5, <2>11
        <4>2. A * s + hi \in Int /\ A * lo + hi \in Int
          BY <2>4, <4>1
        <4>3. uT(t, A * s + hi) = uT(t, A * lo + hi)
          BY <2>13, <2>15, <3>1, <4>2, Conversion
        <4>4. A * s + hi = A * lo + hi
          BY <4>1, <4>2, <4>3, Unsigned DEF W
        <4> QED BY <2>2, <2>4, <2>11, <4>4, Less
      <3> QED BY <2>13, <2>15, <3>1
    <2> QED BY <2>14, <2>16, <2>17 DEF Says
  <1> QED BY <1>1, <1>2

-----------------------------------------------------------------------------
(* The loops of clz and popcount                                           *)

\* The first bit of a number that is set, by what shifts it to the top.
LEMMA LeadingIs ==
  ASSUME NEW t \in Type, NEW x \in Int, NEW z \in Nat,
         uT(t, x) * 2 ^ z >= Half(t), uT(t, x) * 2 ^ z < 2 * Half(t)
  PROVE  z \in 0..t.bits /\ Leading(t, x) = z
  <1> DEFINE u == uT(t, x)
             n == t.bits
             Z == 2 ^ z
  <1>1. /\ n \in Nat /\ n >= 2 /\ Half(t) \in Nat /\ 2 ^ n = 2 * Half(t)
        /\ u \in Nat /\ u <= 2 * Half(t) - 1 /\ Z \in Nat \ {0}
        /\ u * Z >= Half(t) /\ u * Z < 2 * Half(t)
    <2>1. n \in Nat /\ n >= 2
      BY DEF Type
    <2>2. u \in 0..2 * Half(t) - 1
      BY Unsigned
    <2>3. Z \in Nat \ {0}
      BY Pow
    <2> QED BY <2>1, <2>2, <2>3, Sizes
  <1>2. u # 0
    BY <1>1, Sizes
  <1>3. z < n
    <2>1. Z <= u * Z
      <3>1. Z * 1 <= Z * u
        BY <1>1, <1>2, Times
      <3> QED BY <1>1, <3>1
    <2>2. Z < 2 ^ n
      BY <1>1, <2>1
    <2>3. n < z => 2 * 2 ^ n <= Z
      BY <1>1, PowGrows
    <2>4. n = z => Z = 2 ^ n
      OBVIOUS
    <2> HIDE DEF n, Z
    <2> QED BY <1>1, <2>2, <2>3, <2>4
  <1> DEFINE p == n - (z + 1)
             P == 2 ^ p
  <1>4. p \in Nat /\ n = (p + 1) + z /\ p + 1 \in Nat /\ n - 1 = p + z /\ p \in 0..n - 1
    BY <1>1, <1>3
  <1>5. P \in Nat \ {0} /\ 2 ^ (p + 1) = 2 * P
    BY <1>4, Pow, PowStep
  <1>6. 2 * Half(t) = (2 * P) * Z /\ Half(t) = P * Z
    <2>1. Half(t) = 2 ^ (p + z)
      BY <1>4 DEF Half
    <2>2. 2 ^ (p + z) = P * Z
      <3> HIDE DEF p
      <3> QED BY <1>4, PowPlus
    <2>3. 2 * (P * Z) = (2 * P) * Z
      BY <1>1, <1>5
    <2> QED BY <2>1, <2>2, <2>3
  <1> HIDE DEF u, n, Z, P, p
  <1>7. P <= u /\ u < 2 * P
    <2>1. u < P => Z * u <= Z * (P - 1)
      BY <1>1, <1>5, Times
    <2>2. Z * (P - 1) = P * Z - Z /\ Z * u = u * Z /\ P * Z \in Nat /\ u * Z \in Nat
      BY <1>1, <1>5
    <2>3. u >= 2 * P => Z * (2 * P) <= Z * u
      BY <1>1, <1>5, Times
    <2>4. Z * (2 * P) = (2 * P) * Z
      BY <1>1, <1>5
    <2> QED BY <1>1, <1>5, <1>6, <2>1, <2>2, <2>3, <2>4
  <1>8. Bit(u, p) = 1
    <2> DEFINE l == u - P
    <2>1. l \in 0..2 ^ p - 1 /\ 2 ^ p * 1 + l = u
      BY <1>1, <1>5, <1>7 DEF P
    <2> HIDE DEF l
    <2>2. Bit(2 ^ p * 1 + l, p) = Bit(1, p - p)
      <3>1. \A h \in Int : Bit(2 ^ p * h + l, p) = Bit(h, p - p)
        <4> TAKE h \in Int
        <4>1. p <= p
          BY <1>4
        <4> QED BY <1>4, <2>1, <4>1, HighBits
      <3>2. 1 \in Int
        OBVIOUS
      <3> QED BY <3>1, <3>2, Zenon
    <2>3. Bit(1, p - p) = 1
      <3>1. p - p = 0 /\ 2 ^ 0 = 1
        BY <1>4
      <3>2. Bit(1, 0) = (1 \div 1) % 2
        BY <3>1 DEF Bit
      <3> QED BY <3>1, <3>2
    <2> QED BY <2>1, <2>2, <2>3
  <1>9. \A c \in p + 1..n - 1 : Bit(u, c) = 0
    <2> TAKE c \in p + 1..n - 1
    <2>1. c \in Nat /\ p + 1 <= c
      BY <1>1, <1>4
    <2>2. u \in 0..2 ^ (p + 1) - 1
      BY <1>1, <1>5, <1>7
    <2> QED BY <1>4, <2>1, <2>2, BitsSmall
  <1>10. Bits(t, x) = {b \in 0..n - 1 : Bit(u, b) = 1}
    BY BitsAre DEF u, n
  <1>11. {b \in 0..n - 1 : \A c \in b..n - 1 : c \notin Bits(t, x)} = p + 1..n - 1
    <2>1. ASSUME NEW b \in 0..n - 1, b <= p PROVE p \in b..n - 1 /\ p \in Bits(t, x)
      BY <1>1, <1>4, <1>8, <1>10, <2>1
    <2>2. ASSUME NEW b \in 0..n - 1, ~(b <= p) PROVE b \in p + 1..n - 1
      BY <1>1, <1>4, <2>2
    <2>3. ASSUME NEW b \in p + 1..n - 1 PROVE b \in 0..n - 1 /\ \A c \in b..n - 1 : c \notin Bits(t, x)
      <3>1. b \in 0..n - 1 /\ \A c \in b..n - 1 : c \in p + 1..n - 1
        BY <1>1, <1>4, <2>3
      <3> QED BY <1>9, <1>10, <3>1
    <2> QED BY <2>1, <2>2, <2>3
  <1>12. Cardinality(p + 1..n - 1) = z
    <2>1. p + 1 \in Int /\ n - 1 \in Int
      BY <1>1, <1>4
    <2>2. Cardinality(p + 1..n - 1) = IF p + 1 > n - 1 THEN 0 ELSE n - 1 - (p + 1) + 1
      BY <2>1, FS_Interval
    <2> QED BY <1>4, <2>2
  <1>13. Leading(t, x) = z
    BY <1>11, <1>12 DEF Leading, n
  <1>14. z \in 0..n
    BY <1>1, <1>3
  <1> QED BY <1>13, <1>14 DEF n

\* What the loop of clz keeps: the number shifted by the count.
ClzInv(t, x, b, m) == m \in Nat /\ b \in Nat /\ b < 2 * Half(t) /\ b = uT(t, x) * 2 ^ m

LEMMA ClzStep ==
  ASSUME NEW t \in Types, NEW x \in T(t), NEW b, NEW m \in 0..MaxCount, ClzInv(t, x, b, m), b < mask(t)
  PROVE  ClzInv(t, x, uT(t, b * 2), Count(m))
  <1>1. t \in Type /\ MaxCount \in Nat /\ t.bits <= MaxCount /\ t.bits \in Nat
    BY TypesAre DEF Type
  <1>2. mask(t) = Half(t) /\ Half(t) \in Nat
    BY <1>1, Sizes
  <1>3. m \in Nat /\ b \in Nat /\ b < Half(t) /\ b = uT(t, x) * 2 ^ m
    BY <1>2 DEF ClzInv
  <1>4. uT(t, b * 2) = b * 2 /\ b * 2 \in Nat /\ b * 2 < 2 * Half(t)
    <2>1. b * 2 \in 0..2 * Half(t) - 1 /\ b * 2 \in Int
      BY <1>2, <1>3
    <2>2. uT(t, b * 2) = b * 2
      BY <1>1, <2>1, Unsigned
    <2> QED BY <1>2, <1>3, <2>2
  <1>5. uT(t, x) \in Nat
    <2>1. x \in Int
      BY <1>1, Limits
    <2>2. uT(t, x) \in 0..2 * Half(t) - 1
      BY <1>1, <2>1, Unsigned
    <2> QED BY <1>2, <2>2
  <1>6. Count(m) \in Nat
    BY <1>1, <1>3 DEF Count
  <1>7. CASE uT(t, x) = 0
    <2>1. 2 ^ m \in Nat /\ 2 ^ Count(m) \in Nat
      BY <1>3, <1>6, Pow
    <2>2. 0 * 2 ^ m = 0 /\ 0 * 2 ^ Count(m) = 0
      BY <2>1
    <2>3. b = 0
      BY <1>3, <1>7, <2>2
    <2> QED BY <1>4, <1>6, <1>7, <2>2, <2>3 DEF ClzInv
  <1>8. CASE uT(t, x) # 0
    <2>1. 2 ^ m <= b
      <3> DEFINE Z == 2 ^ m
                 u == uT(t, x)
      <3>1. Z \in Nat /\ u \in Nat /\ u >= 1
        BY <1>3, <1>5, <1>8, Pow
      <3> HIDE DEF Z, u
      <3>2. Z * 1 <= Z * u
        BY <3>1, Times
      <3>3. Z * 1 = Z /\ Z * u = u * Z
        BY <3>1
      <3> QED BY <1>3, <3>2, <3>3 DEF Z, u
    <2>2. m < t.bits - 1
      <3> DEFINE c == t.bits - 1
      <3>1. c \in Nat /\ Half(t) = 2 ^ c
        BY <1>1 DEF Half, Type
      <3> HIDE DEF c
      <3>2. c < m => 2 * 2 ^ c <= 2 ^ m
        BY <1>3, <3>1, PowGrows
      <3>3. c = m => 2 ^ c = 2 ^ m
        OBVIOUS
      <3>4. 2 ^ m \in Nat
        BY <1>3, Pow
      <3>5. m < c
        BY <1>2, <1>3, <2>1, <3>1, <3>2, <3>3, <3>4
      <3> QED BY <3>5 DEF c
    <2>3. Count(m) = m + 1
      BY <1>1, <1>3, <2>2 DEF Count
    <2>4. b * 2 = uT(t, x) * 2 ^ (m + 1)
      <3> DEFINE Z == 2 ^ m
                 u == uT(t, x)
      <3>1. Z \in Nat /\ u \in Nat /\ 2 ^ (m + 1) = 2 * Z /\ b = u * Z
        BY <1>3, <1>5, Pow, PowStep
      <3> HIDE DEF Z, u
      <3>2. (u * Z) * 2 = u * (2 * Z)
        BY <3>1
      <3> QED BY <3>1, <3>2 DEF u
    <2> QED BY <1>4, <1>6, <2>3, <2>4 DEF ClzInv
  <1> QED BY <1>7, <1>8

LEMMA ClzIs ==
  ASSUME NEW t \in Type, NEW x \in T(t), NEW b, NEW m, ClzInv(t, x, b, m), b >= mask(t), NEW j, NEW k
  PROVE  m \in 0..t.bits /\ x # 0 /\ Says("clz", t, x, j, k, m)
  <1>1. mask(t) = Half(t) /\ x \in Int /\ 0 \in 0..2 * Half(t) - 1 /\ Half(t) \in Nat /\ Half(t) >= 2
    BY Sizes, Limits
  <1>2. m \in Nat /\ uT(t, x) * 2 ^ m >= Half(t) /\ uT(t, x) * 2 ^ m < 2 * Half(t)
    BY <1>1 DEF ClzInv
  <1>3. m \in 0..t.bits /\ Leading(t, x) = m
    BY <1>1, <1>2, LeadingIs
  <1>4. x # 0
    <2> SUFFICES ASSUME x = 0 PROVE FALSE
      OBVIOUS
    <2>1. uT(t, x) = 0
      BY <1>1, Unsigned
    <2>2. 2 ^ m \in Nat
      BY <1>2, Pow
    <2>3. 0 * 2 ^ m = 0
      BY <2>2
    <2> QED BY <1>1, <1>2, <2>1, <2>3
  <1>5. Reference("clz", t, x, j, k) = Leading(t, x) /\ Right("clz", t, x, j, k)
    BY DEF Reference, Right
  <1> QED BY <1>3, <1>4, <1>5 DEF Says

\* What the loop of popcount keeps: how many of the bits that it has shifted out
\* are set.  A negative number stays one.
PopcountInv(t, x, b, m) ==
  IF x >= 0
  THEN \E s \in 0..t.bits : b = x \div 2 ^ s /\ m = Cardinality(Bits(t, x) \cap (0..s - 1))
  ELSE b \in Int /\ b < 0

LEMMA BitsOf ==
  ASSUME NEW t \in Type, NEW x \in T(t), x >= 0
  PROVE  /\ t.bits \in Nat /\ t.bits >= 2 /\ x \in 0..2 ^ t.bits - 1
         /\ Bits(t, x) = {b \in 0..t.bits - 1 : Bit(x, b) = 1}
         /\ \A s \in 0..t.bits : /\ IsFiniteSet(Bits(t, x) \cap (0..s - 1))
                                 /\ Cardinality(Bits(t, x) \cap (0..s - 1)) \in 0..s
  <1>1. t.bits \in Nat /\ t.bits >= 2
    BY DEF Type
  <1>2. x \in Int /\ x \in 0..2 * Half(t) - 1 /\ 2 ^ t.bits = 2 * Half(t)
    <2>1. PICK H \in Nat, lo \in Int, hi \in Int :
           /\ H = Half(t) /\ lo = Lowest(t) /\ hi = Highest(t)
           /\ H >= 2 /\ hi % 2 = 1 /\ 2 ^ t.bits = 2 * H
           /\ lo <= 0 /\ hi >= 1 /\ hi - lo = 2 * H - 1
           /\ (t.signed /\ lo = -H) \/ (~t.signed /\ lo = 0)
      BY Numbers
    <2>2. x \in Int /\ x <= hi
      BY <2>1, Limits
    <2> QED BY <2>1, <2>2
  <1>3. uT(t, x) = x
    BY <1>2, Unsigned
  <1>4. Bits(t, x) = {b \in 0..t.bits - 1 : Bit(x, b) = 1}
    BY <1>2, <1>3, BitsAre
  <1>5. ASSUME NEW s \in 0..t.bits
        PROVE  /\ IsFiniteSet(Bits(t, x) \cap (0..s - 1))
               /\ Cardinality(Bits(t, x) \cap (0..s - 1)) \in 0..s
    <2> DEFINE B == Bits(t, x) \cap (0..s - 1)
    <2>1. IsFiniteSet(0..s - 1) /\ Cardinality(0..s - 1) = s
      <3>1. 0 \in Int /\ s - 1 \in Int /\ s \in Nat
        BY <1>1
      <3>2. IsFiniteSet(0..s - 1) /\ Cardinality(0..s - 1) = IF 0 > s - 1 THEN 0 ELSE s - 1 - 0 + 1
        BY <3>1, FS_Interval
      <3> QED BY <3>1, <3>2
    <2>2. B \in SUBSET (0..s - 1)
      OBVIOUS
    <2>3. IsFiniteSet(B) /\ Cardinality(B) <= s
      BY <2>1, <2>2, FS_Subset
    <2>4. Cardinality(B) \in Nat
      BY <2>3, FS_CardinalityType
    <2> QED BY <1>1, <2>3, <2>4
  <1> QED BY <1>1, <1>2, <1>4, <1>5

LEMMA PopcountStep ==
  ASSUME NEW t \in Types, NEW x \in T(t), NEW b, NEW m \in 0..MaxCount, PopcountInv(t, x, b, m), b # 0
  PROVE  PopcountInv(t, x, b \div 2, IF b % 2 = 1 THEN Count(m) ELSE m)
  <1>1. t \in Type /\ MaxCount \in Nat /\ t.bits <= MaxCount /\ x \in Int
    BY TypesAre, Limits
  <1>2. CASE x < 0
    <2>1. ~(x >= 0) /\ b \in Int /\ b < 0
      BY <1>1, <1>2 DEF PopcountInv
    <2>2. b \div 2 \in Int /\ b \div 2 < 0
      BY <2>1
    <2> QED BY <2>1, <2>2 DEF PopcountInv
  <1>3. CASE x >= 0
    <2> DEFINE B(s) == Bits(t, x) \cap (0..s - 1)
    <2>1. PICK s \in 0..t.bits : b = x \div 2 ^ s /\ m = Cardinality(B(s))
      BY <1>3 DEF PopcountInv
    <2>2. /\ t.bits \in Nat /\ t.bits >= 2 /\ x \in 0..2 ^ t.bits - 1
          /\ Bits(t, x) = {c \in 0..t.bits - 1 : Bit(x, c) = 1}
          /\ IsFiniteSet(B(s)) /\ Cardinality(B(s)) \in 0..s
      BY <1>1, <1>3, BitsOf
    <2>3. s < t.bits /\ s \in Nat
      <3> SUFFICES ASSUME s = t.bits PROVE FALSE
        BY <2>2
      <3>1. x \div 2 ^ t.bits = 0
        <4>1. t.bits <= t.bits
          BY <2>2
        <4> QED BY <2>2, <4>1, BitsSmall
      <3> QED BY <2>1, <3>1
    <2>4. b \div 2 = x \div 2 ^ (s + 1)
      <3> DEFINE D == 2 ^ s
      <3>1. D \in Nat \ {0} /\ 2 ^ (s + 1) = 2 * D
        BY <2>3, Pow, PowStep
      <3> HIDE DEF D
      <3>2. (x \div D) \div 2 = x \div (D * 2)
        <4>1. 2 \in Nat \ {0}
          OBVIOUS
        <4> QED BY <1>1, <3>1, <4>1, DivDiv, Zenon
      <3>3. D * 2 = 2 * D
        BY <3>1
      <3> QED BY <2>1, <3>1, <3>2, <3>3 DEF D
    <2>5. b % 2 = 1 <=> s \in Bits(t, x)
      <3>1. s \in 0..t.bits - 1
        BY <2>2, <2>3
      <3> QED BY <2>1, <2>2, <3>1 DEF Bit
    <2>6. Count(m) = m + 1
      BY <1>1, <2>1, <2>2, <2>3 DEF Count
    <2>7. Cardinality(B(s + 1)) = IF b % 2 = 1 THEN Count(m) ELSE m
      <3>1. CASE s \in Bits(t, x)
        <4>1. B(s + 1) = B(s) \cup {s} /\ s \notin B(s)
          BY <2>3, <3>1
        <4> HIDE DEF B
        <4>2. Cardinality(B(s) \cup {s}) = Cardinality(B(s)) + 1
          BY <2>2, <4>1, FS_AddElement
        <4> QED BY <2>1, <2>5, <2>6, <3>1, <4>1, <4>2
      <3>2. CASE s \notin Bits(t, x)
        <4>1. B(s + 1) = B(s)
          BY <2>3, <3>2
        <4> HIDE DEF B
        <4> QED BY <2>1, <2>5, <3>2, <4>1
      <3> QED BY <3>1, <3>2
    <2>8. s + 1 \in 0..t.bits
      BY <2>2, <2>3
    <2> QED BY <1>3, <2>4, <2>7, <2>8 DEF PopcountInv
  <1> QED BY <1>1, <1>2, <1>3

LEMMA PopcountIs ==
  ASSUME NEW t \in Type, NEW x \in T(t), NEW b, NEW m, PopcountInv(t, x, b, m), b = 0, NEW j, NEW k
  PROVE  m \in 0..t.bits /\ x >= 0 /\ Says("popcount", t, x, j, k, m)
  <1>1. x \in Int
    BY Limits
  <1>2. x >= 0
    <2>1. x < 0 => ~(x >= 0)
      BY <1>1
    <2> QED BY <1>1, <2>1 DEF PopcountInv
  <1> DEFINE B(s) == Bits(t, x) \cap (0..s - 1)
  <1>3. PICK s \in 0..t.bits : b = x \div 2 ^ s /\ m = Cardinality(B(s))
    BY <1>2 DEF PopcountInv
  <1>4. /\ t.bits \in Nat /\ t.bits >= 2 /\ x \in 0..2 ^ t.bits - 1
        /\ Bits(t, x) = {c \in 0..t.bits - 1 : Bit(x, c) = 1}
        /\ Cardinality(B(s)) \in 0..s
    BY <1>2, BitsOf
  <1>5. ASSUME NEW c \in s..t.bits - 1 PROVE Bit(x, c) = 0
    <2> DEFINE d == c - s
               D == 2 ^ d
               S == 2 ^ s
    <2>1. s \in Nat /\ d \in Nat /\ c = s + d
      BY <1>4
    <2>2. D \in Nat \ {0} /\ S \in Nat \ {0} /\ 2 ^ c = S * D
      <3>1. 2 ^ (s + d) = 2 ^ s * 2 ^ d
        <4> HIDE DEF d
        <4> QED BY <2>1, PowPlus
      <3> QED BY <2>1, <3>1, Pow
    <2> HIDE DEF d, D, S
    <2>3. (x \div S) \div D = x \div (S * D)
      BY <1>1, <2>2, DivDiv
    <2>4. x \div S = 0
      BY <1>3 DEF S
    <2>5. 0 \div D = 0
      <3>1. (D * 0 + 0) \div D = 0
        BY <2>2, DivUnique
      <3>2. D * 0 + 0 = 0
        BY <2>2
      <3> QED BY <3>1, <3>2
    <2>6. x \div 2 ^ c = 0
      BY <2>2, <2>3, <2>4, <2>5
    <2>7. Bit(x, c) = 0 % 2
      BY <2>6 DEF Bit
    <2> QED BY <2>7
  <1>6. B(s) = Bits(t, x)
    <2>1. ASSUME NEW c \in Bits(t, x) PROVE c \in 0..s - 1
      <3>1. c \in 0..t.bits - 1 /\ Bit(x, c) = 1
        BY <1>4
      <3>2. ~(c \in s..t.bits - 1)
        BY <1>5, <3>1
      <3> QED BY <1>4, <3>1, <3>2
    <2> QED BY <2>1
  <1>7. Reference("popcount", t, x, j, k) = Cardinality(Bits(t, x)) /\ Right("popcount", t, x, j, k)
    BY DEF Reference, Right
  <1> HIDE DEF B
  <1>8. m \in 0..t.bits
    BY <1>3, <1>4
  <1> QED BY <1>2, <1>3, <1>6, <1>7, <1>8 DEF Says

-----------------------------------------------------------------------------
(* Operators                                                               *)

LEMMA QuotientIs ==
  ASSUME NEW a \in Int, NEW b \in Int, b # 0
  PROVE  /\ Quotient(a, b) \in Int
         /\ a >= 0 => a - (b * Quotient(a, b)) \in 0..a
         /\ a < 0 => -(a - (b * Quotient(a, b))) \in 0..-a
         /\ a = b => Quotient(a, b) = 1
  <1> DEFINE m == IF a < 0 THEN -a ELSE a
             n == IF b < 0 THEN -b ELSE b
             q == m \div n
             r == m % n
  <1>1. m \in Nat /\ n \in Nat \ {0}
    OBVIOUS
  <1>2. Quotient(a, b) = IF (a < 0) = (b < 0) THEN q ELSE -q
    BY DEF Quotient
  <1>3. (a < 0 => a = -m) /\ (~(a < 0) => a = m) /\ (b < 0 => b = -n) /\ (~(b < 0) => b = n)
    OBVIOUS
  <1> HIDE DEF m, n
  <1>4. q \in Int /\ r \in 0..n - 1 /\ m = n * q + r
    BY <1>1, DivMod
  <1>5. r <= m
    <2>1. q \in Nat
      BY <1>1, Multiples
    <2>2. n * q \in Nat
      BY <1>1, <2>1
    <2> HIDE DEF q, r
    <2> QED BY <1>1, <1>4, <2>2
  <1>6. n * 1 + 0 = n /\ (n * 1 + 0) \div n = 1
    <2>1. 0 \in 0..n - 1 /\ 1 \in Int
      BY <1>1
    <2> QED BY <1>1, <2>1, DivUnique
  <1>7. m = n => q = 1
    BY <1>6
  <1> HIDE DEF q, r
  <1>8. n * (-q) = -(n * q) /\ (-n) * q = -(n * q) /\ (-n) * (-q) = n * q /\ n * q \in Int
    BY <1>1, <1>4
  <1>9. CASE a < 0 /\ b < 0
    <2>1. Quotient(a, b) = q /\ a = -m /\ b = -n
      BY <1>2, <1>3, <1>9
    <2>2. a - (b * q) = -r
      BY <1>1, <1>4, <1>8, <2>1
    <2> QED BY <1>1, <1>4, <1>5, <1>7, <1>9, <2>1, <2>2
  <1>10. CASE a < 0 /\ ~(b < 0)
    <2>1. Quotient(a, b) = -q /\ a = -m /\ b = n
      BY <1>2, <1>3, <1>10
    <2>2. a - (b * (-q)) = -r
      BY <1>1, <1>4, <1>8, <2>1
    <2> QED BY <1>1, <1>4, <1>5, <1>10, <2>1, <2>2
  <1>11. CASE ~(a < 0) /\ b < 0
    <2>1. Quotient(a, b) = -q /\ a = m /\ b = -n
      BY <1>2, <1>3, <1>11
    <2>2. a - (b * (-q)) = r
      BY <1>1, <1>4, <1>8, <2>1
    <2> QED BY <1>1, <1>4, <1>5, <1>11, <2>1, <2>2
  <1>12. CASE ~(a < 0) /\ ~(b < 0)
    <2>1. Quotient(a, b) = q /\ a = m /\ b = n
      BY <1>2, <1>3, <1>12
    <2>2. a - (b * q) = r
      BY <1>1, <1>4, <1>8, <2>1
    <2> QED BY <1>1, <1>4, <1>5, <1>7, <1>12, <2>1, <2>2
  <1> QED BY <1>9, <1>10, <1>11, <1>12

LEMMA ShiftIn ==
  ASSUME NEW t \in Type, NEW b, NEW n, b \in 0..t.bits - 1 => n \in Int
  PROVE  Shift(t, b, n) \subseteq T(t)
  <1>1. CASE b \in 0..t.bits - 1
    BY <1>1, Conversion DEF Shift
  <1>2. CASE b \notin 0..t.bits - 1
    BY <1>2 DEF Shift
  <1> QED BY <1>1, <1>2

\* An operator gives a number of the type of its operands.
LEMMA OpIn ==
  ASSUME NEW t \in Type, NEW op \in Ops, NEW a \in T(t), NEW b \in T(t)
  PROVE  /\ OP(t, op, a, b) \subseteq T(t)
         /\ op \in {"/", "%"} /\ ~HasQuotient(t, a, b) => OP(t, op, a, b) = {}
         /\ op = "%" /\ a = b => OP(t, op, a, b) \subseteq {0}
  <1>1. a \in Int /\ b \in Int /\ 0 \in T(t) /\ 1 \in T(t) /\ T(t) \subseteq Int
    BY Limits
  <1>2. CASE op \in {"+", "-", "*"}
    <2>1. a + b \in Int /\ a - b \in Int /\ a * b \in Int
      BY <1>1
    <2>2. OP(t, op, a, b) \in {Converted(t, a + b), Converted(t, a - b), Converted(t, a * b)}
      BY <1>2 DEF OP
    <2> QED BY <1>2, <2>1, <2>2, Arithmetic
  <1>3. CASE op = "/"
    <2>1. OP(t, op, a, b) = IF HasQuotient(t, a, b) THEN Converted(t, Quotient(a, b)) ELSE {}
      BY <1>3 DEF OP
    <2>2. HasQuotient(t, a, b) => Quotient(a, b) \in Int
      BY <1>1, QuotientIs DEF HasQuotient
    <2> QED BY <1>3, <2>1, <2>2, Arithmetic
  <1>4. CASE op = "%"
    <2>1. OP(t, op, a, b) = IF HasQuotient(t, a, b) THEN {a - (b * Quotient(a, b))} ELSE {}
      BY <1>4 DEF OP
    <2>2. ASSUME HasQuotient(t, a, b)
          PROVE  /\ a - (b * Quotient(a, b)) \in T(t)
                 /\ a = b => a - (b * Quotient(a, b)) = 0
      <3> DEFINE q == Quotient(a, b)
                 r == a - (b * q)
      <3>1. /\ q \in Int
            /\ a >= 0 => r \in 0..a
            /\ a < 0 => -r \in 0..-a
            /\ a = b => q = 1
        BY <1>1, <2>2, QuotientIs DEF HasQuotient
      <3>2. r \in Int
        BY <1>1, <3>1
      <3>3. a = b => r = 0
        BY <1>1, <3>1
      <3>4. Lowest(t) <= a /\ a <= Highest(t) /\ Lowest(t) <= 0 /\ 0 <= Highest(t)
            /\ Lowest(t) \in Int /\ Highest(t) \in Int
        BY <1>1, Limits
      <3> HIDE DEF r
      <3>5. Lowest(t) <= r /\ r <= Highest(t)
        BY <1>1, <3>1, <3>2, <3>4
      <3>6. r \in T(t)
        BY <3>2, <3>5, Limits
      <3> QED BY <3>3, <3>6 DEF r
    <2> QED BY <2>1, <2>2
  <1>5. CASE op = "<<"
    <2>1. OP(t, op, a, b) = Shift(t, b, a * 2 ^ b)
      BY <1>5 DEF OP
    <2>2. b \in 0..t.bits - 1 => a * 2 ^ b \in Int
      <3> SUFFICES ASSUME b \in 0..t.bits - 1 PROVE a * 2 ^ b \in Int
        OBVIOUS
      <3>1. b \in Nat
        BY DEF Type
      <3>2. 2 ^ b \in Nat
        BY <3>1, Pow
      <3> QED BY <1>1, <3>2
    <2> QED BY <1>5, <2>1, <2>2, ShiftIn
  <1>6. CASE op = ">>"
    <2>1. OP(t, op, a, b) = Shift(t, b, a \div 2 ^ b)
      BY <1>6 DEF OP
    <2>2. b \in 0..t.bits - 1 => a \div 2 ^ b \in Int
      <3> SUFFICES ASSUME b \in 0..t.bits - 1 PROVE a \div 2 ^ b \in Int
        OBVIOUS
      <3>1. b \in Nat
        BY DEF Type
      <3> DEFINE D == 2 ^ b
      <3>2. D \in Nat \ {0}
        BY <3>1, Pow
      <3> HIDE DEF D
      <3>3. a \div D \in Int
        BY <1>1, <3>2, DivMod
      <3> QED BY <3>3 DEF D
    <2> QED BY <1>6, <2>1, <2>2, ShiftIn
  <1>7. CASE op \in {"&", "|", "^"}
    <2> DEFINE A == Bits(t, a)
               B == Bits(t, b)
    <2>1. A \subseteq 0..t.bits - 1 /\ B \subseteq 0..t.bits - 1
      BY DEF Bits
    <2>2. OP(t, op, a, b) \in {{Convert(t, Of(t, A \cap B))}, {Convert(t, Of(t, A \cup B))},
                               {Convert(t, Of(t, (A \cup B) \ (A \cap B)))}}
      BY <1>7 DEF OP
    <2> HIDE DEF A, B
    <2>3. \A C \in SUBSET (0..t.bits - 1) : Convert(t, Of(t, C)) \in T(t)
      <3> TAKE C \in SUBSET (0..t.bits - 1)
      <3>1. Of(t, C) \in 0..2 * Half(t) - 1 /\ Half(t) \in Nat
        BY OfIs, Sizes
      <3>2. Of(t, C) \in Int
        BY <3>1
      <3> QED BY <3>2, Conversion
    <2>4. /\ A \cap B \in SUBSET (0..t.bits - 1) /\ A \cup B \in SUBSET (0..t.bits - 1)
          /\ (A \cup B) \ (A \cap B) \in SUBSET (0..t.bits - 1)
      BY <2>1
    <2> QED BY <1>7, <2>2, <2>3, <2>4
  <1>8. CASE op \in Tests
    <2>1. /\ Bool(a # 0 /\ b # 0) \subseteq T(t) /\ Bool(a # 0 \/ b # 0) \subseteq T(t)
          /\ Bool(a < b) \subseteq T(t) /\ Bool(a > b) \subseteq T(t)
          /\ Bool(a <= b) \subseteq T(t) /\ Bool(a >= b) \subseteq T(t)
      BY <1>1 DEF Bool
    <2>2. OP(t, op, a, b) \in {Bool(a # 0 /\ b # 0), Bool(a # 0 \/ b # 0), Bool(a < b), Bool(a > b),
                               Bool(a <= b), Bool(a >= b)}
      BY <1>8 DEF OP, Tests
    <2>3. OP(t, op, a, b) \subseteq T(t)
      BY <2>1, <2>2, Zenon
    <2> QED BY <1>8, <2>3 DEF Tests
  <1> QED BY <1>2, <1>3, <1>4, <1>5, <1>6, <1>7, <1>8 DEF Ops

\* So does Compute, whichever operand is the left one.
LEMMA ComputeIn ==
  ASSUME NEW c, c.type \in Type, c.op \in Ops, NEW a \in T(c.type), NEW b \in T(c.type)
  PROVE  /\ Compute(c, a, b) \subseteq T(c.type)
         /\ c.op \in {"/", "%"} /\ ~Quoted(c, a, b) => Compute(c, a, b) = {}
  <1>1. CASE Converts(c)
    BY <1>1, OpIn DEF Compute, Quoted
  <1>2. CASE ~Converts(c)
    BY <1>2, OpIn DEF Compute, Quoted
  <1> QED BY <1>1, <1>2

LEMMA OpCommutes ==
  ASSUME NEW t \in Type, NEW op \in Commutes, NEW a \in T(t), NEW b \in T(t)
  PROVE  OP(t, op, a, b) = OP(t, op, b, a)
  <1>1. a + b = b + a /\ a * b = b * a
    BY Limits
  <1>2. Bits(t, a) \cup Bits(t, b) = Bits(t, b) \cup Bits(t, a)
    OBVIOUS
  <1>3. Bits(t, a) \cap Bits(t, b) = Bits(t, b) \cap Bits(t, a)
    OBVIOUS
  <1>4. CASE op = "+"
    BY <1>1, <1>4 DEF OP
  <1>5. CASE op = "*"
    BY <1>1, <1>5 DEF OP
  <1>6. CASE op = "&"
    BY <1>3, <1>6 DEF OP
  <1>7. CASE op = "|"
    BY <1>2, <1>7 DEF OP
  <1>8. CASE op = "^"
    BY <1>2, <1>3, <1>8 DEF OP
  <1>9. CASE op = "&&"
    BY <1>9 DEF OP, Bool
  <1>10. CASE op = "||"
    BY <1>10 DEF OP, Bool
  <1> QED BY <1>4, <1>5, <1>6, <1>7, <1>8, <1>9, <1>10 DEF Commutes

-----------------------------------------------------------------------------
(* One lane of a function                                                  *)

\* The values of the result type of a function.
Results(f, t) ==
  IF f \in {"abs", "abs_diff"} THEN 0..2 ^ t.bits - 1
  ELSE IF f \in Loops THEN 0..t.bits
  ELSE T(t)

\* What is known of a lane that is done.
Answer(f, t, i, j, k, r) ==
  /\ r \in Results(f, t) /\ Says(f, t, i, j, k, r)
  /\ f \in {"clz", "mul_sat", "mad_sat"} => i # 0
  /\ f = "popcount" => i >= 0

LEMMA MulHiSays ==
  ASSUME NEW t \in Type, NEW i \in T(t), NEW j \in T(t), NEW k, NEW r \in mul_hi(t, i, j)
  PROVE  r \in T(t) /\ Says("mul_hi", t, i, j, k, r)
<1>1. Reference("mul_hi", t, i, j, k) = (i * j) \div 2 ^ t.bits  BY DEF Reference
<1> QED  BY <1>1, MulHiIs DEF Says

\* Each function that returns what an expression gives answers as Right says.
LEMMA FIs ==
  ASSUME NEW f \in Functions \ (Loops \cup {"fmax"}), NEW t \in Type, Declared(f, t),
         NEW i \in T(t), NEW j \in T(t), NEW k \in T(t), NEW r \in F(f, t, i, j, k)
  PROVE  Answer(f, t, i, j, k, r)
<1> USE DEF F, Answer, Results, Loops
<1>1. CASE f = "abs"       BY <1>1, AbsIs
<1>2. CASE f = "abs_diff"  BY <1>2, AbsDiffIs
<1>3. CASE f = "add_sat"   BY <1>3, Saturates
<1>4. CASE f = "sub_sat"   BY <1>4, SubSatIs
<1>5. CASE f = "hadd"      BY <1>5, HaddIs
<1>6. CASE f = "rhadd"     BY <1>6, RhaddIs DEF Declared
<1>7. CASE f = "mul_sat"   BY <1>7, MulSatIs
<1>8. CASE f = "mul_hi"    BY <1>8, MulHiSays
<1>9. CASE f = "mad_hi"    BY <1>9, MadHiIs
<1>10. CASE f = "mad_sat"  BY <1>10, MadSatIs
<1>11. CASE f = "rotate"   BY <1>11, RotateIs
<1>12. CASE f = "clamp"    BY <1>12, OrderIs
<1>13. CASE f = "max"      BY <1>13, OrderIs
<1>14. CASE f = "min"      BY <1>14, OrderIs
<1>15. CASE f = "step"     BY <1>15, OrderIs
<1>16. CASE f = "sign"     BY <1>16, OrderIs
<1>17. CASE f = "mix"      BY <1>17, MixIs
<1>18. CASE f = "mad"      BY <1>18, MadIs
<1> QED  BY <1>1, <1>2, <1>3, <1>4, <1>5, <1>6, <1>7, <1>8, <1>9, <1>10, <1>11, <1>12, <1>13,
            <1>14, <1>15, <1>16, <1>17, <1>18 DEF Functions

LEMMA ResultsInt ==
  ASSUME NEW f, NEW t \in Type
  PROVE  Results(f, t) \subseteq Int
<1>1. 2 ^ t.bits \in Int /\ t.bits \in Int  BY Pow DEF Type
<1> QED  BY <1>1, Limits DEF Results

-----------------------------------------------------------------------------
(* The inductive invariant                                                 *)

\* What Call and Statement may make of call.
IsFunction(c) ==
  /\ c.f \in Functions /\ c.type \in Types /\ Declared(c.f, c.type)
  /\ c.lanes \in Seq(T(c.type) \X T(c.type) \X T(c.type)) /\ c.lanes # <<>>

IsOperator(c) ==
  /\ c.f = "operator" /\ c.type \in Type
  /\ c.op \in Ops /\ c.form \in Forms /\ c.const \in BOOLEAN
  /\ c.v \in Seq(T(c.type)) /\ c.v # <<>>
  /\ c.w \in Seq(T(c.type)) /\ c.s \in T(c.type) /\ c.alias \in 0..Len(c.v)
  /\ c.form \notin Scalar => Len(c.w) = Len(c.v) /\ c.alias = 0
  /\ c.alias # 0 => c.s = c.v[c.alias]

\* Where the loops of a lane are.
FunctionControl ==
  /\ pc \in {"F", "enter", "clz", "popcount", "fmax", "done", "trapped"}
  /\ pc = "F" => call.f \notin Loops \cup {"fmax"}
  /\ pc = "enter" => call.f \in Loops
  /\ pc \in Loops => call.f = pc
  /\ pc = "fmax" <=> call.f = "fmax" /\ pc # "trapped"
  /\ pc = "clz" => ClzInv(call.type, call.lanes[lane][1], bits, num)
  /\ pc = "popcount" => PopcountInv(call.type, call.lanes[lane][1], bits, num)

Answered ==
  \A l \in 1..lane - 1 :
    Answer(call.f, call.type, call.lanes[l][1], call.lanes[l][2], call.lanes[l][3], result[l])

\* A lane after another.
Progress(n) ==
  /\ n \in Nat /\ lane \in 1..n + 1
  /\ result \in Seq(Int) /\ Len(result) = lane - 1
  /\ pc = "done" <=> lane = n + 1

FunctionInv == IsFunction(call) /\ Progress(Len(call.lanes)) /\ FunctionControl /\ Answered

\* The right operand that a lane has had, or has, if the lanes before it gave res.
Used(c, res, l) ==
  IF c.form \notin Scalar THEN c.w[l]
  ELSE IF InPlace(c) /\ c.alias \in 1..l - 1 THEN res[c.alias] ELSE c.s

Operated ==
  \A l \in 1..lane - 1 : result[l] \in Compute(call, call.v[l], Used(call, result, l))

\* The left operand is written up to the lane the loop has come to, or not at all.
Written ==
  /\ v \in Seq(Int) /\ Len(v) = Len(call.v)
  /\ \A l \in 1..Len(call.v) : v[l] = IF InPlace(call) /\ l < lane THEN result[l] ELSE call.v[l]

OperatorInv ==
  /\ IsOperator(call) /\ Progress(Len(call.v)) /\ pc \in {"operator", "done", "trapped"}
  /\ Operated /\ Written

Inv ==
  /\ num \in 0..MaxCount
  /\ \/ pc = "idle" /\ lane = 1 /\ result = <<>>
     \/ pc # "idle" /\ call.f # "operator" /\ FunctionInv
     \/ pc # "idle" /\ call.f = "operator" /\ OperatorInv

LEMMA Grows ==
  ASSUME NEW s \in Seq(Int), NEW r \in Int
  PROVE  /\ Append(s, r) \in Seq(Int) /\ Len(Append(s, r)) = Len(s) + 1
         /\ \A l \in 1..Len(s) : Append(s, r)[l] = s[l]
         /\ Append(s, r)[Len(s) + 1] = r
OBVIOUS

LEMMA ArgumentsIn ==
  ASSUME NEW c, IsFunction(c), NEW l \in 1..Len(c.lanes)
  PROVE  /\ c.type \in Type /\ c.lanes[l][1] \in T(c.type)
         /\ c.lanes[l][2] \in T(c.type) /\ c.lanes[l][3] \in T(c.type)
<1> DEFINE S == T(c.type)
<1>1. c.lanes \in Seq(S \X S \X S)  BY DEF IsFunction
<1>2. c.lanes[l] \in S \X S \X S
  <2> HIDE DEF S
  <2> QED  BY <1>1
<1>3. c.lanes[l][1] \in S /\ c.lanes[l][2] \in S /\ c.lanes[l][3] \in S
  <2> HIDE DEF S
  <2> QED  BY <1>2
<1> QED  BY <1>3, TypesAre DEF IsFunction

LEMMA InitInv == Init => Inv
BY TypesAre DEF Init, Inv

LEMMA CallInv ==
  ASSUME Inv, NEW f \in Functions, NEW t \in Types, Call(f, t)
  PROVE  Inv'
<1>1. pc = "idle" /\ lane = 1 /\ result = <<>> /\ num \in 0..MaxCount
  BY DEF Inv, Call, FunctionInv, OperatorInv
<1>2. PICK lanes \in Arguments(f, t) : call' = [f |-> f, type |-> t, lanes |-> lanes]
  BY DEF Call
<1>3. call'.f = f /\ call'.type = t /\ call'.lanes = lanes
  BY <1>2
<1>4. lanes \in Seq(T(t) \X T(t) \X T(t)) /\ lanes # <<>>
  BY ArgumentsAre
<1>5. IsFunction(call)'
  BY <1>3, <1>4 DEF IsFunction, Call
<1>6. Len(lanes) \in Nat /\ Len(lanes) >= 1
  <2> DEFINE S == T(t) \X T(t) \X T(t)
  <2>1. lanes \in Seq(S)  BY <1>4
  <2> HIDE DEF S
  <2> QED  BY <1>4, <2>1
<1>7. lane' = 1 /\ result' = <<>> /\ num' = num /\ f # "operator"
      /\ pc' = (IF f = "fmax" THEN "fmax" ELSE IF f \in Loops THEN "enter" ELSE "F")
  BY <1>1 DEF Call, Functions, Loops
<1>8. Progress(Len(call.lanes))'
  BY <1>3, <1>6, <1>7 DEF Progress
<1>9. FunctionControl'
  BY <1>3, <1>7 DEF FunctionControl, Loops
<1>10. Answered'
  BY <1>7 DEF Answered
<1> QED  BY <1>1, <1>3, <1>5, <1>7, <1>8, <1>9, <1>10 DEF Inv, FunctionInv

\* The lane at hand is one of the call's.
LEMMA AtLane ==
  ASSUME FunctionInv, pc # "done"
  PROVE  /\ Len(call.lanes) \in Nat /\ lane \in 1..Len(call.lanes) /\ call.type \in Types
         /\ call.lanes[lane][1] \in T(call.type) /\ call.lanes[lane][2] \in T(call.type)
         /\ call.lanes[lane][3] \in T(call.type) /\ call.type \in Type
         /\ call.f \in Functions /\ Lanes = Len(call.lanes)
<1>1. IsFunction(call) /\ Progress(Len(call.lanes))  BY DEF FunctionInv
<1>2. Len(call.lanes) \in Nat /\ lane \in 1..Len(call.lanes)  BY <1>1 DEF Progress
<1>3. call.type \in Types /\ call.f \in Functions  BY <1>1 DEF IsFunction
<1>4. Lanes = Len(call.lanes)  BY <1>3 DEF Lanes, Functions, Loops
<1> QED  BY <1>1, <1>2, <1>3, <1>4, ArgumentsIn

\* A lane that answers as it should is followed by the next, or is the last.
LEMMA LaneDone ==
  ASSUME FunctionInv, pc # "done", NEW r, NEW more \in {"F", "enter"}, Lane(r, more), call' = call,
         Answer(call.f, call.type, call.lanes[lane][1], call.lanes[lane][2], call.lanes[lane][3], r)
  PROVE  /\ IsFunction(call)' /\ Progress(Len(call.lanes))' /\ Answered'
         /\ pc' \in {more, "done"}
<1>1. IsFunction(call) /\ Progress(Len(call.lanes)) /\ Answered  BY DEF FunctionInv
<1>2. r \in Int  BY AtLane, ResultsInt DEF Answer
<1>3. /\ Append(result, r) \in Seq(Int) /\ Len(Append(result, r)) = Len(result) + 1
      /\ \A l \in 1..Len(result) : Append(result, r)[l] = result[l]
      /\ Append(result, r)[Len(result) + 1] = r
  BY <1>1, <1>2, Grows DEF Progress
<1>4. /\ result' = Append(result, r) /\ lane' = lane + 1
      /\ pc' = IF lane = Len(call.lanes) THEN "done" ELSE more
  BY AtLane DEF Lane
<1>5. Progress(Len(call.lanes))'
  BY <1>1, <1>3, <1>4, AtLane DEF Progress
<1>6. Answered'
  <2>1. lane \in Nat /\ Len(result) + 1 = lane  BY <1>1, AtLane DEF Progress
  <2> SUFFICES ASSUME NEW l \in 1..lane
               PROVE  Answer(call.f, call.type, call.lanes[l][1], call.lanes[l][2],
                             call.lanes[l][3], Append(result, r)[l])
    BY <1>4, <2>1 DEF Answered
  <2>2. CASE l = lane  BY <1>3, <2>1, <2>2
  <2>3. CASE l # lane
    <3>1. l \in 1..lane - 1 /\ l \in 1..Len(result)  BY <2>1, <2>3
    <3> QED  BY <1>1, <1>3, <3>1 DEF Answered
  <2> QED  BY <2>2, <2>3
<1> QED  BY <1>1, <1>4, <1>5, <1>6

LEMMA ApplyInv ==
  ASSUME Inv, Apply
  PROVE  Inv'
<1>1. pc = "F"  BY DEF Apply
<1>2. FunctionInv /\ call.f # "operator" /\ num \in 0..MaxCount
  BY <1>1 DEF Inv, OperatorInv
<1>3. call' = call /\ num' = num /\ bits' = bits  BY DEF Apply
<1> DEFINE a == call.lanes[lane]
<1>4. CASE \E r \in F(call.f, call.type, a[1], a[2], a[3]) : Lane(r, "F")
  <2>1. PICK r \in F(call.f, call.type, a[1], a[2], a[3]) : Lane(r, "F")  BY <1>4
  <2>2. call.f \in Functions \ (Loops \cup {"fmax"}) /\ Declared(call.f, call.type)
    BY <1>1, <1>2 DEF FunctionInv, FunctionControl, IsFunction
  <2>3. Answer(call.f, call.type, a[1], a[2], a[3], r)
    BY <1>1, <1>2, <2>1, <2>2, AtLane, FIs
  <2>4. IsFunction(call)' /\ Progress(Len(call.lanes))' /\ Answered' /\ pc' \in {"F", "done"}
    BY <1>1, <1>2, <1>3, <2>1, <2>3, LaneDone
  <2>5. FunctionControl'
    BY <1>3, <2>2, <2>4 DEF FunctionControl, Loops
  <2> QED  BY <1>2, <1>3, <2>4, <2>5 DEF Inv, FunctionInv
<1>5. CASE pc' = "trapped" /\ UNCHANGED <<lane, result>>
  <2>1. FunctionControl'  BY <1>5 DEF FunctionControl, Loops
  <2>2. Answered' /\ IsFunction(call)'
    BY <1>2, <1>3, <1>5 DEF FunctionInv, Answered
  <2>3. Progress(Len(call.lanes))'
    BY <1>1, <1>2, <1>3, <1>5 DEF FunctionInv, Progress
  <2> QED  BY <1>2, <1>3, <1>5, <2>1, <2>2, <2>3 DEF Inv, FunctionInv
<1> QED  BY <1>4, <1>5 DEF Apply

LEMMA EnterInv ==
  ASSUME Inv, Enter
  PROVE  Inv'
<1>1. pc = "enter" /\ pc' = call.f /\ num' = 0 /\ UNCHANGED <<call, v, lane, result>>
  BY DEF Enter
<1>2. FunctionInv /\ call.f # "operator" /\ call.f \in Loops
  BY <1>1 DEF Inv, OperatorInv, FunctionInv, FunctionControl
<1> DEFINE t == call.type
           x == call.lanes[lane][1]
<1>3. t \in Type /\ x \in T(t) /\ x \in Int  BY <1>1, <1>2, AtLane, Limits
<1>4. CASE call.f = "clz"
  <2>1. bits' = uT(t, x)  BY <1>4 DEF Enter
  <2>2. uT(t, x) \in 0..2 * Half(t) - 1 /\ Half(t) \in Nat  BY <1>3, Unsigned, Sizes
  <2>3. uT(t, x) = uT(t, x) * 2 ^ 0
    <3>1. \A u \in Int : u = u * 2 ^ 0  OBVIOUS
    <3>2. uT(t, x) \in Int  BY <2>2
    <3> QED  BY <3>1, <3>2, Zenon
  <2>4. ClzInv(t, x, uT(t, x), 0)
    <3>1. uT(t, x) \in Nat /\ uT(t, x) < 2 * Half(t)  BY <2>2
    <3> QED  BY <2>3, <3>1 DEF ClzInv
  <2>5. ClzInv(t, x, bits', num')  BY <1>1, <2>1, <2>4
  <2> HIDE DEF t, x
  <2>6. FunctionControl'
    BY <1>1, <1>4, <2>5 DEF FunctionControl, Loops, t, x
  <2>7. IsFunction(call)' /\ Progress(Len(call.lanes))' /\ Answered'
    BY <1>1, <1>2, <1>4 DEF FunctionInv, Progress, Answered
  <2> QED  BY <1>1, <1>2, <1>4, <2>6, <2>7, TypesAre DEF Inv, FunctionInv
<1>5. CASE call.f = "popcount"
  <2>1. bits' = x  BY <1>5 DEF Enter
  <2>2. PopcountInv(t, x, x, 0)
    <3>1. CASE x < 0  BY <1>3, <3>1 DEF PopcountInv
    <3>2. CASE x >= 0
      <4>1. x = x \div 2 ^ 0 /\ 0 \in 0..t.bits
        <5>1. t.bits \in Nat  BY <1>3 DEF Type
        <5>2. \A y \in Int : y = y \div 2 ^ 0  OBVIOUS
        <5> QED  BY <1>3, <5>1, <5>2
      <4>2. Bits(t, x) \cap (0..0 - 1) = {}  OBVIOUS
      <4>3. Cardinality({}) = 0  BY FS_EmptySet
      <4> QED  BY <3>2, <4>1, <4>2, <4>3 DEF PopcountInv
    <3> QED  BY <1>3, <3>1, <3>2
  <2> QED  BY <1>1, <1>2, <1>5, <2>1, <2>2, TypesAre
           DEF Inv, FunctionInv, FunctionControl, Progress, Answered, Loops
<1> QED  BY <1>2, <1>4, <1>5 DEF Loops

\* The end of a loop is the end of its lane.
LEMMA LoopDone ==
  ASSUME Inv, FunctionInv, pc \in Loops, Lane(num, "enter"), UNCHANGED <<call, v, bits, num>>,
         Answer(call.f, call.type, call.lanes[lane][1], call.lanes[lane][2], call.lanes[lane][3], num)
  PROVE  Inv'
<1>1. call.f \in Loops /\ call.f = pc /\ pc # "done"
  BY DEF FunctionInv, FunctionControl, Loops
<1>2. IsFunction(call)' /\ Progress(Len(call.lanes))' /\ Answered' /\ pc' \in {"enter", "done"}
  BY <1>1, LaneDone
<1>3. FunctionControl'
  BY <1>1, <1>2 DEF FunctionControl, Loops
<1> QED  BY <1>1, <1>2, <1>3 DEF Inv, FunctionInv, Loops

LEMMA LoopGoesOn ==
  ASSUME Inv, FunctionInv, pc \in Loops, UNCHANGED <<pc, call, lane, result>>, num' \in 0..MaxCount,
         pc = "clz" => ClzInv(call.type, call.lanes[lane][1], bits, num)',
         pc = "popcount" => PopcountInv(call.type, call.lanes[lane][1], bits, num)'
  PROVE  Inv'
<1>1. FunctionControl'  BY DEF FunctionInv, FunctionControl, Loops
<1>2. IsFunction(call)' /\ Progress(Len(call.lanes))' /\ Answered'
  BY DEF FunctionInv, Progress, Answered
<1>3. call.f # "operator" /\ pc # "idle"
  BY DEF FunctionInv, IsFunction, Functions, Loops
<1>4. pc' # "idle" /\ call'.f # "operator"  BY <1>3
<1> QED  BY <1>1, <1>2, <1>4 DEF Inv, FunctionInv

LEMMA CountIn ==
  ASSUME NEW n \in 0..MaxCount
  PROVE  Count(n) \in 0..MaxCount
BY TypesAre DEF Count

LEMMA ClzActionInv ==
  ASSUME Inv, clz
  PROVE  Inv'
<1> DEFINE t == call.type
           x == call.lanes[lane][1]
<1>1. pc = "clz" /\ call' = call /\ v' = v  BY DEF clz
<1>2. FunctionInv /\ num \in 0..MaxCount /\ call.f = "clz" /\ ClzInv(t, x, bits, num)
  BY <1>1 DEF Inv, OperatorInv, FunctionInv, FunctionControl, Loops
<1>3. t \in Types /\ t \in Type /\ x \in T(t)  BY <1>1, <1>2, AtLane
<1>4. CASE bits < mask(t) /\ bits' = uT(t, bits * 2) /\ num' = Count(num) /\ UNCHANGED <<pc, lane, result>>
  <2>1. ClzInv(t, x, uT(t, bits * 2), Count(num))  BY <1>2, <1>3, <1>4, ClzStep
  <2>2. ClzInv(call.type, call.lanes[lane][1], bits, num)'  BY <1>1, <1>4, <2>1
  <2> QED  BY <1>1, <1>2, <1>4, <2>2, CountIn, LoopGoesOn DEF Loops
<1>5. CASE bits >= mask(t) /\ Lane(num, "enter") /\ UNCHANGED <<bits, num>>
  <2>1. num \in 0..t.bits /\ x # 0 /\ Says("clz", t, x, call.lanes[lane][2], call.lanes[lane][3], num)
    BY <1>2, <1>3, <1>5, ClzIs
  <2>2. Answer("clz", t, x, call.lanes[lane][2], call.lanes[lane][3], num)
    BY <2>1 DEF Answer, Results, Loops
  <2> QED  BY <1>1, <1>2, <1>5, <2>2, LoopDone DEF Loops
<1> QED  BY <1>4, <1>5 DEF clz

LEMMA PopcountActionInv ==
  ASSUME Inv, popcount
  PROVE  Inv'
<1> DEFINE t == call.type
           x == call.lanes[lane][1]
<1>1. pc = "popcount" /\ call' = call /\ v' = v  BY DEF popcount
<1>2. FunctionInv /\ num \in 0..MaxCount /\ call.f = "popcount" /\ PopcountInv(t, x, bits, num)
  BY <1>1 DEF Inv, OperatorInv, FunctionInv, FunctionControl, Loops
<1>3. t \in Types /\ t \in Type /\ x \in T(t)  BY <1>1, <1>2, AtLane
<1>4. CASE /\ bits # 0 /\ num' = (IF bits % 2 = 1 THEN Count(num) ELSE num)
           /\ bits' = bits \div 2 /\ UNCHANGED <<pc, lane, result>>
  <2>1. PopcountInv(t, x, bits \div 2, IF bits % 2 = 1 THEN Count(num) ELSE num)
    BY <1>2, <1>3, <1>4, PopcountStep
  <2>2. PopcountInv(call.type, call.lanes[lane][1], bits, num)'  BY <1>1, <1>4, <2>1
  <2>3. num' \in 0..MaxCount  BY <1>2, <1>4, CountIn
  <2> QED  BY <1>1, <1>2, <1>4, <2>2, <2>3, LoopGoesOn DEF Loops
<1>5. CASE bits = 0 /\ Lane(num, "enter") /\ UNCHANGED <<bits, num>>
  <2>1. num \in 0..t.bits /\ x >= 0 /\ Says("popcount", t, x, call.lanes[lane][2], call.lanes[lane][3], num)
    BY <1>2, <1>3, <1>5, PopcountIs
  <2>2. Answer("popcount", t, x, call.lanes[lane][2], call.lanes[lane][3], num)
    BY <2>1 DEF Answer, Results, Loops
  <2> QED  BY <1>1, <1>2, <1>5, <2>2, LoopDone DEF Loops
<1> QED  BY <1>4, <1>5 DEF popcount

LEMMA FmaxInv ==
  ASSUME Inv, fmax
  PROVE  Inv'
<1>1. pc = "fmax" /\ num' = Count(num) /\ pc' \in {"trapped", "fmax"} /\ UNCHANGED <<call, lane, result>>
  BY DEF fmax
<1>2. FunctionInv /\ num \in 0..MaxCount /\ call.f = "fmax"
  BY <1>1 DEF Inv, OperatorInv, FunctionInv, FunctionControl
<1>3. num' \in 0..MaxCount  BY <1>1, <1>2, CountIn
<1>4. FunctionControl'  BY <1>1, <1>2 DEF FunctionControl, Loops
<1>5. IsFunction(call)' /\ Progress(Len(call.lanes))' /\ Answered'
  BY <1>1, <1>2 DEF FunctionInv, Progress, Answered
<1> QED  BY <1>1, <1>2, <1>3, <1>4, <1>5 DEF Inv, FunctionInv

\* What an operator is made of, and its lane at hand.
LEMMA OperandsIn ==
  ASSUME NEW c, IsOperator(c)
  PROVE  /\ c.type \in Type /\ c.op \in Ops /\ c.s \in T(c.type)
         /\ Len(c.v) \in Nat /\ \A l \in 1..Len(c.v) : c.v[l] \in T(c.type)
         /\ c.form \notin Scalar => \A l \in 1..Len(c.v) : c.w[l] \in T(c.type)
<1> DEFINE S == T(c.type)
<1>1. c.v \in Seq(S) /\ c.w \in Seq(S) /\ (c.form \notin Scalar => Len(c.w) = Len(c.v))
  BY DEF IsOperator
<1> HIDE DEF S
<1>2. Len(c.v) \in Nat /\ \A l \in 1..Len(c.v) : c.v[l] \in S  BY <1>1
<1>3. c.form \notin Scalar => \A l \in 1..Len(c.v) : c.w[l] \in S  BY <1>1
<1> QED  BY <1>2, <1>3 DEF S, IsOperator

LEMMA NumbersAre ==
  ASSUME NEW S, S \subseteq Int, NEW q \in Seq(S), q # <<>>
  PROVE  Len(q) \in Nat /\ Len(q) >= 1 /\ q \in Seq(Int)
<1>1. Len(q) \in Nat /\ Len(q) >= 1  OBVIOUS
<1>2. ASSUME NEW i \in 1..Len(q)
      PROVE  q[i] \in Int
  <2>1. q[i] \in S  OBVIOUS
  <2> QED  BY <2>1
<1>3. q = [i \in 1..Len(q) |-> q[i]]  OBVIOUS
<1> QED  BY <1>1, <1>2, <1>3

LEMMA StatementInv ==
  ASSUME Inv, NEW cls \in Classes, NEW op \in Ops, NEW form \in Forms, NEW const \in BOOLEAN,
         Statement([cls |-> cls, op |-> op, form |-> form, const |-> const])
  PROVE  Inv'
<1>1. pc = "idle" /\ lane = 1 /\ result = <<>> /\ num \in 0..MaxCount
  BY DEF Inv, Statement, FunctionInv, OperatorInv
<1>2. PICK t \in Elements(cls) : \E o \in Operands(t, form) :
             /\ call' = [f |-> "operator", type |-> t, cls |-> cls, op |-> op, form |-> form,
                         const |-> const, v |-> o.v, w |-> o.w, s |-> o.s, alias |-> o.alias]
             /\ v' = o.v
  BY DEF Statement
<1>3. PICK o \in Operands(t, form) :
             /\ call' = [f |-> "operator", type |-> t, cls |-> cls, op |-> op, form |-> form,
                         const |-> const, v |-> o.v, w |-> o.w, s |-> o.s, alias |-> o.alias]
             /\ v' = o.v
  BY <1>2
<1>4. /\ call'.f = "operator" /\ call'.type = t /\ call'.op = op /\ call'.form = form
      /\ call'.const = const /\ call'.v = o.v /\ call'.w = o.w /\ call'.s = o.s /\ call'.alias = o.alias
  BY <1>3
<1>5. /\ t \in Type /\ o.v \in Seq(T(t)) /\ o.w \in Seq(T(t)) /\ o.s \in T(t) /\ o.alias \in 0..Len(o.v)
      /\ o.v # <<>> /\ (form \notin Scalar => Len(o.w) = Len(o.v) /\ o.alias = 0)
      /\ (o.alias # 0 => o.s = o.v[o.alias])
  <2>1. /\ t \in Type /\ o \in [v : Seq(T(t)), w : Seq(T(t)), s : T(t), alias : 0..Len(o.v)]
        /\ o.v # <<>> /\ (form \notin Scalar => Len(o.w) = Len(o.v) /\ o.alias = 0)
        /\ (o.alias # 0 => o.s = o.v[o.alias])
    BY <1>2, <1>3, OperandsAre
  <2> QED  BY <2>1
<1>6. IsOperator(call)'
  BY <1>4, <1>5 DEF IsOperator
<1>7. Len(o.v) \in Nat /\ Len(o.v) >= 1 /\ o.v \in Seq(Int)
  <2> DEFINE S == T(t)
  <2>1. S \subseteq Int /\ o.v \in Seq(S) /\ o.v # <<>>  BY <1>5, Limits
  <2> HIDE DEF S
  <2> QED  BY <2>1, NumbersAre
<1>8. lane' = 1 /\ result' = <<>> /\ num' = num /\ pc' = "operator"
  BY <1>1 DEF Statement
<1>9. Progress(Len(call.v))'
  BY <1>4, <1>7, <1>8 DEF Progress
<1>10. Operated'
  BY <1>8 DEF Operated
<1>11. Written'
  BY <1>3, <1>4, <1>7, <1>8 DEF Written
<1> QED  BY <1>1, <1>4, <1>6, <1>8, <1>9, <1>10, <1>11 DEF Inv, OperatorInv

\* Each lane that is done holds a value of the type, and so had its operands.
LEMMA OperatedIn ==
  ASSUME IsOperator(call), Operated, lane \in 1..Len(call.v) + 1
  PROVE  \A l \in 1..lane - 1 : result[l] \in T(call.type) /\ Used(call, result, l) \in T(call.type)
<1> DEFINE Typed(l) == result[l] \in T(call.type) /\ Used(call, result, l) \in T(call.type)
<1>1. Len(call.v) \in Nat /\ call.type \in Type /\ call.op \in Ops  BY OperandsIn
<1>2. ASSUME NEW l \in 1..lane - 1, \A k \in 1..l - 1 : Typed(k)
      PROVE  Typed(l)
  <2>1. l \in 1..Len(call.v)  BY <1>1
  <2>2. call.s \in T(call.type) /\ call.v[l] \in T(call.type)
        /\ (call.form \notin Scalar => call.w[l] \in T(call.type))
    BY <2>1, OperandsIn
  <2>3. Used(call, result, l) \in T(call.type)  BY <1>2, <2>2 DEF Used
  <2>4. Compute(call, call.v[l], Used(call, result, l)) \subseteq T(call.type)
    BY <1>1, <2>2, <2>3, ComputeIn
  <2> QED  BY <2>3, <2>4 DEF Operated
<1> DEFINE S == {n \in Nat : \A l \in 1..lane - 1 : l <= n => Typed(l)}
<1>3. 0 \in S  OBVIOUS
<1>4. ASSUME NEW n \in Nat, n \in S
      PROVE  n + 1 \in S
  <2> SUFFICES ASSUME NEW l \in 1..lane - 1, l <= n + 1
               PROVE  Typed(l)
    OBVIOUS
  <2> HIDE DEF Typed
  <2>1. \A k \in 1..l - 1 : Typed(k)
    <3> SUFFICES ASSUME NEW k \in 1..l - 1
                 PROVE  Typed(k)
      OBVIOUS
    <3>1. k \in 1..lane - 1 /\ k <= n  OBVIOUS
    <3> QED  BY <1>4, <3>1
  <2> QED  BY <1>2, <2>1
<1> HIDE DEF Typed
<1>5. \A n \in Nat : n \in S
  <2>1. \A n \in Nat : n \in S => n + 1 \in S  BY <1>4
  <2> HIDE DEF S
  <2> QED  BY <1>3, <2>1, Induct
<1>6. ASSUME NEW l \in 1..lane - 1
      PROVE  Typed(l)
  <2>1. l \in Nat /\ l \in S  BY <1>5
  <2> QED  BY <2>1
<1> QED  BY <1>6 DEF Typed

LEMMA OperateInv ==
  ASSUME Inv, Operate
  PROVE  Inv'
<1>1. pc = "operator" /\ UNCHANGED <<call, bits, num>>  BY DEF Operate
<1>2. OperatorInv /\ call.f = "operator" /\ num \in 0..MaxCount
  BY <1>1 DEF Inv, FunctionInv, FunctionControl
<1> DEFINE c == call
<1>3. IsOperator(c) /\ Progress(Len(c.v)) /\ Operated /\ Written  BY <1>2 DEF OperatorInv
<1>4. Len(c.v) \in Nat /\ lane \in 1..Len(c.v) /\ Len(result) = lane - 1 /\ result \in Seq(Int)
  BY <1>1, <1>3 DEF Progress
<1>5. v[lane] = c.v[lane] /\ v \in Seq(Int) /\ Len(v) = Len(c.v)
  BY <1>3, <1>4 DEF Written
<1> DEFINE used == Used(c, result, lane)
<1>6. (IF c.form \in Scalar THEN scalar(c) ELSE c.w[lane]) = used
  <2>1. CASE c.form \notin Scalar  BY <2>1 DEF Used
  <2>2. CASE c.form \in Scalar
    <3>1. c.alias \in 0..Len(c.v) /\ (c.alias # 0 => c.s = c.v[c.alias])  BY <1>3 DEF IsOperator
    <3>2. CASE c.alias = 0  BY <2>2, <3>2 DEF Used, scalar
    <3>3. CASE c.alias # 0
      <4>1. v[c.alias] = IF InPlace(c) /\ c.alias < lane THEN result[c.alias] ELSE c.v[c.alias]
        BY <1>3, <3>1, <3>3 DEF Written
      <4>2. c.alias \in 1..lane - 1 <=> c.alias < lane  BY <1>4, <3>1, <3>3
      <4> QED  BY <2>2, <3>1, <3>3, <4>1, <4>2 DEF Used, scalar
    <3> QED  BY <3>2, <3>3
  <2> QED  BY <2>1, <2>2
<1>7. used \in T(c.type) /\ c.v[lane] \in T(c.type) /\ c.type \in Type /\ c.op \in Ops
  <2>1. c.type \in Type /\ c.op \in Ops /\ c.s \in T(c.type) /\ c.v[lane] \in T(c.type)
    BY <1>3, <1>4, OperandsIn
  <2>2. CASE c.form \notin Scalar
    BY <1>3, <1>4, <2>1, <2>2, OperandsIn DEF Used
  <2>3. CASE c.form \in Scalar /\ ~(InPlace(c) /\ c.alias \in 1..lane - 1)
    BY <2>1, <2>3 DEF Used
  <2>4. CASE c.form \in Scalar /\ InPlace(c) /\ c.alias \in 1..lane - 1
    <3>1. used = result[c.alias]  BY <2>4 DEF Used
    <3> QED  BY <1>3, <1>4, <2>1, <2>4, <3>1, OperatedIn
  <2> QED  BY <2>2, <2>3, <2>4, <2>1
<1> DEFINE R == Compute(c, c.v[lane], used)
<1>8. Lanes = Len(c.v)  BY <1>2 DEF Lanes
<1>9. CASE R = {} /\ pc' = "trapped" /\ UNCHANGED <<lane, result, v>>
  <2>1. Progress(Len(call.v))'  BY <1>1, <1>3, <1>9 DEF Progress
  <2>2. Operated' /\ Written' /\ IsOperator(call)'
    BY <1>1, <1>3, <1>9 DEF Operated, Written
  <2> QED  BY <1>1, <1>2, <1>9, <2>1, <2>2 DEF Inv, OperatorInv
<1>10. CASE \E r \in R : /\ Lane(r, "operator")
                         /\ v' = IF InPlace(c) THEN [v EXCEPT ![lane] = r] ELSE v
  <2>1. PICK r \in R : /\ Lane(r, "operator")
                       /\ v' = IF InPlace(c) THEN [v EXCEPT ![lane] = r] ELSE v
    BY <1>10
  <2>2. r \in T(c.type) /\ r \in Int  BY <1>7, <2>1, ComputeIn, Limits
  <2>3. /\ result' = Append(result, r) /\ lane' = lane + 1
        /\ pc' = IF lane = Len(c.v) THEN "done" ELSE "operator"
    BY <1>8, <2>1 DEF Lane
  <2>4. /\ Append(result, r) \in Seq(Int) /\ Len(Append(result, r)) = lane
        /\ \A l \in 1..lane - 1 : Append(result, r)[l] = result[l]
        /\ Append(result, r)[lane] = r
    <3>1. lane = Len(result) + 1 /\ lane - 1 = Len(result)  BY <1>4
    <3> QED  BY <1>4, <2>2, <3>1, Grows
  <2>5. Progress(Len(call.v))'
    BY <1>1, <1>4, <2>3, <2>4 DEF Progress
  <2>6. Operated'
    <3> SUFFICES ASSUME NEW l \in 1..lane
                 PROVE  Append(result, r)[l] \in Compute(c, c.v[l], Used(c, Append(result, r), l))
      BY <1>1, <1>4, <2>3 DEF Operated
    <3>1. Used(c, Append(result, r), l) = Used(c, result, l)
      <4>1. c.alias \in 1..l - 1 => c.alias \in 1..lane - 1  BY <1>4
      <4> QED  BY <2>4, <4>1 DEF Used
    <3>2. CASE l = lane  BY <2>1, <2>4, <3>1, <3>2
    <3>3. CASE l # lane
      <4>1. l \in 1..lane - 1  BY <1>4, <3>3
      <4> QED  BY <1>3, <2>4, <3>1, <4>1 DEF Operated
    <3> QED  BY <3>2, <3>3
  <2>7. Written'
    <3>1. v' \in Seq(Int) /\ Len(v') = Len(c.v)
      BY <1>4, <1>5, <2>1, <2>2
    <3> SUFFICES ASSUME NEW l \in 1..Len(c.v)
                 PROVE  v'[l] = IF InPlace(c) /\ l < lane + 1 THEN Append(result, r)[l] ELSE c.v[l]
      BY <1>1, <2>3, <3>1 DEF Written, InPlace
    <3>2. v[l] = IF InPlace(c) /\ l < lane THEN result[l] ELSE c.v[l]
      BY <1>3 DEF Written
    <3>3. CASE ~InPlace(c)  BY <2>1, <3>2, <3>3
    <3>4. CASE InPlace(c) /\ l = lane  BY <1>4, <1>5, <2>1, <2>4, <3>4
    <3>5. CASE InPlace(c) /\ l # lane
      <4>1. v'[l] = v[l]  BY <1>4, <1>5, <2>1, <3>5
      <4>2. l < lane <=> l < lane + 1  BY <1>4, <3>5
      <4>3. l < lane => l \in 1..lane - 1  BY <1>4
      <4> QED  BY <2>4, <3>2, <3>5, <4>1, <4>2, <4>3
    <3> QED  BY <3>3, <3>4, <3>5
  <2>8. IsOperator(call)' /\ pc' \in {"operator", "done"}
    BY <1>1, <1>3, <2>3
  <2> QED  BY <1>1, <1>2, <2>5, <2>6, <2>7, <2>8 DEF Inv, OperatorInv
<1> QED
  <2>1. \/ \E r \in R : /\ Lane(r, "operator")
                        /\ v' = IF InPlace(c) THEN [v EXCEPT ![lane] = r] ELSE v
        \/ R = {} /\ pc' = "trapped" /\ UNCHANGED <<lane, result, v>>
    BY <1>5, <1>6 DEF Operate
  <2> QED  BY <1>9, <1>10, <2>1

-----------------------------------------------------------------------------
(* Theorems                                                                *)

\* The invariant holds of every state.
THEOREM Invariance == Spec => []Inv
<1>1. Init => Inv
  BY InitInv
<1>2. Inv /\ [Next]_vars => Inv'
  <2> SUFFICES ASSUME Inv, [Next]_vars
               PROVE  Inv'
    OBVIOUS
  <2>1. CASE \E f \in Functions, t \in Types : Call(f, t)
    BY <2>1, CallInv
  <2>2. CASE \E cls \in Classes, op \in Ops, form \in Forms, const \in BOOLEAN :
               Statement([cls |-> cls, op |-> op, form |-> form, const |-> const])
    BY <2>2, StatementInv
  <2>3. CASE Apply     BY <2>3, ApplyInv
  <2>4. CASE Enter     BY <2>4, EnterInv
  <2>5. CASE clz       BY <2>5, ClzActionInv
  <2>6. CASE popcount  BY <2>6, PopcountActionInv
  <2>7. CASE fmax      BY <2>7, FmaxInv
  <2>8. CASE Operate   BY <2>8, OperateInv
  <2>9. CASE UNCHANGED vars
    <3>1. UNCHANGED <<pc, call, v, lane, bits, num, result>>  BY <2>9 DEF vars
    <3>2. CASE pc = "idle" /\ lane = 1 /\ result = <<>>  BY <3>1, <3>2 DEF Inv
    <3>3. CASE pc # "idle" /\ call.f # "operator" /\ FunctionInv
      <4>1. FunctionInv'
        BY <3>1, <3>3 DEF FunctionInv, Progress, FunctionControl, Answered
      <4> QED  BY <3>1, <3>3, <4>1 DEF Inv
    <3>4. CASE pc # "idle" /\ call.f = "operator" /\ OperatorInv
      <4>1. OperatorInv'
        BY <3>1, <3>4 DEF OperatorInv, Progress, Operated, Written
      <4> QED  BY <3>1, <3>4, <4>1 DEF Inv
    <3> QED  BY <3>2, <3>3, <3>4 DEF Inv
  <2> QED  BY <2>1, <2>2, <2>3, <2>4, <2>5, <2>6, <2>7, <2>8, <2>9 DEF Next, Step
<1> QED  BY <1>1, <1>2, PTL DEF Spec

\* The result has one element for each lane that is done, of the type that the
\* function or the operator returns, whatever the width of the integers.
THEOREM TypeCorrect == Spec => []TypeOK
<1>1. Inv => TypeOK
  <2> SUFFICES ASSUME Inv
               PROVE  TypeOK
    OBVIOUS
  <2>1. CASE pc = "idle"  BY <2>1 DEF Inv, TypeOK
  <2>2. CASE pc # "idle" /\ call.f # "operator" /\ FunctionInv
    <3>1. Lanes = Len(call.lanes)  BY <2>2 DEF Lanes
    <3>2. Len(call.lanes) \in Nat /\ lane \in 1..Lanes + 1 /\ Len(result) = lane - 1
          /\ result \in Seq(Int) /\ (pc = "done" <=> lane = Lanes + 1)
      BY <2>2, <3>1 DEF FunctionInv, Progress
    <3>3. DOMAIN result = 1..lane - 1  BY <3>2
    <3>4. \A l \in DOMAIN result : result[l] \in Results(call.f, call.type)
      BY <2>2, <3>3 DEF FunctionInv, Answered, Answer
    <3>5. pc \in {"F", "enter", "clz", "popcount", "fmax", "done", "trapped"}
      BY <2>2 DEF FunctionInv, FunctionControl
    <3> QED  BY <3>2, <3>4, <3>5 DEF Inv, TypeOK, Results
  <2>3. CASE pc # "idle" /\ call.f = "operator" /\ OperatorInv
    <3>1. Lanes = Len(call.v)  BY <2>3 DEF Lanes
    <3>2. Len(call.v) \in Nat /\ lane \in 1..Lanes + 1 /\ Len(result) = lane - 1
          /\ result \in Seq(Int) /\ (pc = "done" <=> lane = Lanes + 1)
      BY <2>3, <3>1 DEF OperatorInv, Progress
    <3>3. DOMAIN result = 1..lane - 1  BY <3>2
    <3>4. \A l \in DOMAIN result : result[l] \in T(call.type)
      BY <2>3, <3>1, <3>2, <3>3, OperatedIn DEF OperatorInv
    <3>5. pc \in {"operator", "done", "trapped"}  BY <2>3 DEF OperatorInv
    <3> QED  BY <2>3, <3>2, <3>4, <3>5 DEF Inv, TypeOK, Loops
  <2> QED  BY <2>1, <2>2, <2>3 DEF Inv
<1> QED  BY <1>1, Invariance, PTL

\* Where C++ defines the result, a function that returns has given each lane the
\* mathematical value that Reference names wherever Right says so, and another
\* one elsewhere, for integers of any width and vectors of any length.
THEOREM FunctionsAreRight == Spec => []FunctionsRight
<1>1. Inv => FunctionsRight
  <2> SUFFICES ASSUME Inv, pc = "done", call.f # "operator"
               PROVE  /\ Returns(call)
                      /\ \A l \in DOMAIN result :
                           Says(call.f, call.type, call.lanes[l][1], call.lanes[l][2],
                                call.lanes[l][3], result[l])
    BY DEF FunctionsRight, Says
  <2>1. FunctionInv  BY DEF Inv
  <2>2. Len(call.lanes) \in Nat /\ lane = Len(call.lanes) + 1 /\ Len(result) = lane - 1
        /\ result \in Seq(Int)
    BY <2>1 DEF FunctionInv, Progress
  <2>3. \A l \in 1..Len(call.lanes) :
          Answer(call.f, call.type, call.lanes[l][1], call.lanes[l][2], call.lanes[l][3], result[l])
    BY <2>1, <2>2 DEF FunctionInv, Answered
  <2>4. DOMAIN result = 1..Len(call.lanes)  BY <2>2
  <2>5. DOMAIN call.lanes = 1..Len(call.lanes)
    <3> DEFINE S == T(call.type) \X T(call.type) \X T(call.type)
    <3>1. call.lanes \in Seq(S)  BY <2>1 DEF FunctionInv, IsFunction
    <3> HIDE DEF S
    <3> QED  BY <3>1
  <2>6. call.f # "fmax"  BY <2>1 DEF FunctionInv, FunctionControl
  <2>7. Returns(call)  BY <2>3, <2>5, <2>6 DEF Returns, Answer
  <2> QED  BY <2>3, <2>4, <2>7 DEF Answer
<1> QED  BY <1>1, Invariance, PTL

\* What an operator that assigns in place does, unless it is the mistyped +.
LEMMA Assigned ==
  ASSUME NEW c, ~Mistyped(c), NEW l, NEW res
  PROVE  /\ ~Late(c, l) => Used(c, res, l) = Operand(c, l)
         /\ Late(c, l) => Used(c, res, l) = res[c.alias]
<1>1. CASE c.form = "v op= s"
  <2>1. InPlace(c) /\ c.form \in Scalar  BY <1>1 DEF InPlace, Assigns, Scalar
  <2> QED  BY <1>1, <2>1 DEF Used, Late, Operand
<1>2. CASE c.form # "v op= s"
  <2>1. c.form \in Scalar => ~InPlace(c)  BY <1>2 DEF InPlace, Assigns, Scalar
  <2> QED  BY <1>2, <2>1 DEF Used, Late, Operand
<1> QED  BY <1>1, <1>2

\* The lane of the scalar is not late: the ones after it read what it gave.
LEMMA LateLane ==
  ASSUME OperatorInv, pc = "done", ~Mistyped(call), NEW l \in 1..Len(call.v), Late(call, l)
  PROVE  /\ result[call.alias] \in OP(call.type, call.op, call.s, call.s)
         /\ result[call.alias] \in T(call.type)
         /\ result[l] \in OP(call.type, call.op, call.v[l], result[call.alias])
<1> DEFINE c == call
           i == call.alias
<1>1. IsOperator(c) /\ Operated /\ Len(c.v) \in Nat /\ lane = Len(c.v) + 1
  BY DEF OperatorInv, Progress
<1>2. c.form = "v op= s" /\ i \in 1..l - 1  BY DEF Late
<1>3. /\ i \in 1..Len(c.v) /\ i \in 1..lane - 1 /\ l \in 1..lane - 1 /\ i # 0
      /\ lane \in 1..Len(c.v) + 1 /\ i \notin 1..i - 1
  <2> DEFINE n == Len(c.v)
  <2>1. n \in Nat /\ lane = n + 1 /\ l \in 1..n /\ i \in 1..l - 1  BY <1>1, <1>2
  <2> HIDE DEF n, i
  <2>2. l \in Nat /\ i \in Nat /\ i < l /\ 1 <= i /\ l <= n  BY <2>1
  <2>3. i \in 1..n /\ i \in 1..lane - 1 /\ l \in 1..lane - 1 /\ i # 0 /\ lane \in 1..n + 1
        /\ i \notin 1..i - 1
    BY <2>1, <2>2
  <2> QED  BY <2>3 DEF n
<1>4. c.s = c.v[i]  BY <1>1, <1>3 DEF IsOperator
<1>5. ~Late(c, i)  BY <1>3 DEF Late
<1>6. Used(c, result, i) = c.s /\ Used(c, result, l) = result[i]
  <2>1. Used(c, result, i) = Operand(c, i)  BY <1>5, Assigned
  <2>2. Operand(c, i) = c.s  BY <1>2 DEF Operand, Scalar
  <2>3. Used(c, result, l) = result[i]  BY Assigned
  <2> QED  BY <2>1, <2>2, <2>3
<1>7. ~Converts(c)  BY <1>2 DEF Converts
<1>8. result[i] \in T(c.type)  BY <1>1, <1>3, OperatedIn
<1>9. result[i] \in Compute(c, c.v[i], Used(c, result, i))
      /\ result[l] \in Compute(c, c.v[l], Used(c, result, l))
  BY <1>1, <1>3 DEF Operated
<1> QED  BY <1>4, <1>6, <1>7, <1>8, <1>9 DEF Compute

\* A lane that is not late had the operands as they were.
LEMMA Timely ==
  ASSUME OperatorInv, pc = "done", ~Mistyped(call), NEW l \in 1..Len(call.v), ~Late(call, l)
  PROVE  /\ result[l] \in Compute(call, call.v[l], Operand(call, l))
         /\ Operand(call, l) \in T(call.type)
<1>1. IsOperator(call) /\ Operated /\ Len(call.v) \in Nat /\ lane = Len(call.v) + 1
  BY DEF OperatorInv, Progress
<1>2. l \in 1..lane - 1  BY <1>1
<1>3. Used(call, result, l) = Operand(call, l)  BY Assigned
<1>4. Operand(call, l) \in T(call.type)  BY <1>1, OperandsIn DEF Operand
<1> QED  BY <1>1, <1>2, <1>3, <1>4 DEF Operated

\* The operators that come to their end had a quotient in each lane: of the
\* operands as they were, or by the 1 that v /= v[i] has made of its scalar.
LEMMA HasDivided ==
  ASSUME OperatorInv, pc = "done"
  PROVE  Divides(call)
<1> DEFINE c == call
<1>1. IsOperator(c) /\ Operated /\ Len(c.v) \in Nat /\ lane = Len(c.v) + 1
  BY DEF OperatorInv, Progress
<1>2. DOMAIN c.v = 1..Len(c.v)
  <2> DEFINE S == T(c.type)
  <2>1. c.v \in Seq(S)  BY <1>1 DEF IsOperator
  <2> HIDE DEF S
  <2> QED  BY <2>1
<1> SUFFICES ASSUME c.op \in {"/", "%"}, NEW l \in 1..Len(c.v)
             PROVE  IF Late(c, l) THEN c.op = "/" ELSE Quoted(c, c.v[l], Operand(c, l))
  BY <1>2 DEF Divides
<1>3. ~Mistyped(c)  BY DEF Mistyped
<1>4. c.type \in Type /\ c.op \in Ops /\ c.s \in T(c.type) /\ c.v[l] \in T(c.type)
  BY <1>1, OperandsIn
<1>5. CASE Late(c, l)
  <2> SUFFICES ASSUME c.op = "%"
               PROVE  FALSE
    BY <1>5
  <2>1. /\ result[c.alias] \in OP(c.type, c.op, c.s, c.s) /\ result[c.alias] \in T(c.type)
        /\ result[l] \in OP(c.type, c.op, c.v[l], result[c.alias])
    BY <1>3, <1>5, LateLane
  <2>2. result[c.alias] = 0  BY <1>4, <2>1, OpIn
  <2>3. ~HasQuotient(c.type, c.v[l], result[c.alias])  BY <2>2 DEF HasQuotient
  <2> QED  BY <1>4, <2>1, <2>3, OpIn
<1>6. CASE ~Late(c, l)
  <2>1. result[l] \in Compute(c, c.v[l], Operand(c, l)) /\ Operand(c, l) \in T(c.type)
    BY <1>3, <1>6, Timely
  <2> QED  BY <1>4, <1>6, <2>1, ComputeIn
<1> QED  BY <1>5, <1>6

\* An operator that comes to its end, of any number of lanes and integers of any
\* width, has divided nothing that traps.  It has given each lane what it says of
\* the operands as they were, whichever of the two is a scalar, except that the
\* lanes behind the one that v op= v[i] reads have used the result of that lane,
\* and that a scalar on the left is the right operand where this matters, unless
\* it was converted to an object of one axis.
THEOREM OperatorsAreRight == Spec => []OperatorsMean
<1>1. Inv => OperatorsMean
  <2> DEFINE c == call
             gives(a, b) == OP(c.type, c.op, a, b)
             means(l) == IF c.form = "s op v" /\ ~Swapped(c) THEN gives(c.s, c.v[l])
                         ELSE gives(c.v[l], Operand(c, l))
  <2> SUFFICES ASSUME Inv, pc = "done", call.f = "operator", ~Mistyped(call)
               PROVE  /\ Divides(c)
                      /\ \A l \in DOMAIN result :
                           IF Late(c, l) THEN \E s2 \in gives(c.s, c.s) : result[l] \in gives(c.v[l], s2)
                           ELSE result[l] \in means(l)
    BY Zenon DEF OperatorsMean
  <2>1. OperatorInv  BY DEF Inv
  <2>2. IsOperator(c) /\ Len(c.v) \in Nat /\ lane = Len(c.v) + 1
        /\ result \in Seq(Int) /\ Len(result) = Len(c.v)
    BY <2>1 DEF OperatorInv, Progress
  <2>3. DOMAIN result = 1..Len(c.v)  BY <2>2
  <2>4. /\ c.type \in Type /\ c.op \in Ops /\ c.s \in T(c.type)
        /\ \A l \in 1..Len(c.v) : c.v[l] \in T(c.type)
    BY <2>2, OperandsIn
  <2>5. ASSUME NEW l \in 1..Len(c.v), Late(c, l)
        PROVE  \E s2 \in gives(c.s, c.s) : result[l] \in gives(c.v[l], s2)
    BY <2>1, <2>5, LateLane
  <2>6. ASSUME NEW l \in 1..Len(c.v), ~Late(c, l)
        PROVE  result[l] \in means(l)
    <3>1. result[l] \in Compute(c, c.v[l], Operand(c, l))  BY <2>1, <2>6, Timely
    <3>2. CASE c.form # "s op v"
      <4>1. ~Converts(c)  BY <3>2 DEF Converts
      <4> QED  BY <3>1, <3>2, <4>1 DEF Compute
    <3>3. CASE c.form = "s op v"
      <4>1. Operand(c, l) = c.s  BY <3>3 DEF Operand, Scalar
      <4>2. CASE Converts(c)
        BY <3>1, <3>3, <4>1, <4>2 DEF Compute, Swapped
      <4>3. CASE ~Converts(c) /\ c.op \in Commutes
        <5>1. gives(c.v[l], c.s) = gives(c.s, c.v[l])  BY <2>4, <4>3, OpCommutes
        <5> QED  BY <3>1, <3>3, <4>1, <4>3, <5>1 DEF Compute, Swapped
      <4>4. CASE ~Converts(c) /\ c.op \notin Commutes
        BY <3>1, <3>3, <4>1, <4>4 DEF Compute, Swapped
      <4> QED  BY <4>2, <4>3, <4>4
    <3> QED  BY <3>2, <3>3
  <2>7. Divides(c)  BY <2>1, HasDivided
  <2> QED  BY <2>3, <2>5, <2>6, <2>7
<1> QED  BY <1>1, Invariance, PTL
=============================================================================
