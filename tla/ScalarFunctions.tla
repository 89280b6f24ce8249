-------------------------- MODULE ScalarFunctions ---------------------------
(***************************************************************************)
(* The integer and common functions of one element.  A function is the set *)
(* of the values that a call of it may return: more than one where the     *)
(* code overflows a signed int or shifts too far, which C++ leaves open,   *)
(* none where it divides by zero.                                          *)
(*                                                                         *)
(* A type is a record of its bits, signed, and promoted: is its arithmetic *)
(* that of an int, which holds every value computed from it.               *)
(***************************************************************************)
EXTENDS Integers, FiniteSets

Lowest(t)  == IF t.signed THEN -(2 ^ (t.bits - 1)) ELSE 0
Highest(t) == IF t.signed THEN 2 ^ (t.bits - 1) - 1 ELSE 2 ^ t.bits - 1
T(t)       == Lowest(t)..Highest(t)

\* The conversions to the unsigned type and back.
uT(t, n)      == n % 2 ^ t.bits
Convert(t, n) == LET u == uT(t, n) IN IF u > Highest(t) THEN u - 2 ^ t.bits ELSE u

\* What an arithmetic expression of mathematical value n may evaluate to.
Arith(t, n) ==
  IF t.promoted \/ n \in T(t) THEN {n}
  ELSE IF t.signed THEN T(t) ELSE {uT(t, n)}

Converted(t, n) == {Convert(t, v) : v \in Arith(t, n)}

\* The bits of a number that are set, and the number that has a set of bits.
Bits(t, x) == {b \in 0..t.bits - 1 : (uT(t, x) \div 2 ^ b) % 2 = 1}
Of(t, B)   == CHOOSE n \in 0..2 ^ t.bits - 1 : Bits(t, n) = B

\* Division truncates, shifts to the right do not.
Quotient(i, j) ==
  LET Size(n) == IF n < 0 THEN -n ELSE n
      q       == Size(i) \div Size(j)
  IN  IF (i < 0) = (j < 0) THEN q ELSE -q

-----------------------------------------------------------------------------
(* integer.hpp                                                             *)

abs(t, x) == IF x < 0 THEN {uT(t, v) : v \in Arith(t, -x)} ELSE {x}

abs_diff(t, i, j) == UNION {abs(t, diff) : diff \in Converted(t, i - j)}

add_sat_wraps(t, i, j) == Converted(t, i + j)

add_sat(t, i, j) ==
  UNION {IF room <= j THEN {Highest(t)} ELSE Converted(t, i + j)
           : room \in Arith(t, Highest(t) - i)}

sub_sat_wide(t, i, j) == {IF Lowest(t) + j >= i THEN Lowest(t) ELSE i - j}

sub_sat(t, i, j) ==
  UNION {IF bound >= i THEN {Lowest(t)} ELSE Converted(t, i - j)
           : bound \in Arith(t, Lowest(t) + j)}

hadd(t, i, j) == {sum \div 2 : sum \in add_sat(t, i, j)}

rhadd(t, i, j) == {sum \div 2 : sum \in UNION {add_sat(t, 1, s) : s \in add_sat(t, i, j)}}

mul_hi(t, i, j) ==
  {Convert(t, uT(t, p) - (uT(t, p) % 2 ^ (t.bits \div 2))) : p \in Arith(t, i * j)}

mul_sat(t, i, j) ==
  IF i = 0 THEN {}
  ELSE IF Quotient(Highest(t), i) <= j THEN {Highest(t)}
  ELSE Converted(t, i * j)

mad_hi(t, i, j, k)  == UNION {Converted(t, h + k) : h \in mul_hi(t, i, j)}
mad_sat(t, i, j, k) == UNION {add_sat(t, prod, k) : prod \in mul_sat(t, i, j)}

\* A type that is promoted to int has room for a shift by all its bits.
rotate(t, i, j) ==
  IF j \notin (IF t.promoted THEN 0..t.bits ELSE 1..t.bits - 1) THEN T(t)
  ELSE {Convert(t, Of(t, Bits(t, i * 2 ^ j) \cup Bits(t, i \div 2 ^ (t.bits - j))))}

\* The bit that the loop of clz looks for.
mask(t) == 2 ^ (t.bits - 1)

-----------------------------------------------------------------------------
(* common.hpp, on integers                                                 *)

clamp(x, y, z) == {IF x < y THEN y ELSE IF x > z THEN z ELSE x}
max(x, y)      == {IF x < y THEN y ELSE x}
min(x, y)      == {IF x < y THEN x ELSE y}
step(e, x)     == {IF x < e THEN 0 ELSE 1}
sign(x)        == {IF x < 0 THEN 1 ELSE 0}
mix(t, x, y, z) == Converted(t, x * z + (1 - z) * y)

\* math.hpp
mad(t, i, j, k) == UNION {Converted(t, p + k) : p \in Arith(t, i * j)}

-----------------------------------------------------------------------------
(* What they are for                                                       *)

Sat(t, n) == IF n < Lowest(t) THEN Lowest(t) ELSE IF n > Highest(t) THEN Highest(t) ELSE n

Leading(t, x) == Cardinality({b \in 0..t.bits - 1 : \A c \in b..t.bits - 1 : c \notin Bits(t, x)})

Rotated(t, i, j) ==
  LET r == (j % t.bits)
  IN  Convert(t, ((uT(t, i) * 2 ^ r) % 2 ^ t.bits) + (uT(t, i) \div 2 ^ (t.bits - r)))

Reference(f, t, i, j, k) ==
  CASE f = "abs"      -> IF i < 0 THEN -i ELSE i
    [] f = "abs_diff" -> IF i < j THEN j - i ELSE i - j
    [] f = "add_sat"  -> Sat(t, i + j)
    [] f = "sub_sat"  -> Sat(t, i - j)
    [] f = "hadd"     -> (i + j) \div 2
    [] f = "rhadd"    -> (i + j + 1) \div 2
    [] f = "mul_sat"  -> Sat(t, i * j)
    [] f = "mul_hi"   -> (i * j) \div 2 ^ t.bits
    [] f = "mad_hi"   -> Convert(t, (i * j) \div 2 ^ t.bits + k)
    [] f = "mad_sat"  -> Sat(t, i * j + k)
    [] f = "rotate"   -> Rotated(t, i, j)
    [] f = "clz"      -> Leading(t, i)
    [] f = "popcount" -> Cardinality(Bits(t, i))
    [] f = "clamp"    -> IF i < j THEN j ELSE IF i > k THEN k ELSE i
    [] f = "max"      -> IF i > j THEN i ELSE j
    [] f = "min"      -> IF i > j THEN j ELSE i
    [] f = "step"     -> IF j < i THEN 0 ELSE 1
    [] f = "sign"     -> IF i < 0 THEN -1 ELSE IF i > 0 THEN 1 ELSE 0
    [] f = "mix"      -> Convert(t, i + (j - i) * k)
    [] f = "mad"      -> Convert(t, i * j + k)

\* The values they are right for, where C++ defines their result at all.
Right(f, t, i, j, k) ==
  CASE f = "abs_diff" -> IF t.signed THEN i - j \in Lowest(t)..-Lowest(t) ELSE i >= j \/ j - i = 2 ^ (t.bits - 1)
    [] f = "add_sat"  -> i + j >= Lowest(t)
    [] f = "sub_sat"  -> i - j <= Highest(t)
    [] f = "hadd"     -> i + j \in T(t)
    [] f = "rhadd"    -> i + j \in Lowest(t)..Highest(t) - 1
    [] f = "mul_sat"  -> IF i < 0
                         THEN i * j = Highest(t) \/ (i * j > Highest(t) /\ Convert(t, i * j) = Highest(t))
                         ELSE /\ i * j >= Lowest(t) \/ Convert(t, i * j) = Lowest(t)
                              /\ j = Highest(t) \div i => i * j = Highest(t)
    [] f \in {"mul_hi", "mad_hi"} -> i * j \in 0..2 ^ (t.bits \div 2) - 1
    [] f = "mad_sat"  -> i > 0 /\ i * j \in T(t) /\ j # Highest(t) \div i /\ i * j + k >= Lowest(t)
    [] f = "rotate"   -> i < 0 => i % 2 ^ (t.bits - j) = 2 ^ (t.bits - j) - 1
    [] f = "sign"     -> i = 0
    [] f = "mix"      -> Convert(t, (i - j) * (2 * k - 1)) = 0
    [] OTHER          -> TRUE

\* Signed int arithmetic that overflows, a shift that is too far.
Defined(f, t, i, j, k) ==
  LET fits(n) == t.promoted \/ ~t.signed \/ n \in T(t)
  IN  CASE f = "abs"      -> fits(-i)
        [] f = "abs_diff" -> fits(i - j) /\ fits(j - i)
        [] f = "add_sat"  -> fits(Highest(t) - i)
        [] f = "sub_sat"  -> fits(Lowest(t) + j)
        [] f = "hadd"     -> fits(Highest(t) - i)
        [] f = "rhadd"    -> fits(Highest(t) - i)
        [] f = "mul_sat"  -> fits(i * j) \/ (i > 0 /\ j > 0)
        [] f \in {"mul_hi", "mad_hi"} -> fits(i * j)
        [] f = "mad_sat"  -> fits(i * j) /\ fits(Highest(t) - i * j)
        [] f = "rotate"   -> j \in (IF t.promoted THEN 0..t.bits ELSE 1..t.bits - 1)
        [] f = "mix"      -> fits(i * k) /\ fits((1 - k) * j) /\ fits(i * k + (1 - k) * j)
        [] f = "mad"      -> fits(i * j) /\ fits(i * j + k)
        [] OTHER          -> TRUE
=============================================================================
