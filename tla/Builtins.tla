------------------------------ MODULE Builtins ------------------------------
(***************************************************************************)
(* One call of a built-in function, or one operator applied to a vec, id,  *)
(* range or ArrayND, lane after lane.  The left operand is a variable: an  *)
(* assignment changes it while the loop goes on, and a scalar operand may  *)
(* be a reference to one of its lanes.                                     *)
(***************************************************************************)
EXTENDS ScalarFunctions, Sequences

CONSTANTS Types, Arguments(_, _), \* of a function and a type: sequences of <<x, y, z>>,
                                 \* one for each lane
          Elements(_),           \* the element types of a class
          Operands(_, _),        \* of a type and a form: records v, w (sequences), s and
                                 \* alias, the lane of v that s refers to, or 0
          MaxCount               \* where the counters of the loops stop to count

\* The types have two bits or more; the loops of clz and popcount count at most
\* the bits of a type.
Type == [bits : Nat \ {0, 1}, signed : BOOLEAN, promoted : BOOLEAN]

ASSUME TypesAre ==
  /\ MaxCount \in Nat
  /\ \A t \in Types : t \in Type /\ t.bits <= MaxCount

VARIABLES pc, call, v, lane, bits, num, result

vars == <<pc, call, v, lane, bits, num, result>>

None == [f |-> "none"]

Init ==
  /\ pc = "idle" /\ call = None
  /\ v = <<>> /\ result = <<>>
  /\ lane = 1 /\ bits = 0 /\ num = 0

Count(n) == IF n < MaxCount THEN n + 1 ELSE n

-----------------------------------------------------------------------------
(* Functions                                                               *)

Loops     == {"clz", "popcount"}
Functions == Loops \cup
  {"abs", "abs_diff", "add_sat", "sub_sat", "hadd", "rhadd", "mul_sat", "mul_hi", "mad_hi",
   "mad_sat", "rotate", "clamp", "max", "min", "step", "sign", "mix", "mad", "fmax"}

ASSUME ArgumentsAre ==
  \A f \in Functions, t \in Types : \A lanes \in Arguments(f, t) :
    lanes \in Seq(T(t) \X T(t) \X T(t)) /\ lanes # <<>>

\* Each function that returns what an expression of its arguments gives.
F(f, t, x, y, z) ==
  CASE f = "abs"      -> abs(t, x)
    [] f = "abs_diff" -> abs_diff(t, x, y)
    [] f = "add_sat"  -> add_sat(t, x, y)
    [] f = "sub_sat"  -> sub_sat(t, x, y)
    [] f = "hadd"     -> hadd(t, x, y)
    [] f = "rhadd"    -> rhadd(t, x, y)
    [] f = "mul_sat"  -> mul_sat(t, x, y)
    [] f = "mul_hi"   -> mul_hi(t, x, y)
    [] f = "mad_hi"   -> mad_hi(t, x, y, z)
    [] f = "mad_sat"  -> mad_sat(t, x, y, z)
    [] f = "rotate"   -> rotate(t, x, y)
    [] f = "clamp"    -> clamp(x, y, z)
    [] f = "max"      -> max(x, y)
    [] f = "min"      -> min(x, y)
    [] f = "step"     -> step(x, y)
    [] f = "sign"     -> sign(x)
    [] f = "mix"      -> mix(t, x, y, z)
    [] f = "mad"      -> mad(t, x, y, z)

\* rhadd(1, ...) needs an int; the mask of mul_hi is a constant of at least that.
Declared(f, t) ==
  /\ f \in {"rhadd", "mul_hi", "mad_hi"} => ~t.promoted
  /\ f = "rhadd" => t.signed

Call(f, t) ==
  /\ pc = "idle" /\ Declared(f, t)
  /\ \E lanes \in Arguments(f, t) : call' = [f |-> f, type |-> t, lanes |-> lanes]
  /\ pc' = CASE f = "fmax" -> "fmax" [] f \in Loops -> "enter" [] OTHER -> "F"
  /\ UNCHANGED <<v, lane, bits, num, result>>

Lanes == IF call.f = "operator" THEN Len(call.v) ELSE Len(call.lanes)

\* R[i] = F(x[i], y[i], z[i]), and on to the next lane.
Lane(r, more) ==
  /\ result' = Append(result, r)
  /\ lane' = lane + 1
  /\ pc' = IF lane = Lanes THEN "done" ELSE more

Apply ==
  /\ pc = "F"
  /\ LET a == call.lanes[lane]
         R == F(call.f, call.type, a[1], a[2], a[3])
     IN  \/ \E r \in R : Lane(r, "F")
         \/ R = {} /\ pc' = "trapped" /\ UNCHANGED <<lane, result>>
  /\ UNCHANGED <<call, v, bits, num>>

Enter ==
  /\ pc = "enter" /\ pc' = call.f
  /\ bits' = IF call.f = "clz" THEN uT(call.type, call.lanes[lane][1]) ELSE call.lanes[lane][1]
  /\ num' = 0
  /\ UNCHANGED <<call, v, lane, result>>

clz ==
  /\ pc = "clz"
  /\ \/ /\ bits < mask(call.type)
        /\ bits' = uT(call.type, bits * 2) /\ num' = Count(num)
        /\ UNCHANGED <<pc, lane, result>>
     \/ /\ bits >= mask(call.type)
        /\ Lane(num, "enter")
        /\ UNCHANGED <<bits, num>>
  /\ UNCHANGED <<call, v>>

popcountToSign ==
  /\ pc = "popcount"
  /\ \/ /\ bits >= 0
        /\ num' = IF bits % 2 = 1 THEN Count(num) ELSE num
        /\ bits' = bits \div 2
        /\ UNCHANGED <<pc, lane, result>>
     \/ /\ bits < 0
        /\ Lane(num, "enter")
        /\ UNCHANGED <<bits, num>>
  /\ UNCHANGED <<call, v>>

\* >> keeps the sign of bits.
popcount ==
  /\ pc = "popcount"
  /\ \/ /\ bits # 0
        /\ num' = IF bits % 2 = 1 THEN Count(num) ELSE num
        /\ bits' = bits \div 2
        /\ UNCHANGED <<pc, lane, result>>
     \/ /\ bits = 0
        /\ Lane(num, "enter")
        /\ UNCHANGED <<bits, num>>
  /\ UNCHANGED <<call, v>>

\* fmax and fmin of a vec and a scalar call themselves until the stack is full.
fmax ==
  /\ pc = "fmax"
  /\ num' = Count(num)
  /\ pc' = IF num = MaxCount THEN "trapped" ELSE "fmax"
  /\ UNCHANGED <<call, v, lane, bits, result>>

-----------------------------------------------------------------------------
(* Operators                                                               *)

Classes == {"vec", "id", "range", "ArrayND"}
Tests   == {"&&", "||", "<", ">", "<=", ">="}
Ops     == Tests \cup {"+", "-", "*", "/", "%", "<<", ">>", "&", "|", "^"}
Assigns == {"v op= w", "v op= s"}
Scalar  == {"v op s", "s op v", "v op= s"}
Forms   == Assigns \cup Scalar \cup {"v op w"}

ASSUME OperandsAre ==
  \A cls \in Classes : \A t \in Elements(cls) :
    /\ t \in Type
    /\ \A form \in Forms : \A o \in Operands(t, form) :
         /\ o \in [v : Seq(T(t)), w : Seq(T(t)), s : T(t), alias : 0..Len(o.v)] /\ o.v # <<>>
         /\ form \notin Scalar => Len(o.w) = Len(o.v) /\ o.alias = 0
         /\ o.alias # 0 => o.s = o.v[o.alias]

Bool(p) == {IF p THEN 1 ELSE 0}

Shift(t, b, shifted) == IF b \in 0..t.bits - 1 THEN {Convert(t, shifted)} ELSE T(t)

\* Of the other two, C++ leaves the quotient open and x86-64 traps.
HasQuotient(t, a, b) == b # 0 /\ ~(t.signed /\ ~t.promoted /\ a = Lowest(t) /\ b = -1)

OP(t, op, a, b) ==
  CASE op = "+"  -> Converted(t, a + b)
    [] op = "-"  -> Converted(t, a - b)
    [] op = "*"  -> Converted(t, a * b)
    [] op = "/"  -> IF HasQuotient(t, a, b) THEN Converted(t, Quotient(a, b)) ELSE {}
    [] op = "%"  -> IF HasQuotient(t, a, b) THEN {a - (b * Quotient(a, b))} ELSE {}
    [] op = "<<" -> Shift(t, b, a * 2 ^ b)
    [] op = ">>" -> Shift(t, b, a \div 2 ^ b)
    [] op = "&"  -> {Convert(t, Of(t, Bits(t, a) \cap Bits(t, b)))}
    [] op = "|"  -> {Convert(t, Of(t, Bits(t, a) \cup Bits(t, b)))}
    [] op = "^"  -> {Convert(t, Of(t, (Bits(t, a) \cup Bits(t, b)) \ (Bits(t, a) \cap Bits(t, b))))}
    [] op = "&&" -> Bool(a # 0 /\ b # 0)
    [] op = "||" -> Bool(a # 0 \/ b # 0)
    [] op = "<"  -> Bool(a < b)
    [] op = ">"  -> Bool(a > b)
    [] op = "<=" -> Bool(a <= b)
    [] op = ">=" -> Bool(a >= b)

\* The operator + that stands where a += of a size_t was meant.
Mistyped(c) == c.form \in {"v op s", "s op v"} /\ c.op = "+" /\ c.cls # "vec" /\ ~c.const

\* The statements that compile.  The comparisons of vec have a result type that
\* cannot be deduced, a range has no default constructor, += of a size_t is
\* missing, and a size_t on the left wants an operand that is not const; but for
\* one axis a size_t is converted to the other operand's class.
Exists(c, axes) ==
  /\ c.form \in Assigns => ~c.const /\ c.op \notin Tests
  /\ c.cls = "vec" => c.op \notin Tests
  /\ c.cls # "vec" /\ axes > 1 => /\ c.form = "v op= s" => c.op # "+"
                                  /\ c.form = "s op v" => ~c.const
  /\ c.cls = "range" => c.form \in Assigns \/ (Mistyped(c) /\ c.form = "v op s")

\* Mutant: += of a size_t is not the only one that is mistyped.
InPlaceSizeT(c) ==
  c.form \in Assigns \/ (c.form \in {"v op s", "s op v"} /\ c.cls # "vec" /\ ~c.const)

\* Which operators write to v.
InPlace(c) == c.form \in Assigns \/ Mistyped(c)

Statement(c) ==
  /\ pc = "idle"
  /\ \E t \in Elements(c.cls) : \E o \in Operands(t, c.form) :
       /\ Exists(c, Len(o.v))
       /\ call' = [f |-> "operator", type |-> t, cls |-> c.cls, op |-> c.op, form |-> c.form,
                   const |-> c.const, v |-> o.v, w |-> o.w, s |-> o.s, alias |-> o.alias]
       /\ v' = o.v
  /\ pc' = "operator"
  /\ UNCHANGED <<lane, bits, num, result>>

\* The scalar is read again for each lane.
scalar(c) == IF c.alias = 0 THEN c.s ELSE v[c.alias]

\* A scalar on the left is the right operand, too, if it was not converted.
Converts(c) == c.form = "s op v" /\ c.cls # "vec" /\ c.const

Compute(c, a, b) == IF Converts(c) THEN OP(c.type, c.op, b, a) ELSE OP(c.type, c.op, a, b)

Operate ==
  /\ pc = "operator"
  /\ LET c == call
         R == Compute(c, v[lane], IF c.form \in Scalar THEN scalar(c) ELSE c.w[lane])
     IN  \/ \E r \in R :
              /\ Lane(r, "operator")
              /\ v' = IF InPlace(c) THEN [v EXCEPT ![lane] = r] ELSE v
         \/ R = {} /\ pc' = "trapped" /\ UNCHANGED <<lane, result, v>>
  /\ UNCHANGED <<call, bits, num>>

Step == Apply \/ Enter \/ clz \/ popcount \/ fmax \/ Operate

Next ==
  \/ \E f \in Functions, t \in Types : Call(f, t)
  \/ \E cls \in Classes, op \in Ops, form \in Forms, const \in BOOLEAN :
       Statement([cls |-> cls, op |-> op, form |-> form, const |-> const])
  \/ Step

Spec     == Init /\ [][Next]_vars
FairSpec == Spec /\ WF_vars(Step)

-----------------------------------------------------------------------------
(* Properties                                                              *)

\* Results are of the result type, one for each lane that is done.
TypeOK ==
  /\ pc \in {"idle", "F", "enter", "clz", "popcount", "fmax", "operator", "done", "trapped"}
  /\ num \in 0..MaxCount
  /\ pc # "idle" =>
       /\ lane \in 1..Lanes + 1 /\ Len(result) = lane - 1
       /\ pc = "done" <=> lane = Lanes + 1
       /\ \A l \in DOMAIN result :
            result[l] \in IF call.f \in {"abs", "abs_diff"} THEN 0..2 ^ call.type.bits - 1
                         ELSE IF call.f \in Loops THEN 0..call.type.bits
                         ELSE T(call.type)

\* A function returns for every value but a zero where the loop of clz looks for
\* a bit or mul_sat divides, a negative number whose bits popcount shifts out,
\* and a vector and a scalar for fmax.
Returns(c) ==
  \A l \in DOMAIN c.lanes :
    LET x == c.lanes[l][1]
    IN  /\ c.f \in {"clz", "mul_sat", "mad_sat"} => x # 0
        /\ c.f = "popcount" => x >= 0
        /\ c.f # "fmax"

\* The lanes after the one that the scalar refers to, when that is assigned to.
Late(c, l) == c.form = "v op= s" /\ c.alias \in 1..l - 1

Operand(c, l) == IF c.form \in Scalar THEN c.s ELSE c.w[l]

\* An operator returns if each lane has a quotient.  After the lane i of its own
\* scalar, v /= v[i] divides by 1, and v %= v[i] by zero.
Quoted(c, a, b) == IF Converts(c) THEN HasQuotient(c.type, b, a) ELSE HasQuotient(c.type, a, b)

Divides(c) ==
  c.op \in {"/", "%"} =>
    \A l \in DOMAIN c.v : IF Late(c, l) THEN c.op = "/" ELSE Quoted(c, c.v[l], Operand(c, l))

Ends(c) == IF c.f = "operator" THEN Divides(c) ELSE Returns(c)

\* Every other call of a built-in function and every other operator comes to its
\* end: no loop goes on for ever, no recursion fills the stack, no division traps.
CallEnds == (pc # "idle" /\ Ends(call)) ~> pc = "done"

\* Where C++ defines the result, each lane is the mathematical one, and is not
\* for exactly the values that Right leaves out: the lower bound in add_sat, the
\* upper one in sub_sat, saturated sums in hadd, exact products in mul_sat.
FunctionsRight ==
  pc = "done" /\ call.f # "operator" =>
    /\ Returns(call)
    /\ \A l \in DOMAIN result :
         LET a  == call.lanes[l]
             is == result[l] = Reference(call.f, call.type, a[1], a[2], a[3])
             ok == Right(call.f, call.type, a[1], a[2], a[3])
         IN  Defined(call.f, call.type, a[1], a[2], a[3]) =>
               /\ ok => is
               /\ ~ok => ~is \/ call.f \in {"mul_hi", "mad_hi", "mad_sat"}

Commutes == {"+", "*", "&", "|", "^", "&&", "||"}

\* A scalar on the left of an operator that does not commute.
Swapped(c) == c.form = "s op v" /\ c.op \notin Commutes /\ ~Converts(c)

\* An operator gives each lane what it says of the operands as they were, but for
\* the lanes that are late, which read what was written, and the scalars
\* that are swapped, which are the right operand.  Of the operator + that
\* is mistyped, this says nothing.
OperatorsMean ==
  pc = "done" /\ call.f = "operator" /\ ~Mistyped(call) =>
    LET c == call
        gives(a, b) == OP(c.type, c.op, a, b)
    IN  /\ Divides(c)
        /\ \A l \in DOMAIN result :
             IF Late(c, l) THEN \E s2 \in gives(c.s, c.s) : result[l] \in gives(c.v[l], s2)
             ELSE result[l] \in IF c.form = "s op v" /\ ~Swapped(c) THEN gives(c.s, c.v[l])
                               ELSE gives(c.v[l], Operand(c, l))

\* What the comments over the operators say: only those with a = write to their
\* left operand.
OperandsKept ==
  pc = "done" /\ call.f = "operator" /\ call.form \notin Assigns => v = call.v
=============================================================================
