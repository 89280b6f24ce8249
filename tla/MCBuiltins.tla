----------------------------- MODULE MCBuiltins -----------------------------
(***************************************************************************)
(* Functions of one and two arguments on all values of four bits, those of *)
(* three on all values of three bits, each for a signed and an unsigned    *)
(* type, as wide as int and narrower; some of them on two lanes.  mul_sat  *)
(* has five bits, too, where a product may wrap around to the upper bound. *)
(* Every operator, form and class on one and on two lanes.                 *)
(***************************************************************************)
EXTENDS Builtins

Integer(b, s, p) == [bits |-> b, signed |-> s, promoted |-> p]
Signs(b)      == {Integer(b, s, p) : s, p \in BOOLEAN}
MCTypes       == Signs(4) \cup Signs(3) \cup {Integer(5, TRUE, TRUE)}

One   == {"abs", "sign", "clz", "popcount", "fmax"}
Three == {"mad_hi", "mad_sat", "clamp", "mix", "mad"}
Twice == {"clz", "popcount", "mul_sat", "hadd"}

Widths(f) == IF f \in Three THEN {3} ELSE IF f = "mul_sat" THEN {4, 5} ELSE {4}

\* clamp is for bounds in order, mix for a weight from 0 to 1.
Third(f, t, j) ==
  CASE f = "clamp" -> j..Highest(t)
    [] f = "mix"   -> 0..1
    [] f \in Three -> T(t)
    [] OTHER       -> {0}

MCArguments(f, t) ==
  LET second == IF f \in One THEN {0} ELSE T(t)
  IN  IF t.bits \notin Widths(f) THEN {}
      ELSE {<<a>> : a \in {b \in T(t) \X second \X (IF f \in Three THEN T(t) ELSE {0}) :
                            b[3] \in Third(f, t, b[2])}}
           \cup IF f \notin Twice THEN {}
                ELSE LET E == {Lowest(t), 0, 1, Highest(t)}
                     IN  {<<<<i, j, 0>>, <<j, i, 0>>>> : i, j \in E}

MCElements(cls) ==
  IF cls = "vec" THEN {Integer(3, TRUE, FALSE), Integer(3, FALSE, TRUE)} ELSE {Integer(3, FALSE, FALSE)}

MCOperands(t, form) ==
  LET E == {Lowest(t), 0, 1, 2, Highest(t)} \cup (IF t.signed THEN {-1} ELSE {})
      V == {<<a>> : a \in E} \cup E \X E
      R(vv, ww, s, i) == [v |-> vv, w |-> ww, s |-> s, alias |-> i]
  IN  IF form \in Scalar
      THEN {R(vv, <<>>, s, 0) : vv \in V, s \in E}
             \cup UNION {{R(vv, <<>>, vv[i], i) : i \in DOMAIN vv} : vv \in V}
      ELSE {R(<<a, b>>, <<b, a>>, 0, 0) : a, b \in E} \cup {R(<<a>>, <<b>>, 0, 0) : a, b \in E}
=============================================================================
