--------------------------- MODULE KernelOutliner ---------------------------
(***************************************************************************)
(* kout: from a call of single_task or parallel_for to two classes of the  *)
(* kernel's name, one in the host code, which fills the members from the   *)
(* variables around the call, and one in the device code, which runs the   *)
(* lambda's body on them.  A translation is right if the device body means *)
(* what the lambda means on the host.                                      *)
(*                                                                         *)
(* A declaration is a record of its name, kind ("function", "index",       *)
(* "local", "variable", "field"), type ("plain", "own" for one that the    *)
(* source defines outside the kernel, "array", "reference", "id1" for an   *)
(* id of one dimension, "id" for one of more, "accessor", "accessor&"),    *)
(* def (where a function's body is: "here", "inline" in the same file,     *)
(* "header", "nowhere"), included (is a function declared by a header that *)
(* CL/sycl.hpp brings in), explicit (is it listed in the lambda's capture  *)
(* clause), init (has it an initialiser) and changed (would that           *)
(* initialiser, in which no id occurs, give another value by now).  A node *)
(* of the body is a record of node, decl and at: a constant subscript, or  *)
(* for "returns" the number of loops of the body around it.  The index of  *)
(* a kernel is the class of its parameter, "unnamed" if that has no name.  *)
(***************************************************************************)
EXTENDS Integers, Sequences, SequencesExt

IsFunction(d) == d.kind = "function"
IsIndex(d)    == d.kind = "index"
IsAccessor(d) == d.type \in {"accessor", "accessor&"}

\* A kernel as C++ has it: variables are captured, fields are members of this,
\* and a subscript of an id is not negative.
IsKernel(k) ==
  /\ k.captures \in Seq(ToSet(k.captures)) /\ k.body \in Seq(ToSet(k.body))
  /\ \A d \in ToSet(k.captures) : d.kind = "variable"
  /\ \A n \in ToSet(k.body) :
       /\ n.node \in {"declares", "names", "subscripts", "member", "returns"} /\ n.at \in Nat
       /\ n.node = "member" => n.decl.kind = "field"
       /\ n.node \in {"names", "subscripts"} /\ IsIndex(n.decl) => k.index # "unnamed"

-----------------------------------------------------------------------------
(* VarDeclFinder, a walk over the body                                     *)

VisitDecl(f, d) == [f EXCEPT !.decl_list = @ \cup {d}]

\* A name that is neither declared in the kernel nor captured becomes a member
\* (or a member function, if its body is known), the first time it is met.
VisitDeclRefExpr(f, d) ==
  IF d \in f.decl_list \cup ToSet(f.vlist) \cup ToSet(f.alist) THEN f
  ELSE IF IsFunction(d) /\ d.def = "nowhere" THEN f
  ELSE IF IsIndex(d) THEN VisitDecl(f, d)
  ELSE IF IsAccessor(d) THEN [f EXCEPT !.alist = Append(@, d)]
  ELSE [f EXCEPT !.vlist = Append(@, d)]

\* this->field becomes a member.
VisitMemberExpr(f, d) ==
  IF d \in ToSet(f.vlist) THEN f ELSE [f EXCEPT !.vlist = Append(@, d)]

Visit(f, n) ==
  CASE n.node = "declares"               -> VisitDecl(f, n.decl)
    [] n.node \in {"names", "subscripts"} -> VisitDeclRefExpr(f, n.decl)
    [] n.node = "member"                 -> VisitMemberExpr(f, n.decl)
    [] n.node = "returns"                -> f

finder(k) ==
  FoldLeft(Visit, [decl_list |-> ToSet(k.captures), vlist |-> <<>>, alist |-> <<>>], k.body)

-----------------------------------------------------------------------------
(* The class, of the host code and of the device code alike                *)

\* The elements of a sequence that are in a set, or pass a test: SelectSeq as a
\* fold, of which proofs can say something.
Among(s, A) == FoldLeft(LAMBDA r, d : IF d \in A THEN Append(r, d) ELSE r, <<>>, s)
Only(s, Test(_)) == Among(s, {d \in ToSet(s) : Test(d)})

Variables(k) == Only(finder(k).vlist, LAMBDA d : ~IsFunction(d))
Functions(k) == {d \in ToSet(finder(k).vlist) : IsFunction(d) /\ d.def = "here"}

vlist(k) == Only(k.captures, LAMBDA d : ~IsAccessor(d))
alist(k) == Only(k.captures, LAMBDA d : IsAccessor(d))

\* printVarDecls.  printAccessor prints nothing for a reference.
members(k) ==
  Variables(k) \o vlist(k) \o Only(alist(k), LAMBDA d : d.type = "accessor")

\* The initialiser of a captured variable is its name, but the expression of
\* its declaration if it is listed in the capture clause and has one.
AsDeclared(d) == d.explicit /\ d.init
Filled(d) == [decl |-> d, value |-> IF AsDeclared(d) /\ d.changed THEN "old" ELSE "now"]

\* writeHostCode: what the members are initialised with, in order.
initialisersVarsLast(k) ==
  [i \in DOMAIN vlist(k) |-> Filled(vlist(k)[i])]
  \o [i \in DOMAIN Variables(k) |-> [decl |-> Variables(k)[i], value |-> "now"]]
  \o [i \in DOMAIN alist(k) |-> [decl |-> alist(k)[i], value |-> "now"]]

initialisers(k) ==
  [i \in DOMAIN Variables(k) |-> [decl |-> Variables(k)[i], value |-> "now"]]
  \o [i \in DOMAIN vlist(k) |-> Filled(vlist(k)[i])]
  \o [i \in DOMAIN alist(k) |-> [decl |-> alist(k)[i], value |-> "now"]]

-----------------------------------------------------------------------------
(* What becomes of it                                                      *)

\* printLoop returns before the loops and the body if the parameter of the
\* lambda has no name: run() is empty.
IsEmpty(k) == k.dim > 0 /\ k.index = "unnamed"

printed(k) == IF IsEmpty(k) THEN <<>> ELSE k.body

\* The walk ends in abort() or in a null pointer.
Aborts(k) == ~k.lambda \/ (k.dim > 0 /\ k.index \notin {"id", "item", "unnamed"})

\* The host compiler takes the initialisers: none too many, and none that is
\* the name of an array.  There is no run() for an nd_range.
FitsHost(k) ==
  /\ k.launch # "nd_range"
  /\ Len(initialisers(k)) <= Len(members(k))
  /\ \A i \in DOMAIN initialisers(k) :
       LET d == initialisers(k)[i].decl
       IN  d.type = "array" => d \in ToSet(vlist(k)) /\ AsDeclared(d)

\* KoutPrinterHelper: an id of one dimension is printed as the counter of the
\* outermost loop, an id with a constant subscript as the counter of that loop,
\* whichever id it is; return, as continue.
Counter(n) ==
  CASE n.node = "names" /\ n.decl.type = "id1" -> 0
    [] n.node = "subscripts" /\ n.decl.type \in {"id1", "id"} -> n.at
    [] OTHER -> -1

InScope(k, d) ==
  \/ d \in ToSet(members(k)) \cup Functions(k)
  \/ IsFunction(d) /\ d.included
  \/ IsIndex(d) /\ k.dim > 0
  \/ d.kind = "local"

Compiles(k, n) ==
  CASE n.node = "declares" -> n.decl.type # "own"
    [] n.node = "returns"  -> n.at > 0 \/ k.dim > 0
    [] Counter(n) >= 0     -> Counter(n) < k.dim
    [] OTHER               -> InScope(k, n.decl)

\* The device code has no class of the source, and nothing to bind a reference.
FitsDevice(k) ==
  /\ \A i \in DOMAIN printed(k) : Compiles(k, printed(k)[i])
  /\ \A i \in DOMAIN members(k) : members(k)[i].type \notin {"own", "reference"}

-----------------------------------------------------------------------------
(* What it means: a variable's value, as it is now or as it once was, a    *)
(* coordinate of the work-item, or an effect.                              *)

Value(d, age) == <<"value", d.name, age>>
Item(at)      == <<"coordinate", at>>
Effect(what)  == <<"effect", what>>

HostMeaning(n) ==
  CASE n.node = "returns" -> Effect("end of the work-item")
    [] n.node = "declares" -> Effect("declaration")
    [] n.node = "subscripts" /\ IsIndex(n.decl) -> Item(n.at)
    [] n.node = "names" /\ IsIndex(n.decl) /\ n.decl.type = "id1" -> Item(0)
    [] OTHER -> Value(n.decl, "now")

\* A member has the value of the initialiser at its own place, none if there
\* is none, and is whatever the initialiser was printed for.
Member(ms, d, inits) ==
  LET at == {i \in DOMAIN ms : ms[i] = d}
      i  == CHOOSE j \in at : TRUE
  IN  IF at = {} THEN Value(d, "now")
      ELSE IF i \in DOMAIN inits THEN Value(inits[i].decl, inits[i].value)
      ELSE Value(d, "none")

DeviceMeaning(ms, n, inits) ==
  CASE n.node = "returns" ->
         Effect(IF n.at > 0 THEN "end of an iteration" ELSE "end of the work-item")
    [] n.node = "declares" -> Effect("declaration")
    [] Counter(n) >= 0 -> Item(Counter(n))
    [] n.node = "subscripts" /\ IsIndex(n.decl) -> Item(n.at)
    [] OTHER -> Member(ms, n.decl, inits)

HostResult(k) == [i \in DOMAIN k.body |-> HostMeaning(k.body[i])]

DeviceResult(k, inits) ==
  LET ms == members(k)
  IN  [i \in DOMAIN printed(k) |-> DeviceMeaning(ms, printed(k)[i], inits)]

\* The kernels that mean the same on a device: none with a body but no name for
\* its index; none of an id that is not the kernel's own by name or constant
\* subscript, of a return in a loop, and of an explicit capture, but of an
\* accessor, whose initialiser has another value by now.
Faithful(k) ==
  \A i \in DOMAIN k.body :
    LET n == k.body[i]
    IN  /\ ~IsEmpty(k)
        /\ n.node = "names" /\ n.decl.type = "id1" => IsIndex(n.decl)
        /\ n.node = "subscripts" /\ n.decl.type \in {"id1", "id"} => IsIndex(n.decl)
        /\ n.node = "returns" => n.at = 0
        /\ n.node \in {"names", "subscripts"} /\ n.decl \in ToSet(vlist(k)) =>
             ~(AsDeclared(n.decl) /\ n.decl.changed)
=============================================================================
