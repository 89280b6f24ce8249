------------------------ MODULE KernelOutlinerProofs ------------------------
(***************************************************************************)
(* Proofs about what kout makes of a kernel.  They are about folds over    *)
(* sequences of any length: induction is stated with sets of numbers, and  *)
(* a fold is shown to run through its sequence element by element.         *)
(***************************************************************************)
EXTENDS KernelOutliner, WellFoundedInduction, TLAPS

-----------------------------------------------------------------------------
(* Induction                                                               *)

LEMMA Smallest ==
  ASSUME NEW S, S \subseteq Nat, S # {}
  PROVE  \E n \in S : \A m \in S : n <= m
  <1> DEFINE R == OpToRel(<, Nat)
  <1>1. R = {ss \in Nat \X Nat : ss[1] < ss[2]}
    BY DEF OpToRel
  <1>2. IsWellFoundedOn(R, Nat)
    BY NatLessThanWellFounded
  <1> HIDE DEF R
  <1>3. PICK n \in S : \A m \in S : <<m, n>> \notin R
    BY <1>2, WFMin
  <1>4. \A m \in S : ~(m < n)
    BY <1>1, <1>3
  <1> QED BY <1>4

LEMMA Induct ==
  ASSUME NEW S, 0 \in S, \A n \in Nat : n \in S => n + 1 \in S
  PROVE  \A n \in Nat : n \in S
  <1> SUFFICES ASSUME Nat \ S # {} PROVE FALSE
    OBVIOUS
  <1>1. PICK n \in Nat \ S : \A m \in Nat \ S : n <= m
    BY Smallest
  <1>2. n - 1 \in Nat /\ ~(n <= n - 1)
    BY <1>1
  <1>3. n - 1 \in S
    BY <1>1, <1>2
  <1>4. (n - 1) + 1 \in S
    BY <1>2, <1>3
  <1> QED BY <1>1, <1>4

-----------------------------------------------------------------------------
(* FoldOver                                                                   *)

LEMMA Largest ==
  ASSUME NEW n \in Nat, NEW S \in SUBSET (1..n), S # {}
  PROVE  \E m \in S : \A y \in S : m >= y
  <1> DEFINE T == {n - m : m \in S}
  <1>1. T \subseteq Nat /\ T # {}
    <2>1. \A m \in S : m \in Int /\ n - m \in Nat
      OBVIOUS
    <2> QED BY <2>1
  <1>2. PICK t \in T : \A u \in T : t <= u
    BY <1>1, Smallest
  <1>3. PICK m \in S : t = n - m
    OBVIOUS
  <1>4. \A y \in S : n - m <= n - y
    BY <1>2, <1>3
  <1> HIDE DEF T
  <1>5. ASSUME NEW y \in S PROVE m >= y
    <2>1. m \in Int /\ y \in Int /\ n \in Int
      OBVIOUS
    <2>2. n - m <= n - y
      BY <1>4
    <2> QED BY <2>1, <2>2
  <1> QED BY <1>5

LEMMA MaxIs ==
  ASSUME NEW S, S \subseteq Int, NEW n \in S, \A m \in S : m <= n
  PROVE  Max(S) = n
  <1>1. \A y \in S : n >= y
    OBVIOUS
  <1>2. Max(S) \in S /\ \A y \in S : Max(S) >= y
    BY <1>1 DEF Max
  <1>3. Max(S) \in Int /\ n \in Int
    BY <1>2
  <1>4. Max(S) >= n /\ n >= Max(S)
    BY <1>1, <1>2
  <1> QED BY <1>3, <1>4

\* A function on the subsets of 1..n such as a fold is defined with.
FoldOver(it, n, a, G) ==
  \A s \in SUBSET (1..n) : it[s] = IF s = {} THEN a ELSE G[<<it[s \ {Max(s)}], Max(s)>>]

\* There is one.
LEMMA FoldExists ==
  ASSUME NEW A, NEW a \in A, NEW G \in [A \X Nat -> A]
  PROVE  \A n \in Nat : \E it \in [SUBSET (1..n) -> A] : FoldOver(it, n, a, G)
  <1> DEFINE Goes(it, n) ==
               \A s \in SUBSET (1..n) :
                 it[s] = IF s = {} THEN a ELSE G[<<it[s \ {Max(s)}], Max(s)>>]
             S == {n \in Nat : \E it \in [SUBSET (1..n) -> A] : Goes(it, n)}
  <1>1. 0 \in S
    <2> DEFINE it == [s \in SUBSET (1..0) |-> a]
    <2>1. \A s \in SUBSET (1..0) : s = {}
      OBVIOUS
    <2>2. it \in [SUBSET (1..0) -> A] /\ Goes(it, 0)
      BY <2>1
    <2> HIDE DEF Goes, it
    <2> QED BY <2>2
  <1>2. ASSUME NEW n \in Nat, n \in S PROVE n + 1 \in S
    <2>1. PICK it \in [SUBSET (1..n) -> A] : Goes(it, n)
      BY <1>2
    <2> DEFINE jt == [s \in SUBSET (1..n + 1) |->
                        IF n + 1 \in s THEN G[<<it[s \ {n + 1}], n + 1>>] ELSE it[s]]
    <2>2. \A s \in SUBSET (1..n + 1) : n + 1 \notin s => s \in SUBSET (1..n)
      OBVIOUS
    <2>3. \A s \in SUBSET (1..n + 1) : s \ {n + 1} \in SUBSET (1..n)
      OBVIOUS
    <2>4. jt \in [SUBSET (1..n + 1) -> A]
      BY <2>2, <2>3
    <2>5. \A s \in SUBSET (1..n) : jt[s] = it[s]
      OBVIOUS
    <2>6. \A s \in SUBSET (1..n + 1) : n + 1 \in s => jt[s] = G[<<it[s \ {n + 1}], n + 1>>]
      OBVIOUS
    <2> HIDE DEF jt
    <2>7. ASSUME NEW s \in SUBSET (1..n + 1)
          PROVE  jt[s] = IF s = {} THEN a ELSE G[<<jt[s \ {Max(s)}], Max(s)>>]
      <3>1. CASE n + 1 \in s
        <4>1. s \subseteq Int /\ \A m \in s : m <= n + 1
          OBVIOUS
        <4>2. Max(s) = n + 1
          BY <3>1, <4>1, MaxIs
        <4> QED BY <2>3, <2>5, <2>6, <3>1, <4>2
      <3>2. CASE n + 1 \notin s
        <4>1. s \in SUBSET (1..n) /\ s \ {Max(s)} \in SUBSET (1..n)
          BY <2>2, <3>2
        <4> QED BY <2>1, <2>5, <4>1
      <3> QED BY <3>1, <3>2
    <2>8. Goes(jt, n + 1)
      BY <2>7
    <2> HIDE DEF Goes
    <2> QED BY <2>4, <2>8
  <1> HIDE DEF Goes
  <1>3. \A n \in Nat : n \in S
    BY <1>1, <1>2, Induct
  <1> QED BY <1>3 DEF Goes, FoldOver

\* The elements of a fold's sequence are met one after the other.
LEMMA Initial ==
  ASSUME NEW n \in Nat, NEW i \in 1..n
  PROVE  1..i \in SUBSET (1..n) /\ 1..i # {} /\ Max(1..i) = i /\ (1..i) \ {i} = 1..(i - 1)
  <1>1. 1..i \subseteq Int /\ i \in 1..i /\ \A m \in 1..i : m <= i
    OBVIOUS
  <1>2. Max(1..i) = i
    BY <1>1, MaxIs
  <1> QED BY <1>2

LEMMA AppendSet ==
  ASSUME NEW D, NEW x \in Seq(D), NEW d \in D
  PROVE  ToSet(Append(x, d)) = ToSet(x) \cup {d}
  <1>1. /\ Append(x, d) \in Seq(D) /\ Len(x) \in Nat /\ DOMAIN x = 1..Len(x)
        /\ DOMAIN Append(x, d) = 1..Len(x) + 1
        /\ \A i \in 1..Len(x) : Append(x, d)[i] = x[i]
        /\ Append(x, d)[Len(x) + 1] = d
    OBVIOUS
  <1>2. DOMAIN Append(x, d) = (DOMAIN x) \cup {Len(x) + 1}
    BY <1>1
  <1> QED BY <1>1, <1>2 DEF ToSet

LEMMA AmongRuns ==
  ASSUME NEW D, NEW q \in Seq(D), NEW B
  PROVE  \E r : /\ r[0] = <<>> /\ Among(q, B) = r[Len(q)]
                /\ \A i \in 1..Len(q) : r[i] = IF q[i] \in B THEN Append(r[i - 1], q[i]) ELSE r[i - 1]
  <1> DEFINE n == Len(q)
             A == Seq(D)
             G == [p \in A \X Nat |->
                     IF p[2] \in 1..n /\ q[p[2]] \in B THEN Append(p[1], q[p[2]]) ELSE p[1]]
             E(f) == [s \in SUBSET (DOMAIN q) |->
                        IF s = {} THEN <<>>
                        ELSE IF q[Max(s)] \in B THEN Append(f[s \ {Max(s)}], q[Max(s)])
                             ELSE f[s \ {Max(s)}]]
             iter == CHOOSE f : f = E(f)
  <1>1. Among(q, B) = iter[DOMAIN q]
    BY Zenon DEF Among, FoldLeft, MapThenFoldSet
  <1>2. n \in Nat /\ DOMAIN q = 1..n /\ <<>> \in A
    OBVIOUS
  <1>3. \A s \in SUBSET (1..n) : s # {} => Max(s) \in s
    <2> SUFFICES ASSUME NEW s \in SUBSET (1..n), s # {} PROVE Max(s) \in s
      OBVIOUS
    <2>1. PICK m \in s : \A y \in s : m >= y
      BY <1>2, Largest
    <2> QED BY <2>1 DEF Max
  <1>4. G \in [A \X Nat -> A]
    BY <1>2
  <1>A. ASSUME NEW x \in A, NEW m \in 1..n
         PROVE  G[<<x, m>>] = IF q[m] \in B THEN Append(x, q[m]) ELSE x
    BY <1>2
  <1> DEFINE a == <<>>
  <1>B. a \in A
    BY <1>2
  <1> HIDE DEF G, A, a
  <1>C. PICK it \in [SUBSET (1..n) -> A] : FoldOver(it, n, a, G)
    BY <1>2, <1>4, <1>B, FoldExists
  <1>5. \A s \in SUBSET (1..n) :
          it[s] = IF s = {} THEN a ELSE G[<<it[s \ {Max(s)}], Max(s)>>]
    BY <1>C DEF FoldOver
  <1>6. ASSUME NEW s \in SUBSET (1..n), s # {}
        PROVE  G[<<it[s \ {Max(s)}], Max(s)>>] =
                 IF q[Max(s)] \in B THEN Append(it[s \ {Max(s)}], q[Max(s)]) ELSE it[s \ {Max(s)}]
    <2>1. Max(s) \in 1..n /\ it[s \ {Max(s)}] \in A
      BY <1>3, <1>C, <1>6
    <2> QED BY <1>A, <2>1
  <1>7. it = E(it)
    BY <1>2, <1>C, <1>5, <1>6 DEF a
  <1>8. iter = E(iter)
    BY <1>7
  <1> HIDE DEF iter
  <1>9. iter[1..0] = <<>>
    BY <1>2, <1>8
  <1>10. ASSUME NEW i \in 1..n
         PROVE  iter[1..i] = IF q[i] \in B THEN Append(iter[1..(i - 1)], q[i]) ELSE iter[1..(i - 1)]
    <2>1. 1..i \in SUBSET (1..n) /\ 1..i # {} /\ Max(1..i) = i /\ (1..i) \ {i} = 1..(i - 1)
      BY <1>2, Initial
    <2> QED BY <1>2, <1>8, <2>1
  <1> DEFINE r == [i \in 0..n |-> iter[1..i]]
  <1>11. r[0] = <<>> /\ r[n] = iter[1..n]
    BY <1>2, <1>9
  <1>12. ASSUME NEW i \in 1..n
         PROVE  r[i] = IF q[i] \in B THEN Append(r[i - 1], q[i]) ELSE r[i - 1]
    <2>1. i \in 0..n /\ i - 1 \in 0..n
      BY <1>2
    <2> QED BY <1>10, <2>1
  <1> HIDE DEF r
  <1> QED BY <1>1, <1>2, <1>11, <1>12

\* Among keeps the elements of the set, in order and no other: with all of them
\* it is the sequence itself.
LEMMA AmongFacts ==
  ASSUME NEW D, NEW q \in Seq(D), NEW B
  PROVE  /\ Among(q, B) \in Seq(D)
         /\ ToSet(Among(q, B)) = ToSet(q) \cap B
         /\ Len(Among(q, B)) <= Len(q)
         /\ Len(Among(q, B)) = Len(q) => Among(q, B) = q
  <1> DEFINE n == Len(q)
             P(x, i) == /\ x \in Seq(D) /\ ToSet(x) = {q[j] : j \in 1..i} \cap B
                        /\ Len(x) <= i
                        /\ Len(x) = i => \A j \in 1..i : x[j] = q[j]
  <1>1. PICK r : /\ r[0] = <<>> /\ Among(q, B) = r[n]
                 /\ \A i \in 1..n :
                      r[i] = IF q[i] \in B THEN Append(r[i - 1], q[i]) ELSE r[i - 1]
    BY AmongRuns
  <1> DEFINE S == {i \in Nat : i <= n => P(r[i], i)}
  <1>2. 0 \in S
    <2>1. r[0] \in Seq(D) /\ Len(r[0]) = 0 /\ ToSet(r[0]) = {}
      BY <1>1 DEF ToSet
    <2>2. {q[j] : j \in 1..0} \cap B = {} /\ \A j \in 1..0 : FALSE
      OBVIOUS
    <2> QED BY <2>1, <2>2
  <1>3. ASSUME NEW i \in Nat, i \in S, i + 1 <= n PROVE P(r[i + 1], i + 1)
    <2> DEFINE x == r[i]
               d == q[i + 1]
    <2>1. n \in Nat /\ i <= n /\ i + 1 \in 1..n
      BY <1>3
    <2>2. /\ x \in Seq(D) /\ ToSet(x) = {q[j] : j \in 1..i} \cap B /\ Len(x) <= i
          /\ Len(x) = i => \A j \in 1..i : x[j] = q[j]
      BY <1>3, <2>1
    <2>3. d \in D
      BY <2>1
    <2>4. r[i + 1] = IF d \in B THEN Append(x, d) ELSE x
      BY <1>1, <2>1
    <2>5. {q[j] : j \in 1..i + 1} = {q[j] : j \in 1..i} \cup {d}
      <3>1. 1..i + 1 = (1..i) \cup {i + 1}
        BY <2>1
      <3> QED BY <3>1
    <2> HIDE DEF x, d
    <2>6. CASE d \in B
      <3>1. r[i + 1] \in Seq(D) /\ Len(r[i + 1]) = Len(x) + 1
        BY <2>2, <2>3, <2>4, <2>6
      <3>2. ToSet(r[i + 1]) = ToSet(x) \cup {d}
        BY <2>2, <2>3, <2>4, <2>6, AppendSet
      <3>3. Len(x) \in Nat
        BY <2>2
      <3>4. ASSUME Len(r[i + 1]) = i + 1 PROVE \A j \in 1..i + 1 : r[i + 1][j] = q[j]
        <4>1. Len(x) = i /\ \A j \in 1..i : x[j] = q[j]
          BY <2>2, <3>1, <3>3, <3>4
        <4>2. \A j \in 1..i + 1 : r[i + 1][j] = IF j = i + 1 THEN d ELSE x[j]
          BY <2>2, <2>3, <2>4, <2>6, <4>1
        <4> QED BY <4>1, <4>2 DEF d
      <3>5. ToSet(r[i + 1]) = {q[j] : j \in 1..i + 1} \cap B
        BY <2>2, <2>5, <2>6, <3>2
      <3> QED BY <2>2, <3>1, <3>3, <3>4, <3>5
    <2>7. CASE d \notin B
      <3>1. ToSet(x) = {q[j] : j \in 1..i + 1} \cap B
        BY <2>2, <2>5, <2>7
      <3>2. Len(x) \in Nat
        BY <2>2
      <3>3. Len(x) <= i + 1 /\ Len(x) # i + 1
        BY <2>2, <3>2
      <3> QED BY <2>2, <2>4, <2>7, <3>1, <3>3
    <2> QED BY <2>6, <2>7
  <1> HIDE DEF P
  <1>4. \A i \in Nat : i \in S => i + 1 \in S
    BY <1>3
  <1> HIDE DEF S
  <1>5. \A i \in Nat : i \in S
    BY <1>2, <1>4, Induct
  <1>6. P(r[n], n)
    BY <1>5 DEF S
  <1>7. ToSet(q) = {q[j] : j \in 1..n}
    BY DEF ToSet
  <1>8. ASSUME r[n] \in Seq(D), Len(r[n]) = n, \A j \in 1..n : r[n][j] = q[j] PROVE r[n] = q
    BY <1>8
  <1> QED BY <1>1, <1>6, <1>7, <1>8 DEF P

-----------------------------------------------------------------------------
(* VarDeclFinder                                                           *)

\* Every declaration that a kernel is about.
Decls(k) == ToSet(k.captures) \cup {k.body[i].decl : i \in DOMAIN k.body}

Walked(D) == [decl_list : SUBSET D, vlist : Seq(D), alist : Seq(D)]

\* A node of the body may add its own declaration to the members, if it is not in
\* decl_list or is a field.
LEMMA VisitAdds ==
  ASSUME NEW D, NEW f \in Walked(D), NEW n, n.decl \in D,
         n.node \in {"declares", "names", "subscripts", "member", "returns"}
  PROVE  /\ Visit(f, n) \in Walked(D)
         /\ f.decl_list \subseteq Visit(f, n).decl_list
         /\ \/ Visit(f, n).vlist = f.vlist
            \/ /\ Visit(f, n).vlist = Append(f.vlist, n.decl)
               /\ n.decl \notin f.decl_list \/ n.node = "member"
  <1> DEFINE d == n.decl
             declared == [f EXCEPT !.decl_list = @ \cup {d}]
             longer == [f EXCEPT !.vlist = Append(@, d)]
             accessed == [f EXCEPT !.alist = Append(@, d)]
  <1>1. /\ f.decl_list \in SUBSET D /\ f.vlist \in Seq(D) /\ f.alist \in Seq(D)
        /\ d \in D
    BY DEF Walked
  <1>2. Append(f.vlist, d) \in Seq(D) /\ Append(f.alist, d) \in Seq(D)
    BY <1>1
  <1>3. /\ declared \in Walked(D) /\ f.decl_list \subseteq declared.decl_list
        /\ declared.vlist = f.vlist
    BY <1>1 DEF Walked
  <1>4. /\ longer \in Walked(D) /\ longer.decl_list = f.decl_list
        /\ longer.vlist = Append(f.vlist, d)
    BY <1>2 DEF Walked
  <1>5. /\ accessed \in Walked(D) /\ accessed.decl_list = f.decl_list
        /\ accessed.vlist = f.vlist
    BY <1>2 DEF Walked
  <1>6. \/ Visit(f, n) \in {f, declared, accessed}
        \/ Visit(f, n) = longer /\ (d \notin f.decl_list \/ n.node = "member")
    <2>1. CASE n.node = "declares"
      BY <2>1 DEF Visit, VisitDecl
    <2>2. CASE n.node \in {"names", "subscripts"}
      <3>1. Visit(f, n) = VisitDeclRefExpr(f, d)
        BY <2>2 DEF Visit
      <3> QED BY <3>1 DEF VisitDeclRefExpr, VisitDecl
    <2>3. CASE n.node = "member"
      BY <2>3 DEF Visit, VisitMemberExpr
    <2>4. CASE n.node = "returns"
      BY <2>4 DEF Visit
    <2> QED BY <2>1, <2>2, <2>3, <2>4
  <1> HIDE DEF declared, longer, accessed
  <1> QED BY <1>3, <1>4, <1>5, <1>6

LEMMA FinderRuns ==
  ASSUME NEW k, IsKernel(k)
  PROVE  LET D == Decls(k)
         IN  \E r \in [0..Len(k.body) -> Walked(D)] :
               /\ r[0] = [decl_list |-> ToSet(k.captures), vlist |-> <<>>, alist |-> <<>>]
               /\ finder(k) = r[Len(k.body)]
               /\ \A i \in 1..Len(k.body) : r[i] = Visit(r[i - 1], k.body[i])
  <1> DEFINE D == Decls(k)
             q == k.body
             n == Len(q)
             A == Walked(D)
             a == [decl_list |-> ToSet(k.captures), vlist |-> <<>>, alist |-> <<>>]
             G == [p \in A \X Nat |->
                     IF p[2] \in 1..n THEN Visit(p[1], q[p[2]]) ELSE p[1]]
             E(f) == [s \in SUBSET (DOMAIN q) |->
                        IF s = {} THEN a ELSE Visit(f[s \ {Max(s)}], q[Max(s)])]
             iter == CHOOSE f : f = E(f)
  <1>1. finder(k) = iter[DOMAIN q]
    BY Zenon DEF finder, FoldLeft, MapThenFoldSet
  <1>2. n \in Nat /\ DOMAIN q = 1..n
    BY DEF IsKernel
  <1>3. \A s \in SUBSET (1..n) : s # {} => Max(s) \in s
    <2> SUFFICES ASSUME NEW s \in SUBSET (1..n), s # {} PROVE Max(s) \in s
      OBVIOUS
    <2>1. PICK m \in s : \A y \in s : m >= y
      BY <1>2, Largest
    <2> QED BY <2>1 DEF Max
  <1>4. ASSUME NEW x \in A, NEW m \in 1..n PROVE Visit(x, q[m]) \in A
    <2>1. q[m] \in ToSet(q) /\ q[m].decl \in D
      BY <1>2 DEF ToSet, Decls
    <2> QED BY <2>1, VisitAdds DEF IsKernel
  <1>5. G \in [A \X Nat -> A]
    BY <1>4
  <1>6. ASSUME NEW x \in A, NEW m \in 1..n PROVE G[<<x, m>>] = Visit(x, q[m])
    BY <1>2
  <1>7. a \in A
    BY DEF Walked, Decls
  <1> HIDE DEF G, A, a
  <1>8. PICK it \in [SUBSET (1..n) -> A] : FoldOver(it, n, a, G)
    BY <1>2, <1>5, <1>7, FoldExists
  <1>9. ASSUME NEW s \in SUBSET (1..n), s # {}
        PROVE  G[<<it[s \ {Max(s)}], Max(s)>>] = Visit(it[s \ {Max(s)}], q[Max(s)])
    <2>1. Max(s) \in 1..n /\ it[s \ {Max(s)}] \in A
      BY <1>3, <1>8, <1>9
    <2> QED BY <1>6, <2>1
  <1>10. \A s \in SUBSET (1..n) :
           it[s] = IF s = {} THEN a ELSE Visit(it[s \ {Max(s)}], q[Max(s)])
    BY <1>8, <1>9 DEF FoldOver
  <1>11. it = E(it)
    BY <1>2, <1>8, <1>10
  <1>12. iter = E(iter)
    BY <1>11
  <1> HIDE DEF iter
  <1>13. iter[1..0] = a
    BY <1>2, <1>12
  <1>14. ASSUME NEW i \in 1..n PROVE iter[1..i] = Visit(iter[1..(i - 1)], q[i])
    <2>1. 1..i \in SUBSET (1..n) /\ 1..i # {} /\ Max(1..i) = i /\ (1..i) \ {i} = 1..(i - 1)
      BY <1>2, Initial
    <2> QED BY <1>2, <1>12, <2>1
  <1> DEFINE r == [i \in 0..n |-> iter[1..i]]
             S == {i \in Nat : i <= n => r[i] \in A}
  <1>15. r[0] = a /\ r[n] = iter[1..n]
    BY <1>2, <1>13
  <1>16. ASSUME NEW i \in 1..n PROVE r[i] = Visit(r[i - 1], q[i])
    <2>1. i \in 0..n /\ i - 1 \in 0..n
      BY <1>2
    <2> QED BY <1>14, <2>1
  <1>17. DOMAIN r = 0..n /\ r = [i \in 0..n |-> r[i]]
    OBVIOUS
  <1> HIDE DEF r
  <1>18. 0 \in S
    BY <1>7, <1>15
  <1>19. \A i \in Nat : i \in S => i + 1 \in S
    <2> SUFFICES ASSUME NEW i \in Nat, i \in S, i + 1 <= n PROVE r[i + 1] \in A
      OBVIOUS
    <2>1. i <= n /\ i + 1 \in 1..n /\ (i + 1) - 1 = i
      BY <1>2
    <2>2. r[i] \in A /\ r[i + 1] = Visit(r[i], q[i + 1])
      BY <1>16, <2>1
    <2> QED BY <1>4, <2>1, <2>2
  <1> HIDE DEF S
  <1>20. \A i \in Nat : i \in S
    BY <1>18, <1>19, Induct
  <1>21. r \in [0..n -> A]
    BY <1>2, <1>17, <1>20 DEF S
  <1> QED BY <1>1, <1>2, <1>15, <1>16, <1>21 DEF a, A

\* What the finder has found: declarations of the kernel, none of a capture.
LEMMA FinderFacts ==
  ASSUME NEW k, IsKernel(k)
  PROVE  /\ finder(k).vlist \in Seq(Decls(k))
         /\ ToSet(finder(k).vlist) \cap ToSet(k.captures) = {}
  <1> DEFINE D == Decls(k)
             C == ToSet(k.captures)
             n == Len(k.body)
  <1>1. PICK r \in [0..n -> Walked(D)] :
          /\ r[0] = [decl_list |-> C, vlist |-> <<>>, alist |-> <<>>]
          /\ finder(k) = r[n]
          /\ \A i \in 1..n : r[i] = Visit(r[i - 1], k.body[i])
    BY FinderRuns
  <1>2. n \in Nat /\ DOMAIN k.body = 1..n
    BY DEF IsKernel
  <1> DEFINE P(x) == C \subseteq x.decl_list /\ ToSet(x.vlist) \cap C = {}
             S == {i \in Nat : i <= n => P(r[i])}
  <1>3. 0 \in S
    <2>1. r[0].decl_list = C /\ r[0].vlist = <<>>
      BY <1>1
    <2>2. ToSet(<<>>) = {}
      BY DEF ToSet
    <2> QED BY <2>1, <2>2
  <1>4. ASSUME NEW i \in Nat, i \in S, i + 1 <= n PROVE P(r[i + 1])
    <2> DEFINE x == r[i]
               m == k.body[i + 1]
    <2>1. i \in 0..n /\ i <= n /\ i + 1 \in 1..n /\ (i + 1) - 1 = i
      BY <1>2, <1>4
    <2>2. x \in Walked(D) /\ P(x) /\ r[i + 1] = Visit(x, m)
      BY <1>1, <1>4, <2>1
    <2>3. m \in ToSet(k.body) /\ m.decl \in D
      BY <1>2, <2>1 DEF ToSet, Decls
    <2>4. /\ m.node \in {"declares", "names", "subscripts", "member", "returns"}
          /\ m.node = "member" => m.decl \notin C
      BY <2>3 DEF IsKernel
    <2> HIDE DEF x, m, D
    <2>5. /\ x.decl_list \subseteq Visit(x, m).decl_list
          /\ \/ Visit(x, m).vlist = x.vlist
             \/ /\ Visit(x, m).vlist = Append(x.vlist, m.decl)
                /\ m.decl \notin x.decl_list \/ m.node = "member"
      BY <2>2, <2>3, <2>4, VisitAdds
    <2>6. x.vlist \in Seq(D)
      BY <2>2 DEF Walked
    <2>7. ToSet(Append(x.vlist, m.decl)) = ToSet(x.vlist) \cup {m.decl}
      BY <2>3, <2>6, AppendSet
    <2>8. C \subseteq Visit(x, m).decl_list
      BY <2>2, <2>5
    <2>9. ToSet(Visit(x, m).vlist) \cap C = {}
      <3>1. CASE Visit(x, m).vlist = x.vlist
        BY <2>2, <3>1
      <3>2. CASE Visit(x, m).vlist = Append(x.vlist, m.decl) /\ m.decl \notin C
        BY <2>2, <2>7, <3>2
      <3> QED BY <2>2, <2>4, <2>5, <3>1, <3>2
    <2> QED BY <2>2, <2>8, <2>9
  <1> HIDE DEF P
  <1>5. \A i \in Nat : i \in S => i + 1 \in S
    BY <1>4
  <1> HIDE DEF S
  <1>6. \A i \in Nat : i \in S
    BY <1>3, <1>5, Induct
  <1>7. P(r[n]) /\ r[n] \in Walked(D)
    BY <1>1, <1>2, <1>6 DEF S
  <1> QED BY <1>1, <1>7 DEF P, Walked

-----------------------------------------------------------------------------
(* The members and their initialisers                                      *)

LEMMA TwoParts ==
  ASSUME NEW D, NEW x \in Seq(D), NEW y \in Seq(D)
  PROVE  /\ x \o y \in Seq(D)
         /\ Len(x) \in Nat /\ Len(y) \in Nat /\ Len(x \o y) = Len(x) + Len(y)
         /\ DOMAIN (x \o y) = 1..Len(x) + Len(y)
         /\ \A i \in 1..Len(x) + Len(y) :
              (x \o y)[i] = IF i <= Len(x) THEN x[i] ELSE y[i - Len(x)]
OBVIOUS

\* Where the elements of three sequences are, one after the other.
LEMMA ThreeParts ==
  ASSUME NEW D, NEW x \in Seq(D), NEW y \in Seq(D), NEW z \in Seq(D)
  PROVE  LET s == x \o y \o z
         IN  /\ Len(s) = Len(x) + Len(y) + Len(z)
             /\ DOMAIN s = 1..Len(x) + Len(y) + Len(z)
             /\ \A i \in 1..Len(x) + Len(y) + Len(z) :
                  s[i] = IF i <= Len(x) THEN x[i]
                         ELSE IF i <= Len(x) + Len(y) THEN y[i - Len(x)]
                         ELSE z[i - Len(x) - Len(y)]
  <1> DEFINE w == x \o y
  <1>1. /\ w \in Seq(D) /\ Len(w) = Len(x) + Len(y)
        /\ Len(x) \in Nat /\ Len(y) \in Nat /\ Len(z) \in Nat
        /\ \A i \in 1..Len(x) + Len(y) : w[i] = IF i <= Len(x) THEN x[i] ELSE y[i - Len(x)]
    BY TwoParts
  <1> HIDE DEF w
  <1>a. w \in Seq(D)
    BY <1>1
  <1>2. /\ Len(w \o z) = Len(w) + Len(z) /\ DOMAIN (w \o z) = 1..Len(w) + Len(z)
        /\ \A i \in 1..Len(w) + Len(z) : (w \o z)[i] = IF i <= Len(w) THEN w[i] ELSE z[i - Len(w)]
    BY <1>a
  <1>3. ASSUME NEW i \in 1..Len(x) + Len(y) + Len(z)
        PROVE  (w \o z)[i] = IF i <= Len(x) THEN x[i]
                             ELSE IF i <= Len(x) + Len(y) THEN y[i - Len(x)]
                             ELSE z[i - Len(x) - Len(y)]
    <2>1. i - Len(w) = i - Len(x) - Len(y)
      BY <1>1
    <2>2. CASE i <= Len(w)
      BY <1>1, <1>2, <2>2
    <2>3. CASE ~(i <= Len(w))
      <3>1. ~(i <= Len(x))
        BY <1>1, <2>3
      <3> QED BY <1>1, <1>2, <2>1, <2>3, <3>1
    <2> QED BY <2>2, <2>3
  <1> QED BY <1>1, <1>2, <1>3 DEF w

Stale(d) == AsDeclared(d) /\ d.changed

\* The three parts of a class: they have no declaration in common.
LEMMA Parts ==
  ASSUME NEW k, IsKernel(k)
  PROVE  LET D == Decls(k)
         IN  /\ Variables(k) \in Seq(D) /\ vlist(k) \in Seq(D) /\ alist(k) \in Seq(D)
             /\ ToSet(Variables(k)) \cap ToSet(vlist(k)) = {}
             /\ ToSet(alist(k)) \cap ToSet(vlist(k)) = {}
             /\ ToSet(vlist(k)) \subseteq ToSet(k.captures)
  <1> DEFINE D == Decls(k)
             F == finder(k).vlist
  <1>1. F \in Seq(D) /\ ToSet(F) \cap ToSet(k.captures) = {}
    BY FinderFacts
  <1>2. k.captures \in Seq(D)
    BY DEF IsKernel, Decls
  <1>3. Variables(k) = Among(F, {d \in ToSet(F) : ~IsFunction(d)})
    BY Zenon DEF Variables, Only
  <1>4. vlist(k) = Among(k.captures, {d \in ToSet(k.captures) : ~IsAccessor(d)})
    BY Zenon DEF vlist, Only
  <1>5. alist(k) = Among(k.captures, {d \in ToSet(k.captures) : IsAccessor(d)})
    BY Zenon DEF alist, Only
  <1> HIDE DEF D, F
  <1>6. Variables(k) \in Seq(D) /\ ToSet(Variables(k)) \subseteq ToSet(F)
    BY <1>1, <1>3, AmongFacts
  <1>7. /\ vlist(k) \in Seq(D)
        /\ ToSet(vlist(k)) = {d \in ToSet(k.captures) : ~IsAccessor(d)}
    BY <1>2, <1>4, AmongFacts
  <1>8. /\ alist(k) \in Seq(D)
        /\ ToSet(alist(k)) = {d \in ToSet(k.captures) : IsAccessor(d)}
    BY <1>2, <1>5, AmongFacts
  <1> QED BY <1>1, <1>6, <1>7, <1>8 DEF D

\* If the host compiler takes the initialisers, each one stands at its member's
\* place, and has an old value only if it is one of vlist that is stale.
LEMMA Aligned ==
  ASSUME NEW k, IsKernel(k), FitsHost(k)
  PROVE  /\ DOMAIN initialisers(k) = DOMAIN members(k)
         /\ ToSet(vlist(k)) \subseteq ToSet(members(k))
         /\ \A i \in DOMAIN members(k) :
              LET d == members(k)[i]
              IN  /\ initialisers(k)[i].decl = d
                  /\ initialisers(k)[i].value =
                       IF d \in ToSet(vlist(k)) /\ Stale(d) THEN "old" ELSE "now"
  <1> DEFINE D == Decls(k)
             V == Variables(k)
             C == vlist(k)
             A == alist(k)
             B == Only(alist(k), LAMBDA d : d.type = "accessor")
             v == Len(V)
             c == Len(C)
             a == Len(A)
             IV == [i \in DOMAIN V |-> [decl |-> V[i], value |-> "now"]]
             IC == [i \in DOMAIN C |-> Filled(C[i])]
             IA == [i \in DOMAIN A |-> [decl |-> A[i], value |-> "now"]]
  <1>1. /\ V \in Seq(D) /\ C \in Seq(D) /\ A \in Seq(D)
        /\ ToSet(V) \cap ToSet(C) = {} /\ ToSet(A) \cap ToSet(C) = {}
    BY Parts
  <1>2. B = Among(A, {d \in ToSet(A) : d.type = "accessor"})
    BY Zenon DEF Only
  <1>3. members(k) = V \o C \o B /\ initialisers(k) = IV \o IC \o IA
    BY Zenon DEF members, initialisers
  <1> HIDE DEF B, D
  <1>4. B \in Seq(D) /\ Len(B) <= a /\ (Len(B) = a => B = A)
    BY <1>1, <1>2, AmongFacts
  <1> DEFINE R == [decl : D, value : {"old", "now"}]
  <1>5. /\ v \in Nat /\ DOMAIN V = 1..v /\ c \in Nat /\ DOMAIN C = 1..c
        /\ a \in Nat /\ DOMAIN A = 1..a /\ Len(B) \in Nat
        /\ \A i \in 1..v : V[i] \in D /\ V[i] \in ToSet(V)
        /\ \A i \in 1..c : C[i] \in D /\ C[i] \in ToSet(C)
        /\ \A i \in 1..a : A[i] \in D /\ A[i] \in ToSet(A)
    BY <1>1, <1>4 DEF ToSet
  <1>6. IV \in Seq(R) /\ Len(IV) = v
    BY <1>5
  <1>7. IC \in Seq(R) /\ Len(IC) = c
    BY <1>5 DEF Filled
  <1>8. IA \in Seq(R) /\ Len(IA) = a
    BY <1>5
  <1>9. \A i \in 1..v : IV[i].decl = V[i] /\ IV[i].value = "now"
    BY <1>5
  <1>10. \A i \in 1..c : IC[i].decl = C[i] /\ IC[i].value = IF Stale(C[i]) THEN "old" ELSE "now"
    BY <1>5 DEF Filled, Stale
  <1>11. \A i \in 1..a : IA[i].decl = A[i] /\ IA[i].value = "now"
    BY <1>5
  <1> HIDE DEF V, C, A, IV, IC, IA, R, v, c, a
  <1> DEFINE I == IV \o IC \o IA
  <1>12. /\ Len(I) = v + c + a /\ DOMAIN I = 1..v + c + a
         /\ \A i \in 1..v + c + a :
              I[i] = IF i <= v THEN IV[i] ELSE IF i <= v + c THEN IC[i - v] ELSE IA[i - v - c]
    <2>1. /\ Len(I) = Len(IV) + Len(IC) + Len(IA)
          /\ DOMAIN I = 1..Len(IV) + Len(IC) + Len(IA)
          /\ \A i \in 1..Len(IV) + Len(IC) + Len(IA) :
               I[i] = IF i <= Len(IV) THEN IV[i]
                      ELSE IF i <= Len(IV) + Len(IC) THEN IC[i - Len(IV)]
                      ELSE IA[i - Len(IV) - Len(IC)]
      <3> HIDE DEF I
      <3> SUFFICES ASSUME NEW S, IV \in S, IC \in S, IA \in S, S = Seq(R)
                   PROVE  /\ Len(IV \o IC \o IA) = Len(IV) + Len(IC) + Len(IA)
                          /\ DOMAIN (IV \o IC \o IA) = 1..Len(IV) + Len(IC) + Len(IA)
                          /\ \A i \in 1..Len(IV) + Len(IC) + Len(IA) :
                               (IV \o IC \o IA)[i] =
                                 IF i <= Len(IV) THEN IV[i]
                                 ELSE IF i <= Len(IV) + Len(IC) THEN IC[i - Len(IV)]
                                 ELSE IA[i - Len(IV) - Len(IC)]
        BY <1>6, <1>7, <1>8 DEF I
      <3> QED BY ThreeParts
    <2> HIDE DEF I
    <2> QED BY <1>6, <1>7, <1>8, <2>1
  <1>13. Len(members(k)) = v + c + Len(B)
    BY <1>1, <1>3, <1>4, ThreeParts DEF v, c
  <1>14. B = A
    BY <1>3, <1>4, <1>5, <1>12, <1>13 DEF FitsHost
  <1>15. DOMAIN members(k) = 1..v + c + a /\ DOMAIN initialisers(k) = 1..v + c + a
    <2>1. DOMAIN members(k) = 1..v + c + a
      BY <1>1, <1>3, <1>14, ThreeParts DEF v, c, a
    <2>2. DOMAIN initialisers(k) = 1..v + c + a
      BY <1>3, <1>12
    <2> QED BY <2>1, <2>2
  <1>16. \A i \in 1..v + c + a :
           members(k)[i] = IF i <= v THEN V[i] ELSE IF i <= v + c THEN C[i - v] ELSE A[i - v - c]
    BY <1>1, <1>3, <1>14, ThreeParts DEF v, c, a
  <1>17. \A i \in 1..v + c + a :
           initialisers(k)[i] =
             IF i <= v THEN IV[i] ELSE IF i <= v + c THEN IC[i - v] ELSE IA[i - v - c]
    BY <1>3, <1>12
  <1>18. ASSUME NEW i \in 1..v + c + a
         PROVE  LET d == members(k)[i]
                IN  /\ initialisers(k)[i].decl = d
                    /\ initialisers(k)[i].value =
                         IF d \in ToSet(C) /\ Stale(d) THEN "old" ELSE "now"
    <2>1. CASE i <= v
      <3>1. i \in 1..v
        BY <1>5, <2>1
      <3>2. members(k)[i] = V[i] /\ initialisers(k)[i] = IV[i]
        BY <1>16, <1>17, <2>1
      <3>3. V[i] \notin ToSet(C)
        BY <1>1, <1>5, <3>1
      <3> QED BY <1>9, <3>1, <3>2, <3>3
    <2>2. CASE i > v /\ i <= v + c
      <3>1. i - v \in 1..c /\ ~(i <= v)
        BY <1>5, <2>2
      <3>2. members(k)[i] = C[i - v] /\ initialisers(k)[i] = IC[i - v]
        BY <1>16, <1>17, <2>2, <3>1
      <3>3. C[i - v] \in ToSet(C)
        BY <1>5, <3>1
      <3> QED BY <1>10, <3>1, <3>2, <3>3
    <2>3. CASE i > v + c
      <3>1. i - v - c \in 1..a /\ ~(i <= v) /\ ~(i <= v + c)
        BY <1>5, <2>3
      <3>2. members(k)[i] = A[i - v - c] /\ initialisers(k)[i] = IA[i - v - c]
        BY <1>16, <1>17, <2>3, <3>1
      <3>3. A[i - v - c] \notin ToSet(C)
        BY <1>1, <1>5, <3>1
      <3> QED BY <1>11, <3>1, <3>2, <3>3
    <2> QED BY <1>5, <2>1, <2>2, <2>3
  <1>19. ASSUME NEW d \in ToSet(C) PROVE d \in ToSet(members(k))
    <2>1. PICK j \in 1..c : d = C[j]
      BY <1>1, <1>19 DEF ToSet, c
    <2>2. v + j \in 1..v + c + a /\ ~(v + j <= v) /\ v + j <= v + c /\ (v + j) - v = j
      BY <1>5, <2>1
    <2>3. members(k)[v + j] = d
      BY <1>16, <2>1, <2>2
    <2> QED BY <1>15, <2>2, <2>3 DEF ToSet
  <1> QED BY <1>15, <1>18, <1>19 DEF C

-----------------------------------------------------------------------------
(* What a node means                                                       *)

\* On a device a node means what it means on the host, but for the three kinds
\* that the printer rewrites and for a member that was filled with an old value.
LEMMA NodeRight ==
  ASSUME NEW k, IsKernel(k), FitsHost(k), NEW n \in ToSet(k.body)
  PROVE  DeviceMeaning(members(k), n, initialisers(k)) = HostMeaning(n)
         <=> /\ n.node = "names" /\ n.decl.type = "id1" => IsIndex(n.decl)
             /\ n.node = "subscripts" /\ n.decl.type \in {"id1", "id"} => IsIndex(n.decl)
             /\ n.node = "returns" => n.at = 0
             /\ n.node \in {"names", "subscripts"} /\ n.decl \in ToSet(vlist(k)) => ~Stale(n.decl)
  <1> DEFINE d == n.decl
             ms == members(k)
             inits == initialisers(k)
             M == DeviceMeaning(ms, n, inits)
             H == HostMeaning(n)
             old == d \in ToSet(vlist(k)) /\ Stale(d)
  <1>1. n.node \in {"declares", "names", "subscripts", "member", "returns"} /\ n.at \in Nat
    BY DEF IsKernel
  <1>2. d \in ToSet(vlist(k)) => ~IsIndex(d) /\ n.node # "member"
    BY Parts DEF IsKernel, IsIndex
  <1>c. n.node \in {"returns", "declares"} => ~(Counter(n) >= 0)
    BY DEF Counter
  <1>3. CASE n.node = "returns"
    <2>1. M = Effect(IF n.at > 0 THEN "end of an iteration" ELSE "end of the work-item")
      BY <1>c, <1>3 DEF DeviceMeaning
    <2>2. H = Effect("end of the work-item")
      BY <1>3 DEF HostMeaning
    <2>3. Effect("end of an iteration") # Effect("end of the work-item")
      BY DEF Effect
    <2>4. n.at > 0 <=> n.at # 0
      BY <1>1
    <2> HIDE DEF M, H
    <2>5. M = H <=> n.at = 0
      BY <2>1, <2>2, <2>3, <2>4
    <2> QED BY <1>3, <2>5 DEF M, H
  <1>4. CASE n.node = "declares"
    <2>1. M = Effect("declaration") /\ H = Effect("declaration")
      BY <1>c, <1>4 DEF DeviceMeaning, HostMeaning
    <2> QED BY <1>4, <2>1
  <1>5. CASE n.node = "names" /\ d.type = "id1"
    <2>1. Counter(n) = 0
      BY <1>5 DEF Counter
    <2>2. M = Item(0)
      BY <1>5, <2>1 DEF DeviceMeaning
    <2>3. H = IF IsIndex(d) THEN Item(0) ELSE Value(d, "now")
      BY <1>5 DEF HostMeaning
    <2>4. Item(0) # Value(d, "now")
      BY DEF Item, Value
    <2> QED BY <1>2, <1>5, <2>2, <2>3, <2>4
  <1>6. CASE n.node = "subscripts" /\ d.type \in {"id1", "id"}
    <2>1. Counter(n) = n.at
      BY <1>6 DEF Counter
    <2>2. M = Item(n.at)
      BY <1>1, <1>6, <2>1 DEF DeviceMeaning
    <2>3. H = IF IsIndex(d) THEN Item(n.at) ELSE Value(d, "now")
      BY <1>6 DEF HostMeaning
    <2>4. Item(n.at) # Value(d, "now")
      BY DEF Item, Value
    <2> QED BY <1>2, <1>6, <2>2, <2>3, <2>4
  <1>7. CASE /\ n.node \in {"names", "subscripts", "member"}
             /\ ~(n.node = "names" /\ d.type = "id1")
             /\ ~(n.node = "subscripts" /\ d.type \in {"id1", "id"})
    <2>1. Counter(n) = -1
      BY <1>7 DEF Counter
    <2>2. CASE n.node = "subscripts" /\ IsIndex(d)
      <3>1. M = Item(n.at) /\ H = Item(n.at)
        BY <2>1, <2>2 DEF DeviceMeaning, HostMeaning
      <3> QED BY <1>2, <1>7, <2>2, <3>1
    <2>3. CASE ~(n.node = "subscripts" /\ IsIndex(d))
      <3> DEFINE at == {i \in DOMAIN ms : ms[i] = d}
                 i == CHOOSE j \in at : TRUE
      <3>1. H = Value(d, "now")
        BY <1>7, <2>3 DEF HostMeaning
      <3>2. M = IF at = {} THEN Value(d, "now")
                ELSE IF i \in DOMAIN inits THEN Value(inits[i].decl, inits[i].value)
                ELSE Value(d, "none")
        <4>1. ~(Counter(n) >= 0)
          BY <2>1
        <4>2. DeviceMeaning(ms, n, inits) = Member(ms, d, inits)
          BY <1>7, <2>3, <4>1, Zenon DEF DeviceMeaning
        <4> QED BY <4>2, Zenon DEF Member
      <3>3. at = {} => ~old
        BY Aligned DEF ToSet
      <3>4. at # {} => i \in DOMAIN ms /\ ms[i] = d
        OBVIOUS
      <3>5. at # {} => /\ i \in DOMAIN inits /\ inits[i].decl = d
                       /\ inits[i].value = IF old THEN "old" ELSE "now"
        BY <3>4, Aligned
      <3> HIDE DEF i, at, M, H, old
      <3>6. M = Value(d, IF old THEN "old" ELSE "now")
        BY <3>2, <3>3, <3>5
      <3>7. M = H <=> ~old
        BY <3>1, <3>6 DEF Value
      <3> QED BY <1>2, <1>7, <3>7 DEF M, H, old
    <2> QED BY <2>2, <2>3
  <1> QED BY <1>1, <1>3, <1>4, <1>5, <1>6, <1>7

\* For every kernel that C++ allows, of any body, captures and members: if the
\* host compiler takes the class that kout makes of it, the class means on a
\* device what the lambda means on the host exactly if the kernel is a faithful
\* one; one whose index has no name, exactly if its body is empty, too.
THEOREM TranslationRight ==
  ASSUME NEW k, IsKernel(k), FitsHost(k)
  PROVE  DeviceResult(k, initialisers(k)) = HostResult(k) <=> Faithful(k)
  <1> DEFINE F(n) == /\ n.node = "names" /\ n.decl.type = "id1" => IsIndex(n.decl)
                     /\ n.node = "subscripts" /\ n.decl.type \in {"id1", "id"} => IsIndex(n.decl)
                     /\ n.node = "returns" => n.at = 0
                     /\ n.node \in {"names", "subscripts"} /\ n.decl \in ToSet(vlist(k)) =>
                          ~Stale(n.decl)
             M(p, i) == DeviceMeaning(members(k), p[i], initialisers(k))
  <1>1. ASSUME NEW i \in DOMAIN k.body
        PROVE  M(k.body, i) = HostMeaning(k.body[i]) <=> F(k.body[i])
    <2>1. k.body[i] \in ToSet(k.body)
      BY DEF ToSet
    <2> QED BY <2>1, NodeRight
  <1>2. DeviceResult(k, initialisers(k)) = [i \in DOMAIN printed(k) |-> M(printed(k), i)]
    BY Zenon DEF DeviceResult
  <1>3. Faithful(k) <=> \A i \in DOMAIN k.body : ~IsEmpty(k) /\ F(k.body[i])
    BY DEF Faithful, Stale, AsDeclared
  <1> HIDE DEF F, M
  <1>4. CASE ~IsEmpty(k)
    <2>1. DeviceResult(k, initialisers(k)) = [i \in DOMAIN k.body |-> M(k.body, i)]
      BY <1>2, <1>4 DEF printed
    <2>2. [i \in DOMAIN k.body |-> M(k.body, i)] = HostResult(k)
          <=> \A i \in DOMAIN k.body : M(k.body, i) = HostMeaning(k.body[i])
      BY DEF HostResult
    <2> QED BY <1>1, <1>3, <1>4, <2>1, <2>2
  <1>5. CASE IsEmpty(k)
    <2>1. DOMAIN DeviceResult(k, initialisers(k)) = {}
      BY <1>2, <1>5 DEF printed
    <2>2. Faithful(k) <=> DOMAIN k.body = {}
      BY <1>3, <1>5
    <2>3. DOMAIN HostResult(k) = DOMAIN k.body
      BY DEF HostResult
    <2>4. ASSUME DOMAIN k.body = {} PROVE DeviceResult(k, initialisers(k)) = HostResult(k)
      <3> DEFINE p == printed(k)
      <3>1. DOMAIN p = {}
        BY <1>5 DEF printed
      <3> HIDE DEF p
      <3>2. [i \in DOMAIN p |-> M(p, i)] = [i \in DOMAIN k.body |-> HostMeaning(k.body[i])]
        BY <2>4, <3>1
      <3> QED BY <1>2, <3>2 DEF p, HostResult
    <2> QED BY <2>1, <2>2, <2>3, <2>4
  <1> QED BY <1>4, <1>5
=============================================================================
