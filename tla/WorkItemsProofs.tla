--------------------------- MODULE WorkItemsProofs ---------------------------
(***************************************************************************)
(* Theorems about IndexSpace, for every range: the positions of elements.  *)
(* Theorems about WorkItems, for every set of parallel_fors: accesses by   *)
(* id stay in the buffer and apart, every work-item runs once, as long as  *)
(* the loop counters of a launch are its threads' own, and what a host     *)
(* accessor then finds, by an id or by subscripts, for every range.        *)
(***************************************************************************)
EXTENDS WorkItems, TLAPS

(***************************************************************************)
(* Positions of elements, for every range                                  *)
(***************************************************************************)
\* Ids of n axes below a range of n axes.
Below(n, r) == {i \in Ids(n) : \A k \in Axes : i[k] < r[k]}

\* One row after the other: i < a and j < b give positions below a * b.
LEMMA PairBound ==
  ASSUME NEW a \in Nat, NEW b \in Nat, NEW i \in Nat, NEW j \in Nat, i < a, j < b
  PROVE  i * b + j \in Nat /\ i * b + j < a * b
<1>1. i + 1 <= a
  OBVIOUS
<1>2. (i + 1) * b <= a * b
  BY <1>1
<1> QED
  BY <1>2

LEMMA PairInjective ==
  ASSUME NEW b \in Nat, NEW i \in Nat, NEW j \in Nat, NEW m \in Nat, NEW n \in Nat,
         j < b, n < b, i * b + j = m * b + n
  PROVE  i = m /\ j = n
<1>1. ASSUME i < m PROVE FALSE
  <2>1. (i + 1) * b <= m * b
    BY <1>1
  <2> QED
    BY <2>1
<1>2. ASSUME m < i PROVE FALSE
  <2>1. (m + 1) * b <= i * b
    BY <1>2
  <2> QED
    BY <2>1
<1> QED
  BY <1>1, <1>2

\* What an id of one, two or three axes below a range looks like.
LEMMA BelowAxes ==
  ASSUME NEW n \in Dims, NEW r \in Ranges(n), NEW i \in Below(n, r)
  PROVE  /\ r[0] \in Nat /\ r[1] \in Nat /\ r[2] \in Nat
         /\ i[0] \in Nat /\ i[1] \in Nat /\ i[2] \in Nat
         /\ i[0] < r[0] /\ i[1] < r[1] /\ i[2] < r[2]
         /\ n < 2 => i[1] = 0 /\ r[1] = 1
         /\ n < 3 => i[2] = 0 /\ r[2] = 1
<1>1. r \in Index /\ i \in Index /\ 0 \in Axes /\ 1 \in Axes /\ 2 \in Axes
  BY DEF Ranges, Ids, Below, Axes
<1>2. n \in 1..3
  BY DEF Dims
<1> QED
  BY <1>1, <1>2 DEF Ranges, Ids, Below, Index

LEMMA SameIndex ==
  ASSUME NEW i \in Index, NEW j \in Index, i[0] = j[0], i[1] = j[1], i[2] = j[2]
  PROVE  i = j
BY DEF Index, Axes

LEMMA Liner ==
  ASSUME NEW n \in Dims, NEW r \in Ranges(n)
  PROVE  get_liner(n, r) = r[0] * r[1] * r[2]
<1>1. r \in Index /\ 0 \in Axes /\ 1 \in Axes /\ 2 \in Axes
  BY DEF Ranges, Axes
<1>2. r[0] \in Nat /\ r[1] \in Nat /\ r[2] \in Nat
  BY <1>1 DEF Index
<1>3. CASE n = 1
  BY <1>1, <1>2, <1>3 DEF get_liner, Ranges
<1>4. CASE n = 2
  BY <1>1, <1>2, <1>4 DEF get_liner, Ranges
<1>5. CASE n = 3
  BY <1>5 DEF get_liner
<1> QED
  BY <1>3, <1>4, <1>5 DEF Dims

\* The position of (i, j, k) when the last axis runs fastest.
Pos(b, c, i, j, k) == (i * b + j) * c + k

\* Both ways of counting the axes are, for one and two of them, what they are
\* for three with a range of one on the rest.
LEMMA DeviceForm ==
  ASSUME NEW n \in Dims, NEW r \in Ranges(n), NEW i \in Below(n, r)
  PROVE  acc_(n, r, i) = Pos(r[1], r[2], i[0], i[1], i[2])
<1>1. CASE n = 1
  BY <1>1, BelowAxes DEF acc_, Pos
<1>2. CASE n = 2
  BY <1>2, BelowAxes DEF acc_, Pos
<1>3. CASE n = 3
  BY <1>3 DEF acc_, Pos
<1> QED
  BY <1>1, <1>2, <1>3 DEF Dims

LEMMA HostForm ==
  ASSUME NEW n \in Dims, NEW r \in Ranges(n), NEW i \in Below(n, r)
  PROVE  id2index(n, r, i) = Pos(r[1], r[0], i[2], i[1], i[0])
<1>1. CASE n = 1
  <2>1. i[0] \in Nat /\ r[0] \in Nat /\ i[1] = 0 /\ i[2] = 0 /\ r[1] = 1
    BY <1>1, BelowAxes
  <2>2. (i[2] * r[1] + i[1]) * r[0] + i[0] = i[0]
    BY <2>1
  <2> QED
    BY <1>1, <2>2 DEF id2index, Pos
<1>2. CASE n = 2
  BY <1>2, BelowAxes DEF id2index, Pos
<1>3. CASE n = 3
  BY <1>3, BelowAxes DEF id2index, Pos
<1> QED
  BY <1>1, <1>2, <1>3 DEF Dims

\* Three axes, the last one fastest: the position is below the number of
\* elements, and no other index has it.
Fits(a, b, c, i, j, k) ==
  i < a /\ j < b /\ k < c => Pos(b, c, i, j, k) \in 0..a * b * c - 1

LEMMA TripleBound == \A a, b, c, i, j, k \in Nat : Fits(a, b, c, i, j, k)
<1> SUFFICES ASSUME NEW a \in Nat, NEW b \in Nat, NEW c \in Nat,
                    NEW i \in Nat, NEW j \in Nat, NEW k \in Nat, i < a, j < b, k < c
             PROVE  Pos(b, c, i, j, k) \in 0..a * b * c - 1
  BY DEF Fits
<1>1. i * b + j \in Nat /\ i * b + j < a * b
  BY PairBound
<1>2. a * b \in Nat
  OBVIOUS
<1>3. (i * b + j) * c + k \in Nat /\ (i * b + j) * c + k < (a * b) * c
  BY <1>1, <1>2, PairBound
<1> QED
  BY <1>2, <1>3 DEF Pos

Distinct(b, c, i, j, k, l, m, n) ==
  j < b /\ m < b /\ k < c /\ n < c /\ Pos(b, c, i, j, k) = Pos(b, c, l, m, n)
    => i = l /\ j = m /\ k = n

LEMMA TripleInjective == \A b, c, i, j, k, l, m, n \in Nat : Distinct(b, c, i, j, k, l, m, n)
<1> TAKE b, c, i, j, k, l, m, n \in Nat
<1> SUFFICES ASSUME j < b, m < b, k < c, n < c, Pos(b, c, i, j, k) = Pos(b, c, l, m, n)
             PROVE  i = l /\ j = m /\ k = n
  BY DEF Distinct
<1>1. i * b + j \in Nat /\ l * b + m \in Nat
  OBVIOUS
<1>2. i * b + j = l * b + m /\ k = n
  BY <1>1, PairInjective DEF Pos
<1> QED
  BY <1>2, PairInjective

\* acc_::operator[] in device code: in bounds and one to one, for every range.
THEOREM DevicePositions ==
  ASSUME NEW n \in Dims, NEW r \in Ranges(n), NEW i \in Below(n, r)
  PROVE  /\ acc_(n, r, i) \in 0..get_liner(n, r) - 1
         /\ \A j \in Below(n, r) : acc_(n, r, j) = acc_(n, r, i) => j = i
<1>1. /\ r[0] \in Nat /\ r[1] \in Nat /\ r[2] \in Nat
      /\ i[0] \in Nat /\ i[1] \in Nat /\ i[2] \in Nat
      /\ i[0] < r[0] /\ i[1] < r[1] /\ i[2] < r[2]
  BY BelowAxes
<1>2. acc_(n, r, i) \in 0..get_liner(n, r) - 1
  <2>1. Fits(r[0], r[1], r[2], i[0], i[1], i[2])
    BY <1>1, TripleBound
  <2> QED
    BY <1>1, <2>1, Liner, DeviceForm DEF Fits
<1>3. ASSUME NEW j \in Below(n, r), acc_(n, r, j) = acc_(n, r, i) PROVE j = i
  <2>1. /\ j[0] \in Nat /\ j[1] \in Nat /\ j[2] \in Nat
        /\ j[0] < r[0] /\ j[1] < r[1] /\ j[2] < r[2]
    BY BelowAxes
  <2>2. Distinct(r[1], r[2], j[0], j[1], j[2], i[0], i[1], i[2])
    BY <1>1, <2>1, TripleInjective
  <2>3. Pos(r[1], r[2], j[0], j[1], j[2]) = Pos(r[1], r[2], i[0], i[1], i[2])
    BY <1>3, DeviceForm
  <2>4. j[0] = i[0] /\ j[1] = i[1] /\ j[2] = i[2]
    BY <1>1, <2>1, <2>2, <2>3 DEF Distinct
  <2> QED
    BY <2>4, SameIndex DEF Below, Ids
<1> QED
  BY <1>2, <1>3

\* accessor::operator[](id) on the host, through id2index: the same.
THEOREM HostPositions ==
  ASSUME NEW n \in Dims, NEW r \in Ranges(n), NEW i \in Below(n, r)
  PROVE  /\ id2index(n, r, i) \in 0..get_liner(n, r) - 1
         /\ \A j \in Below(n, r) : id2index(n, r, j) = id2index(n, r, i) => j = i
<1>1. /\ r[0] \in Nat /\ r[1] \in Nat /\ r[2] \in Nat
      /\ i[0] \in Nat /\ i[1] \in Nat /\ i[2] \in Nat
      /\ i[0] < r[0] /\ i[1] < r[1] /\ i[2] < r[2]
  BY BelowAxes
<1>2. id2index(n, r, i) \in 0..get_liner(n, r) - 1
  <2>1. Fits(r[2], r[1], r[0], i[2], i[1], i[0])
    BY <1>1, TripleBound
  <2>2. r[2] * r[1] * r[0] = r[0] * r[1] * r[2]
    BY <1>1
  <2> QED
    BY <1>1, <2>1, <2>2, Liner, HostForm DEF Fits
<1>3. ASSUME NEW j \in Below(n, r), id2index(n, r, j) = id2index(n, r, i) PROVE j = i
  <2>1. /\ j[0] \in Nat /\ j[1] \in Nat /\ j[2] \in Nat
        /\ j[0] < r[0] /\ j[1] < r[1] /\ j[2] < r[2]
    BY BelowAxes
  <2>2. Distinct(r[1], r[0], j[2], j[1], j[0], i[2], i[1], i[0])
    BY <1>1, <2>1, TripleInjective
  <2>3. Pos(r[1], r[0], j[2], j[1], j[0]) = Pos(r[1], r[0], i[2], i[1], i[0])
    BY <1>3, HostForm
  <2>4. j[0] = i[0] /\ j[1] = i[1] /\ j[2] = i[2]
    BY <1>1, <2>1, <2>2, <2>3 DEF Distinct
  <2> QED
    BY <2>4, SameIndex DEF Below, Ids
<1> QED
  BY <1>2, <1>3

\* Device code and host accessors give the ids of a range the same positions
\* only if at most one extent is more than one.
THEOREM PositionsAgree ==
  ASSUME NEW n \in Dims, NEW r \in Ranges(n), r[0] > 0, r[1] > 0, r[2] > 0
  PROVE  (\A i \in Below(n, r) : acc_(n, r, i) = id2index(n, r, i))
         <=> \A j, k \in Axes : j # k => r[j] = 1 \/ r[k] = 1
<1>0. /\ r \in Index /\ 0 \in Axes /\ 1 \in Axes /\ 2 \in Axes
      /\ r[0] \in Nat /\ r[1] \in Nat /\ r[2] \in Nat /\ n \in 1..3
      /\ \A k \in Axes : k = 0 \/ k = 1 \/ k = 2
  BY DEF Ranges, Index, Axes, Dims
<1> DEFINE Flat == (r[0] = 1 \/ r[1] = 1) /\ (r[0] = 1 \/ r[2] = 1) /\ (r[1] = 1 \/ r[2] = 1)
<1>1. Flat <=> \A j, k \in Axes : j # k => r[j] = 1 \/ r[k] = 1
  <2>1. ASSUME Flat, NEW j \in Axes, NEW k \in Axes, j # k PROVE r[j] = 1 \/ r[k] = 1
    BY <1>0, <2>1
  <2>2. ASSUME \A j, k \in Axes : j # k => r[j] = 1 \/ r[k] = 1 PROVE Flat
    BY <1>0, <2>2
  <2> QED
    BY <2>1, <2>2
<1>2. ASSUME Flat, NEW i \in Below(n, r) PROVE acc_(n, r, i) = id2index(n, r, i)
  <2>1. /\ i[0] \in Nat /\ i[1] \in Nat /\ i[2] \in Nat
        /\ i[0] < r[0] /\ i[1] < r[1] /\ i[2] < r[2]
    BY BelowAxes
  <2>2. (i[0] * r[1] + i[1]) * r[2] + i[2] = (i[2] * r[1] + i[1]) * r[0] + i[0]
    <3>1. CASE r[0] = 1 /\ r[1] = 1
      BY <1>0, <2>1, <3>1
    <3>2. CASE r[0] = 1 /\ r[2] = 1
      BY <1>0, <2>1, <3>2
    <3>3. CASE r[1] = 1 /\ r[2] = 1
      BY <1>0, <2>1, <3>3
    <3> QED
      BY <1>2, <3>1, <3>2, <3>3
  <2> QED
    BY <2>2, DeviceForm, HostForm DEF Pos
<1>3. ASSUME \A i \in Below(n, r) : acc_(n, r, i) = id2index(n, r, i) PROVE Flat
  <2>1. \A x, y, z \in Nat : /\ id(x, y, z) \in Index
                            /\ id(x, y, z)[0] = x /\ id(x, y, z)[1] = y /\ id(x, y, z)[2] = z
    BY <1>0 DEF id, range, Index, Axes
  <2>2. ASSUME r[0] > 1, r[1] * r[2] # 1 PROVE FALSE
    <3>1. id(1, 0, 0) \in Ids(n)
      BY <2>1, <1>0 DEF Ids
    <3>2. id(1, 0, 0) \in Below(n, r)
      <4>1. ASSUME NEW k \in Axes PROVE id(1, 0, 0)[k] < r[k]
        <5>1. id(1, 0, 0)[0] = 1 /\ id(1, 0, 0)[1] = 0 /\ id(1, 0, 0)[2] = 0
          BY <2>1
        <5>2. 1 < r[0] /\ 0 < r[1] /\ 0 < r[2]
          BY <2>2, <1>0
        <5> QED
          BY <5>1, <5>2, <1>0
      <4> QED
        BY <3>1, <4>1 DEF Below
    <3>3. (1 * r[1] + 0) * r[2] + 0 = (0 * r[1] + 0) * r[0] + 1
      BY <3>2, <2>1, <1>3, DeviceForm, HostForm DEF Pos
    <3> QED
      BY <3>3, <2>2, <1>0
  <2>3. ASSUME r[2] > 1, r[0] * r[1] # 1 PROVE FALSE
    <3>1. n = 3
      BY <2>3, <1>0 DEF Ranges
    <3>2. id(0, 0, 1) \in Ids(n)
      <4>1. id(0, 0, 1) \in Index
        BY <2>1
      <4> QED
        BY <4>1, <3>1, <1>0 DEF Ids
    <3>3. id(0, 0, 1) \in Below(n, r)
      <4>1. ASSUME NEW k \in Axes PROVE id(0, 0, 1)[k] < r[k]
        <5>1. id(0, 0, 1)[0] = 0 /\ id(0, 0, 1)[1] = 0 /\ id(0, 0, 1)[2] = 1
          BY <2>1
        <5>2. 0 < r[0] /\ 0 < r[1] /\ 1 < r[2]
          BY <2>3, <1>0
        <5> QED
          BY <5>1, <5>2, <1>0
      <4> QED
        BY <3>2, <4>1 DEF Below
    <3>4. (0 * r[1] + 0) * r[2] + 1 = (1 * r[1] + 0) * r[0] + 0
      BY <3>3, <2>1, <1>3, DeviceForm, HostForm DEF Pos
    <3>5. (0 * r[1] + 0) * r[2] + 1 = 1 /\ (1 * r[1] + 0) * r[0] + 0 = r[0] * r[1]
      BY <1>0
    <3> QED
      BY <3>4, <3>5, <2>3
  <2>4. \A a, b \in Nat : a > 1 /\ b > 0 => a * b # 1 /\ b * a # 1
    <3>1. ASSUME NEW a \in Nat, NEW b \in Nat, a > 1, b > 0 PROVE a * b >= a /\ b * a >= a
      BY <3>1
    <3> QED
      BY <3>1
  <2>5. ~(r[0] > 1 /\ r[1] > 1) /\ ~(r[0] > 1 /\ r[2] > 1) /\ ~(r[1] > 1 /\ r[2] > 1)
    BY <2>2, <2>3, <2>4, <1>0
  <2> QED
    BY <2>5, <1>0
<1> QED
  BY <1>1, <1>2, <1>3

(***************************************************************************)
(* Types                                                                   *)
(***************************************************************************)
LEMMA LaunchTypes ==
  ASSUME NEW l \in Launches
  PROVE  /\ l.dim \in 1..3 /\ l.range \in Index /\ l.offset \in Index
         /\ l.range \in Ranges(l.dim) /\ l.offset \in Ids(l.dim)
         /\ l.on \in {"host", "device"} /\ l.team \subseteq Threads
         /\ \A k \in Axes : l.range[k] \in Nat /\ l.offset[k] \in Nat
BY LaunchesAre DEF Ranges, Ids, Dims, Index

LEMMA AxesAre == Axes = {0, 1, 2}
BY DEF Axes

LEMMA SlotTypes ==
  ASSUME NEW n \in 1..3, NEW r \in Index, NEW w \in Index
  PROVE  /\ set_range(n, r) \in [0..5 -> Nat]
         /\ set_range_offset(n, r, w) \in [0..5 -> Nat]
<1>1. \A k \in 0..5 : k < n => r[k] \in Nat
  BY DEF Index, Axes
<1>2. \A k \in 3..n + 2 : w[k - 3] \in Nat
  BY DEF Index, Axes
<1>3. \A k \in 0..5 : Unset[k] \in Nat
  BY DEF Unset
<1> QED
  BY <1>1, <1>2, <1>3 DEF set_range, set_range_offset

LEMMA BoundTypes ==
  ASSUME TypeOK, NEW k \in Axes PROVE lo(k) \in Nat /\ hi(k) \in Nat
<1>1. launch.range[k] \in Nat /\ launch.offset[k] \in Nat
  BY LaunchTypes DEF TypeOK
<1>2. r_[k] \in Nat /\ r_[k + 3] \in Nat
  BY DEF TypeOK, Axes
<1> QED
  BY <1>1, <1>2 DEF lo, hi

LEMMA InitTypes == Init => TypeOK
<1>1. Unset \in [0..5 -> Nat]
  BY DEF Unset
<1> QED
  BY <1>1 DEF Init, TypeOK

LEMMA CurrentType ==
  ASSUME TypeOK, NEW t \in Threads PROVE current(t) \in Index
<1>1. i0_[t] \in Nat /\ inner[1] \in Nat /\ inner[2] \in Nat
  BY DEF TypeOK
<1> QED
  BY <1>1 DEF current, id, range, Index

LEMMA TypeStep == TypeOK /\ [Next]_vars => TypeOK'
<1> SUFFICES ASSUME TypeOK, [Next]_vars PROVE TypeOK'
  OBVIOUS
<1>1. CASE Unimplemented
  BY <1>1 DEF Unimplemented, TypeOK, threads
<1>2. CASE Enter
  <2>1. r_' \in [0..5 -> Nat]
    <3>1. d \in 1..3 /\ launch.range \in Index
      BY LaunchTypes DEF TypeOK, d
    <3>2. \/ r_' = r_
          \/ r_' = set_range(d, launch.range)
          \/ \E w \in Wild : r_' = set_range_offset(d, launch.range, w)
      BY <1>2 DEF Enter
    <3> QED
      BY <3>1, <3>2, SlotTypes, WildAre DEF TypeOK
  <2>2. left' \subseteq Nat
    <3>1. \/ left' = launch.offset[0]..launch.range[0] - 1
          \/ left' = r_'[3]..r_'[0] - 1
      BY <1>2 DEF Enter
    <3>2. launch.offset[0] \in Nat /\ launch.range[0] \in Nat
      BY LaunchTypes, AxesAre DEF TypeOK
    <3>3. r_'[3] \in Nat /\ r_'[0] \in Nat
      <4>1. 3 \in 0..5 /\ 0 \in 0..5
        OBVIOUS
      <4> QED
        BY <2>1, <4>1
    <3>4. \A a, b \in Nat : a..b - 1 \subseteq Nat
      OBVIOUS
    <3> QED
      BY <3>1, <3>2, <3>3, <3>4
  <2> QED
    BY <1>2, <2>1, <2>2 DEF Enter, TypeOK, threads
<1>3. CASE Finish
  BY <1>3 DEF Finish, TypeOK, threads
<1>4. ASSUME NEW t \in Threads, Take(t) PROVE TypeOK'
  <2>1. PICK x \in left : i0_' = [i0_ EXCEPT ![t] = x] /\ left' = left \ {x}
    BY <1>4 DEF Take
  <2>2. inner' \in [{1, 2} -> Nat]
    BY <1>4, BoundTypes, AxesAre DEF Take, TypeOK
  <2>3. pc' \in [Threads -> {"idle", "test", "body", "next"}]
    BY <1>4 DEF Take, Goto, TypeOK
  <2> QED
    BY <1>4, <2>1, <2>2, <2>3 DEF Take, Goto, TypeOK
<1>5. ASSUME NEW t \in Threads, Descend(t) PROVE TypeOK'
  <2>1. pc' \in [Threads -> {"idle", "test", "body", "next"}]
    BY <1>5 DEF Descend, Goto, TypeOK
  <2>2. depth' \in [Threads -> {1, 2}] /\ inner' \in [{1, 2} -> Nat]
    <3>1. d \in 1..3 /\ depth[t] \in {1, 2}
      BY LaunchTypes DEF TypeOK, d
    <3>2. lo(2) \in Nat
      BY BoundTypes, AxesAre
    <3>3. CASE depth[t] < d - 1
      <4>1. depth[t] = 1
        BY <3>1, <3>3
      <4>2. depth' = [depth EXCEPT ![t] = 2] /\ inner' = [inner EXCEPT ![2] = lo(2)]
        BY <1>5, <3>1, <3>3, <4>1 DEF Descend
      <4> QED
        BY <4>2, <3>2 DEF TypeOK
    <3>4. CASE depth[t] = d - 1
      BY <1>5, <3>1, <3>4 DEF Descend, TypeOK
    <3> QED
      BY <1>5, <3>3, <3>4 DEF Descend
  <2> QED
    BY <1>5, <2>1, <2>2 DEF Descend, Goto, TypeOK
<1>6. ASSUME NEW t \in Threads, Ascend(t) PROVE TypeOK'
  <2>1. pc' \in [Threads -> {"idle", "test", "body", "next"}]
    BY <1>6 DEF Ascend, Goto, TypeOK
  <2>2. depth' \in [Threads -> {1, 2}] /\ inner' \in [{1, 2} -> Nat]
    BY <1>6 DEF Ascend, TypeOK
  <2> QED
    BY <1>6, <2>1, <2>2 DEF Ascend, Goto, TypeOK
<1>7. ASSUME NEW t \in Threads, Body(t) PROVE TypeOK'
  <2>1. pc' \in [Threads -> {"idle", "test", "body", "next"}]
    BY <1>7 DEF Body, Goto, TypeOK
  <2>2. PICK it : /\ it.data = current(t)
                  /\ ran' = ran \cup {it} /\ again' = again \cup ({it} \cap ran)
    <3> DEFINE it == IF host THEN item(launch.range, current(t), launch.offset)
                     ELSE id2item(r_, current(t))
    <3>1. it.data = current(t)
      BY DEF id2item, item
    <3>2. ran' = ran \cup {it} /\ again' = again \cup ({it} \cap ran)
      BY <1>7 DEF Body
    <3> QED
      BY <3>1, <3>2
  <2>3. (\A i \in ran' : i.data \in Index) /\ again' \subseteq ran'
    BY <2>2, CurrentType DEF TypeOK
  <2> QED
    BY <1>7, <2>1, <2>3 DEF Body, Goto, TypeOK
<1>8. ASSUME NEW t \in Threads, Step(t) PROVE TypeOK'
  <2>1. pc' \in [Threads -> {"idle", "test", "body", "next"}]
    BY <1>8 DEF Step, Goto, TypeOK
  <2>2. inner' \in [{1, 2} -> Nat]
    <3>1. d \in 1..3
      BY LaunchTypes DEF TypeOK, d
    <3> QED
      BY <1>8, <3>1 DEF Step, TypeOK
  <2> QED
    BY <1>8, <2>1, <2>2 DEF Step, Goto, TypeOK
<1>9. CASE UNCHANGED vars
  BY <1>9 DEF vars, threads, TypeOK
<1> QED
  BY <1>1, <1>2, <1>3, <1>4, <1>5, <1>6, <1>7, <1>8, <1>9 DEF Next, Work

\* Whatever an out-of-bounds read gave as an offset, the variables keep their
\* types: counters never leave the loops they belong to.
THEOREM TypesHold == Spec => []TypeOK
BY InitTypes, TypeStep, PTL DEF Spec

(***************************************************************************)
(* Where the counters are                                                  *)
(***************************************************************************)
Running == phase \in {"loop", "done"}

\* What run() reads is what the launch gave, an offset excepted.
RangeGiven ==
  Running => /\ \A k \in Axes : k < d => hi(k) = launch.range[k]
             /\ Told => /\ \A k \in Axes : k < d => lo(k) = launch.offset[k]
                        /\ \A i : (IF host THEN item(launch.range, i, launch.offset)
                                  ELSE id2item(r_, i)) = item(launch.range, i, launch.offset)

Quiet ==
  ~Running => /\ left = {} /\ ran = {} /\ again = {} /\ written = {}
              /\ \A t \in Threads : pc[t] = "idle"

\* A thread that tests inner loop 1, or 2, or runs the body.
Testing1(t) == pc[t] = "test" /\ d > 1 /\ depth[t] = 1 /\ lo(1) <= inner[1]
Testing2(t) == /\ pc[t] = "test" /\ d = 3 /\ depth[t] = 2
               /\ lo(1) <= inner[1] /\ inner[1] < hi(1) /\ lo(2) <= inner[2]
InBody(t) ==
  /\ pc[t] \in {"body", "next"}
  /\ d > 1 => depth[t] = d - 1 /\ lo(1) <= inner[1] /\ inner[1] < hi(1)
  /\ d > 2 => lo(2) <= inner[2] /\ inner[2] < hi(2)

Inside(t) ==
  pc[t] # "idle" =>
    /\ t \in launch.team /\ lo(0) <= i0_[t] /\ i0_[t] < hi(0)
    /\ Testing1(t) \/ Testing2(t) \/ InBody(t)

CountersInside ==
  /\ Running => \A x \in left : lo(0) <= x /\ x < hi(0)
  /\ Private => \A t \in Threads : Inside(t)

\* What an access by id writes is at the place that its layout gives.
WrittenInside ==
  Private => \A w \in written : /\ w[2] \in Below(d, launch.range)
                               /\ w = <<Position(w[2]), w[2]>>

PlaceInv == TypeOK /\ RangeGiven /\ Quiet /\ CountersInside /\ WrittenInside

\* With counters that are not shared, a step of one thread leaves the others
\* where they are.
LEMMA OthersInside ==
  ASSUME Private, NEW t \in Threads, NEW s \in Threads, s # t, t \in launch.team, Inside(s),
         launch' = launch, r_' = r_, pc'[s] = pc[s], depth'[s] = depth[s], i0_'[s] = i0_[s]
  PROVE  Inside(s)'
<1>1. CASE d = 1
  BY <1>1 DEF Inside, Testing1, Testing2, InBody, lo, hi, host, d
<1>2. CASE d # 1
  <2>1. s \notin launch.team
    BY <1>2 DEF Private
  <2> QED
    BY <2>1 DEF Inside
<1> QED
  BY <1>1, <1>2

LEMMA CurrentBelow ==
  ASSUME TypeOK, RangeGiven, Running, NEW t \in Threads, Inside(t), pc[t] = "body"
  PROVE  current(t) \in Below(d, launch.range)
<1>1. /\ d \in 1..3 /\ launch.range \in Ranges(d)
      /\ i0_[t] \in Nat /\ inner[1] \in Nat /\ inner[2] \in Nat
      /\ \A k \in Axes : launch.range[k] \in Nat
  BY LaunchTypes DEF TypeOK, d
<1>2. /\ i0_[t] < hi(0)
      /\ d > 1 => inner[1] < hi(1)
      /\ d > 2 => inner[2] < hi(2)
  BY <1>1 DEF Inside, Testing1, Testing2, InBody
<1>3. /\ current(t)[0] = i0_[t]
      /\ current(t)[1] = IF d > 1 THEN inner[1] ELSE 0
      /\ current(t)[2] = IF d > 2 THEN inner[2] ELSE 0
  BY AxesAre DEF current, id, range
<1>4. /\ hi(0) = launch.range[0]
      /\ d > 1 => hi(1) = launch.range[1]
      /\ d > 2 => hi(2) = launch.range[2]
  BY <1>1, AxesAre DEF RangeGiven
<1>5. /\ d <= 1 => launch.range[1] = 1
      /\ d <= 2 => launch.range[2] = 1
  BY <1>1, AxesAre DEF Ranges
<1>6. \A k \in Axes : current(t)[k] < launch.range[k]
  BY <1>1, <1>2, <1>3, <1>4, <1>5, AxesAre
<1>7. \A k \in Axes : k >= d => current(t)[k] = 0
  BY <1>1, <1>3, AxesAre
<1> QED
  BY <1>6, <1>7, CurrentType DEF Below, Ids

LEMMA RangeKept ==
  ASSUME RangeGiven, launch' = launch, r_' = r_, Running' => Running
  PROVE  RangeGiven'
BY DEF RangeGiven, Told, host, d, lo, hi

LEMMA InitPlace == Init => PlaceInv
<1> SUFFICES ASSUME Init PROVE PlaceInv
  OBVIOUS
<1>1. TypeOK
  BY InitTypes
<1>2. ~Running
  BY DEF Init, Running
<1> QED
  BY <1>1, <1>2 DEF Init, PlaceInv, RangeGiven, Quiet, CountersInside, Inside, WrittenInside

\* The overloads of set_range, as the loops see them.
LEMMA SlotGives ==
  ASSUME NEW n \in 1..3, NEW r \in Ranges(n), NEW w \in Index
  PROVE  /\ \A k \in Axes : k < n => set_range(n, r)[k] = r[k]
         /\ \A k \in Axes : k < n => set_range_offset(n, r, w)[k] = r[k]
         /\ \A k \in Axes : set_range(n, r)[k] = r[k] /\ set_range(n, r)[k + 3] = 0
<1>1. r \in Index /\ \A k \in Axes : k >= n => r[k] = 1
  BY DEF Ranges
<1>2. \A k \in Axes : k \in 0..5 /\ k + 3 \in 0..5 /\ ~(k + 3 < n) /\ ~(k + 3 < 3) /\ k < 3
  BY DEF Axes
<1>3. \A k \in Axes : set_range(n, r)[k] = r[k] /\ set_range(n, r)[k + 3] = 0
  BY <1>1, <1>2 DEF set_range, Unset, Axes
<1>4. \A k \in Axes : k < n => set_range_offset(n, r, w)[k] = r[k]
  BY <1>2 DEF set_range_offset
<1> QED
  BY <1>3, <1>4

LEMMA Untuple == \A f \in Index : range(f[0], f[1], f[2]) = f
BY DEF range, Index, Axes

LEMMA EnterPlace ==
  ASSUME PlaceInv, Enter PROVE PlaceInv'
<1>1. TypeOK'
  BY TypeStep DEF PlaceInv, Next
<1>2. /\ launch' = launch /\ phase = "start" /\ phase' = "loop"
      /\ pc' = pc /\ depth' = depth /\ i0_' = i0_ /\ written' = written
      /\ ran' = ran /\ again' = again
  BY DEF Enter, threads
<1>3. /\ d \in 1..3 /\ launch.range \in Ranges(d) /\ launch.range \in Index
      /\ launch.offset \in Index
  BY LaunchTypes DEF PlaceInv, TypeOK, d
<1>4. (\A k \in Axes : k < d => hi(k) = launch.range[k])'
  <2>1. CASE host
    BY <1>2, <2>1 DEF hi, host, d
  <2>2. CASE ~host
    <3>1. \/ r_' = set_range(d, launch.range)
          \/ \E w \in Wild : r_' = set_range_offset(d, launch.range, w)
      BY <2>2 DEF Enter
    <3>2. \A k \in Axes : k < d => r_'[k] = launch.range[k]
      BY <1>3, <3>1, SlotGives, WildAre
    <3> QED
      BY <1>2, <2>2, <3>2 DEF hi, host, d
  <2> QED
    BY <2>1, <2>2
<1>5. Told' => /\ (\A k \in Axes : k < d => lo(k) = launch.offset[k])'
               /\ (\A i : (IF host THEN item(launch.range, i, launch.offset)
                          ELSE id2item(r_, i)) = item(launch.range, i, launch.offset))'
  <2>1. CASE host
    BY <1>2, <2>1 DEF lo, host, d
  <2>2. CASE ~host /\ launch.shape = "range"
    <3>1. r_' = set_range(d, launch.range)
      BY <2>2 DEF Enter
    <3>2. launch.offset = Zero /\ \A k \in Axes : Zero[k] = 0
      BY <2>2, LaunchesAre DEF PlaceInv, TypeOK, Zero, id, range
    <3>3. \A k \in Axes : r_'[k] = launch.range[k] /\ r_'[k + 3] = launch.offset[k]
      BY <1>3, <3>1, <3>2, SlotGives DEF Index, Zero, id, range, Axes
    <3>4. /\ r_'[0] = launch.range[0] /\ r_'[1] = launch.range[1] /\ r_'[2] = launch.range[2]
          /\ r_'[3] = launch.offset[0] /\ r_'[4] = launch.offset[1] /\ r_'[5] = launch.offset[2]
      BY <3>3, AxesAre
    <3>5. range(r_'[0], r_'[1], r_'[2]) = launch.range /\ id(r_'[3], r_'[4], r_'[5]) = launch.offset
      BY <1>3, <3>4, Untuple DEF id
    <3> QED
      BY <1>2, <2>2, <3>3, <3>5 DEF lo, host, d, id2item
  <2>3. CASE ~host /\ launch.shape # "range"
    BY <1>2, <2>3 DEF Told, host
  <2> QED
    BY <2>1, <2>2, <2>3
<1>6. Quiet'
  BY <1>2 DEF Quiet, Running
<1>7. \A t \in Threads : pc[t] = "idle"
  BY <1>2 DEF PlaceInv, Quiet, Running
<1>8. CountersInside'
  <2>1. left' = lo(0)'..hi(0)' - 1
    BY <1>2 DEF Enter, lo, hi, host
  <2>2. lo(0)' \in Nat /\ hi(0)' \in Nat
    <3>1. /\ launch'.range[0] \in Nat /\ launch'.offset[0] \in Nat
      BY <1>2, <1>3, AxesAre DEF Index
    <3>2. r_'[0] \in Nat /\ r_'[3] \in Nat
      <4>1. 0 \in 0..5 /\ 3 \in 0..5
        OBVIOUS
      <4> QED
        BY <1>1, <4>1 DEF TypeOK
    <3> QED
      BY <3>1, <3>2 DEF lo, hi
  <2> QED
    BY <1>2, <1>7, <2>1, <2>2 DEF CountersInside, Inside
<1>9. WrittenInside'
  BY <1>2 DEF WrittenInside, PlaceInv, Quiet, Running
<1> QED
  BY <1>1, <1>2, <1>4, <1>5, <1>6, <1>8, <1>9 DEF PlaceInv, RangeGiven

\* What every step of a thread leaves alone, as seen by the other threads.
LEMMA WorkFrame ==
  ASSUME TypeOK, NEW t \in Threads, Work(t)
  PROVE  /\ launch' = launch /\ r_' = r_ /\ phase' = phase /\ phase = "loop"
         /\ t \in launch.team /\ left' \subseteq left
         /\ \A s \in Threads : s # t => pc'[s] = pc[s] /\ depth'[s] = depth[s] /\ i0_'[s] = i0_[s]
         /\ ~Body(t) => ran' = ran /\ again' = again /\ written' = written
<1>1. CASE Take(t)
  BY <1>1 DEF Take, Goto, TypeOK
<1>2. CASE Descend(t)
  BY <1>2 DEF Descend, Goto, TypeOK
<1>3. CASE Ascend(t)
  BY <1>3 DEF Ascend, Goto, TypeOK
<1>4. CASE Body(t)
  BY <1>4 DEF Body, Goto, TypeOK
<1>5. CASE Step(t)
  BY <1>5 DEF Step, Goto, TypeOK
<1> QED
  BY <1>1, <1>2, <1>3, <1>4, <1>5 DEF Work

LEMMA WorkInside ==
  ASSUME PlaceInv, Private, NEW t \in Threads, Work(t)
  PROVE  Inside(t)'
<1>1. /\ launch' = launch /\ r_' = r_ /\ phase = "loop" /\ t \in launch.team /\ Running
  BY WorkFrame DEF PlaceInv, Running
<1>2. /\ d \in 1..3 /\ depth[t] \in {1, 2} /\ inner[1] \in Nat /\ inner[2] \in Nat
      /\ pc \in [Threads -> {"idle", "test", "body", "next"}]
      /\ depth \in [Threads -> {1, 2}] /\ i0_ \in [Threads -> Nat]
      /\ inner \in [{1, 2} -> Nat]
  BY LaunchTypes DEF PlaceInv, TypeOK, d
<1>3. /\ lo(0)' = lo(0) /\ lo(1)' = lo(1) /\ lo(2)' = lo(2)
      /\ hi(0)' = hi(0) /\ hi(1)' = hi(1) /\ hi(2)' = hi(2) /\ d' = d
  BY <1>1 DEF lo, hi, host, d
<1>4. /\ lo(1) \in Nat /\ lo(2) \in Nat /\ hi(1) \in Nat /\ hi(2) \in Nat
  BY BoundTypes, AxesAre DEF PlaceInv
<1>5. Inside(t)
  BY DEF PlaceInv, CountersInside
<1>6. CASE Take(t)
  <2>1. PICK x \in left : i0_' = [i0_ EXCEPT ![t] = x]
    BY <1>6 DEF Take
  <2>2. i0_'[t] = x /\ lo(0) <= x /\ x < hi(0)
    BY <1>1, <1>2, <2>1 DEF PlaceInv, CountersInside
  <2>3. d = 1 => pc'[t] = "body"
    BY <1>2, <1>6 DEF Take, Goto
  <2>4. d # 1 => pc'[t] = "test" /\ depth'[t] = 1 /\ inner'[1] = lo(1)
    BY <1>2, <1>6 DEF Take, Goto
  <2>5. (Testing1(t) \/ InBody(t))'
    BY <1>2, <1>3, <1>4, <2>3, <2>4 DEF Testing1, InBody
  <2> QED
    BY <1>1, <1>3, <2>2, <2>5 DEF Inside
<1>7. CASE Descend(t)
  <2>1. pc[t] = "test" /\ i0_' = i0_ /\ inner[depth[t]] < hi(depth[t])
    BY <1>7 DEF Descend, Goto
  <2>2. lo(0) <= i0_[t] /\ i0_[t] < hi(0) /\ (Testing1(t) \/ Testing2(t))
    BY <1>5, <2>1 DEF Inside, InBody
  <2>3. CASE depth[t] = d - 1
    <3>1. pc'[t] = "body" /\ depth'[t] = depth[t] /\ inner' = inner
      BY <1>2, <1>7, <2>3 DEF Descend, Goto
    <3>2. InBody(t)'
      BY <1>2, <1>3, <2>1, <2>2, <2>3, <3>1 DEF InBody, Testing1, Testing2
    <3> QED
      BY <1>1, <1>3, <2>1, <2>2, <3>2 DEF Inside
  <2>4. CASE depth[t] < d - 1
    <3>1. depth[t] = 1 /\ d = 3
      BY <1>2, <2>4
    <3>2. pc'[t] = "test" /\ depth'[t] = 2 /\ inner' = [inner EXCEPT ![2] = lo(2)]
      BY <1>2, <1>7, <2>4, <3>1 DEF Descend, Goto
    <3>3. inner'[1] = inner[1] /\ inner'[2] = lo(2)
      BY <1>2, <3>2
    <3>4. Testing2(t)'
      BY <1>3, <1>4, <2>1, <2>2, <3>1, <3>2, <3>3 DEF Testing1, Testing2
    <3> QED
      BY <1>1, <1>3, <2>1, <2>2, <3>4 DEF Inside
  <2> QED
    BY <1>7, <2>3, <2>4 DEF Descend
<1>8. CASE Ascend(t)
  <2>1. pc[t] = "test" /\ i0_' = i0_
    BY <1>8 DEF Ascend, Goto
  <2>2. lo(0) <= i0_[t] /\ i0_[t] < hi(0) /\ (Testing1(t) \/ Testing2(t))
    BY <1>5, <2>1 DEF Inside, InBody
  <2>3. CASE depth[t] = 1
    BY <1>2, <1>8, <2>3 DEF Ascend, Goto, Inside
  <2>4. CASE depth[t] = 2
    <3>1. pc'[t] = "test" /\ depth'[t] = 1 /\ inner' = [inner EXCEPT ![1] = inner[1] + 1]
      BY <1>2, <1>8, <2>4 DEF Ascend, Goto
    <3>2. Testing1(t)'
      BY <1>2, <1>3, <1>4, <2>2, <2>4, <3>1 DEF Testing1, Testing2
    <3> QED
      BY <1>1, <1>3, <2>1, <2>2, <3>2 DEF Inside
  <2> QED
    BY <1>2, <2>3, <2>4
<1>9. CASE Body(t)
  <2>1. pc[t] = "body" /\ pc'[t] = "next" /\ i0_' = i0_ /\ depth' = depth /\ inner' = inner
    BY <1>2, <1>9 DEF Body, Goto
  <2> QED
    BY <1>1, <1>3, <1>5, <2>1 DEF Inside, Testing1, Testing2, InBody
<1>10. CASE Step(t)
  <2>1. pc[t] = "next" /\ i0_' = i0_ /\ depth' = depth
    BY <1>10 DEF Step, Goto
  <2>2. lo(0) <= i0_[t] /\ i0_[t] < hi(0) /\ InBody(t)
    BY <1>5, <2>1 DEF Inside, Testing1, Testing2
  <2>3. CASE d = 1
    BY <1>2, <1>10, <2>3 DEF Step, Goto, Inside
  <2>4. CASE d # 1
    <3>1. pc'[t] = "test" /\ inner' = [inner EXCEPT ![d - 1] = inner[d - 1] + 1]
      BY <1>2, <1>10, <2>4 DEF Step, Goto
    <3>2. d = 2 \/ d = 3
      BY <1>2, <2>4
    <3>3. (Testing1(t) \/ Testing2(t))'
      BY <1>2, <1>3, <1>4, <2>1, <2>2, <3>1, <3>2 DEF InBody, Testing1, Testing2
    <3> QED
      BY <1>1, <1>3, <2>1, <2>2, <3>3 DEF Inside
  <2> QED
    BY <2>3, <2>4
<1> QED
  BY <1>6, <1>7, <1>8, <1>9, <1>10 DEF Work

\* The item that a body step runs.
ItemOf(t) == IF host THEN item(launch.range, current(t), launch.offset) ELSE id2item(r_, current(t))

LEMMA BodyRuns ==
  ASSUME NEW t \in Threads, Body(t)
  PROVE  /\ ItemOf(t).data = current(t)
         /\ ran' = ran \cup {ItemOf(t)} /\ again' = again \cup ({ItemOf(t)} \cap ran)
         /\ written' = written \cup {<<Position(current(t)), current(t)>>}
<1>1. ItemOf(t).data = current(t)
  BY DEF ItemOf, id2item, item
<1> QED
  BY <1>1 DEF Body, ItemOf

LEMMA WorkPlace ==
  ASSUME PlaceInv, NEW t \in Threads, Work(t)
  PROVE  PlaceInv'
<1>1. TypeOK'
  BY TypeStep DEF PlaceInv, Next
<1>2. /\ launch' = launch /\ r_' = r_ /\ phase' = phase /\ phase = "loop"
      /\ t \in launch.team /\ left' \subseteq left /\ Running
      /\ \A s \in Threads : s # t => pc'[s] = pc[s] /\ depth'[s] = depth[s] /\ i0_'[s] = i0_[s]
  BY WorkFrame DEF PlaceInv, Running
<1>3. RangeGiven'
  BY <1>2, RangeKept DEF PlaceInv, Running
<1>4. Quiet'
  BY <1>2 DEF Quiet, Running
<1>5. CountersInside'
  <2>1. ASSUME NEW x \in left' PROVE (lo(0) <= x /\ x < hi(0))'
    BY <1>2 DEF PlaceInv, CountersInside, lo, hi, host
  <2>2. ASSUME Private', NEW s \in Threads PROVE Inside(s)'
    <3>1. Private
      BY <1>2, <2>2 DEF Private, d
    <3>2. CASE s = t
      BY <3>1, <3>2, WorkInside
    <3>3. CASE s # t
      BY <1>2, <3>1, <3>3, OthersInside DEF PlaceInv, CountersInside
    <3> QED
      BY <3>2, <3>3
  <2> QED
    BY <2>1, <2>2 DEF CountersInside
<1>6. WrittenInside'
  <2> SUFFICES ASSUME Private', NEW w \in written'
               PROVE  w[2] \in Below(d, launch.range)' /\ w = <<Position(w[2]), w[2]>>'
    BY DEF WrittenInside
  <2>1. /\ Private /\ Below(d, launch.range)' = Below(d, launch.range)
        /\ Position(w[2])' = Position(w[2])
    BY <1>2 DEF Private, d, Position, host, Below
  <2>2. CASE w \in written
    BY <2>1, <2>2 DEF PlaceInv, WrittenInside
  <2>3. CASE w \notin written
    <3>1. Body(t)
      BY <2>3, WorkFrame DEF PlaceInv
    <3>2. w = <<Position(current(t)), current(t)>>
      BY <2>3, <3>1, BodyRuns
    <3>3. current(t) \in Below(d, launch.range)
      BY <1>2, <2>1, <3>1, CurrentBelow DEF PlaceInv, CountersInside, Body, Goto
    <3> QED
      BY <2>1, <3>2, <3>3
  <2> QED
    BY <2>2, <2>3
<1> QED
  BY <1>1, <1>3, <1>4, <1>5, <1>6 DEF PlaceInv

LEMMA PlaceStep == PlaceInv /\ [Next]_vars => PlaceInv'
<1> SUFFICES ASSUME PlaceInv, [Next]_vars PROVE PlaceInv'
  OBVIOUS
<1>1. CASE Enter
  BY <1>1, EnterPlace
<1>2. CASE \E t \in Threads : Work(t)
  BY <1>2, WorkPlace
<1>3. CASE Unimplemented \/ Finish \/ UNCHANGED vars
  <2>1. /\ launch' = launch /\ r_' = r_ /\ left' = left /\ pc' = pc /\ depth' = depth /\ i0_' = i0_
        /\ inner' = inner /\ ran' = ran /\ again' = again /\ written' = written
        /\ Running' => Running
        /\ ~Running' => ~Running
    BY <1>3 DEF Unimplemented, Finish, vars, threads, Running
  <2>2. TypeOK'
    BY TypeStep DEF PlaceInv
  <2>3. RangeGiven'
    BY <2>1, RangeKept DEF PlaceInv
  <2>4. Quiet'
    BY <2>1 DEF PlaceInv, Quiet
  <2>5. CountersInside'
    BY <2>1 DEF PlaceInv, CountersInside, Private, Inside, Testing1, Testing2, InBody, lo, hi, host, d
  <2>6. WrittenInside'
    BY <2>1 DEF PlaceInv, WrittenInside, Private, Position, Below, host, d
  <2> QED
    BY <2>2, <2>3, <2>4, <2>5, <2>6 DEF PlaceInv
<1> QED
  BY <1>1, <1>2, <1>3 DEF Next

LEMMA PlacesFit == PlaceInv => WritesFit
<1> SUFFICES ASSUME PlaceInv, Private, launch.use = "id", NEW w \in written
             PROVE  /\ w[1] \in 0..get_liner(d, launch.range) - 1
                    /\ \A v \in written : v[1] = w[1] => v = w
  BY DEF WritesFit
<1>1. d \in Dims /\ launch.range \in Ranges(d)
  BY LaunchesAre DEF PlaceInv, TypeOK, d
<1>2. \A v \in written : v[2] \in Below(d, launch.range) /\ v = <<Position(v[2]), v[2]>>
  BY DEF PlaceInv, WrittenInside
<1>3. \A i \in Below(d, launch.range) :
        /\ Position(i) \in 0..get_liner(d, launch.range) - 1
        /\ \A j \in Below(d, launch.range) : Position(j) = Position(i) => j = i
  <2>1. CASE host
    <3>1. \A i : Position(i) = id2index(d, launch.range, i)
      BY <2>1 DEF Position
    <3> QED
      BY <1>1, <3>1, HostPositions
  <2>2. CASE ~host
    <3>1. \A i : Position(i) = acc_(d, launch.range, i)
      BY <2>2 DEF Position
    <3> QED
      BY <1>1, <3>1, DevicePositions
  <2> QED
    BY <2>1, <2>2
<1>4. ASSUME NEW v \in written, v[1] = w[1] PROVE v = w
  <2>1. v[2] = w[2]
    BY <1>2, <1>3, <1>4
  <2> QED
    BY <1>2, <2>1, Zenon
<1> QED
  BY <1>2, <1>3, <1>4

\* Accesses by id land inside the buffer and never two on one element, for
\* every range and any offset the device may read.
THEOREM AccessesFit == Spec => []WritesFit
<1>1. Spec => []PlaceInv
  BY InitPlace, PlaceStep, PTL DEF Spec
<1> QED
  BY <1>1, PlacesFit, PTL

(***************************************************************************)
(* Every work-item once                                                    *)
(***************************************************************************)

\* The ids that thread t has yet to run of the outer iteration it is in.
After(t, i) ==
  /\ pc[t] # "idle" /\ i[0] = i0_[t]
  /\ \/ pc[t] = "test" /\ depth[t] = 1 /\ i[1] >= inner[1]
     \/ pc[t] = "test" /\ depth[t] = 2 /\ (i[1] > inner[1] \/ (i[1] = inner[1] /\ i[2] >= inner[2]))
     \/ pc[t] = "body" /\ d = 1
     \/ pc[t] = "body" /\ d = 2 /\ i[1] >= inner[1]
     \/ pc[t] = "body" /\ d = 3 /\ (i[1] > inner[1] \/ (i[1] = inner[1] /\ i[2] >= inner[2]))
     \/ pc[t] = "next" /\ d = 2 /\ i[1] > inner[1]
     \/ pc[t] = "next" /\ d = 3 /\ (i[1] > inner[1] \/ (i[1] = inner[1] /\ i[2] > inner[2]))

Remaining(i) == i[0] \in left \/ \E t \in Threads : After(t, i)

TheItem(i) == item(launch.range, i, launch.offset)
TheBox     == Box(launch.range, launch.offset)

\* No two threads share an outer iteration.
Apart ==
  \A t \in Threads : pc[t] # "idle" =>
    i0_[t] \notin left /\ \A s \in Threads : s # t /\ pc[s] # "idle" => i0_[s] # i0_[t]

OnceInv ==
  Private /\ Told /\ Running =>
    /\ Apart /\ again = {}
    /\ ran = {TheItem(i) : i \in {j \in TheBox : ~Remaining(j)}}
    /\ phase = "done" => left = {} /\ \A t \in Threads : pc[t] = "idle"

LEMMA BoxIs ==
  ASSUME NEW r \in Index, NEW o \in Index, NEW i
  PROVE  i \in Box(r, o) <=> i \in Index /\ \A k \in Axes : o[k] <= i[k] /\ i[k] < r[k]
<1>0. /\ r[0] \in Nat /\ r[1] \in Nat /\ r[2] \in Nat
      /\ o[0] \in Nat /\ o[1] \in Nat /\ o[2] \in Nat
  BY AxesAre DEF Index
<1>1. ASSUME i \in Box(r, o)
      PROVE  i \in Index /\ \A k \in Axes : o[k] <= i[k] /\ i[k] < r[k]
  <2>1. PICK x \in o[0]..r[0] - 1, y \in o[1]..r[1] - 1, z \in o[2]..r[2] - 1 : i = id(x, y, z)
    BY <1>1 DEF Box
  <2>2. i \in Index /\ i[0] = x /\ i[1] = y /\ i[2] = z
    BY <1>0, <2>1 DEF id, range, Index, Axes
  <2>3. /\ o[0] <= x /\ x < r[0] /\ o[1] <= y /\ y < r[1] /\ o[2] <= z /\ z < r[2]
    BY <1>0
  <2> QED
    BY <2>2, <2>3, AxesAre
<1>2. ASSUME i \in Index, \A k \in Axes : o[k] <= i[k] /\ i[k] < r[k]
      PROVE  i \in Box(r, o)
  <2>1. i = id(i[0], i[1], i[2])
    BY <1>2, Untuple DEF id
  <2>2. /\ i[0] \in o[0]..r[0] - 1 /\ i[1] \in o[1]..r[1] - 1 /\ i[2] \in o[2]..r[2] - 1
    BY <1>0, <1>2, AxesAre DEF Index
  <2> QED
    BY <2>1, <2>2 DEF Box
<1> QED
  BY <1>1, <1>2

LEMMA InBox ==
  ASSUME PlaceInv, Told, Running, NEW i \in TheBox
  PROVE  /\ i[0] \in Nat /\ i[1] \in Nat /\ i[2] \in Nat /\ i \in Index
         /\ lo(0) <= i[0] /\ i[0] < hi(0)
         /\ d > 1 => lo(1) <= i[1] /\ i[1] < hi(1)
         /\ d > 2 => lo(2) <= i[2] /\ i[2] < hi(2)
         /\ d < 2 => i[1] = 0
         /\ d < 3 => i[2] = 0
<1>1. /\ d \in 1..3 /\ launch.range \in Index /\ launch.offset \in Index
      /\ launch.range \in Ranges(d) /\ launch.offset \in Ids(d)
  BY LaunchTypes DEF PlaceInv, TypeOK, d
<1>2. i \in Index /\ \A k \in Axes : launch.offset[k] <= i[k] /\ i[k] < launch.range[k]
  BY <1>1, BoxIs DEF TheBox
<1>3. i[0] \in Nat /\ i[1] \in Nat /\ i[2] \in Nat
  BY <1>2, AxesAre DEF Index
<1>4. \A k \in Axes : k < d => lo(k) = launch.offset[k] /\ hi(k) = launch.range[k]
  BY DEF PlaceInv, RangeGiven
<1>5. \A k \in Axes : k >= d => launch.offset[k] = 0 /\ launch.range[k] = 1
  BY <1>1 DEF Ranges, Ids
<1> QED
  BY <1>1, <1>2, <1>3, <1>4, <1>5, AxesAre

LEMMA OthersAfter ==
  ASSUME PlaceInv, Private, NEW t \in Threads, NEW s \in Threads, s # t, Work(t), NEW i
  PROVE  After(s, i)' <=> After(s, i)
<1>1. /\ launch' = launch /\ t \in launch.team
      /\ pc'[s] = pc[s] /\ depth'[s] = depth[s] /\ i0_'[s] = i0_[s]
  BY WorkFrame DEF PlaceInv
<1>2. Inside(s)
  BY DEF PlaceInv, CountersInside
<1>3. CASE d = 1
  <2>1. pc[s] # "test" /\ d' = 1
    BY <1>1, <1>2, <1>3 DEF Inside, Testing1, Testing2, InBody, d
  <2> QED
    BY <1>1, <1>3, <2>1 DEF After
<1>4. CASE d # 1
  <2>1. pc[s] = "idle"
    BY <1>1, <1>2, <1>4 DEF Private, Inside
  <2> QED
    BY <1>1, <2>1 DEF After
<1> QED
  BY <1>3, <1>4

\* A step of a thread keeps what it has to do: an outer iteration comes from
\* `left', an inner loop is opened at its beginning and closed when nothing of
\* it is left, and the body does exactly one item.
LEMMA AfterStep ==
  ASSUME PlaceInv, Private, Told, Running, NEW t \in Threads, Work(t), NEW i \in TheBox
  PROVE  /\ Take(t) => (After(t, i)' <=> i[0] = i0_'[t]) /\ ~After(t, i)
         /\ Body(t) => (After(t, i)' <=> After(t, i) /\ i # current(t))
         /\ Body(t) => After(t, current(t))
         /\ ~Take(t) /\ ~Body(t) => (After(t, i)' <=> After(t, i))
<1>1. /\ launch' = launch /\ r_' = r_ /\ phase = "loop" /\ t \in launch.team /\ d' = d
  BY WorkFrame DEF PlaceInv, d
<1>2. /\ d \in 1..3 /\ depth[t] \in {1, 2} /\ inner[1] \in Nat /\ inner[2] \in Nat
      /\ pc \in [Threads -> {"idle", "test", "body", "next"}]
      /\ depth \in [Threads -> {1, 2}] /\ i0_ \in [Threads -> Nat]
      /\ inner \in [{1, 2} -> Nat]
  BY LaunchTypes DEF PlaceInv, TypeOK, d
<1>3. Inside(t)
  BY DEF PlaceInv, CountersInside
<1>4. /\ i[0] \in Nat /\ i[1] \in Nat /\ i[2] \in Nat /\ i \in Index
      /\ d > 1 => lo(1) <= i[1] /\ i[1] < hi(1)
      /\ d > 2 => lo(2) <= i[2] /\ i[2] < hi(2)
      /\ d < 2 => i[1] = 0
      /\ d < 3 => i[2] = 0
  BY InBox
<1>5. CASE Take(t)
  <2>1. pc[t] = "idle" /\ ~Body(t)
    BY <1>5 DEF Take, Body, Goto
  <2>2. d = 1 => pc'[t] = "body"
    BY <1>2, <1>5 DEF Take, Goto
  <2>3. d # 1 => pc'[t] = "test" /\ depth'[t] = 1 /\ inner'[1] = lo(1)
    BY <1>2, <1>5 DEF Take, Goto
  <2>4. After(t, i)' <=> i[0] = i0_'[t]
    BY <1>1, <1>2, <1>4, <2>2, <2>3 DEF After
  <2> QED
    BY <1>5, <2>1, <2>4 DEF After
<1>6. CASE Descend(t)
  <2>1. /\ pc[t] = "test" /\ i0_' = i0_ /\ inner[depth[t]] < hi(depth[t])
        /\ ~Take(t) /\ ~Body(t)
    BY <1>6 DEF Descend, Goto, Take, Body
  <2>2. Testing1(t) \/ Testing2(t)
    BY <1>3, <2>1 DEF Inside, InBody
  <2>3. CASE depth[t] = d - 1
    <3>1. pc'[t] = "body" /\ depth'[t] = depth[t] /\ inner' = inner
      BY <1>2, <1>6, <2>3 DEF Descend, Goto
    <3> QED
      BY <1>1, <1>2, <1>4, <2>1, <2>2, <2>3, <3>1 DEF After, Testing1, Testing2
  <2>4. CASE depth[t] < d - 1
    <3>1. depth[t] = 1 /\ d = 3
      BY <1>2, <2>4
    <3>2. pc'[t] = "test" /\ depth'[t] = 2 /\ inner' = [inner EXCEPT ![2] = lo(2)]
      BY <1>2, <1>6, <2>4, <3>1 DEF Descend, Goto
    <3>3. inner'[1] = inner[1] /\ inner'[2] = lo(2)
      BY <1>2, <3>2
    <3> QED
      BY <1>1, <1>2, <1>4, <2>1, <3>1, <3>2, <3>3 DEF After
  <2> QED
    BY <1>6, <2>3, <2>4 DEF Descend
<1>7. CASE Ascend(t)
  <2>1. /\ pc[t] = "test" /\ i0_' = i0_ /\ inner[depth[t]] >= hi(depth[t])
        /\ ~Take(t) /\ ~Body(t)
    BY <1>7 DEF Ascend, Goto, Take, Body
  <2>2. (Testing1(t) \/ Testing2(t)) /\ hi(1) \in Nat /\ hi(2) \in Nat
    BY <1>3, <2>1, BoundTypes, AxesAre DEF Inside, InBody, PlaceInv
  <2>3. CASE depth[t] = 1
    <3>1. pc'[t] = "idle"
      BY <1>2, <1>7, <2>3 DEF Ascend, Goto
    <3>2. i[1] < inner[1]
      BY <1>2, <1>4, <2>1, <2>2, <2>3 DEF Testing1, Testing2
    <3> QED
      BY <1>2, <1>4, <2>1, <2>3, <3>1, <3>2 DEF After
  <2>4. CASE depth[t] = 2
    <3>1. pc'[t] = "test" /\ depth'[t] = 1 /\ inner' = [inner EXCEPT ![1] = inner[1] + 1]
      BY <1>2, <1>7, <2>4 DEF Ascend, Goto
    <3>2. i[2] < inner[2] /\ inner'[1] = inner[1] + 1
      BY <1>2, <1>4, <2>1, <2>2, <2>4, <3>1 DEF Testing1, Testing2
    <3> QED
      BY <1>2, <1>4, <2>1, <2>4, <3>1, <3>2 DEF After
  <2> QED
    BY <1>2, <2>3, <2>4
<1>8. CASE Body(t)
  <2>1. /\ pc[t] = "body" /\ pc'[t] = "next" /\ i0_' = i0_ /\ depth' = depth /\ inner' = inner
        /\ ~Take(t)
    BY <1>2, <1>8 DEF Body, Goto, Take
  <2>2. /\ current(t)[0] = i0_[t]
        /\ current(t)[1] = IF d > 1 THEN inner[1] ELSE 0
        /\ current(t)[2] = IF d > 2 THEN inner[2] ELSE 0
        /\ current(t) \in Index
    BY AxesAre, CurrentType DEF current, id, range, PlaceInv
  <2>3. i = current(t) <=> i[0] = i0_[t] /\ i[1] = current(t)[1] /\ i[2] = current(t)[2]
    BY <1>4, <2>2, SameIndex
  <2>4. After(t, i)' <=> After(t, i) /\ i # current(t)
    BY <1>1, <1>2, <1>4, <2>1, <2>2, <2>3 DEF After
  <2>5. After(t, current(t))
    BY <1>2, <2>1, <2>2 DEF After
  <2> QED
    BY <1>8, <2>1, <2>4, <2>5
<1>9. CASE Step(t)
  <2>1. pc[t] = "next" /\ i0_' = i0_ /\ depth' = depth /\ ~Take(t) /\ ~Body(t) /\ InBody(t)
    BY <1>3, <1>9 DEF Step, Goto, Take, Body, Inside, Testing1, Testing2
  <2>2. CASE d = 1
    BY <1>1, <1>2, <1>9, <2>1, <2>2 DEF Step, Goto, After
  <2>3. CASE d # 1
    <3>1. pc'[t] = "test" /\ inner' = [inner EXCEPT ![d - 1] = inner[d - 1] + 1] /\ depth[t] = d - 1
      BY <1>2, <1>9, <2>1, <2>3 DEF Step, Goto, InBody
    <3>2. CASE d = 2
      BY <1>1, <1>2, <1>4, <2>1, <3>1, <3>2 DEF After
    <3>3. CASE d = 3
      BY <1>1, <1>2, <1>4, <2>1, <3>1, <3>3 DEF After
    <3> QED
      BY <1>2, <2>3, <3>2, <3>3
  <2> QED
    BY <2>2, <2>3
<1> QED
  BY <1>5, <1>6, <1>7, <1>8, <1>9 DEF Work

LEMMA SameItem ==
  ASSUME NEW i, NEW j, TheItem(i) = TheItem(j) PROVE i = j
<1>1. TheItem(i).data = i /\ TheItem(j).data = j
  BY DEF TheItem, item
<1> QED
  BY <1>1

LEMMA BodyItem ==
  ASSUME PlaceInv, Private, Told, Running, NEW t \in Threads, Body(t)
  PROVE  ItemOf(t) = TheItem(current(t)) /\ current(t) \in TheBox
<1>1. /\ d \in 1..3 /\ launch.range \in Index /\ launch.offset \in Index
      /\ launch.range \in Ranges(d) /\ launch.offset \in Ids(d)
      /\ i0_[t] \in Nat /\ inner[1] \in Nat /\ inner[2] \in Nat
  BY LaunchTypes DEF PlaceInv, TypeOK, d
<1>2. Inside(t) /\ pc[t] = "body"
  BY DEF PlaceInv, CountersInside, Body, Goto
<1>3. /\ lo(0) <= i0_[t] /\ i0_[t] < hi(0)
      /\ d > 1 => lo(1) <= inner[1] /\ inner[1] < hi(1)
      /\ d > 2 => lo(2) <= inner[2] /\ inner[2] < hi(2)
  BY <1>2 DEF Inside, Testing1, Testing2, InBody
<1>4. /\ current(t)[0] = i0_[t]
      /\ current(t)[1] = IF d > 1 THEN inner[1] ELSE 0
      /\ current(t)[2] = IF d > 2 THEN inner[2] ELSE 0
      /\ current(t) \in Index
  BY AxesAre, CurrentType DEF current, id, range, PlaceInv
<1>5. \A k \in Axes : k < d => lo(k) = launch.offset[k] /\ hi(k) = launch.range[k]
  BY DEF PlaceInv, RangeGiven
<1>6. \A k \in Axes : k >= d => launch.offset[k] = 0 /\ launch.range[k] = 1
  BY <1>1 DEF Ranges, Ids
<1>7. \A k \in Axes : launch.offset[k] <= current(t)[k] /\ current(t)[k] < launch.range[k]
  BY <1>1, <1>3, <1>4, <1>5, <1>6, AxesAre
<1>8. current(t) \in TheBox
  BY <1>1, <1>4, <1>7, BoxIs DEF TheBox
<1>9. ItemOf(t) = TheItem(current(t))
  BY DEF PlaceInv, RangeGiven, ItemOf, TheItem
<1> QED
  BY <1>8, <1>9

LEMMA EnterOnce ==
  ASSUME PlaceInv, Enter PROVE OnceInv'
<1>1. /\ launch' = launch /\ phase = "start" /\ phase' = "loop"
      /\ pc' = pc /\ ran' = ran /\ again' = again
  BY DEF Enter, threads
<1>2. ran = {} /\ again = {} /\ \A t \in Threads : pc[t] = "idle"
  BY <1>1 DEF PlaceInv, Quiet, Running
<1>3. PlaceInv'
  BY EnterPlace
<1>4. left' = lo(0)'..hi(0)' - 1
  BY <1>1 DEF Enter, lo, hi, host
<1>5. ASSUME Told' PROVE \A i \in TheBox' : i[0] \in left'
  <2>1. /\ d \in 1..3 /\ launch.range \in Index /\ launch.offset \in Index
    BY LaunchTypes DEF PlaceInv, TypeOK, d
  <2>2. lo(0)' = launch.offset[0] /\ hi(0)' = launch.range[0]
    <3>1. Running' /\ d' = d /\ 0 \in Axes /\ 0 < d
      BY <1>1, <2>1, AxesAre DEF Running, d
    <3> QED
      BY <1>1, <1>3, <1>5, <3>1 DEF PlaceInv, RangeGiven
  <2>3. \A i \in TheBox' : i \in Index /\ launch.offset[0] <= i[0] /\ i[0] < launch.range[0]
    BY <1>1, <2>1, BoxIs, AxesAre DEF TheBox
  <2>4. \A i \in Index : i[0] \in Nat
    BY AxesAre DEF Index
  <2>5. launch.offset[0] \in Nat /\ launch.range[0] \in Nat
    BY <2>1, <2>4
  <2> QED
    BY <1>4, <2>2, <2>3, <2>4, <2>5
<1>6. ASSUME Told' PROVE {j \in TheBox : ~Remaining(j)}' = {}
  BY <1>5, <1>6 DEF Remaining
<1> QED
  BY <1>1, <1>2, <1>6 DEF OnceInv, Apart

LEMMA WorkApart ==
  ASSUME PlaceInv, Private, Apart, NEW t \in Threads, Work(t)
  PROVE  Apart'
<1>1. /\ left' \subseteq left
      /\ pc \in [Threads -> {"idle", "test", "body", "next"}] /\ i0_ \in [Threads -> Nat]
      /\ \A s \in Threads : s # t => pc'[s] = pc[s] /\ i0_'[s] = i0_[s]
  BY WorkFrame DEF PlaceInv, TypeOK
<1>2. CASE Take(t)
  <2>1. PICK x \in left : i0_' = [i0_ EXCEPT ![t] = x] /\ left' = left \ {x}
    BY <1>2 DEF Take
  <2>2. i0_'[t] = x /\ x \notin left'
    BY <1>1, <2>1
  <2> QED
    BY <1>1, <2>1, <2>2 DEF Apart
<1>3. CASE ~Take(t)
  <2>1. i0_' = i0_ /\ left' = left /\ pc[t] # "idle"
    BY <1>3 DEF Work, Descend, Ascend, Body, Step, Goto
  <2> QED
    BY <1>1, <2>1 DEF Apart
<1> QED
  BY <1>2, <1>3

\* What is left to run changes by the item of a body step only.
LEMMA WorkRemaining ==
  ASSUME PlaceInv, Private, Told, Running, Apart, NEW t \in Threads, Work(t), NEW i \in TheBox
  PROVE  Remaining(i)' <=> Remaining(i) /\ ~(Body(t) /\ i = current(t))
<1>1. \A s \in Threads : s # t => (After(s, i)' <=> After(s, i))
  BY OthersAfter
<1>2. CASE Take(t)
  <2>1. PICK x \in left : i0_' = [i0_ EXCEPT ![t] = x] /\ left' = left \ {x}
    BY <1>2 DEF Take
  <2>2. i0_'[t] = x
    BY <2>1 DEF PlaceInv, TypeOK
  <2>3. (After(t, i)' <=> i[0] = x) /\ ~After(t, i)
    BY <1>2, <2>2, AfterStep
  <2>4. ~Body(t)
    BY <1>2 DEF Take, Body, Goto
  <2> QED
    BY <1>1, <2>1, <2>3, <2>4 DEF Remaining
<1>3. CASE Body(t)
  <2>1. left' = left
    BY <1>3 DEF Body
  <2>2. After(t, i)' <=> After(t, i) /\ i # current(t)
    BY <1>3, AfterStep
  <2>3. After(t, current(t))
    BY <1>3, AfterStep
  <2>4. ASSUME i = current(t) PROVE i[0] \notin left' /\ \A s \in Threads : s # t => ~After(s, i)
    <3>1. pc[t] # "idle" /\ i[0] = i0_[t]
      BY <2>3, <2>4 DEF After
    <3> QED
      BY <2>1, <3>1 DEF Apart, After
  <2> QED
    BY <1>1, <1>3, <2>1, <2>2, <2>4 DEF Remaining
<1>4. CASE ~Take(t) /\ ~Body(t)
  <2>1. left' = left
    BY <1>4 DEF Work, Descend, Ascend, Step
  <2>2. After(t, i)' <=> After(t, i)
    BY <1>4, AfterStep
  <2> QED
    BY <1>1, <1>4, <2>1, <2>2 DEF Remaining
<1> QED
  BY <1>2, <1>3, <1>4

LEMMA WorkOnce ==
  ASSUME PlaceInv, OnceInv, NEW t \in Threads, Work(t)
  PROVE  OnceInv'
<1>1. /\ launch' = launch /\ r_' = r_ /\ phase' = phase /\ phase = "loop" /\ Running
      /\ ~Body(t) => ran' = ran /\ again' = again
  BY WorkFrame DEF PlaceInv, Running
<1> SUFFICES ASSUME Private', Told'
             PROVE  /\ Apart' /\ again' = {}
                    /\ ran' = {TheItem(i) : i \in {j \in TheBox : ~Remaining(j)}}'
  BY <1>1 DEF OnceInv
<1>2. /\ Private /\ Told /\ TheBox' = TheBox /\ \A i : TheItem(i)' = TheItem(i)
  BY <1>1 DEF Private, Told, host, d, TheBox, TheItem
<1>3. /\ Apart /\ again = {}
      /\ ran = {TheItem(i) : i \in {j \in TheBox : ~Remaining(j)}}
  BY <1>1, <1>2 DEF OnceInv
<1>4. \A i \in TheBox : Remaining(i)' <=> Remaining(i) /\ ~(Body(t) /\ i = current(t))
  BY <1>1, <1>2, <1>3, WorkRemaining
<1>5. Apart'
  BY <1>2, <1>3, WorkApart
<1>6. CASE ~Body(t)
  <2>1. {j \in TheBox : ~Remaining(j)}' = {j \in TheBox : ~Remaining(j)}
    BY <1>2, <1>4, <1>6
  <2> QED
    BY <1>1, <1>2, <1>3, <1>5, <1>6, <2>1
<1>7. CASE Body(t)
  <2>1. ItemOf(t) = TheItem(current(t)) /\ current(t) \in TheBox
    BY <1>1, <1>2, <1>7, BodyItem
  <2>2. ran' = ran \cup {ItemOf(t)} /\ again' = again \cup ({ItemOf(t)} \cap ran)
    BY <1>7, BodyRuns
  <2>3. Remaining(current(t))
    BY <1>1, <1>2, <1>7, <2>1, AfterStep DEF Remaining
  <2>4. ItemOf(t) \notin ran
    BY <1>3, <2>1, <2>3, SameItem
  <2>5. {j \in TheBox : ~Remaining(j)}' = {j \in TheBox : ~Remaining(j)} \cup {current(t)}
    BY <1>2, <1>4, <1>7, <2>1
  <2>6. ran' = {TheItem(i) : i \in {j \in TheBox : ~Remaining(j)}}'
    BY <1>2, <1>3, <2>1, <2>2, <2>5
  <2> QED
    BY <1>3, <1>5, <2>2, <2>4, <2>6
<1> QED
  BY <1>6, <1>7

LEMMA OnceStep == PlaceInv /\ OnceInv /\ [Next]_vars => OnceInv'
<1> SUFFICES ASSUME PlaceInv, OnceInv, [Next]_vars PROVE OnceInv'
  OBVIOUS
<1>1. CASE Enter
  BY <1>1, EnterOnce
<1>2. CASE \E t \in Threads : Work(t)
  BY <1>2, WorkOnce
<1>3. CASE Unimplemented
  BY <1>3 DEF Unimplemented, OnceInv, Running
<1>4. CASE Finish \/ UNCHANGED vars
  <2>1. /\ launch' = launch /\ r_' = r_ /\ left' = left /\ pc' = pc /\ depth' = depth /\ i0_' = i0_
        /\ inner' = inner /\ ran' = ran /\ again' = again
        /\ Running' => Running
    BY <1>4 DEF Finish, vars, threads, Running
  <2>2. /\ (Private' <=> Private) /\ (Told' <=> Told) /\ (Apart' <=> Apart)
        /\ TheBox' = TheBox /\ \A i : TheItem(i)' = TheItem(i)
    BY <2>1 DEF Private, Told, host, d, TheBox, TheItem, Apart
  <2>3. \A i : Remaining(i)' <=> Remaining(i)
    BY <2>1 DEF Remaining, After, d
  <2>4. {j \in TheBox : ~Remaining(j)}' = {j \in TheBox : ~Remaining(j)}
    BY <2>2, <2>3
  <2>5. ASSUME Private, Told, phase' = "done"
        PROVE  left = {} /\ \A t \in Threads : pc[t] = "idle"
    <3>1. CASE UNCHANGED vars
      BY <2>5, <3>1 DEF vars, OnceInv, Running
    <3>2. CASE Finish
      BY <2>5, <3>2 DEF Finish, PlaceInv, CountersInside, Inside
    <3> QED
      BY <1>4, <3>1, <3>2
  <2> QED
    BY <2>1, <2>2, <2>4, <2>5 DEF OnceInv
<1> QED
  BY <1>1, <1>2, <1>3, <1>4 DEF Next

LEMMA OnceGives == PlaceInv /\ OnceInv => ItemsOnce
<1> SUFFICES ASSUME PlaceInv, OnceInv, Private, Told
             PROVE  again = {} /\ (phase = "done" => ran = Items)
  BY DEF ItemsOnce, EveryItemOnce
<1>1. CASE ~Running
  BY <1>1 DEF PlaceInv, Quiet, Running
<1>2. CASE Running
  <2>1. phase = "done" => \A i : ~Remaining(i)
    BY <1>2 DEF OnceInv, Remaining, After
  <2>2. phase = "done" => {j \in TheBox : ~Remaining(j)} = TheBox
    BY <2>1
  <2> QED
    BY <1>2, <2>2 DEF OnceInv, Items, TheItem, TheBox
<1> QED
  BY <1>1, <1>2

\* Every work-item between offset and range runs exactly once, with its own
\* range, index and offset, for every launch whose counters are not shared and
\* whose offset the loops know.
THEOREM ItemsRunOnce == Spec => []ItemsOnce
<1>1. Init => OnceInv
  BY DEF Init, OnceInv, Running
<1>2. Spec => [](PlaceInv /\ OnceInv)
  BY <1>1, InitPlace, PlaceStep, OnceStep, PTL DEF Spec
<1> QED
  BY <1>2, OnceGives, PTL

(***************************************************************************)
(* What a host accessor finds after the loops                              *)
(***************************************************************************)

\* Every item that has run has left its mark.
Traced == \A it \in ran : <<Position(it.data), it.data>> \in written

LEMMA TracedStep == PlaceInv /\ Traced /\ [Next]_vars => Traced'
<1> SUFFICES ASSUME PlaceInv, Traced, [Next]_vars PROVE Traced'
  OBVIOUS
<1>1. launch' = launch /\ \A i : Position(i)' = Position(i)
  <2>1. launch' = launch
    BY WorkFrame DEF PlaceInv, Next, Unimplemented, Enter, Finish, vars
  <2> QED
    BY <2>1 DEF Position, host, d
<1>2. ASSUME NEW t \in Threads, Body(t) PROVE Traced'
  <2>1. /\ ItemOf(t).data = current(t) /\ ran' = ran \cup {ItemOf(t)}
        /\ written' = written \cup {<<Position(current(t)), current(t)>>}
    BY <1>2, BodyRuns
  <2>2. ASSUME NEW it \in ran' PROVE <<Position(it.data), it.data>> \in written'
    <3>1. CASE it \in ran
      BY <2>1, <3>1 DEF Traced
    <3>2. CASE it = ItemOf(t)
      BY <2>1, <3>2
    <3> QED
      BY <2>1, <3>1, <3>2
  <2>3. ASSUME NEW it \in ran' PROVE <<Position(it.data), it.data>>' \in written'
    <3>1. Position(it.data)' = Position(it.data)
      BY <1>1
    <3> QED
      BY <2>2, <3>1
  <2> QED
    BY <2>3 DEF Traced
<1>3. ASSUME ran' = ran, written' = written PROVE Traced'
  BY <1>1, <1>3 DEF Traced
<1>4. \/ \E t \in Threads : Body(t)
      \/ ran' = ran /\ written' = written
  BY WorkFrame DEF PlaceInv, Next, Unimplemented, Enter, Finish, vars
<1> QED
  BY <1>2, <1>3, <1>4

\* The ids of a range from the origin are those below its extents.
LEMMA BoxBelow ==
  ASSUME NEW n \in Dims, NEW r \in Ranges(n)
  PROVE  /\ \A i : i \in Box(r, Zero) <=> i \in Below(n, r)
         /\ Box(r, Zero) # {} => r[0] > 0 /\ r[1] > 0 /\ r[2] > 0
<1>1. r \in Index /\ Zero \in Index /\ \A k \in Axes : Zero[k] = 0
  BY DEF Ranges, Zero, id, range, Index
<1>2. ASSUME NEW i PROVE i \in Box(r, Zero) <=> i \in Index /\ \A k \in Axes : i[k] < r[k]
  <2>1. i \in Box(r, Zero) <=> i \in Index /\ \A k \in Axes : Zero[k] <= i[k] /\ i[k] < r[k]
    BY <1>1, BoxIs
  <2>2. ASSUME i \in Index, NEW k \in Axes PROVE Zero[k] <= i[k]
    <3>1. i[k] \in Nat /\ Zero[k] = 0
      BY <1>1, <2>2 DEF Index
    <3> QED
      BY <3>1
  <2> QED
    BY <2>1, <2>2
<1>3. ASSUME NEW i \in Index, \A k \in Axes : i[k] < r[k] PROVE i \in Ids(n)
  <2>1. \A k \in Axes : k >= n => i[k] = 0
    BY <1>3 DEF Ranges, Index
  <2> QED
    BY <2>1 DEF Ids
<1>4. \A i : i \in Box(r, Zero) <=> i \in Below(n, r)
  BY <1>2, <1>3 DEF Below, Ids
<1>5. ASSUME NEW i \in Box(r, Zero) PROVE r[0] > 0 /\ r[1] > 0 /\ r[2] > 0
  BY <1>1, <1>2, AxesAre DEF Index
<1> QED
  BY <1>4, <1>5

\* When the loops of a whole range are over, each of its ids has been written
\* once, at the position of the accessor that the kernel has.
LEMMA AllWritten ==
  ASSUME PlaceInv, OnceInv, Traced, Full
  PROVE  /\ d \in Dims /\ launch.range \in Ranges(d)
         /\ \A i, x : i \in Below(d, launch.range) =>
              (<<x, i>> \in written <=> x = Position(i))
         /\ \A w \in written : w[2] \in Below(d, launch.range) /\ w[1] = Position(w[2])
         /\ Items # {} => launch.range[0] > 0 /\ launch.range[1] > 0 /\ launch.range[2] > 0
<1>1. d \in Dims /\ launch.range \in Ranges(d)
  BY LaunchesAre DEF PlaceInv, TypeOK, d
<1>2. ran = Items /\ Items = {item(launch.range, i, Zero) : i \in Box(launch.range, Zero)}
  BY OnceGives DEF Full, ItemsOnce, EveryItemOnce, Items
<1>3. ASSUME NEW w \in written
      PROVE  w[2] \in Below(d, launch.range) /\ w = <<Position(w[2]), w[2]>>
  BY DEF PlaceInv, WrittenInside, Full
<1>4. ASSUME NEW i \in Below(d, launch.range) PROVE <<Position(i), i>> \in written
  <2>1. item(launch.range, i, Zero) \in ran
    BY <1>1, <1>2, BoxBelow
  <2>2. item(launch.range, i, Zero).data = i
    BY DEF item
  <2> QED
    BY <2>1, <2>2 DEF Traced
<1>5. ASSUME NEW i, NEW x, <<x, i>> \in written PROVE x = Position(i)
  <2>1. <<x, i>>[2] = i /\ <<x, i>>[1] = x
    OBVIOUS
  <2>2. <<x, i>> = <<Position(i), i>>
    BY <1>3, <1>5, <2>1, Zenon
  <2> QED
    BY <2>1, <2>2
<1>6. \A w \in written : w[2] \in Below(d, launch.range) /\ w[1] = Position(w[2])
  <2> SUFFICES ASSUME NEW w \in written
               PROVE  w[2] \in Below(d, launch.range) /\ w[1] = Position(w[2])
    OBVIOUS
  <2>1. w[2] \in Below(d, launch.range) /\ w = <<Position(w[2]), w[2]>>
    BY <1>3
  <2>2. \A x, y : <<x, y>>[1] = x
    OBVIOUS
  <2> QED
    BY <2>1, <2>2, Zenon
<1>7. Items # {} => launch.range[0] > 0 /\ launch.range[1] > 0 /\ launch.range[2] > 0
  <2>1. Items # {} => Box(launch.range, Zero) # {}
    BY <1>2
  <2> QED
    BY <1>1, <2>1, BoxBelow
<1> QED
  BY <1>1, <1>4, <1>5, <1>6, <1>7

LEMMA MarksInvariance == Spec => [](PlaceInv /\ OnceInv /\ Traced)
<1>1. Init => OnceInv
  BY DEF Init, OnceInv, Running
<1>2. Init => Traced
  BY DEF Init, Traced
<1> QED
  BY <1>1, <1>2, InitPlace, PlaceStep, OnceStep, TracedStep, PTL DEF Spec

\* A host accessor finds at every id of a range what the kernel wrote at that
\* id: after a kernel on the host always, after one on a device exactly when at
\* most one extent is more than one, for acc_ of nsc++ and id2index of
\* accessor.hpp count the axes in opposite orders.
THEOREM ReadsBack == Spec => []ReadBack
<1>1. ASSUME PlaceInv, OnceInv, Traced PROVE ReadBack
  <2> SUFFICES ASSUME Full, launch.use = "id", Items # {}
               PROVE  (\A i \in Box(launch.range, Zero) :
                         <<id2index(d, launch.range, i), i>> \in written)
                      <=> (host \/ \A j, k \in Axes : j # k =>
                                     launch.range[j] = 1 \/ launch.range[k] = 1)
    BY DEF ReadBack
  <2>1. /\ d \in Dims /\ launch.range \in Ranges(d)
        /\ \A i, x : i \in Below(d, launch.range) =>
             (<<x, i>> \in written <=> x = Position(i))
        /\ launch.range[0] > 0 /\ launch.range[1] > 0 /\ launch.range[2] > 0
    BY <1>1, AllWritten
  <2>2. (\A i \in Box(launch.range, Zero) : <<id2index(d, launch.range, i), i>> \in written)
        <=> \A i \in Below(d, launch.range) : id2index(d, launch.range, i) = Position(i)
    <3>1. \A i : i \in Box(launch.range, Zero) <=> i \in Below(d, launch.range)
      BY <2>1, BoxBelow
    <3> QED
      BY <2>1, <3>1
  <2>3. CASE host
    <3>1. \A i : Position(i) = id2index(d, launch.range, i)
      BY <2>3 DEF Position
    <3> QED
      BY <2>2, <2>3, <3>1
  <2>4. CASE ~host
    <3>1. \A i : Position(i) = acc_(d, launch.range, i)
      BY <2>4 DEF Position
    <3> QED
      BY <2>1, <2>2, <2>4, <3>1, PositionsAgree
  <2> QED
    BY <2>3, <2>4
<1> QED
  BY <1>1, MarksInvariance, PTL

\* The rows of acc[i][j] in a range of a by b are a apart: they cover the
\* buffer exactly when the range is square or has one row.
LEMMA RowsCover ==
  ASSUME NEW a \in Nat, NEW b \in Nat, a > 0, b > 0,
         NEW S,
         \A i \in 0..a - 1, j \in 0..b - 1 : a * i + j \in S,
         \A x \in S : \E i \in 0..a - 1, j \in 0..b - 1 : x = a * i + j
  PROVE  S = 0..a * b - 1 <=> a = b \/ a = 1
<1>0. a * b \in Nat /\ a * b > 0
  <2>1. 0 * b + 0 < a * b
    BY PairBound
  <2> QED
    BY <2>1
<1>1. ASSUME S = 0..a * b - 1 PROVE a = b \/ a = 1
  <2>1. a * b - 1 \in 0..a * b - 1
    BY <1>0
  <2>2. PICK i \in 0..a - 1, j \in 0..b - 1 : a * b - 1 = a * i + j
    BY <2>1, <1>1
  <2>3. a * i <= a * (a - 1)
    OBVIOUS
  <2>4. a * b - 1 <= a * (a - 1) + (b - 1)
    BY <2>2, <2>3, <1>0
  <2>5. a * (a - 1) + (b - 1) \in S
    <3>1. a - 1 \in 0..a - 1 /\ b - 1 \in 0..b - 1
      OBVIOUS
    <3> QED
      BY <3>1
  <2>6. a * (a - 1) + (b - 1) <= a * b - 1
    <3>1. a * (a - 1) + (b - 1) \in 0..a * b - 1
      BY <2>5, <1>1
    <3>2. \A x, m \in Int : x \in 0..m => x <= m
      OBVIOUS
    <3>3. a * (a - 1) + (b - 1) \in Int /\ a * b - 1 \in Int
      BY <1>0
    <3> QED
      BY <3>1, <3>2, <3>3
  <2>7. a * (a - 1) + b = a * b
    BY <2>4, <2>6, <1>0
  <2>8. (a - 1) * (a - b) = 0
    BY <2>7
  <2> QED
    BY <2>8
<1>2. ASSUME a = 1 PROVE S = 0..a * b - 1
  <2>1. \A j \in 0..b - 1 : a * 0 + j = j
    OBVIOUS
  <2>2. 0..a - 1 = {0} /\ a * b = b
    BY <1>2
  <2>3. ASSUME NEW j \in 0..b - 1 PROVE j \in S
    <3>1. 0 \in 0..a - 1 /\ a * 0 + j \in S
      BY <2>2
    <3> QED
      BY <2>1, <3>1
  <2>4. ASSUME NEW x \in S PROVE x \in 0..b - 1
    BY <2>1, <2>2
  <2> QED
    BY <2>2, <2>3, <2>4
<1>3. ASSUME a = b PROVE S = 0..a * b - 1
  <2>1. ASSUME NEW i \in 0..a - 1, NEW j \in 0..b - 1 PROVE a * i + j \in 0..a * b - 1
    <3>1. i * a + j \in Nat /\ i * a + j < a * a
      BY <1>3, PairBound
    <3>2. i * a = a * i
      OBVIOUS
    <3> QED
      BY <3>1, <3>2, <1>3
  <2>2. ASSUME NEW n \in 0..a * b - 1 PROVE n \in S
    <3>0. n \in Nat /\ n < a * a
      BY <1>3, <1>0
    <3>1. /\ n \div a \in Nat /\ n % a \in 0..a - 1 /\ n = a * (n \div a) + (n % a)
      BY <3>0
    <3>2. n \div a < a
      <4>1. ASSUME n \div a >= a PROVE FALSE
        <5>1. a * (n \div a) >= a * a
          BY <3>1, <4>1
        <5> QED
          BY <3>0, <3>1, <5>1
      <4> QED
        BY <3>1, <4>1
    <3>3. n \div a \in 0..a - 1 /\ n % a \in 0..b - 1
      BY <3>1, <3>2, <1>3
    <3> QED
      BY <3>1, <3>3
  <2>3. \A x \in S : x \in 0..a * b - 1
    BY <2>1
  <2> QED
    BY <2>2, <2>3
<1> QED
  BY <1>1, <1>2, <1>3

\* acc[i][j] of a two-dimensional buffer gives each work-item an element of its
\* own, and each element a work-item, exactly when the buffer is square or has
\* one row: AccessProxyND steps over the extent of the axis it is at, where it
\* ought to step over that of the axes after it.
THEOREM SubscriptsCover == Spec => []SubscriptsFit
<1>1. ASSUME PlaceInv, OnceInv, Traced PROVE SubscriptsFit
  <2> DEFINE a == launch.range[0]
             b == launch.range[1]
  <2> SUFFICES ASSUME Full, launch.use = "subscripts", d = 2, Items # {}
               PROVE  {w[1] : w \in written} = 0..get_liner(d, launch.range) - 1
                      <=> a = b \/ a = 1
    BY DEF SubscriptsFit
  <2>1. /\ d \in Dims /\ launch.range \in Ranges(d)
        /\ \A i, x : i \in Below(d, launch.range) =>
             (<<x, i>> \in written <=> x = Position(i))
        /\ \A w \in written : w[2] \in Below(d, launch.range) /\ w[1] = Position(w[2])
        /\ a > 0 /\ b > 0
    BY <1>1, AllWritten
  <2>2. a \in Nat /\ b \in Nat /\ launch.range[2] = 1 /\ get_liner(d, launch.range) = a * b
    BY <2>1, AxesAre DEF Ranges, Index, get_liner
  <2>3. \A i : Position(i) = a * i[0] + i[1]
    BY DEF Position, subscripts
  <2>4. ASSUME NEW w \in written PROVE \E i \in 0..a - 1, j \in 0..b - 1 : w[1] = a * i + j
    <3>1. /\ w[2][0] \in 0..a - 1 /\ w[2][1] \in 0..b - 1
      BY <2>1, <2>2, BelowAxes
    <3> QED
      BY <3>1, <2>1, <2>3
  <2>5. ASSUME NEW x \in 0..a - 1, NEW y \in 0..b - 1 PROVE a * x + y \in {w[1] : w \in written}
    <3>1. /\ id(x, y, 0) \in Index
          /\ id(x, y, 0)[0] = x /\ id(x, y, 0)[1] = y /\ id(x, y, 0)[2] = 0
      BY AxesAre DEF id, range, Index
    <3>2. id(x, y, 0) \in Below(d, launch.range)
      <4>1. \A k \in Axes : id(x, y, 0)[k] < launch.range[k]
        BY <3>1, <2>2, AxesAre
      <4>2. \A k \in Axes : k >= 2 => id(x, y, 0)[k] = 0
        BY <3>1, AxesAre
      <4> QED
        BY <3>1, <4>1, <4>2 DEF Below, Ids
    <3>3. <<a * x + y, id(x, y, 0)>> \in written
      BY <3>1, <3>2, <2>1, <2>3
    <3>4. \A u, v : <<u, v>>[1] = u
      OBVIOUS
    <3> QED
      BY <3>3, <3>4
  <2> QED
    <3>1. PICK S : S = {w[1] : w \in written}
      OBVIOUS
    <3>2. S = 0..a * b - 1 <=> a = b \/ a = 1
      <4>1. PICK m \in Nat, n \in Nat : m = a /\ n = b
        BY <2>2
      <4>2. m > 0 /\ n > 0
        BY <2>1, <4>1
      <4>3. /\ \A i \in 0..m - 1, j \in 0..n - 1 : m * i + j \in S
            /\ \A x \in S : \E i \in 0..m - 1, j \in 0..n - 1 : x = m * i + j
        BY <2>4, <2>5, <3>1, <4>1
      <4>4. S = 0..m * n - 1 <=> m = n \/ m = 1
        BY <4>2, <4>3, RowsCover
      <4> QED
        BY <4>1, <4>4
    <3> QED
      BY <2>2, <3>1, <3>2
<1> QED
  BY <1>1, MarksInvariance, PTL
=============================================================================
