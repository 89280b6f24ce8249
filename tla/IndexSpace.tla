----------------------------- MODULE IndexSpace -----------------------------
(***************************************************************************)
(* The pure side of a parallel_for: ranges and ids, the work-items between *)
(* an offset and a range, and the four ways in which the code turns an id  *)
(* into the position of an element of a buffer.                            *)
(*                                                                         *)
(* A range<d> or id<d> is a function on the three axes, with 1 (a range)   *)
(* or 0 (an id) on the axes that it does not have.                         *)
(***************************************************************************)
EXTENDS Integers

Axes  == 0..2
Dims  == 1..3
Index == [Axes -> Nat]

range(x, y, z) == [k \in Axes |-> IF k = 0 THEN x ELSE IF k = 1 THEN y ELSE z]
id(x, y, z)    == range(x, y, z)
Zero           == id(0, 0, 0)

\* A range or an id that has d axes only.
Ranges(d) == {r \in Index : \A k \in Axes : k >= d => r[k] = 1}
Ids(d)    == {i \in Index : \A k \in Axes : k >= d => i[k] = 0}

get_liner(d, r) ==
  CASE d = 1 -> r[0] [] d = 2 -> r[0] * r[1] [] d = 3 -> r[0] * r[1] * r[2]

-----------------------------------------------------------------------------
(* Work-items                                                              *)

\* The ids that the nested loops of parallel_for are meant to visit.
Box(r, o) == {id(x, y, z) : x \in o[0]..r[0] - 1, y \in o[1]..r[1] - 1,
                            z \in o[2]..r[2] - 1}

item(r, i, o) == [max_range |-> r, data |-> i, offset |-> o]

\* item::get_offset gives the index of the item, not its offset.
get_offset(it) == it.data

-----------------------------------------------------------------------------
(* The range variable of a kernel in a device library                      *)

Unset == [k \in 0..5 |-> IF k < 3 THEN 1 ELSE 0]

set_range_flat(d, r) == [k \in 0..5 |-> IF k < d /\ k < 2 THEN r[k] ELSE Unset[k]]

set_range(d, r) == [k \in 0..5 |-> IF k < d THEN r[k] ELSE Unset[k]]

\* The overload with an offset reads i[3] to i[d + 2] of an id of d elements:
\* `wild' is what it happens to find there.
set_range_offset(d, r, wild) ==
  [k \in 0..5 |-> IF k < d THEN r[k]
                  ELSE IF k \in 3..d + 2 THEN wild[k - 3] ELSE Unset[k]]

\* The item a device kernel makes of its loop counters.
id2item(s, i) == item(range(s[0], s[1], s[2]), i, id(s[3], s[4], s[5]))

-----------------------------------------------------------------------------
(* Positions of elements.  d axes, an accessor or container of range r.    *)

id2index_outer(d, r, i) ==
  CASE d = 1 -> i[0]
    [] d = 2 -> i[0] + r[1] * i[1]
    [] d = 3 -> i[0] + r[1] * (i[1] + r[2] * i[2])

\* accessor::operator[](id), on the host: the first axis runs fastest.
id2index(d, r, i) ==
  CASE d = 1 -> i[0]
    [] d = 2 -> i[0] + r[0] * i[1]
    [] d = 3 -> i[0] + r[0] * (i[1] + r[1] * i[2])

acc_swapped(d, r, i) ==
  CASE d = 1 -> i[0]
    [] d = 2 -> i[0] * r[0] + i[1]
    [] d = 3 -> (i[0] * r[0] + i[1]) * r[1] + i[2]

\* rt::acc_::operator[](id), in device code: the last axis runs fastest.
acc_(d, r, i) ==
  CASE d = 1 -> i[0]
    [] d = 2 -> i[0] * r[1] + i[1]
    [] d = 3 -> (i[0] * r[1] + i[1]) * r[2] + i[2]

subscripts_by_row(d, r, i) ==
  CASE d = 1 -> i[0]
    [] d = 2 -> r[1] * i[0] + i[1]
    [] d = 3 -> r[1] * r[2] * i[0] + r[2] * i[1] + i[2]

\* acc[i][j][k] on the host, by way of DataContainerND and AccessProxyND:
\* the stride of an axis is the extent of that axis.
subscripts(d, r, i) ==
  CASE d = 1 -> i[0]
    [] d = 2 -> r[0] * i[0] + i[1]
    [] d = 3 -> r[0] * i[0] + r[1] * i[1] + i[2]
=============================================================================
