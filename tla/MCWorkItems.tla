----------------------------- MODULE MCWorkItems -----------------------------
(***************************************************************************)
(* All ranges of one, two and three axes up to a small extent, on the host *)
(* and on a device, by id and by subscripts, with and without an offset;   *)
(* a team of two threads for one axis, of one thread for more.             *)
(***************************************************************************)
EXTENDS WorkItems

CONSTANTS omp1, omp2

MCThreads == {omp1, omp2}
MCWild    == {id(0, 0, 0), id(1, 0, 1), id(0, 7, 0)}

L(n, r, o, s, p) ==
  [dim |-> n, range |-> r, offset |-> o, shape |-> s,
   on |-> p[1], team |-> p[2], use |-> p[3]]

Host      == {<<"host", {omp1}, "id">>, <<"host", {omp1}, "subscripts">>}
Device(t) == <<"device", t, "id">>

Ranges1 == {range(x, 1, 1) : x \in 0..4}
Ranges2 == {range(x, y, 1) : x, y \in 0..3}
Ranges3 == {range(x, y, z) : x, y, z \in 0..2}
Shapes  == {"range", "range+offset", "nd_range"}

MCLaunches ==
  {L(1, r, Zero, s, p) : r \in Ranges1, s \in Shapes,
                         p \in Host \cup {Device({omp1}), Device(MCThreads)}}
    \cup {L(2, r, Zero, s, p) : r \in Ranges2, s \in Shapes, p \in Host \cup {Device({omp1})}}
    \cup {L(3, r, Zero, s, p) : r \in Ranges3, s \in Shapes, p \in Host \cup {Device({omp1})}}
    \cup {L(1, r, id(1, 0, 0), "range+offset", p) : r \in Ranges1, p \in Host}
    \cup {L(2, r, id(1, 2, 0), "range+offset", p) : r \in Ranges2, p \in Host}
    \cup {L(3, r, id(0, 1, 1), "range+offset", p) : r \in Ranges3, p \in Host}

\* Two axes and a team of two threads, which share the inner counter.
SharedLaunches ==
  {L(2, range(x, y, 1), Zero, "range", Device(MCThreads)) : x, y \in 1..3}
=============================================================================
