------------------------------ MODULE WorkItems ------------------------------
(***************************************************************************)
(* One parallel_for, from handler::parallel_for or handler::run to the     *)
(* last work-item: the nested loops of detail::parallel_for on the host,   *)
(* or the loops that the outliner prints, whose outermost one OpenMP       *)
(* distributes over a team of threads, with the inner counters declared    *)
(* outside of it and so shared by the team.  Every work-item writes the    *)
(* element of a buffer that its accessor finds at its id.                  *)
(***************************************************************************)
EXTENDS IndexSpace

CONSTANTS Launches,  \* the parallel_fors considered: a set of records
          Threads,
          Wild       \* what an id may hold beyond its end: a set of indices

ASSUME LaunchesAre ==
  \A l \in Launches :
    /\ l.dim \in Dims
    /\ l.range \in Ranges(l.dim) /\ l.offset \in Ids(l.dim)
    /\ l.on \in {"host", "device"}
    /\ l.shape \in {"range", "range+offset", "nd_range"}
    /\ l.shape = "range" => l.offset = Zero
    /\ l.team \subseteq Threads /\ (l.on = "host" => \E t \in Threads : l.team = {t})
    /\ l.use \in {"id", "subscripts"}
    /\ l.on = "device" => l.use = "id"   \* acc_ has no chained subscripts
ASSUME WildAre == Wild \subseteq Index

VARIABLES
  launch,
  phase,
  r_,      \* __K_range__ of the device library
  left,    \* values of the outermost counter that no thread has taken
  pc,      \* where each thread of the team is
  depth,   \* which inner loop it tests next
  i0_,     \* the outermost counter, private to each thread
  inner,   \* i1_ and i2_, of the whole team
  ran,     \* items for which the kernel has run
  again,   \* items for which it has run more than once
  written  \* pairs of a position in the buffer and the id that wrote it

threads == <<pc, depth, i0_>>
vars == <<launch, phase, r_, left, threads, inner, ran, again, written>>

d      == launch.dim
host   == launch.on = "host"
lo(k)  == IF host THEN launch.offset[k] ELSE r_[k + 3]
hi(k)  == IF host THEN launch.range[k] ELSE r_[k]

current(t) == id(i0_[t], IF d > 1 THEN inner[1] ELSE 0, IF d > 2 THEN inner[2] ELSE 0)

Items == {item(launch.range, i, launch.offset) : i \in Box(launch.range, launch.offset)}

Init ==
  /\ launch \in Launches
  /\ phase = "start"
  /\ r_ = Unset
  /\ left = {}
  /\ pc = [t \in Threads |-> "idle"]
  /\ depth = [t \in Threads |-> 1]
  /\ i0_ = [t \in Threads |-> 0]
  /\ inner = [k \in {1, 2} |-> 0]
  /\ ran = {} /\ again = {} /\ written = {}

-----------------------------------------------------------------------------
(* handler: nd_ranges are not implemented, the host loops, devices first   *)
(* get the range, into the variable that run() reads.                      *)

Unimplemented ==
  /\ phase = "start" /\ launch.shape = "nd_range"
  /\ phase' = "threw"
  /\ UNCHANGED <<launch, r_, left, threads, inner, ran, again, written>>

Enter ==
  /\ phase = "start" /\ launch.shape # "nd_range"
  /\ \/ /\ host /\ UNCHANGED r_
        /\ left' = launch.offset[0]..launch.range[0] - 1
     \/ /\ ~host
        /\ r_' \in IF launch.shape = "range" THEN {set_range(d, launch.range)}
                  ELSE {set_range_offset(d, launch.range, w) : w \in Wild}
        /\ left' = r_'[3]..r_'[0] - 1
  /\ phase' = "loop"
  /\ UNCHANGED <<launch, threads, inner, ran, again, written>>

-----------------------------------------------------------------------------
(* The loops                                                               *)

Goto(t, from, to) ==
  /\ phase = "loop" /\ t \in launch.team
  /\ pc[t] = from /\ pc' = [pc EXCEPT ![t] = to]

\* An iteration of the outermost loop: the next one on the host, any one that
\* the schedule gives the thread on a device.
Take(t) ==
  /\ Goto(t, "idle", IF d = 1 THEN "body" ELSE "test")
  /\ \E x \in left :
       /\ host => \A y \in left : x <= y
       /\ i0_' = [i0_ EXCEPT ![t] = x]
       /\ left' = left \ {x}
  /\ inner' = IF d = 1 THEN inner ELSE [inner EXCEPT ![1] = lo(1)]
  /\ depth' = [depth EXCEPT ![t] = 1]
  /\ UNCHANGED <<launch, phase, r_, ran, again, written>>

\* The test of an inner loop succeeds: on to the next loop, or to the body.
Descend(t) ==
  /\ inner[depth[t]] < hi(depth[t])
  /\ \/ /\ depth[t] = d - 1
        /\ Goto(t, "test", "body")
        /\ UNCHANGED <<depth, inner>>
     \/ /\ depth[t] < d - 1
        /\ Goto(t, "test", "test")
        /\ depth' = [depth EXCEPT ![t] = depth[t] + 1]
        /\ inner' = [inner EXCEPT ![depth[t] + 1] = lo(depth[t] + 1)]
  /\ UNCHANGED <<launch, phase, r_, left, i0_, ran, again, written>>

AscendForgetsStep(t) ==
  /\ inner[depth[t]] >= hi(depth[t])
  /\ \/ /\ depth[t] = 1
        /\ Goto(t, "test", "idle")
        /\ UNCHANGED <<depth, inner>>
     \/ /\ depth[t] = 2
        /\ Goto(t, "test", "test")
        /\ depth' = [depth EXCEPT ![t] = 1]
        /\ UNCHANGED inner
  /\ UNCHANGED <<launch, phase, r_, left, i0_, ran, again, written>>

AscendTooFar(t) ==
  /\ inner[depth[t]] >= hi(depth[t])
  /\ Goto(t, "test", "test")
  /\ depth' = [depth EXCEPT ![t] = depth[t] - 1]
  /\ inner' = [inner EXCEPT ![1] = inner[1] + 1]
  /\ UNCHANGED <<launch, phase, r_, left, i0_, ran, again, written>>

\* It fails: the loop around it takes its next step.
Ascend(t) ==
  /\ inner[depth[t]] >= hi(depth[t])
  /\ \/ /\ depth[t] = 1
        /\ Goto(t, "test", "idle")
        /\ UNCHANGED <<depth, inner>>
     \/ /\ depth[t] = 2
        /\ Goto(t, "test", "test")
        /\ depth' = [depth EXCEPT ![t] = 1]
        /\ inner' = [inner EXCEPT ![1] = inner[1] + 1]
  /\ UNCHANGED <<launch, phase, r_, left, i0_, ran, again, written>>

Position(i) ==
  CASE launch.use = "subscripts" -> subscripts(d, launch.range, i)
    [] launch.use = "id" /\ host -> id2index(d, launch.range, i)
    [] launch.use = "id" /\ ~host -> acc_(d, launch.range, i)

Body(t) ==
  /\ Goto(t, "body", "next")
  /\ LET i  == current(t)
         it == IF host THEN item(launch.range, i, launch.offset) ELSE id2item(r_, i)
     IN  /\ ran' = ran \cup {it}
         /\ again' = again \cup ({it} \cap ran)
         /\ written' = written \cup {<<Position(it.data), it.data>>}
  /\ UNCHANGED <<launch, phase, r_, left, depth, i0_, inner>>

\* The step of the innermost loop.
Step(t) ==
  /\ Goto(t, "next", IF d = 1 THEN "idle" ELSE "test")
  /\ inner' = IF d = 1 THEN inner ELSE [inner EXCEPT ![d - 1] = inner[d - 1] + 1]
  /\ UNCHANGED <<launch, phase, r_, left, depth, i0_, ran, again, written>>

Work(t) == Take(t) \/ Descend(t) \/ Ascend(t) \/ Body(t) \/ Step(t)

\* The barrier at the end of the loop.
Finish ==
  /\ phase = "loop" /\ left = {} /\ \A t \in launch.team : pc[t] = "idle"
  /\ phase' = "done"
  /\ UNCHANGED <<launch, r_, left, threads, inner, ran, again, written>>

Next == Unimplemented \/ Enter \/ Finish \/ \E t \in Threads : Work(t)

Spec == Init /\ [][Next]_vars

FairSpec == Spec /\ WF_vars(Enter) /\ WF_vars(Finish) /\ WF_vars(Unimplemented)
                 /\ \A t \in Threads : WF_vars(Work(t))

-----------------------------------------------------------------------------
(* Properties                                                              *)

TypeOK ==
  /\ launch \in Launches
  /\ phase \in {"start", "loop", "done", "threw"}
  /\ r_ \in [0..5 -> Nat]
  /\ left \subseteq Nat
  /\ pc \in [Threads -> {"idle", "test", "body", "next"}]
  /\ depth \in [Threads -> {1, 2}]
  /\ i0_ \in [Threads -> Nat]
  /\ inner \in [{1, 2} -> Nat]
  /\ \A it \in ran : it.data \in Index
  /\ again \subseteq ran

\* Loops whose counters no other thread touches.
Private == d = 1 \/ \E t \in Threads : launch.team = {t}

\* A launch whose range and offset reach the loops.
Told == host \/ launch.shape = "range"

EveryItemOnce == again = {} /\ (phase = "done" => ran = Items)

\* The kernel runs once for each work-item between offset and range, on the
\* host and on a device alike, and is told the same range, index and offset,
\* as far as no loop counter is shared and no offset goes to a device: with
\* detail::parallel_for and printLoop each in their own hands.
ItemsOnce == Private /\ Told => EveryItemOnce

\* Accesses by id land in the buffer, each in an element of its own, whatever
\* offset the loops were given: accessor::id2index on the host, acc_ on a device.
WritesFit ==
  Private /\ launch.use = "id" =>
    \A w \in written :
      /\ w[1] \in 0..get_liner(d, launch.range) - 1
      /\ \A v \in written : v[1] = w[1] => v = w

Full == phase = "done" /\ Private /\ Told /\ launch.offset = Zero

\* A host accessor finds at every id what a kernel wrote at that id: always if
\* the kernel ran on the host, and after a device only if at most one extent
\* is more than one, for the two sides count the axes in opposite orders.
ReadBack ==
  Full /\ launch.use = "id" /\ Items # {} =>
    ((\A i \in Box(launch.range, Zero) : <<id2index(d, launch.range, i), i>> \in written)
     <=> (host \/ \A j, k \in Axes : j # k => launch.range[j] = 1 \/ launch.range[k] = 1))

\* acc[i][j] of a two-dimensional buffer is as good as acc[id] (one element of
\* the buffer for each work-item) only if the buffer is square or one row.
SubscriptsFit ==
  Full /\ launch.use = "subscripts" /\ d = 2 /\ Items # {} =>
    ({w[1] : w \in written} = 0..get_liner(d, launch.range) - 1
     <=> launch.range[0] = launch.range[1] \/ launch.range[0] = 1)

\* Every parallel_for ends, by finishing its loops or by throwing.
LoopEnds == <>(phase \in {"done", "threw"})
=============================================================================
