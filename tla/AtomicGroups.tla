---------------------------- MODULE AtomicGroups ----------------------------
(***************************************************************************)
(* What the runtime promises about buffers: every command group acts on    *)
(* the buffers as one indivisible step, once, at some moment after it is   *)
(* submitted, and when a buffer is given back to the host program the host *)
(* memory holds what the command groups left in it.  No devices, no        *)
(* copies, no locks.                                                       *)
(***************************************************************************)
EXTENDS Accesses

CONSTANT NotYet     \* host memory of a buffer that is still in use

VARIABLES status,   \* "unborn", "submitted" or "executed"
          group,    \* what each submitted command group does
          val,      \* the contents of each buffer
          out       \* the host memory of a buffer that was given back

vars == <<status, group, val, out>>

Init ==
  /\ status = [t \in Tasks |-> "unborn"]
  /\ group = [t \in Tasks |-> NotYet]
  /\ val = [b \in Buffers |-> {Orig}]
  /\ out = [b \in Buffers |-> NotYet]

Submit(t) ==
  /\ status[t] = "unborn"
  /\ status' = [status EXCEPT ![t] = "submitted"]
  /\ \E g \in Groups : group' = [group EXCEPT ![t] = g]
  /\ UNCHANGED <<val, out>>

\* A buffer that a command group opens with a discarding access may lose what
\* it held.
Execute(t) ==
  LET g   == group[t]
      loc == [i \in DOMAIN g.acc |-> g.acc[i].buf]
      mayLose == {g.acc[i].buf : i \in {j \in DOMAIN g.acc : Discards(g.acc[j].mode)}}
  IN /\ status[t] = "submitted"
     /\ status' = [status EXCEPT ![t] = "executed"]
     /\ \E lost \in SUBSET mayLose :
          LET v == [b \in Buffers |-> IF b \in lost THEN {} ELSE val[b]]
          IN  val' = After(g, t, loc, v, v)
     /\ UNCHANGED <<group, out>>

\* The host program has its data back, with nothing still to be done to it.
GiveBack(b) ==
  /\ out[b] = NotYet
  /\ \A t \in Tasks : status[t] = "submitted" => b \notin Uses(group[t])
  /\ out' = [out EXCEPT ![b] = val[b]]
  /\ UNCHANGED <<status, group, val>>

Next == \/ \E t \in Tasks : Submit(t) \/ Execute(t)
        \/ \E b \in Buffers : GiveBack(b)

Spec == Init /\ [][Next]_vars
=============================================================================
