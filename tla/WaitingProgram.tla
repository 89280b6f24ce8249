--------------------------- MODULE WaitingProgram ---------------------------
(***************************************************************************)
(* Command groups submitted by a host program that waits where neoSYCL     *)
(* needs it to.  Left to itself the runtime loses updates; with a host     *)
(* program that calls queue::wait between the first use of a buffer on a   *)
(* device and the next one, opens it for writing the first time, keeps a   *)
(* buffer on one device (or on host devices), and waits before it destroys *)
(* one that command groups refer to, it keeps the promise of AtomicGroups. *)
(***************************************************************************)
EXTENDS CommandGroup

Pending(t) == pc[t] \notin {"unborn", "exit", "done"}

\* A command group used b on device d and has been waited for.
Warm(b, d) ==
  \E t \in Tasks : ~Pending(t) /\ grp[t] # None /\ grp[t].dev = d /\ b \in Uses(grp[t])

\* The first access of g to b.
FirstMode(g, b) ==
  g.acc[CHOOSE i \in DOMAIN g.acc :
          g.acc[i].buf = b /\ \A j \in 1 .. i - 1 : g.acc[j].buf # b].mode

\* The first use of a buffer on a device is by a command group that writes it,
\* and that runs alone among those that use it.
FirstUseAlone(g) ==
  \A b \in Uses(g) : ~Warm(b, g.dev) =>
    /\ FirstMode(g, b) # "read"
    /\ \A t \in Tasks : Pending(t) => b \notin Uses(grp[t])

WaitingSubmit(t, g) == FirstUseAlone(g) /\ Submit(t, g)

\* Command groups that refer to a buffer are waited for before it goes.
WaitingDestroy(b) ==
  /\ \A t \in Tasks : Pending(t) =>
       \A i \in DOMAIN grp[t].acc :
         grp[t].acc[i].buf = b => grp[t].acc[i].via = "placeholder"
  /\ DestroyBuffer(b)

WaitingNext == \/ \E t \in Tasks : Step(t) \/ \E g \in Groups : WaitingSubmit(t, g)
               \/ \E b \in Buffers : WaitingDestroy(b)

WaitingSpec == Init /\ [][WaitingNext]_vars

(***************************************************************************)
(* Every thread keeps running, a command returns, and a lock that stays    *)
(* free is eventually taken by a thread that waits for it.                 *)
(***************************************************************************)
FairWaitingSpec == WaitingSpec /\ \A t \in Tasks : WF_vars(Step(t))

-----------------------------------------------------------------------------
(* Properties                                                              *)

\* While a kernel runs, nobody else writes what it uses or uses what it writes.
KernelExclusion ==
  \A s, t \in Tasks : (s # t /\ pc[s] = "running" /\ pc[t] = "running") =>
    \A i \in DOMAIN grp[t].acc : Loc(t, i) \notin Written(grp[s], LocOf(s))

\* Every chunk is the one its container's map has, so that it is read back and
\* freed with the container: no command group works on a private copy.
ChunksMapped ==
  \A c \in chunks : refs[c[1]] # {} /\ \E d \in Devices : map[c[1]][d] # None /\ map[c[1]][d].ptr = c

\* When the host program has destroyed a buffer and waited for the command
\* groups that refer to it, its data is back in host memory, unless a
\* placeholder accessor inside a function object still holds it.
BackAfterWait ==
  \A b \in Buffers :
    (/\ User \notin refs[b]
     /\ \A t \in Tasks : Pending(t) => b \notin Uses(grp[t])
     /\ \A t \in Tasks : pc[t] = "exit" => b \notin Captured(t))
    => refs[b] = {}

OnDevice(b) == {d \in Devices : map[b][d] # None}

\* Host memory holds the device's data when the container of a buffer that
\* stayed on one device is gone.
DeviceDataBack ==
  \A b \in Buffers : refs[b] = {} =>
    \A d \in OnDevice(b) : mem[<<b, Host>>] = mem[map[b][d].ptr]

\* Command groups are atomic, whatever their threads do in between.  A chunk
\* stands for its buffer once the command group that allocated it has run.
Fresh(b) ==
  \E t \in Tasks : /\ pc[t] \in Acquiring \cup {"command", "running"}
                   /\ \E d \in Devices : map[b][d] # None /\ map[b][d].ptr = <<b, t>>
Value(b) == IF OnDevice(b) = {} \/ Fresh(b) THEN mem[<<b, Host>>]
            ELSE mem[map[b][CHOOSE d \in OnDevice(b) : TRUE].ptr]

Abstract == INSTANCE AtomicGroups
  WITH NotYet <- None,
       status <- [t \in Tasks |->
                    IF pc[t] = "unborn" THEN "unborn"
                    ELSE IF pc[t] \in Acquiring \cup {"command", "running"}
                    THEN "submitted" ELSE "executed"],
       group <- grp,
       val <- [b \in Buffers |-> Value(b)],
       out <- [b \in Buffers |-> IF refs[b] = {} THEN mem[<<b, Host>>] ELSE None]
AtomicSpec == Abstract!Spec

\* A command group that was submitted ends.
GroupsEnd == \A t \in Tasks : (pc[t] # "unborn") ~> (pc[t] = "done")
=============================================================================
