------------------------------ MODULE MCQueues ------------------------------
(* Three command groups of a program on two queues of the host, each with    *)
(* program data of its own, or on one queue of a device.  The buffer of the  *)
(* host is destroyed at any time.  With those of the device, opened in one   *)
(* order and for writing before the next one, the program waits.             *)
EXTENDS WaitingProgram, Integers

CONSTANTS b1, b2, b3, host1, host2, cpu
MCTasks       == 1..3
MCBuffers     == {b1, b2, b3}
MCDevices     == {host1, host2, cpu}
MCHostDevices == {host1, host2}

A(b, m, v) == [buf |-> b, mode |-> m, via |-> v]
G(d, as)   == [dev |-> d, acc |-> as, cmd |-> "kernel"]

MCGroups ==
  { G(host1, <<A(b1, "read_write", "ranged")>>),
    G(host2, <<A(b1, "read", "plain")>>),
    G(host2, <<A(b1, "write", "placeholder")>>),
    G(cpu, <<A(b2, "read_write", "plain"), A(b3, "write", "plain")>>),
    G(cpu, <<A(b2, "read", "plain"), A(b2, "write", "plain"), A(b3, "read", "plain")>>) }

\* The queues that the program has used.
Using(devices) == \E t \in Tasks : grp[t] # None /\ grp[t].dev \in devices

MCDestroy(b) == \/ b = b1 /\ Using(HostDevices) /\ DestroyBuffer(b)
                \/ b # b1 /\ Using({cpu}) /\ WaitingDestroy(b)

\* Command groups are numbered in the order in which they are submitted.
MCSubmit(t, g) ==
  /\ \A s \in 1..t - 1 : pc[s] # "unborn"
  /\ \/ g.dev \in HostDevices /\ ~Using({cpu}) /\ Submit(t, g)
     \/ g.dev = cpu /\ ~Using(HostDevices) /\ WaitingSubmit(t, g)

MCNext == \/ \E t \in Tasks : Step(t) \/ \E g \in Groups : MCSubmit(t, g)
          \/ \E b \in Buffers : MCDestroy(b)

FairSpec == Init /\ [][MCNext]_vars /\ \A t \in Tasks : WF_vars(Step(t))
=============================================================================
