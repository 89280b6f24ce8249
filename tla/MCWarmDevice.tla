---------------------------- MODULE MCWarmDevice ----------------------------
(* Three command groups on the queues of two devices, one with two buffers  *)
(* and one with a third; any of them may do any of the things below.        *)
EXTENDS WaitingProgram, TLC

CONSTANTS t1, t2, t3, b1, b2, b3, cpu, ve
MCTasks == {t1, t2, t3}
MCBuffers == {b1, b2, b3}
MCDevices == {cpu, ve}
MCHostDevices == {}

A(b, m, v)   == [buf |-> b, mode |-> m, via |-> v]
On(d, as, c) == [dev |-> d, acc |-> as, cmd |-> c]
G(as, c)     == On(cpu, as, c)

MCGroups == {
  G(<<A(b1, "read_write", "plain"), A(b2, "discard_write", "ranged")>>, "kernel"),
  G(<<A(b1, "read", "plain"), A(b2, "write", "plain")>>, "kernel"),
  G(<<A(b2, "read", "plain"), A(b1, "read", "plain"), A(b2, "write", "plain")>>, "kernel"),
  G(<<A(b1, "write", "placeholder")>>, "fill"),
  G(<<A(b1, "read", "placeholder"), A(b2, "write", "plain")>>, "copy"),
  G(<<A(b2, "read_write", "plain")>>, "update_host"),
  On(ve, <<A(b3, "read_write", "plain")>>, "kernel"),
  On(ve, <<A(b3, "discard_write", "placeholder")>>, "fill") }

Symmetric == Permutations(MCTasks)
=============================================================================
