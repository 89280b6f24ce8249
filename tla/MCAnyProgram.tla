---------------------------- MODULE MCAnyProgram ----------------------------
(* Two command groups of a host program that does not wait between them, on *)
(* the host device or on one device queue.                                  *)
EXTENDS WaitingProgram

CONSTANTS t1, t2, b1, b2, dev
MCTasks == {t1, t2}
MCBuffers == {b1, b2}
MCDevices == {dev}
MCNoDevices == {}

A(b, m) == [buf |-> b, mode |-> m, via |-> "plain"]
G(as)   == [dev |-> dev, acc |-> as, cmd |-> "kernel"]

\* Two buffers in each command group.
MCPairs == { G(<<A(b1, "read"), A(b2, "write")>>) }

\* One buffer, read by one command group and then written by another.
MCReadThenWrite == { G(<<A(b1, "read")>>), G(<<A(b1, "write")>>) }

\* One buffer, written by every command group.
MCUpdates == { G(<<A(b1, "read_write")>>) }
=============================================================================
