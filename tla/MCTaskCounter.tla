--------------------------- MODULE MCTaskCounter ---------------------------
(* Two host threads, two command groups.                                    *)
EXTENDS TaskCounter

CONSTANTS t1, t2, u1, u2
MCTasks == {t1, t2}
MCUsers == {u1, u2}
=============================================================================
