--------------------------- MODULE MCKernelLaunch ---------------------------
(***************************************************************************)
(* Two CPU queues, whose programs share kernel.so, a VE queue and a queue  *)
(* of the host device; a kernel of parallel_for and one of single_task,    *)
(* which the VE library lacks; and a kernel of which kernel.so, built      *)
(* before it took a range, has no __K_range__.  Among the jobs are two of  *)
(* one kernel that write one buffer, and two that do not.                  *)
(***************************************************************************)
EXTENDS KernelLaunch

CONSTANTS t1, t2, t3, b1, b2

MCLaunches  == {t1, t2, t3}
MCPrograms  == {"cpu1", "cpu2", "ve", "host"}
MCLibraries == {"kernel.so", "kernel-ve.so", "none"}
MCKernels   == {"loop", "single", "old"}
MCBuffers   == {b1, b2}
MCKind      == [p \in MCPrograms |-> IF p \in {"cpu1", "cpu2"} THEN "cpu" ELSE p]
MCLibrary   == [p \in MCPrograms |-> CASE p \in {"cpu1", "cpu2"} -> "kernel.so"
                                       [] p = "ve" -> "kernel-ve.so"
                                       [] p = "host" -> "none"]
MCSymbols   == {<<"kernel.so", "loop">>, <<"kernel.so", "single">>,
                <<"kernel.so", "old">>, <<"kernel-ve.so", "loop">>}
MCRanges    == {<<"kernel.so", "loop">>, <<"kernel-ve.so", "loop">>}
MCRanged    == {"loop", "old"}

J(p, k, w, r) == [prog |-> p, kernel |-> k, writes |-> w, reads |-> r]
MCJobs == [t \in MCLaunches |->
  CASE t = t1 -> {J("cpu1", "loop", {b1}, {}), J("ve", "loop", {b2}, {b1})}
    [] t = t2 -> {J("cpu1", "loop", {b1}, {}), J("cpu2", "loop", {b2}, {}),
                  J("ve", "loop", {b1}, {})}
    [] t = t3 -> {J("cpu1", "loop", {b2}, {}), J("cpu1", "single", {}, {b1}),
                  J("ve", "single", {b2}, {}), J("host", "loop", {b2}, {b1}),
                  J("cpu2", "old", {b1}, {})}]
=============================================================================
