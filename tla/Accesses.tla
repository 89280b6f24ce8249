------------------------------ MODULE Accesses ------------------------------
(***************************************************************************)
(* What a command group asks for and what its command does to memory.      *)
(*                                                                         *)
(* A command group is a record [dev, acc, cmd]: the program_data of the    *)
(* queue it was submitted to, the sequence of accessors it makes, and its  *)
(* one command.  An accessor is a record [buf, mode, via]; `via' is how it *)
(* reaches handler::alloc_mem_:                                            *)
(*   "plain"        get_access(h) or accessor(buffer, h): once;            *)
(*   "ranged"       get_access(h, range, offset), whose accessor calls     *)
(*                  alloc_mem_ in its constructor and which then calls it  *)
(*                  again;                                                 *)
(*   "placeholder"  h.require(acc), on an accessor made before submit.     *)
(*                                                                         *)
(* The contents of a piece of memory are the set of command groups whose   *)
(* effects have flowed into it, with Orig for the data the host program    *)
(* put there.  This is all that telling one order of execution from        *)
(* another needs.                                                          *)
(***************************************************************************)
EXTENDS Integers, Sequences

CONSTANTS Tasks,    \* the command groups that may be submitted
          Buffers,  \* the sycl::buffer objects
          Groups,   \* what a command group may do: a set of records
          Orig      \* what the memory of a buffer holds at first

Contents == SUBSET (Tasks \cup {Orig})

Modes == {"read", "write", "read_write", "discard_write", "discard_read_write"}
Discards(m) == m \in {"discard_write", "discard_read_write"}

Uses(g) == {g.acc[i].buf : i \in DOMAIN g.acc}

\* The locations a command writes, where accessor i stands for loc[i].
Written(g, loc) ==
  {loc[i] : i \in {j \in DOMAIN loc :
     \/ g.cmd = "kernel" /\ g.acc[j].mode # "read"
     \/ g.cmd = "fill" /\ j = 1
     \/ g.cmd = "copy" /\ j = 2}}

\* What command group t leaves in location l, having found m in memory.  A
\* kernel adds its own mark, and what it read, to what was there: it writes
\* some elements of a buffer and leaves others.  fill and copy overwrite.
Result(g, t, loc, m, l) ==
  CASE g.cmd = "kernel" ->
         m[l] \cup {t}
              \cup UNION {m[loc[i]] : i \in {j \in DOMAIN loc :
                                g.acc[j].mode \in {"read", "read_write"}}}
    [] g.cmd = "fill" -> {t}
    [] g.cmd = "copy" -> m[loc[1]]

\* Memory m with the locations in ls replaced by what t, which started from
\* the memory s, leaves in them.
After(g, t, loc, s, m) ==
  [l \in DOMAIN m |->
     IF l \in Written(g, loc) THEN Result(g, t, loc, s, l) ELSE m[l]]
=============================================================================
