---------------------------- MODULE KernelLaunch ----------------------------
(***************************************************************************)
(* How a kernel gets to a device: handler::run looks the kernel up in the  *)
(* two caches of its queue's program, writes the range and the captures of *)
(* this launch into the variables the device library keeps for the kernel, *)
(* and calls it; the handler::parallel_for or single_task that follows     *)
(* runs it only on the host device.                                        *)
(*                                                                         *)
(* Launches are command groups in threads of their own.  Of their locks    *)
(* this module keeps what WaitingProgram!KernelExclusion says: launches    *)
(* that conflict on a buffer are not in progress at the same time.         *)
(***************************************************************************)
EXTENDS Integers, Sequences

CONSTANTS Launches,   \* command groups that launch a kernel
          Programs,   \* program_impl objects, one for each queue
          Libraries,  \* loaded device libraries, each with its own globals
          Kernels,    \* names of kernels
          Buffers,
          Kind,       \* the device of each program
          Library,    \* the library of each program
          Symbols,    \* the kernels that each library has
          Ranges,     \* those of them for which it has a __K_range__
          Ranged,     \* kernels of parallel_for, which take a range
          Jobs,       \* what each launch may be: a set of records
          None

ASSUME KindAre == Kind \in [Programs -> {"host", "cpu", "ve"}]
ASSUME LibraryAre == Library \in [Programs -> Libraries]
ASSUME JobsAre ==
  Jobs \in [Launches -> SUBSET [prog : Programs, kernel : Kernels,
                               writes : SUBSET Buffers, reads : SUBSET Buffers]]
ASSUME NoneIsNone ==
  /\ None \notin Launches
  /\ None \notin [prog : Programs, name : Kernels, by : Launches]

VARIABLES
  pc,       \* where each launch is
  job,      \* what it launches
  kern,     \* the local `k' of handler::run
  hash,     \* hash_map_ of each program
  names,    \* name_map_ of each program
  rnge,     \* __K_range__ of each library: the launch that wrote it last
  capt,     \* __K_obj__ of each library: the launch that wrote it last
  fifo,     \* calls a VEO context has yet to finish
  runs,     \* how often each launch has run its kernel
  met,      \* launches each launch was in progress together with
  raced,    \* programs of which a map was changed during another use of it
  aborted   \* std::terminate was called

maps == <<hash, names>>
args == <<rnge, capt>>
vars == <<pc, job, kern, maps, args, fifo, runs, met, raced, aborted>>

Handles == [prog : Programs, name : Kernels, by : Launches]
Slots   == Libraries \X Kernels

Phases == {"unborn", "hash", "name", "create", "putname", "puthash", "range",
           "capture", "call", "queued", "running", "loop", "done", "hung"}

Prog(t)   == job[t].prog
Kernel(t) == job[t].kernel
On(t)     == Kind[Prog(t)]
Slot(t)   == <<Library[Prog(t)], Kernel(t)>>
Active(t) == pc[t] \notin {"unborn", "done"}

TypeOK ==
  /\ pc \in [Launches -> Phases]
  /\ DOMAIN job = Launches
  /\ \A t \in Launches : pc[t] # "unborn" => job[t] \in Jobs[t]
  /\ kern \in [Launches -> Handles \cup {None}]
  /\ \A t \in Launches : kern[t] = None =>
       pc[t] \in {"unborn", "hash", "name", "create", "hung"}
  /\ hash \in [Programs -> [Kernels -> Handles \cup {None}]]
  /\ names \in [Programs -> [Kernels -> Handles \cup {None}]]
  /\ rnge \in [Slots -> Launches \cup {None}]
  /\ capt \in [Slots -> Launches \cup {None}]
  /\ fifo \in [Programs -> Seq(Launches)]
  /\ runs \in [Launches -> Nat]
  /\ met \in [Launches -> SUBSET Launches]
  /\ raced \in SUBSET Programs
  /\ aborted \in BOOLEAN

Init ==
  /\ pc = [t \in Launches |-> "unborn"]
  /\ job = [t \in Launches |-> None]
  /\ kern = [t \in Launches |-> None]
  /\ hash = [p \in Programs |-> [k \in Kernels |-> None]]
  /\ names = [p \in Programs |-> [k \in Kernels |-> None]]
  /\ rnge = [s \in Slots |-> None]
  /\ capt = [s \in Slots |-> None]
  /\ fifo = [p \in Programs |-> <<>>]
  /\ runs = [t \in Launches |-> 0]
  /\ met = [t \in Launches |-> {}]
  /\ raced = {}
  /\ aborted = FALSE

(***************************************************************************)
(* std::map without a lock: the operation of a launch on a map lasts for   *)
(* as long as the launch is in the phase of that operation.                *)
(***************************************************************************)
Inserts  == {"putname", "puthash"}
MapUses  == {{"hash", "puthash"}, {"name", "putname"}}  \* by hash_map_, name_map_

\* Another launch of p is at an operation on the map that phase y of t uses,
\* and one of the two inserts.
Overlaps(t, p, y) ==
  \E s \in Launches \ {t} : /\ Active(s) /\ Prog(s) = p
                            /\ \E m \in MapUses : pc[s] \in m /\ y \in m
                            /\ pc[s] \in Inserts \/ y \in Inserts

Enter(t, p, from, to) ==
  /\ ~aborted /\ pc[t] = from
  /\ pc' = [pc EXCEPT ![t] = to]
  /\ raced' = IF Overlaps(t, p, to) THEN raced \cup {p} ELSE raced

Goto(t, from, to) == Enter(t, Prog(t), from, to)

\* An exception leaves the thread of t, or it crashes: the program ends.
Die(t, from) ==
  /\ ~aborted /\ pc[t] = from /\ aborted' = TRUE
  /\ UNCHANGED <<pc, job, kern, maps, args, fifo, runs, met, raced>>

\* From the first race on, an operation on a map of the program may do what a
\* red-black tree does that is read while it is rebalanced: besides the
\* ordinary outcome it may miss an entry, drop entries, crash or never return.
Broken(t) == Prog(t) \in raced

-----------------------------------------------------------------------------
(* A launch begins: its handler has the locks of its buffers               *)

Conflict(i, j) ==
  i.writes \cap (j.reads \cup j.writes) # {} \/ j.writes \cap i.reads # {}

Start(t, j) ==
  LET others == {s \in Launches : Active(s)}
  IN /\ Enter(t, j.prog, "unborn", "hash")
     /\ \A s \in others : ~Conflict(job[s], j)
     /\ job' = [job EXCEPT ![t] = j]
     /\ met' = [s \in Launches |-> CASE s = t -> others
                                     [] s \in others -> met[s] \cup {t}
                                     [] OTHER -> met[s]]
     /\ UNCHANGED <<kern, maps, args, fifo, runs, aborted>>

-----------------------------------------------------------------------------
(* program_impl::get_kernel, which takes no lock                           *)

Found(t, e) == kern' = [kern EXCEPT ![t] = e]
AfterLookup(t) == IF Kernel(t) \in Ranged THEN "range" ELSE "capture"

\* A search with count and at that goes to `hit' if it has found e, to `miss'
\* if there is no entry.
Search(t, from, e, hit, miss) ==
  /\ pc[t] = from
  /\ \/ e # None /\ Goto(t, from, hit) /\ Found(t, e)
     \/ (e = None \/ Broken(t)) /\ Goto(t, from, miss) /\ UNCHANGED kern
  /\ UNCHANGED <<job, maps, args, fifo, runs, met, aborted>>

FindHash(t) == Search(t, "hash", hash[Prog(t)][Kernel(t)], AfterLookup(t), "name")

\* Mutant: name_map_ has become a static member that all programs share.
FindNameAnywhere(t) ==
  LET es == {names[p][Kernel(t)] : p \in Programs} \ {None}
  IN /\ pc[t] = "name"
     /\ \E e \in es \cup {None} :
       (e = None => es = {}) /\ Search(t, "name", e, "puthash", "create")

\* Mutant: the kernel found is looked at and not returned.
FindNameUnset(t) ==
  /\ Goto(t, "name", IF names[Prog(t)][Kernel(t)] # None THEN "puthash" ELSE "create")
  /\ UNCHANGED <<job, kern, maps, args, fifo, runs, met, aborted>>

FindName(t) == Search(t, "name", names[Prog(t)][Kernel(t)], "puthash", "create")

\* A kernel is made, with the addresses that the program's library has for it.
Create(t) ==
  /\ Goto(t, "create", "putname")
  /\ On(t) = "host" \/ Slot(t) \in Symbols
  /\ Found(t, [prog |-> Prog(t), name |-> Kernel(t), by |-> t])
  /\ UNCHANGED <<job, maps, args, fifo, runs, met, aborted>>

\* The library has no such function or no captures for it: create_kernel_data
\* throws.
NoSymbol(t) == Die(t, "create") /\ On(t) # "host" /\ Slot(t) \notin Symbols

\* std::map::insert leaves an entry that is there as it is.
Insert(m, t, lost) ==
  [m EXCEPT ![Prog(t)] =
     [k \in Kernels |-> IF k \in lost THEN None
                        ELSE IF k = Kernel(t) /\ @[k] = None THEN kern[t] ELSE @[k]]]

Lost(t) == IF Broken(t) THEN SUBSET Kernels ELSE {{}}

PutName(t) ==
  /\ Goto(t, "putname", "puthash")
  /\ \E lost \in Lost(t) : names' = Insert(names, t, lost)
  /\ UNCHANGED <<job, kern, hash, args, fifo, runs, met, aborted>>

\* Mutant: the entry is not under the key that get_kernel searches for.
PutElsewhere(t) ==
  /\ Goto(t, "puthash", AfterLookup(t))
  /\ UNCHANGED <<job, kern, maps, args, fifo, runs, met, aborted>>

PutHash(t) ==
  /\ Goto(t, "puthash", AfterLookup(t))
  /\ \E lost \in Lost(t) : hash' = Insert(hash, t, lost)
  /\ UNCHANGED <<job, kern, names, args, fifo, runs, met, aborted>>

\* The operation on a broken map never returns ...
Hang(t) ==
  /\ pc[t] \in UNION MapUses /\ Broken(t)
  /\ Goto(t, pc[t], "hung")
  /\ UNCHANGED <<job, kern, maps, args, fifo, runs, met, aborted>>

\* ... or it crashes, or `at' does not find what `count' has found.
Crash(t) == \E x \in UNION MapUses : Die(t, x) /\ Broken(t)

-----------------------------------------------------------------------------
(* The arguments, the call, and the loop of the host device                *)

\* The variables of the kernel that k was made from.
KernSlot(t) == <<Library[kern[t].prog], kern[t].name>>

SetRange(t) ==
  /\ Goto(t, "range", "capture")
  /\ On(t) = "host" \/ KernSlot(t) \in Ranges
  /\ IF On(t) = "host" THEN UNCHANGED rnge
     ELSE rnge' = [rnge EXCEPT ![KernSlot(t)] = t]
  /\ UNCHANGED <<job, kern, maps, capt, fifo, runs, met, aborted>>

\* The library has no range for the kernel, or the VE refuses the write.
SetRangeThrows(t) ==
  /\ Die(t, "range")
  /\ On(t) # "host" /\ (KernSlot(t) \notin Ranges \/ On(t) = "ve")

\* Mutant: the captures are written for the first launch only.
SetCaptureOnce(t) ==
  /\ Goto(t, "capture", "call")
  /\ IF On(t) = "host" \/ capt[KernSlot(t)] # None THEN UNCHANGED capt
     ELSE capt' = [capt EXCEPT ![KernSlot(t)] = t]
  /\ UNCHANGED <<job, kern, maps, rnge, fifo, runs, met, aborted>>

SetCapture(t) ==
  /\ Goto(t, "capture", "call")
  /\ IF On(t) = "host" THEN UNCHANGED capt
     ELSE capt' = [capt EXCEPT ![KernSlot(t)] = t]
  /\ UNCHANGED <<job, kern, maps, rnge, fifo, runs, met, aborted>>

\* A kernel without captures has thrown when it was made.
SetCaptureThrows(t) == Die(t, "capture") /\ On(t) = "ve"

\* program_data::run: nothing on the host, a function call on the CPU, an
\* asynchronous call of the VEO context on the VE.
Call(t) ==
  /\ Goto(t, "call", CASE On(t) = "host" -> "loop"
                       [] On(t) = "cpu"  -> "running"
                       [] On(t) = "ve"   -> "queued")
  /\ fifo' = IF On(t) = "ve" THEN [fifo EXCEPT ![Prog(t)] = Append(@, t)] ELSE fifo
  /\ UNCHANGED <<job, kern, maps, args, runs, met, aborted>>

\* The calls of a VEO context run one after the other.
Begin(t) ==
  /\ Goto(t, "queued", "running")
  /\ Head(fifo[Prog(t)]) = t
  /\ UNCHANGED <<job, kern, maps, args, fifo, runs, met, aborted>>

Served(t) == IF On(t) = "ve" THEN [fifo EXCEPT ![Prog(t)] = Tail(@)] ELSE fifo

Finish(t) ==
  /\ Goto(t, "running", "loop")
  /\ fifo' = Served(t)
  /\ runs' = [runs EXCEPT ![t] = @ + 1]
  /\ UNCHANGED <<job, kern, maps, args, met, aborted>>

\* Mutant: a call that failed is not taken out of the context.
FailUnserved(t) ==
  /\ Goto(t, "running", "loop")
  /\ On(t) = "ve"
  /\ UNCHANGED <<job, kern, maps, args, fifo, runs, met, aborted>>

\* The kernel fails.  program_data_ve::run prints a message and returns ...
Fail(t) ==
  /\ Goto(t, "running", "loop")
  /\ On(t) = "ve"
  /\ fifo' = Served(t)
  /\ UNCHANGED <<job, kern, maps, args, runs, met, aborted>>

\* ... and program_data_cpu::run lets the exception go on.
Throw(t) == Die(t, "running") /\ On(t) = "cpu"

\* Mutant: single_task and parallel_for do not look at the device.
LoopEverywhere(t) ==
  /\ Goto(t, "loop", "done")
  /\ runs' = [runs EXCEPT ![t] = @ + 1]
  /\ UNCHANGED <<job, kern, maps, args, fifo, met, aborted>>

\* The call of single_task or parallel_for that kout leaves in the program.
Loop(t) ==
  /\ Goto(t, "loop", "done")
  /\ runs' = IF On(t) = "host" THEN [runs EXCEPT ![t] = @ + 1] ELSE runs
  /\ UNCHANGED <<job, kern, maps, args, fifo, met, aborted>>

-----------------------------------------------------------------------------
Step(t) == \/ FindHash(t) \/ FindName(t) \/ Create(t) \/ NoSymbol(t)
           \/ PutName(t) \/ PutHash(t) \/ Hang(t) \/ Crash(t)
           \/ SetRange(t) \/ SetRangeThrows(t) \/ SetCapture(t) \/ SetCaptureThrows(t)
           \/ Call(t) \/ Begin(t) \/ Finish(t) \/ Fail(t) \/ Throw(t) \/ Loop(t)

Next == \E t \in Launches : Step(t) \/ \E j \in Jobs[t] : Start(t, j)

Spec == Init /\ [][Next]_vars

(***************************************************************************)
(* Every thread keeps running and a kernel returns or fails.               *)
(***************************************************************************)
FairSpec == Spec /\ \A t \in Launches : WF_vars(Step(t))

-----------------------------------------------------------------------------
(* Properties                                                              *)

\* The launches that t was in progress with and that use the same variables.
Rivals(t) ==
  {s \in met[t] : On(s) # "host" /\ On(t) # "host" /\ Slot(s) = Slot(t)}

\* Unless the maps of a program were raced on, what they hold and what a launch
\* has taken from them is a kernel of that program under its own name; a launch
\* leaves its kernel in hash_map_ for the next one; and every kernel found by
\* its hash can be found by its name, in the map of "all exiting kernels"
\* (program.hpp:157-191, 202-203).
CachesSound ==
  /\ \A p \in Programs \ raced, k \in Kernels :
       /\ names[p][k] # None => names[p][k].prog = p /\ names[p][k].name = k
       /\ hash[p][k] # None => /\ hash[p][k].prog = p /\ hash[p][k].name = k
                               /\ names[p][k] # None
  /\ \A t \in Launches :
       kern[t] # None /\ Prog(t) \notin raced =>
         /\ kern[t].prog = Prog(t) /\ kern[t].name = Kernel(t)
         /\ pc[t] \notin {"putname", "puthash"} => hash[Prog(t)][Kernel(t)] # None

\* The maps of a program are raced on only while a kernel is new to it: the
\* program has a launch that made a kernel and was in progress together with
\* another launch of it.  Where every first launch of a kernel was waited for
\* before the next launch of that queue, the unlocked maps are never changed
\* while they are used (program.hpp:157-191).
RacesAreFirst ==
  \A p \in raced :
    \E t \in Launches : /\ kern[t] # None /\ kern[t].by = t /\ Prog(t) = p
                        /\ \E s \in met[t] : Prog(s) = p

\* A kernel that runs on a device finds the captures and the range of its own
\* launch, whatever else is launched, unless a launch of the same kernel into
\* the same library, with no buffer that they conflict on, was in progress
\* together with it (cpu/program.hpp:72-86, nec/program.hpp:69-83).
OwnArguments ==
  \A t \in Launches :
    (pc[t] = "running" /\ \A s \in Rivals(t) : Conflict(job[s], job[t])) =>
      /\ capt[Slot(t)] = t
      /\ Kernel(t) \in Ranged => rnge[Slot(t)] = t

\* A launch that is over has run its kernel once, in program_data::run or in
\* the loop of the host; only a VE, whose failures are swallowed, may have run
\* it not at all (handler.hpp:63-85, nec/program.hpp:37-44).
RunsOnce ==
  \A t \in Launches : /\ runs[t] <= 1
                      /\ pc[t] = "done" /\ On(t) # "ve" => runs[t] = 1

\* Every launch ends, or the program does, unless its maps were raced on.
LaunchesEnd ==
  \A t \in Launches :
    (pc[t] # "unborn") ~>
      (pc[t] = "done" \/ aborted \/ (pc[t] # "unborn" /\ Prog(t) \in raced))
=============================================================================
