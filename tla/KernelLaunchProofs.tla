------------------------- MODULE KernelLaunchProofs -------------------------
(***************************************************************************)
(* Theorems about KernelLaunch, for any launches, programs, libraries and  *)
(* kernels.                                                                *)
(***************************************************************************)
EXTENDS KernelLaunch, TLAPS

-----------------------------------------------------------------------------
(* The inductive invariants                                                *)

Looking == {"unborn", "hash", "name", "create"}

\* The types of what the proofs look into.
Types ==
  /\ pc \in [Launches -> Phases]
  /\ DOMAIN job = Launches
  /\ \A t \in Launches : pc[t] # "unborn" => job[t] \in Jobs[t]
  /\ kern \in [Launches -> Handles \cup {None}]
  /\ hash \in [Programs -> [Kernels -> Handles \cup {None}]]
  /\ names \in [Programs -> [Kernels -> Handles \cup {None}]]
  /\ rnge \in [Slots -> Launches \cup {None}]
  /\ capt \in [Slots -> Launches \cup {None}]
  /\ runs \in [Launches -> Nat]
  /\ met \in [Launches -> SUBSET Launches]
  /\ raced \in SUBSET Programs

\* A launch has its kernel once it is past the lookup, raced on or not, and
\* what it has and what the maps hold are kernels of the right program.
OwnKernels ==
  /\ \A p \in Programs, k \in Kernels :
       /\ names[p][k] # None => names[p][k].prog = p /\ names[p][k].name = k
       /\ hash[p][k] # None => hash[p][k].prog = p /\ hash[p][k].name = k
  /\ \A t \in Launches :
       /\ kern[t] # None => kern[t].prog = Prog(t) /\ kern[t].name = Kernel(t)
       /\ pc[t] \in Looking => kern[t] = None
       /\ pc[t] \notin Looking \cup {"hung"} => kern[t] # None

CacheInv == Types /\ OwnKernels

\* Launches in progress together know of each other and do not conflict on a
\* buffer.
MetKnown ==
  \A s, t \in Launches :
    /\ (s # t /\ Active(s) /\ Active(t)) => s \in met[t]
    /\ s \in met[t] =>
         /\ s # t /\ pc[s] # "unborn" /\ pc[t] # "unborn" /\ t \in met[s]
         /\ ~Conflict(job[s], job[t])

\* What the maps of a program hold that nobody has raced on.
Filled ==
  /\ \A p \in Programs \ raced, k \in Kernels : hash[p][k] # None => names[p][k] # None
  /\ \A t \in Launches : pc[t] # "unborn" /\ Prog(t) \notin raced =>
       /\ pc[t] # "hung"
       /\ pc[t] = "puthash" => names[Prog(t)][Kernel(t)] # None
       /\ pc[t] \notin Looking \cup Inserts => hash[Prog(t)][Kernel(t)] # None

\* e is the kernel of the launch that made it.
Made(e) == kern[e.by] = e

\* Where the kernels in the map of names come from: a launch that still has to
\* put them in the map of hashes, unless they are there; and a launch that did
\* not find a kernel by its hash was in progress together with its maker.
Makers ==
  /\ \A p \in Programs \ raced, k \in Kernels : names[p][k] # None =>
       /\ Made(names[p][k])
       /\ hash[p][k] = None => pc[names[p][k].by] = "puthash"
  /\ \A t \in Launches : pc[t] # "unborn" =>
       /\ pc[t] = "putname" => kern[t].by = t
       /\ Prog(t) \notin raced =>
            /\ pc[t] = "name" /\ names[Prog(t)][Kernel(t)] # None
                 => names[Prog(t)][Kernel(t)].by \in met[t]
            /\ pc[t] = "puthash" =>
                 Made(kern[t]) /\ (kern[t].by = t \/ kern[t].by \in met[t])

RaceInv == MetKnown /\ Filled /\ Makers /\ RacesAreFirst

Alone(t) == On(t) # "host" /\ Rivals(t) = {}

\* What a launch without rivals has written stays there while it needs it.
ArgumentsKept ==
  \A t \in Launches :
    /\ (pc[t] \in {"capture", "call", "queued", "running"} /\ Kernel(t) \in Ranged
        /\ Alone(t)) => rnge[Slot(t)] = t
    /\ (pc[t] \in {"call", "queued", "running"} /\ Alone(t)) => capt[Slot(t)] = t
    /\ pc[t] \in {"queued", "running"} => On(t) # "host"

\* How often the kernel has run at each point.
RunsAt ==
  \A t \in Launches :
    /\ pc[t] \notin {"loop", "done"} => runs[t] = 0
    /\ runs[t] <= 1
    /\ pc[t] = "loop" => /\ On(t) = "host" => runs[t] = 0
                         /\ On(t) = "cpu" => runs[t] = 1
    /\ pc[t] = "done" /\ On(t) # "ve" => runs[t] = 1
    /\ pc[t] \in {"queued", "running"} => On(t) # "host"

-----------------------------------------------------------------------------
(* Types                                                                   *)

\* The program and the kernel of a launch are what its job says.
LEMMA JobTypes ==
  ASSUME Types, NEW t \in Launches, pc[t] # "unborn"
  PROVE  /\ Prog(t) \in Programs /\ Kernel(t) \in Kernels
         /\ On(t) \in {"host", "cpu", "ve"} /\ Slot(t) \in Slots
         /\ job[t] \in [prog : Programs, kernel : Kernels,
                        writes : SUBSET Buffers, reads : SUBSET Buffers]
  BY JobsAre, KindAre, LibraryAre DEF Types, Prog, Kernel, On, Slot, Slots

\* The variables of the kernel a launch has found are those it should use.
LEMMA KernSlotIs ==
  ASSUME CacheInv, NEW t \in Launches, pc[t] \notin Looking \cup {"hung"}
  PROVE  KernSlot(t) = Slot(t)
  BY DEF CacheInv, OwnKernels, KernSlot, Slot

\* What a step of a phase does to the other launches and to the races.
LEMMA GotoFrame ==
  ASSUME Types, NEW t \in Launches, NEW from, NEW to, Goto(t, from, to)
  PROVE  /\ pc[t] = from /\ pc'[t] = to
         /\ \A s \in Launches : s # t => pc'[s] = pc[s]
         /\ \/ raced' = raced
            \/ raced' = raced \cup {Prog(t)} /\ Overlaps(t, Prog(t), to)
         /\ pc' = [pc EXCEPT ![t] = to]
  BY DEF Goto, Enter, Types

\* Only lookups change the kernels and the maps, and the steps are where they
\* should be.
Later(t) == \/ SetRange(t) \/ SetCapture(t) \/ Call(t) \/ Begin(t)
            \/ Finish(t) \/ Fail(t) \/ Loop(t)
Deaths(t) == \/ NoSymbol(t) \/ Crash(t) \/ SetRangeThrows(t) \/ SetCaptureThrows(t)
             \/ Throw(t)

LEMMA LaterFrame ==
  ASSUME Types, NEW t \in Launches, Later(t)
  PROVE  /\ kern' = kern /\ hash' = hash /\ names' = names /\ job' = job /\ met' = met
         /\ pc[t] \in {"range", "capture", "call", "queued", "running", "loop"}
         /\ pc'[t] \in {"capture", "call", "queued", "running", "loop", "done"}
         /\ \A s \in Launches : s # t => pc'[s] = pc[s]
         /\ raced' = raced
<1>0. ASSUME NEW from, NEW to, Goto(t, from, to),
             to \in {"capture", "call", "queued", "running", "loop", "done"}
      PROVE  /\ pc[t] = from /\ pc'[t] = to
             /\ \A s \in Launches : s # t => pc'[s] = pc[s]
             /\ raced' = raced
  <2>1. ~Overlaps(t, Prog(t), to) BY <1>0 DEF Overlaps, MapUses
  <2> QED BY <1>0, <2>1, GotoFrame
<1>1. CASE SetRange(t) BY <1>1, <1>0 DEF SetRange, maps
<1>2. CASE SetCapture(t) BY <1>2, <1>0 DEF SetCapture, maps
<1>3. CASE Call(t)
  <2>1. pc[t] = "call" BY <1>3 DEF Call, Goto, Enter
  <2>2. On(t) \in {"host", "cpu", "ve"} BY <2>1, JobTypes
  <2> QED BY <1>3, <1>0, <2>2 DEF Call, maps
<1>4. CASE Begin(t) BY <1>4, <1>0 DEF Begin, maps
<1>5. CASE Finish(t) BY <1>5, <1>0 DEF Finish, maps
<1>6. CASE Fail(t) BY <1>6, <1>0 DEF Fail, maps
<1>7. CASE Loop(t) BY <1>7, <1>0 DEF Loop, maps
<1> QED BY <1>1, <1>2, <1>3, <1>4, <1>5, <1>6, <1>7 DEF Later

LEMMA DeathsFrame ==
  ASSUME NEW t \in Launches, Deaths(t)
  PROVE  /\ UNCHANGED <<pc, job, kern, maps, args, fifo, runs, met, raced>>
         /\ aborted' = TRUE
         /\ pc[t] \notin {"unborn", "done"}
  BY DEF Deaths, NoSymbol, Crash, SetRangeThrows, SetCaptureThrows, Throw, Die, MapUses

Lookup(t) == \/ FindHash(t) \/ FindName(t) \/ Create(t) \/ PutName(t) \/ PutHash(t)
             \/ Hang(t)

LEMMA LookupFrame ==
  ASSUME Types, NEW t \in Launches, Lookup(t)
  PROVE  /\ job' = job /\ met' = met /\ args' = args /\ fifo' = fifo
         /\ runs' = runs /\ aborted' = aborted
         /\ pc[t] \in {"hash", "name", "create", "putname", "puthash"}
         /\ pc'[t] \in {"name", "create", "putname", "puthash", "range", "capture", "hung"}
         /\ \A s \in Launches : s # t => pc'[s] = pc[s]
         /\ \/ raced' = raced
            \/ raced' = raced \cup {Prog(t)} /\ Overlaps(t, Prog(t), pc'[t])
<1>1. CASE FindHash(t)
  BY <1>1, GotoFrame DEF FindHash, Search, AfterLookup
<1>2. CASE FindName(t)
  BY <1>2, GotoFrame DEF FindName, Search
<1>3. CASE Create(t) BY <1>3, GotoFrame DEF Create
<1>4. CASE PutName(t) BY <1>4, GotoFrame DEF PutName
<1>5. CASE PutHash(t) BY <1>5, GotoFrame DEF PutHash, AfterLookup
<1>6. CASE Hang(t)
  <2>1. pc[t] \in {"hash", "name", "putname", "puthash"} BY <1>6 DEF Hang, MapUses
  <2> QED BY <1>6, <2>1, GotoFrame DEF Hang
<1> QED BY <1>1, <1>2, <1>3, <1>4, <1>5, <1>6 DEF Lookup

LEMMA StepKinds ==
  ASSUME NEW t \in Launches, Step(t)
  PROVE  Lookup(t) \/ Later(t) \/ Deaths(t)
  BY DEF Step, Lookup, Later, Deaths

\* What an insertion does: the entry is there unless the map is broken.
LEMMA InsertIs ==
  ASSUME NEW m \in [Programs -> [Kernels -> Handles \cup {None}]], NEW t \in Launches,
         Prog(t) \in Programs, Kernel(t) \in Kernels, kern[t] \in Handles \cup {None},
         NEW lost \in Lost(t)
  PROVE  /\ Insert(m, t, lost) \in [Programs -> [Kernels -> Handles \cup {None}]]
         /\ \A p \in Programs, k \in Kernels :
              /\ p # Prog(t) => Insert(m, t, lost)[p][k] = m[p][k]
              /\ Insert(m, t, lost)[p][k] \in {m[p][k], kern[t], None}
              /\ Insert(m, t, lost)[p][k] # m[p][k] => p = Prog(t)
              /\ Insert(m, t, lost)[p][k] \notin {m[p][k], None} => k = Kernel(t)
              /\ p \notin raced => Insert(m, t, lost)[p][k] =
                   IF p = Prog(t) /\ k = Kernel(t) /\ m[p][k] = None THEN kern[t] ELSE m[p][k]
<1> DEFINE f == [k \in Kernels |-> IF k \in lost THEN None
                                   ELSE IF k = Kernel(t) /\ m[Prog(t)][k] = None
                                        THEN kern[t] ELSE m[Prog(t)][k]]
<1>1. Insert(m, t, lost) = [m EXCEPT ![Prog(t)] = f] BY DEF Insert
<1>2. f \in [Kernels -> Handles \cup {None}] OBVIOUS
<1>3. Prog(t) \notin raced => lost = {} BY DEF Lost, Broken
<1>4. \A k \in Kernels : f[k] = IF k \in lost THEN None
                                ELSE IF k = Kernel(t) /\ m[Prog(t)][k] = None
                                     THEN kern[t] ELSE m[Prog(t)][k]
  OBVIOUS
<1> HIDE DEF f
<1>5. \A p \in Programs : Insert(m, t, lost)[p] = IF p = Prog(t) THEN f ELSE m[p]
  BY <1>1
<1>6. Insert(m, t, lost) \in [Programs -> [Kernels -> Handles \cup {None}]]
  BY <1>1, <1>2
<1> QED BY <1>3, <1>4, <1>5, <1>6

\* The steps keep the types.
LEMMA StepTypes ==
  ASSUME CacheInv, NEW t \in Launches, Step(t)
  PROVE  Types'
<1> Types BY DEF CacheInv
<1>1. CASE Deaths(t)
  BY <1>1, DeathsFrame DEF Types, maps, args
<1>2. CASE Later(t)
  <2>0. /\ kern' = kern /\ hash' = hash /\ names' = names /\ job' = job /\ met' = met
        /\ raced' = raced /\ pc[t] # "unborn"
    BY <1>2, LaterFrame
  <2>1. /\ Prog(t) \in Programs /\ Kernel(t) \in Kernels
        /\ On(t) \in {"host", "cpu", "ve"} /\ Slot(t) \in Slots
    BY <2>0, JobTypes
  <2>2. pc' \in [Launches -> Phases] /\ \A s \in Launches : pc'[s] # "unborn" => pc[s] # "unborn"
    <3>1. pc' = [pc EXCEPT ![t] = pc'[t]]
      BY <1>2, <2>1 DEF Later, SetRange, SetCapture, Call, Begin, Finish, Fail, Loop, Goto,
                        Enter, Types
    <3> QED BY <3>1, <1>2, LaterFrame DEF Types, Phases
  <2>3. /\ rnge' \in [Slots -> Launches \cup {None}] /\ capt' \in [Slots -> Launches \cup {None}]
        /\ runs' \in [Launches -> Nat]
    <3>1. CASE SetRange(t)
      BY <3>1 DEF SetRange, Types
    <3>2. CASE SetCapture(t)
      BY <3>2 DEF SetCapture, Types
    <3>3. CASE Call(t) \/ Begin(t) \/ Fail(t)
      BY <3>3 DEF Call, Begin, Fail, Types, args
    <3>4. CASE Finish(t) \/ Loop(t)
      BY <3>4 DEF Finish, Loop, Types, args
    <3> QED BY <1>2, <3>1, <3>2, <3>3, <3>4 DEF Later
  <2> QED BY <2>0, <2>2, <2>3 DEF Types
<1>3. CASE Lookup(t)
  <2>0. /\ job' = job /\ met' = met /\ args' = args /\ runs' = runs /\ pc[t] # "unborn"
    BY <1>3, LookupFrame
  <2>1. /\ Prog(t) \in Programs /\ Kernel(t) \in Kernels
    BY <2>0, JobTypes
  <2>2. pc' \in [Launches -> Phases]
    <3>1. pc' = [pc EXCEPT ![t] = pc'[t]]
      BY <1>3 DEF Lookup, FindHash, FindName, Search, Create, PutName, PutHash, Hang, Goto,
                  Enter, Types
    <3> QED BY <3>1, <1>3, LookupFrame DEF Types, Phases
  <2>3. raced' \in SUBSET Programs
    BY <1>3, <2>1, LookupFrame DEF Types
  <2>4. \A s \in Launches : pc'[s] # "unborn" => pc[s] # "unborn"
    BY <1>3, <2>0, LookupFrame
  <2>5. /\ kern' \in [Launches -> Handles \cup {None}]
        /\ hash' \in [Programs -> [Kernels -> Handles \cup {None}]]
        /\ names' \in [Programs -> [Kernels -> Handles \cup {None}]]
    <3>1. CASE FindHash(t) BY <3>1, <2>1 DEF FindHash, Search, Found, maps, Types
    <3>2. CASE FindName(t) BY <3>2, <2>1 DEF FindName, Search, Found, maps, Types
    <3>3. CASE Create(t)
      <4>1. [prog |-> Prog(t), name |-> Kernel(t), by |-> t] \in Handles BY <2>1 DEF Handles
      <4> QED BY <3>3, <4>1 DEF Create, Found, maps, Types
    <3>4. CASE PutName(t)
      <4>1. PICK lost \in Lost(t) : names' = Insert(names, t, lost) BY <3>4 DEF PutName
      <4>2. names' \in [Programs -> [Kernels -> Handles \cup {None}]]
        BY <4>1, <2>1, InsertIs DEF Types
      <4> QED BY <3>4, <4>2 DEF PutName, Types
    <3>5. CASE PutHash(t)
      <4>1. PICK lost \in Lost(t) : hash' = Insert(hash, t, lost) BY <3>5 DEF PutHash
      <4>2. hash' \in [Programs -> [Kernels -> Handles \cup {None}]]
        BY <4>1, <2>1, InsertIs DEF Types
      <4> QED BY <3>5, <4>2 DEF PutHash, Types
    <3>6. CASE Hang(t) BY <3>6 DEF Hang, maps, Types
    <3> QED BY <1>3, <3>1, <3>2, <3>3, <3>4, <3>5, <3>6 DEF Lookup
  <2> QED BY <2>0, <2>2, <2>3, <2>4, <2>5 DEF Types, args
<1> QED BY <1>1, <1>2, <1>3, StepKinds

-----------------------------------------------------------------------------
(* The kernels that launches have and maps hold                            *)

\* What a launch that begins changes.
LEMMA StartFrame ==
  ASSUME Types, NEW t \in Launches, NEW j \in Jobs[t], Start(t, j)
  PROVE  /\ pc[t] = "unborn" /\ pc'[t] = "hash" /\ job'[t] = j /\ j.prog \in Programs
         /\ \A s \in Launches : s # t => job'[s] = job[s] /\ pc'[s] = pc[s]
         /\ kern' = kern /\ hash' = hash /\ names' = names /\ args' = args
         /\ fifo' = fifo /\ runs' = runs /\ aborted' = aborted
         /\ met'[t] = {s \in Launches : Active(s)}
         /\ \A s \in Launches : s # t =>
              met'[s] = IF Active(s) THEN met[s] \cup {t} ELSE met[s]
         /\ \A s \in Launches : Active(s) => s # t /\ ~Conflict(job[s], j)
         /\ \/ raced' = raced
            \/ raced' = raced \cup {j.prog} /\ Overlaps(t, j.prog, "hash")
         /\ Types'
<1>1. j.prog \in Programs BY JobsAre
<1>2. /\ pc[t] = "unborn" /\ pc'[t] = "hash" /\ job'[t] = j
      /\ \A s \in Launches : s # t => job'[s] = job[s] /\ pc'[s] = pc[s]
      /\ pc' \in [Launches -> Phases] /\ DOMAIN job' = Launches
  BY DEF Types, Start, Enter, Phases
<1>3. /\ met' \in [Launches -> SUBSET Launches]
      /\ met'[t] = {s \in Launches : Active(s)}
      /\ \A s \in Launches : s # t => met'[s] = IF Active(s) THEN met[s] \cup {t} ELSE met[s]
  <2> DEFINE others == {s \in Launches : Active(s)}
             new == [s \in Launches |-> CASE s = t -> others
                                          [] s \in others -> met[s] \cup {t}
                                          [] OTHER -> met[s]]
  <2>1. met' = new BY DEF Start
  <2>2. t \notin others BY <1>2 DEF Active
  <2>3. \A s \in Launches : new[s] = IF s = t THEN others
                                     ELSE IF s \in others THEN met[s] \cup {t} ELSE met[s]
    BY <2>2
  <2>4. others \in SUBSET Launches /\ \A s \in Launches : s \in others <=> Active(s) OBVIOUS
  <2>5. new \in [Launches -> SUBSET Launches]
    BY <2>3, <2>4 DEF Types
  <2> HIDE DEF new
  <2> QED BY <2>1, <2>3, <2>4, <2>5
<1>4. /\ kern' = kern /\ hash' = hash /\ names' = names /\ args' = args
      /\ fifo' = fifo /\ runs' = runs /\ aborted' = aborted
      /\ \A s \in Launches : Active(s) => s # t /\ ~Conflict(job[s], j)
      /\ \/ raced' = raced
         \/ raced' = raced \cup {j.prog} /\ Overlaps(t, j.prog, "hash")
  BY <1>2 DEF Start, Enter, maps, Active
<1>5. Types'
  BY <1>1, <1>2, <1>3, <1>4 DEF Types, args
<1> QED BY <1>1, <1>2, <1>3, <1>4, <1>5

\* A launch that begins has no kernel yet and leaves the others alone.
LEMMA StartCaches ==
  ASSUME CacheInv, NEW t \in Launches, NEW j \in Jobs[t], Start(t, j)
  PROVE  CacheInv'
<1> Types BY DEF CacheInv
<1>1. \A s \in Launches : s # t => Prog(s)' = Prog(s) /\ Kernel(s)' = Kernel(s)
  BY StartFrame DEF Prog, Kernel
<1>2. kern[t] = None BY StartFrame DEF CacheInv, OwnKernels, Looking
<1>3. OwnKernels'
  BY <1>1, <1>2, StartFrame DEF CacheInv, OwnKernels, Looking
<1> QED BY <1>3, StartFrame DEF CacheInv

\* The steps keep what the maps hold.
LEMMA StepCaches ==
  ASSUME CacheInv, NEW t \in Launches, Step(t)
  PROVE  CacheInv'
<1> Types BY DEF CacheInv
<1>t. Types' BY StepTypes
<1> SUFFICES OwnKernels' BY <1>t DEF CacheInv
<1>c. OwnKernels BY DEF CacheInv
<1>1. CASE Deaths(t)
  <2>1. pc' = pc /\ job' = job /\ kern' = kern /\ hash' = hash /\ names' = names
    BY <1>1, DeathsFrame DEF maps
  <2> QED BY <2>1, <1>c DEF OwnKernels, Prog, Kernel
<1>2. CASE Later(t)
  BY <1>2, <1>c, LaterFrame DEF OwnKernels, Prog, Kernel, Looking
<1>3. CASE Lookup(t)
  <2>f. /\ job' = job /\ pc[t] \in {"hash", "name", "create", "putname", "puthash"}
        /\ pc'[t] \in {"name", "create", "putname", "puthash", "range", "capture", "hung"}
        /\ \A s \in Launches : s # t => pc'[s] = pc[s]
    BY <1>3, LookupFrame
  <2>j. Prog(t) \in Programs /\ Kernel(t) \in Kernels BY <2>f, JobTypes
  <2>v. \A s \in Launches : Prog(s)' = Prog(s) /\ Kernel(s)' = Kernel(s)
    BY <2>f DEF Prog, Kernel
  <2>1. ASSUME hash' = hash, names' = names,
               \A s \in Launches : s # t => kern'[s] = kern[s],
               \/ kern'[t] = None /\ pc'[t] \in Looking \cup {"hung"}
               \/ /\ kern'[t] # None /\ pc'[t] \notin Looking
                  /\ kern'[t].prog = Prog(t) /\ kern'[t].name = Kernel(t)
        PROVE  OwnKernels'
    BY <2>1, <2>f, <2>v, <1>c DEF OwnKernels
  <2>2. CASE FindHash(t)
    BY <2>2, <2>1, <2>f, <2>j, <1>c, GotoFrame
       DEF FindHash, Search, Found, AfterLookup, maps, OwnKernels, Types, Looking
  <2>3. CASE FindName(t)
    BY <2>3, <2>1, <2>f, <2>j, <1>c, GotoFrame
       DEF FindName, Search, Found, maps, OwnKernels, Types, Looking
  <2>4. CASE Create(t)
    <3>1. [prog |-> Prog(t), name |-> Kernel(t), by |-> t] # None
      BY <2>j, NoneIsNone DEF Handles
    <3> QED BY <2>4, <3>1, <2>1, <2>f, <1>c, GotoFrame DEF Create, Found, maps, Types, Looking
  <2>5. CASE Hang(t)
    BY <2>5, <2>1, <2>f, <1>c, GotoFrame DEF Hang, maps, OwnKernels, Looking
  <2>6. CASE PutName(t)
    <3>1. PICK lost \in Lost(t) : names' = Insert(names, t, lost) BY <2>6 DEF PutName
    <3>2. \A p \in Programs, k \in Kernels :
            \/ names'[p][k] \in {names[p][k], None}
            \/ p = Prog(t) /\ k = Kernel(t) /\ names'[p][k] = kern[t]
      <4>1. /\ names \in [Programs -> [Kernels -> Handles \cup {None}]]
            /\ kern[t] \in Handles \cup {None}
        BY DEF Types
      <4>2. \A p \in Programs, k \in Kernels :
              /\ names'[p][k] \in {names[p][k], kern[t], None}
              /\ names'[p][k] # names[p][k] => p = Prog(t)
              /\ names'[p][k] \notin {names[p][k], None} => k = Kernel(t)
        BY <3>1, <4>1, <2>j, InsertIs
      <4> QED BY <4>2
    <3>3. kern' = kern /\ hash' = hash /\ pc[t] = "putname" /\ pc'[t] = "puthash"
      BY <2>6, GotoFrame DEF PutName
    <3> QED BY <3>2, <3>3, <2>f, <2>v, <1>c DEF OwnKernels, Looking
  <2>7. CASE PutHash(t)
    <3>1. PICK lost \in Lost(t) : hash' = Insert(hash, t, lost) BY <2>7 DEF PutHash
    <3>2. \A p \in Programs, k \in Kernels :
            \/ hash'[p][k] \in {hash[p][k], None}
            \/ p = Prog(t) /\ k = Kernel(t) /\ hash'[p][k] = kern[t]
      <4>1. /\ hash \in [Programs -> [Kernels -> Handles \cup {None}]]
            /\ kern[t] \in Handles \cup {None}
        BY DEF Types
      <4>2. \A p \in Programs, k \in Kernels :
              /\ hash'[p][k] \in {hash[p][k], kern[t], None}
              /\ hash'[p][k] # hash[p][k] => p = Prog(t)
              /\ hash'[p][k] \notin {hash[p][k], None} => k = Kernel(t)
        BY <3>1, <4>1, <2>j, InsertIs
      <4> QED BY <4>2
    <3>3. /\ kern' = kern /\ names' = names /\ pc[t] = "puthash"
          /\ pc'[t] \in {"range", "capture"}
      BY <2>7, GotoFrame DEF PutHash, AfterLookup
    <3> QED BY <3>2, <3>3, <2>f, <2>v, <1>c DEF OwnKernels, Looking
  <2> QED BY <1>3, <2>2, <2>3, <2>4, <2>5, <2>6, <2>7 DEF Lookup
<1> QED BY <1>1, <1>2, <1>3, StepKinds

\* CacheInv holds at first ...
LEMMA InitCaches == Init => CacheInv
  BY DEF Init, CacheInv, Types, OwnKernels, Looking, Phases, Slots

\* ... and every step keeps it.
LEMMA NextCaches == CacheInv /\ [Next]_vars => CacheInv'
<1> SUFFICES ASSUME CacheInv, [Next]_vars PROVE CacheInv' OBVIOUS
<1>1. CASE UNCHANGED vars
  BY <1>1 DEF vars, maps, args, CacheInv, Types, OwnKernels, Prog, Kernel
<1>2. CASE Next
  BY <1>2, StepCaches, StartCaches DEF Next
<1> QED BY <1>1, <1>2

LEMMA CacheInvariant == Spec => []CacheInv
  BY InitCaches, NextCaches, PTL DEF Spec

-----------------------------------------------------------------------------
(* Races                                                                   *)

\* Conflicts are mutual.
LEMMA ConflictSymmetric ==
  ASSUME NEW i, NEW j, ~Conflict(i, j)
  PROVE  ~Conflict(j, i)
  BY DEF Conflict

\* Behind every launch that inserts there is the maker of its kernel.
LEMMA InserterHasMaker ==
  ASSUME CacheInv, RaceInv, NEW s \in Launches, pc[s] \in Inserts, Prog(s) \notin raced
  PROVE  \E c \in Launches : /\ kern[c] # None /\ kern[c].by = c /\ Prog(c) = Prog(s)
                             /\ c = s \/ s \in met[c]
<1>1. kern[s] # None /\ kern[s] \in Handles /\ kern[s].by \in Launches
  BY DEF CacheInv, OwnKernels, Types, Inserts, Looking, Handles
<1>2. \/ kern[s].by = s
      \/ Made(kern[s]) /\ kern[s].by \in met[s]
  BY DEF RaceInv, Makers, Inserts
<1>3. CASE kern[s].by = s BY <1>1, <1>3
<1>4. CASE Made(kern[s]) /\ kern[s].by \in met[s]
  <2> DEFINE c == kern[s].by
  <2>1. kern[c] = kern[s] BY <1>4 DEF Made
  <2>2. Prog(c) = Prog(s) BY <1>1, <2>1 DEF CacheInv, OwnKernels
  <2>3. s \in met[c] BY <1>1, <1>4 DEF RaceInv, MetKnown
  <2> QED BY <1>1, <2>1, <2>2, <2>3
<1> QED BY <1>2, <1>3, <1>4

LEMMA StartRaces ==
  ASSUME CacheInv, RaceInv, NEW t \in Launches, NEW j \in Jobs[t], Start(t, j)
  PROVE  RaceInv'
<1> Types BY DEF CacheInv
<1>1. /\ pc[t] = "unborn" /\ pc'[t] = "hash" /\ job'[t] = j
      /\ \A s \in Launches : s # t => job'[s] = job[s] /\ pc'[s] = pc[s]
      /\ kern' = kern /\ hash' = hash /\ names' = names
      /\ met'[t] = {s \in Launches : Active(s)}
      /\ \A s \in Launches : s # t => met'[s] = IF Active(s) THEN met[s] \cup {t} ELSE met[s]
      /\ \A s \in Launches : Active(s) => s # t /\ ~Conflict(job[s], j)
      /\ \/ raced' = raced
         \/ raced' = raced \cup {j.prog} /\ Overlaps(t, j.prog, "hash")
  BY StartFrame
<1>2. /\ \A s \in Launches : s # t => /\ Prog(s)' = Prog(s) /\ Kernel(s)' = Kernel(s)
                                      /\ Active(s)' = Active(s)
      /\ Prog(t)' = j.prog
  BY <1>1 DEF Prog, Kernel, Active
<1>k. MetKnown BY DEF RaceInv
<1>3. MetKnown'
  <2> SUFFICES ASSUME NEW s \in Launches, NEW u \in Launches
               PROVE  /\ (s # u /\ Active(s)' /\ Active(u)') => s \in met'[u]
                      /\ s \in met'[u] =>
                           /\ s # u /\ pc'[s] # "unborn" /\ pc'[u] # "unborn" /\ u \in met'[s]
                           /\ ~Conflict(job'[s], job'[u])
    BY DEF MetKnown, Conflict
  <2>1. CASE s # t /\ u # t
    <3>1. /\ job'[s] = job[s] /\ job'[u] = job[u] /\ pc'[s] = pc[s] /\ pc'[u] = pc[u]
          /\ s \in met'[u] <=> s \in met[u]
          /\ u \in met'[s] <=> u \in met[s]
      BY <2>1, <1>1
    <3> QED BY <3>1, <2>1, <1>2, <1>k DEF MetKnown
  <2>2. CASE u = t /\ s # t
    <3>1. s \in met'[t] <=> Active(s) BY <1>1
    <3>2. Active(s) => t \in met'[s] BY <2>2, <1>1
    <3> QED BY <3>1, <3>2, <2>2, <1>1, <1>2 DEF Active
  <2>3. CASE s = t /\ u # t
    <3>1. t \notin met[u] BY <1>1, <1>k DEF MetKnown
    <3>2. t \in met'[u] <=> Active(u) BY <3>1, <2>3, <1>1
    <3>3. Active(u) => u \in met'[t] /\ ~Conflict(j, job[u])
      BY <1>1, ConflictSymmetric
    <3> QED BY <3>2, <3>3, <2>3, <1>1, <1>2 DEF Active
  <2>4. CASE s = t /\ u = t
    BY <2>4, <1>1
  <2> QED BY <2>1, <2>2, <2>3, <2>4
<1>4. Filled'
  BY <1>1, <1>2 DEF RaceInv, Filled, Looking, Inserts
<1>5. Makers'
  <2>1. ASSUME NEW p \in Programs \ raced, NEW k \in Kernels, names[p][k] # None
        PROVE  /\ Made(names[p][k])'
               /\ hash[p][k] = None => pc'[names[p][k].by] = "puthash"
    <3>1. names[p][k].by \in Launches BY <2>1 DEF Types, Handles
    <3> QED BY <3>1, <2>1, <1>1 DEF RaceInv, Makers, Made
  <2>2. ASSUME NEW s \in Launches, s # t, pc[s] # "unborn"
        PROVE  /\ pc[s] = "putname" => kern[s].by = s
               /\ Prog(s) \notin raced =>
                    /\ pc[s] = "name" /\ names[Prog(s)][Kernel(s)] # None
                         => names[Prog(s)][Kernel(s)].by \in met'[s]
                    /\ pc[s] = "puthash" =>
                         Made(kern[s])' /\ (kern[s].by = s \/ kern[s].by \in met'[s])
    BY <2>2, <1>1 DEF RaceInv, Makers, Made
  <2> QED BY <2>1, <2>2, <1>1, <1>2 DEF Makers, Made
<1>6. RacesAreFirst'
  <2>1. ASSUME NEW c \in Launches, kern[c] # None, kern[c].by = c,
               NEW u \in met'[c], Prog(u)' = Prog(c)
        PROVE  /\ kern'[c] # None /\ kern'[c].by = c /\ Prog(c)' = Prog(c)
               /\ \E v \in met'[c] : Prog(v)' = Prog(c)
    <3>1. c # t BY <2>1, <1>1 DEF CacheInv, OwnKernels, Looking
    <3> QED BY <3>1, <2>1, <1>1, <1>2
  <2>2. ASSUME NEW p \in raced
        PROVE  \E c \in Launches : /\ kern'[c] # None /\ kern'[c].by = c /\ Prog(c)' = p
                                   /\ \E s \in met'[c] : Prog(s)' = p
    <3>1. PICK c \in Launches : /\ kern[c] # None /\ kern[c].by = c /\ Prog(c) = p
                                /\ \E s \in met[c] : Prog(s) = p
      BY <2>2 DEF RaceInv, RacesAreFirst
    <3>2. PICK s \in met[c] : Prog(s) = p BY <3>1
    <3>3. s \in Launches BY <3>2 DEF Types
    <3>4. s # t /\ c # t BY <3>2, <3>3, <1>1, <1>k DEF MetKnown
    <3>5. s \in met'[c] /\ Prog(s)' = p BY <3>2, <3>3, <3>4, <1>1, <1>2
    <3> QED BY <3>1, <3>5, <2>1
  <2>3. ASSUME Overlaps(t, j.prog, "hash"), j.prog \notin raced
        PROVE  \E c \in Launches : /\ kern'[c] # None /\ kern'[c].by = c /\ Prog(c)' = j.prog
                                   /\ \E s \in met'[c] : Prog(s)' = j.prog
    <3>1. PICK s \in Launches \ {t} : Active(s) /\ Prog(s) = j.prog /\ pc[s] \in Inserts
      BY <2>3 DEF Overlaps, Inserts
    <3>2. PICK c \in Launches : /\ kern[c] # None /\ kern[c].by = c /\ Prog(c) = Prog(s)
                                /\ c = s \/ s \in met[c]
      BY <3>1, <2>3, InserterHasMaker
    <3>3. c # t BY <3>2, <1>1 DEF CacheInv, OwnKernels, Looking
    <3>4. CASE c = s
      <4>1. t \in met'[c] BY <3>1, <3>4, <1>1
      <4> QED BY <4>1, <3>1, <3>2, <1>2, <2>1
    <3>5. CASE s \in met[c]
      <4>1. s \in met'[c] BY <3>3, <3>5, <1>1
      <4> QED BY <4>1, <3>1, <3>2, <1>2, <2>1
    <3> QED BY <3>2, <3>4, <3>5
  <2> QED BY <2>2, <2>3, <1>1 DEF RacesAreFirst
<1> QED BY <1>3, <1>4, <1>5, <1>6 DEF RaceInv

\* The kernel of a launch is set once.
LEMMA KernelKept ==
  ASSUME CacheInv, NEW t \in Launches, Step(t), NEW s \in Launches, kern[s] # None
  PROVE  kern'[s] = kern[s]
<1> Types BY DEF CacheInv
<1>1. CASE Deaths(t) BY <1>1, DeathsFrame
<1>2. CASE Later(t) BY <1>2, LaterFrame
<1>3. CASE Lookup(t)
  <2>1. \/ kern' = kern
        \/ pc[t] \in Looking /\ \E e : kern' = [kern EXCEPT ![t] = e]
    BY <1>3, GotoFrame DEF Lookup, FindHash, FindName, Search, Found, Create, PutName, PutHash,
                Hang, Looking
  <2>2. pc[t] \in Looking => kern[t] = None BY DEF CacheInv, OwnKernels
  <2> QED BY <2>1, <2>2 DEF Types
<1> QED BY <1>1, <1>2, <1>3, StepKinds

\* An inserted kernel is found, and no entry of an unbroken map goes away.
LEMMA PutIs ==
  ASSUME CacheInv, NEW t \in Launches, PutName(t) \/ PutHash(t),
         NEW m, m = IF PutName(t) THEN names ELSE hash,
         NEW n, n = IF PutName(t) THEN names' ELSE hash'
  PROVE  \A p \in Programs \ raced, k \in Kernels :
           n[p][k] = IF p = Prog(t) /\ k = Kernel(t) /\ m[p][k] = None THEN kern[t]
                     ELSE m[p][k]
<1> Types BY DEF CacheInv
<1>0. pc[t] \in {"putname", "puthash"} BY GotoFrame DEF PutName, PutHash
<1>1. Prog(t) \in Programs /\ Kernel(t) \in Kernels BY <1>0, JobTypes
<1>2. /\ m \in [Programs -> [Kernels -> Handles \cup {None}]]
      /\ kern[t] \in Handles \cup {None}
  BY DEF Types
<1>3. PICK lost \in Lost(t) : n = Insert(m, t, lost)
  BY DEF PutName, PutHash
<1> HIDE DEF Types
<1> QED BY <1>1, <1>2, <1>3, InsertIs

\* A lookup keeps what unbroken maps hold.
LEMMA LookupFills ==
  ASSUME CacheInv, RaceInv, NEW t \in Launches, Lookup(t)
  PROVE  Filled' /\ Makers'
<1> Types BY DEF CacheInv
<1>s. Step(t) BY DEF Lookup, Step
<1>f. /\ job' = job /\ met' = met
      /\ pc[t] \in {"hash", "name", "create", "putname", "puthash"}
      /\ pc'[t] \in {"name", "create", "putname", "puthash", "range", "capture", "hung"}
      /\ \A s \in Launches : s # t => pc'[s] = pc[s]
      /\ raced \subseteq raced'
  BY LookupFrame
<1>j. Prog(t) \in Programs /\ Kernel(t) \in Kernels BY <1>f, JobTypes
<1>v. \A s \in Launches : Prog(s)' = Prog(s) /\ Kernel(s)' = Kernel(s)
  BY <1>f DEF Prog, Kernel
<1>k. \A s \in Launches : kern[s] # None => kern'[s] = kern[s] BY <1>s, KernelKept
<1> DEFINE Still(e) == kern'[e.by] = e
<1>m. ASSUME NEW e \in Handles, Made(e) PROVE Still(e)
  <2>1. e # None BY NoneIsNone DEF Handles
  <2> QED BY <1>m, <2>1, <1>k DEF Made, Handles
<1>h. MetKnown /\ Filled /\ Makers BY DEF RaceInv
<1>o. OwnKernels BY DEF CacheInv
<1>p. pc[t] \in {"putname", "puthash"} => kern[t] # None /\ kern[t] \in Handles
  BY <1>o DEF OwnKernels, Looking, Types
<1>n. \A p \in Programs, k \in Kernels :
        /\ names[p][k] # None => names[p][k] \in Handles /\ names[p][k].by \in Launches
        /\ hash[p][k] # None => hash[p][k] \in Handles
  BY DEF Types, Handles
\* What is left to show of each kind of lookup.
<1> DEFINE
      Held(p, k) == /\ hash'[p][k] # None => names'[p][k] # None
                    /\ names'[p][k] # None => /\ Still(names'[p][k])
                                              /\ hash'[p][k] = None =>
                                                   pc'[names'[p][k].by] = "puthash"
      At(s) == /\ pc'[s] = "putname" => kern'[s].by = s
               /\ Prog(s) \notin raced' =>
                    LET n == names'[Prog(s)][Kernel(s)]
                    IN /\ pc'[s] # "hung"
                       /\ pc'[s] = "name" /\ n # None => n.by \in met[s]
                       /\ pc'[s] = "puthash" =>
                            /\ n # None
                            /\ Still(kern'[s]) /\ (kern'[s].by = s \/ kern'[s].by \in met[s])
                       /\ pc'[s] \notin Looking \cup Inserts =>
                            hash'[Prog(s)][Kernel(s)] # None
<1>q. SUFFICES /\ \A p \in Programs \ raced', k \in Kernels : Held(p, k)
               /\ \A s \in Launches : pc[s] # "unborn" => At(s)
  <2>1. \A s \in Launches : pc'[s] # "unborn" => pc[s] # "unborn" BY <1>f
  <2>2. Filled' BY <1>q, <2>1, <1>f, <1>v DEF Filled
  <2>3. Makers' BY <1>q, <2>1, <1>f, <1>v DEF Makers, Made
  <2> QED BY <2>2, <2>3
\* The maps and the other launches, where the step does not insert.
<1>1. ASSUME names' = names, hash' = hash, pc[t] # "puthash" \/ Prog(t) \in raced
      PROVE  /\ \A p \in Programs \ raced', k \in Kernels : Held(p, k)
             /\ \A s \in Launches : s # t /\ pc[s] # "unborn" => At(s)
  <2>1. ASSUME NEW p \in Programs \ raced', NEW k \in Kernels PROVE Held(p, k)
    <3>1. p \notin raced BY <1>f
    <3>2. hash[p][k] # None => names[p][k] # None BY <3>1, <1>h DEF Filled
    <3>3. CASE names[p][k] # None
      <4>1. /\ Made(names[p][k]) /\ names[p][k] \in Handles /\ names[p][k].by \in Launches
            /\ hash[p][k] = None => pc[names[p][k].by] = "puthash"
        BY <3>1, <3>3, <1>h, <1>n DEF Makers
      <4>2. Still(names[p][k]) BY <4>1, <1>m, <1>1 DEF Made
      <4>3. Prog(names[p][k].by) = p
        BY <4>1, <3>3, <1>o DEF Made, OwnKernels
      <4>4. hash[p][k] = None => names[p][k].by # t
        BY <4>1, <4>3, <3>1, <1>1
      <4> QED BY <4>1, <4>2, <4>4, <3>2, <3>3, <1>1, <1>f
    <3> QED BY <3>2, <3>3, <1>1
  <2>2. ASSUME NEW s \in Launches, s # t, pc[s] # "unborn" PROVE At(s)
    <3>1. kern[s] \in Handles \/ kern[s] = None BY DEF Types
    <3>2. pc[s] \in Inserts => kern[s] # None /\ kern'[s] = kern[s]
      BY <1>o, <1>k DEF OwnKernels, Looking, Inserts
    <3>3. pc[s] = "puthash" /\ Prog(s) \notin raced => Still(kern'[s])
      BY <3>1, <3>2, <2>2, <1>h, <1>m DEF Makers, Made, Inserts
    <3>4. pc'[s] = pc[s] BY <2>2, <1>f
    <3>5. Prog(s) \notin raced' => Prog(s) \notin raced BY <1>f
    <3> QED BY <3>2, <3>3, <3>4, <3>5, <2>2, <1>1, <1>h DEF Makers, Filled, Inserts
  <2> QED BY <2>1, <2>2
<1>2. CASE FindHash(t)
  <2>1. /\ pc[t] = "hash" /\ names' = names /\ hash' = hash
        /\ \/ /\ hash[Prog(t)][Kernel(t)] # None
              /\ pc'[t] \in {"range", "capture"}
           \/ /\ hash[Prog(t)][Kernel(t)] = None \/ Prog(t) \in raced
              /\ pc'[t] = "name"
    BY <1>2, GotoFrame DEF FindHash, Search, AfterLookup, Broken, maps
  <2>2. At(t)
    <3>1. CASE pc'[t] = "name" /\ Prog(t) \notin raced'
      <4> DEFINE n == names[Prog(t)][Kernel(t)]
      <4>1. hash[Prog(t)][Kernel(t)] = None BY <3>1, <2>1, <1>f
      <4>2. n # None => n.by \in Launches /\ pc[n.by] = "puthash"
        BY <4>1, <3>1, <1>f, <1>j, <1>h, <1>n DEF Makers
      <4>3. n # None => n.by \in met[t]
        BY <4>2, <2>1, <1>h DEF MetKnown, Active
      <4> QED BY <4>3, <3>1, <2>1 DEF Looking
    <3>2. CASE pc'[t] \in {"range", "capture"}
      BY <3>2, <2>1 DEF Looking, Inserts
    <3> QED BY <3>1, <3>2, <2>1
  <2> QED BY <2>1, <2>2, <1>1
<1>3. CASE FindName(t)
  <2> DEFINE n == names[Prog(t)][Kernel(t)]
  <2>1. /\ pc[t] = "name" /\ names' = names /\ hash' = hash
        /\ \/ n # None /\ pc'[t] = "puthash" /\ kern' = [kern EXCEPT ![t] = n]
           \/ pc'[t] = "create"
    BY <1>3, GotoFrame DEF FindName, Search, Found, maps
  <2>2. At(t)
    <3>1. CASE n # None /\ pc'[t] = "puthash" /\ kern' = [kern EXCEPT ![t] = n]
      <4>1. kern'[t] = n BY <3>1 DEF Types
      <4>2. Prog(t) \notin raced => Made(n) /\ n.by \in met[t] /\ n \in Handles
        BY <3>1, <2>1, <1>j, <1>h, <1>n DEF Makers
      <4>3. Prog(t) \notin raced => Still(kern'[t])
        BY <4>1, <4>2, <1>m DEF Made
      <4> QED BY <3>1, <4>1, <4>2, <4>3, <2>1, <1>f DEF Inserts
    <3>2. CASE pc'[t] = "create"
      BY <3>2 DEF Looking
    <3> QED BY <3>1, <3>2, <2>1
  <2> QED BY <2>1, <2>2, <1>1
<1>4. CASE Create(t)
  <2>1. /\ pc[t] = "create" /\ pc'[t] = "putname" /\ names' = names /\ hash' = hash
        /\ kern'[t].by = t
    BY <1>4, GotoFrame DEF Create, Found, maps, Types
  <2>2. At(t) BY <2>1 DEF Inserts
  <2> QED BY <2>1, <2>2, <1>1
<1>5. CASE Hang(t)
  <2>1. /\ Prog(t) \in raced /\ pc'[t] = "hung" /\ names' = names /\ hash' = hash
    BY <1>5, GotoFrame DEF Hang, Broken, maps
  <2>2. At(t) BY <2>1, <1>f
  <2> QED BY <2>1, <2>2, <1>1
<1>6. CASE PutName(t)
  <2>1. pc[t] = "putname" /\ pc'[t] = "puthash" /\ kern' = kern /\ hash' = hash
    BY <1>6, GotoFrame DEF PutName
  <2>2. \A p \in Programs \ raced, k \in Kernels :
          names'[p][k] = IF p = Prog(t) /\ k = Kernel(t) /\ names[p][k] = None THEN kern[t]
                         ELSE names[p][k]
    BY <1>6, PutIs
  <2>3. kern[t].by = t /\ kern[t] # None /\ Made(kern[t]) /\ Still(kern[t])
    BY <2>1, <1>h, <1>p DEF Makers, Made
  <2>4. ASSUME NEW p \in Programs \ raced', NEW k \in Kernels PROVE Held(p, k)
    <3>1. p \notin raced BY <1>f
    <3>2. CASE names'[p][k] = kern[t]
      BY <3>2, <2>1, <2>3
    <3>3. CASE names'[p][k] = names[p][k] /\ names[p][k] # None
      <4>1. /\ Made(names[p][k]) /\ names[p][k] \in Handles /\ names[p][k].by \in Launches
            /\ hash[p][k] = None => pc[names[p][k].by] = "puthash"
        BY <3>1, <3>3, <1>h, <1>n DEF Makers
      <4>2. Still(names'[p][k]) BY <4>1, <3>3, <2>1 DEF Made
      <4>3. hash[p][k] = None => pc'[names[p][k].by] = "puthash"
        BY <4>1, <2>1, <1>f
      <4> QED BY <4>2, <4>3, <3>3, <2>1
    <3>4. CASE names'[p][k] = names[p][k] /\ names[p][k] = None
      BY <3>1, <3>4, <2>1, <1>h DEF Filled
    <3> QED BY <3>1, <3>2, <3>3, <3>4, <2>2
  <2>5. ASSUME NEW s \in Launches, pc[s] # "unborn" PROVE At(s)
    <3> DEFINE n == names[Prog(s)][Kernel(s)]
               n1 == names'[Prog(s)][Kernel(s)]
    <3>0. Prog(s) \in Programs /\ Kernel(s) \in Kernels BY <2>5, JobTypes
    <3>1. Prog(s) \notin raced' => Prog(s) \notin raced /\ (n1 = n \/ n1 = kern[t])
      BY <3>0, <2>2, <1>f
    <3>2. CASE s = t
      <4>1. Prog(t) \notin raced' => n1 # None BY <3>2, <1>j, <2>2, <2>3, <1>f
      <4> QED BY <4>1, <3>2, <2>1, <2>3 DEF Inserts
    <3>3. CASE s # t
      <4>1. pc'[s] = pc[s] /\ kern'[s] = kern[s] BY <3>3, <2>1, <1>f
      <4>2. pc[s] = "name" => t \in met[s]
        BY <3>3, <2>1, <1>h DEF MetKnown, Active
      <4>3. pc[s] = "puthash" /\ Prog(s) \notin raced =>
              n # None /\ Still(kern'[s]) /\ (kern[s].by = s \/ kern[s].by \in met[s])
        BY <2>1, <2>5, <1>h DEF Makers, Made, Filled
      <4>4. Prog(s) \notin raced' /\ n # None => n1 = n BY <3>0, <3>1, <2>2
      <4>5. /\ pc[s] = "putname" => kern[s].by = s
            /\ Prog(s) \notin raced =>
                 /\ pc[s] # "hung"
                 /\ pc[s] = "name" /\ n # None => n.by \in met[s]
                 /\ pc[s] \notin Looking \cup Inserts => hash[Prog(s)][Kernel(s)] # None
        BY <2>5, <1>h DEF Makers, Filled
      <4> QED BY <3>1, <4>1, <4>2, <4>3, <4>4, <4>5, <2>1, <2>3
    <3> QED BY <3>2, <3>3
  <2> QED BY <2>4, <2>5
<1>7. CASE PutHash(t)
  <2>1. /\ pc[t] = "puthash" /\ pc'[t] \in {"range", "capture"}
        /\ kern' = kern /\ names' = names
    BY <1>7, GotoFrame DEF PutHash, AfterLookup
  <2>2. \A p \in Programs \ raced, k \in Kernels :
          hash'[p][k] = IF p = Prog(t) /\ k = Kernel(t) /\ hash[p][k] = None THEN kern[t]
                        ELSE hash[p][k]
    <3>1. ~PutName(t) BY <2>1, GotoFrame DEF PutName
    <3> QED BY <1>7, <3>1, PutIs
  <2>3. kern[t] # None BY <2>1, <1>p
  <2>4. ASSUME NEW p \in Programs \ raced', NEW k \in Kernels PROVE Held(p, k)
    <3>1. p \notin raced BY <1>f
    <3>2. hash'[p][k] # None => names[p][k] # None
      BY <3>1, <2>1, <2>2, <1>h DEF Filled
    <3>3. names[p][k] # None => Still(names[p][k])
      BY <3>1, <2>1, <1>h DEF Makers, Made
    <3>4. ASSUME hash'[p][k] = None, names[p][k] # None
          PROVE  pc'[names[p][k].by] = "puthash"
      <4> DEFINE c == names[p][k].by
      <4>1. hash[p][k] = None /\ ~(p = Prog(t) /\ k = Kernel(t))
        BY <3>1, <3>4, <2>2, <2>3
      <4>2. c \in Launches /\ kern[c] = names[p][k] /\ pc[c] = "puthash"
        BY <4>1, <3>1, <3>4, <1>h, <1>n DEF Makers, Made
      <4>3. Prog(c) = p /\ Kernel(c) = k
        BY <4>2, <3>4, <1>o DEF OwnKernels
      <4> QED BY <4>1, <4>2, <4>3, <1>f
    <3> QED BY <3>2, <3>3, <3>4, <2>1
  <2>5. ASSUME NEW s \in Launches, pc[s] # "unborn" PROVE At(s)
    <3>0. Prog(s) \in Programs /\ Kernel(s) \in Kernels BY <2>5, JobTypes
    <3>1. Prog(s) \notin raced' => Prog(s) \notin raced BY <1>f
    <3>2. CASE s = t
      <4>1. Prog(t) \notin raced' => hash'[Prog(t)][Kernel(t)] # None
        BY <3>2, <3>1, <1>j, <2>2, <2>3
      <4> QED BY <4>1, <3>2, <2>1
    <3>3. CASE s # t
      <4>1. pc'[s] = pc[s] /\ kern'[s] = kern[s] BY <3>3, <2>1, <1>f
      <4>2. Prog(s) \notin raced' /\ hash[Prog(s)][Kernel(s)] # None =>
              hash'[Prog(s)][Kernel(s)] # None
        BY <3>0, <3>1, <2>2
      <4>3. pc[s] = "puthash" /\ Prog(s) \notin raced => Still(kern'[s])
        BY <2>1, <2>5, <1>h DEF Makers, Made
      <4> QED BY <3>1, <4>1, <4>2, <4>3, <2>1, <2>5, <1>h DEF Makers, Filled
    <3> QED BY <3>2, <3>3
  <2> QED BY <2>4, <2>5
<1> QED BY <1>2, <1>3, <1>4, <1>5, <1>6, <1>7 DEF Lookup

\* A new race is between two launches one of which has a maker behind it.
LEMMA StepRaces ==
  ASSUME CacheInv, RaceInv, NEW t \in Launches, Step(t)
  PROVE  RaceInv'
<1> Types BY DEF CacheInv
<1>h. MetKnown /\ Filled /\ Makers /\ RacesAreFirst BY DEF RaceInv
<1>f. /\ job' = job /\ met' = met /\ pc[t] \notin {"unborn", "done"} /\ pc'[t] # "unborn"
      /\ \A s \in Launches : s # t => pc'[s] = pc[s]
  <2>1. CASE Deaths(t) BY <2>1, DeathsFrame
  <2>2. CASE Later(t) BY <2>2, LaterFrame
  <2>3. CASE Lookup(t) BY <2>3, LookupFrame
  <2> QED BY <2>1, <2>2, <2>3, StepKinds
<1>v. \A s \in Launches : Prog(s)' = Prog(s) /\ Kernel(s)' = Kernel(s)
  BY <1>f DEF Prog, Kernel
<1>1. MetKnown'
  BY <1>f, <1>h DEF MetKnown, Active, Conflict
<1>2. Filled' /\ Makers'
  <2>1. CASE Deaths(t)
    <3>1. pc' = pc /\ kern' = kern /\ hash' = hash /\ names' = names /\ raced' = raced
      BY <2>1, DeathsFrame DEF maps
    <3>2. Filled' BY <3>1, <1>f, <1>h DEF Filled, Prog, Kernel
    <3>3. Makers' BY <3>1, <1>f, <1>h DEF Makers, Made, Prog, Kernel
    <3> QED BY <3>2, <3>3
  <2>2. CASE Later(t)
    <3>1. /\ kern' = kern /\ hash' = hash /\ names' = names /\ raced' = raced
          /\ pc[t] \in {"range", "capture", "call", "queued", "running", "loop"}
          /\ pc'[t] \in {"capture", "call", "queued", "running", "loop", "done"}
      BY <2>2, LaterFrame
    <3>2. Filled' BY <3>1, <1>f, <1>v, <1>h DEF Filled, Looking, Inserts
    <3>3. Makers'
      <4>1. ASSUME NEW p \in Programs \ raced, NEW k \in Kernels, names[p][k] # None,
                   hash[p][k] = None
            PROVE  pc'[names[p][k].by] = "puthash"
        <5>1. names[p][k].by \in Launches BY <4>1 DEF Types, Handles
        <5> QED BY <4>1, <5>1, <3>1, <1>f, <1>h DEF Makers
      <4>2. ASSUME NEW s \in Launches, pc'[s] \in {"putname", "name", "puthash"}
            PROVE  pc'[s] = pc[s]
        BY <4>2, <3>1, <1>f
      <4> QED BY <4>1, <4>2, <3>1, <1>f, <1>v, <1>h DEF Makers, Made
    <3> QED BY <3>2, <3>3
  <2>3. CASE Lookup(t) BY <2>3, LookupFills
  <2> QED BY <2>1, <2>2, <2>3, StepKinds
<1>3. RacesAreFirst'
  <2> DEFINE First(p) == \E c \in Launches : /\ kern[c] # None /\ kern[c].by = c /\ Prog(c) = p
                                             /\ \E s \in met[c] : Prog(s) = p
             First1(p) == \E c \in Launches : /\ kern'[c] # None /\ kern'[c].by = c
                                              /\ Prog(c) = p /\ \E s \in met[c] : Prog(s) = p
  <2>1. ASSUME NEW p, First(p) PROVE First1(p)
    BY <2>1, KernelKept
  <2>2. \A p \in raced : First1(p)
    <3>1. \A p \in raced : First(p) BY <1>h DEF RacesAreFirst
    <3> QED BY <2>1, <3>1
  <2>3. ASSUME Lookup(t), Overlaps(t, Prog(t), pc'[t]), Prog(t) \notin raced
        PROVE  First1(Prog(t))
    <3>1. PICK s \in Launches \ {t} : /\ Active(s) /\ Prog(s) = Prog(t)
                                      /\ pc[s] \in Inserts \/ pc'[t] \in Inserts
                                      /\ pc'[t] \in {"hash", "name", "putname", "puthash"}
      BY <2>3 DEF Overlaps, MapUses
    <3>2. s \in met[t] /\ t \in met[s] BY <3>1, <1>f, <1>h DEF MetKnown, Active
    <3>3. CASE pc[s] \in Inserts
      <4>1. PICK c \in Launches : /\ kern[c] # None /\ kern[c].by = c /\ Prog(c) = Prog(s)
                                  /\ c = s \/ s \in met[c]
        BY <3>1, <3>3, <2>3, InserterHasMaker
      <4>2. First(Prog(t))
        <5>1. CASE c = s BY <5>1, <4>1, <3>1, <3>2
        <5>2. CASE s \in met[c] BY <5>2, <4>1, <3>1
        <5> QED BY <4>1, <5>1, <5>2
      <4> QED BY <4>2, <2>1
    <3>4. CASE Create(t)
      <4>1. kern'[t] = [prog |-> Prog(t), name |-> Kernel(t), by |-> t]
        BY <3>4 DEF Create, Found, Types
      <4>2. kern'[t].by = t BY <4>1
      <4>3. kern'[t] # None
        <5>1. Prog(t) \in Programs /\ Kernel(t) \in Kernels BY <1>f, JobTypes
        <5>2. kern'[t] \in [prog : Programs, name : Kernels, by : Launches]
          BY <4>1, <5>1
        <5> QED BY <5>2, NoneIsNone
      <4> QED BY <4>2, <4>3, <3>1, <3>2
    <3>5. CASE FindName(t) /\ pc'[t] \in Inserts
      <4> DEFINE n == names[Prog(t)][Kernel(t)]
      <4>1. n # None /\ pc[t] = "name"
        BY <3>5, GotoFrame DEF FindName, Search, Inserts
      <4>2. Prog(t) \in Programs /\ Kernel(t) \in Kernels BY <1>f, JobTypes
      <4>3. n.by \in met[t] /\ Made(n) BY <4>1, <4>2, <2>3, <1>h DEF Makers
      <4>4. n.by \in Launches BY <4>3 DEF Types
      <4>5. t \in met[n.by] BY <4>3, <4>4, <1>h DEF MetKnown
      <4>6. n.prog = Prog(t) BY <4>1, <4>2 DEF CacheInv, OwnKernels
      <4>7. Prog(n.by) = Prog(t)
        BY <4>1, <4>3, <4>4, <4>6 DEF Made, CacheInv, OwnKernels
      <4>8. First(Prog(t)) BY <4>1, <4>3, <4>4, <4>5, <4>7 DEF Made
      <4> QED BY <4>8, <2>1
    <3>6. CASE PutName(t)
      <4>1. pc[t] \in Inserts BY <3>6, GotoFrame DEF PutName, Inserts
      <4>2. PICK c \in Launches : /\ kern[c] # None /\ kern[c].by = c /\ Prog(c) = Prog(t)
                                  /\ c = t \/ t \in met[c]
        BY <4>1, <2>3, InserterHasMaker
      <4>3. First(Prog(t))
        <5>1. CASE c = t BY <5>1, <4>2, <3>1, <3>2
        <5>2. CASE t \in met[c] BY <5>2, <4>2
        <5> QED BY <4>2, <5>1, <5>2
      <4> QED BY <4>3, <2>1
    <3>7. CASE FindHash(t) /\ pc'[t] \in Inserts
      BY <3>7, GotoFrame DEF FindHash, Search, AfterLookup, Inserts
    <3>8. CASE PutHash(t) \/ Hang(t)
      BY <3>1, <3>8, GotoFrame DEF PutHash, Hang, AfterLookup
    <3> QED BY <3>1, <3>3, <3>4, <3>5, <3>6, <3>7, <3>8, <2>3 DEF Lookup
  <2>4. \A p \in raced' : First1(p)
    <3>1. CASE Deaths(t) BY <3>1, <2>2, DeathsFrame
    <3>2. CASE Later(t) BY <3>2, <2>2, LaterFrame
    <3>3. CASE Lookup(t) BY <3>3, <2>2, <2>3, LookupFrame
    <3> QED BY <3>1, <3>2, <3>3, StepKinds
  <2>5. ASSUME NEW p, First1(p)
        PROVE  \E c \in Launches : /\ kern'[c] # None /\ kern'[c].by = c /\ Prog(c)' = p
                                   /\ \E s \in met'[c] : Prog(s)' = p
    <3>1. PICK c \in Launches : /\ kern'[c] # None /\ kern'[c].by = c /\ Prog(c) = p
                                /\ \E s \in met[c] : Prog(s) = p
      BY <2>5
    <3>2. PICK s \in met[c] : Prog(s) = p BY <3>1
    <3>3. s \in Launches BY <3>2 DEF Types
    <3> QED BY <3>1, <3>2, <3>3, <1>f, <1>v
  <2> HIDE DEF First1
  <2> QED BY <2>4, <2>5 DEF RacesAreFirst
<1> QED BY <1>1, <1>2, <1>3 DEF RaceInv

LEMMA InitRaces == Init => RaceInv
  BY DEF Init, RaceInv, MetKnown, Filled, Makers, RacesAreFirst, Active

LEMMA NextRaces == CacheInv /\ RaceInv /\ [Next]_vars => RaceInv'
<1> SUFFICES ASSUME CacheInv, RaceInv, [Next]_vars PROVE RaceInv' OBVIOUS
<1>1. CASE UNCHANGED vars
  <2>1. /\ pc' = pc /\ job' = job /\ kern' = kern /\ hash' = hash /\ names' = names
        /\ met' = met /\ raced' = raced
    BY <1>1 DEF vars, maps
  <2>2. MetKnown' /\ Filled'
    BY <2>1 DEF RaceInv, MetKnown, Filled, Active, Conflict, Prog, Kernel
  <2>3. Makers' BY <2>1 DEF RaceInv, Makers, Made, Prog, Kernel
  <2>4. RacesAreFirst' BY <2>1 DEF RaceInv, RacesAreFirst, Prog
  <2> QED BY <2>2, <2>3, <2>4 DEF RaceInv
<1>2. CASE Next
  BY <1>2, StepRaces, StartRaces DEF Next
<1> QED BY <1>1, <1>2

LEMMA RaceInvariant == Spec => []RaceInv
  BY InitRaces, NextRaces, CacheInvariant, PTL DEF Spec

\* The maps of a program are raced on only while a kernel is new to it: behind
\* every race there is a launch that made a kernel and was in progress together
\* with another launch of its program.  The launches of kernels that the
\* program has already had to itself only search (program.hpp:157-191).
THEOREM RacesComeFirst == Spec => []RacesAreFirst
<1>1. RaceInv => RacesAreFirst BY DEF RaceInv
<1> QED BY <1>1, RaceInvariant, PTL

\* Unless they were raced on, the maps of a program hold its own kernels under
\* their own names, each kernel that a launch was given is left there for the
\* next, and what is found by its hash is found by its name
\* (program.hpp:157-191).
THEOREM CachesAreSound == Spec => []CachesSound
<1>1. ASSUME CacheInv, RaceInv PROVE CachesSound
  <2>1. ASSUME NEW t \in Launches, kern[t] # None, Prog(t) \notin raced
        PROVE  /\ kern[t].prog = Prog(t) /\ kern[t].name = Kernel(t)
               /\ pc[t] \notin {"putname", "puthash"} => hash[Prog(t)][Kernel(t)] # None
    <3>1. pc[t] \notin Looking BY <1>1, <2>1 DEF CacheInv, OwnKernels
    <3> QED BY <1>1, <2>1, <3>1 DEF CacheInv, OwnKernels, RaceInv, Filled, Looking, Inserts
  <2> QED BY <1>1, <2>1 DEF CachesSound, CacheInv, OwnKernels, RaceInv, Filled
<1> QED BY <1>1, CacheInvariant, RaceInvariant, PTL

-----------------------------------------------------------------------------
(* The arguments                                                           *)

\* A launch that begins is a rival of those that use its variables.
LEMMA StartArguments ==
  ASSUME CacheInv, RaceInv, ArgumentsKept, NEW t \in Launches, NEW j \in Jobs[t], Start(t, j)
  PROVE  ArgumentsKept'
<1> Types BY DEF CacheInv
<1>1. /\ pc[t] = "unborn" /\ pc'[t] = "hash" /\ rnge' = rnge /\ capt' = capt
      /\ \A s \in Launches : s # t => job'[s] = job[s] /\ pc'[s] = pc[s]
      /\ \A s \in Launches : s # t => met[s] \subseteq met'[s]
  BY StartFrame DEF args
<1>2. \A s \in Launches : s # t => /\ On(s)' = On(s) /\ Slot(s)' = Slot(s)
                                   /\ Kernel(s)' = Kernel(s)
  BY <1>1 DEF On, Slot, Prog, Kernel
<1> SUFFICES ASSUME NEW u \in Launches
             PROVE  /\ (pc'[u] \in {"capture", "call", "queued", "running"}
                         /\ Kernel(u)' \in Ranged /\ Alone(u)') => rnge'[Slot(u)'] = u
                    /\ (pc'[u] \in {"call", "queued", "running"} /\ Alone(u)')
                         => capt'[Slot(u)'] = u
                    /\ pc'[u] \in {"queued", "running"} => On(u)' # "host"
  BY DEF ArgumentsKept
<1>3. CASE u = t BY <1>3, <1>1
<1>4. CASE u # t
  <2>1. \A s \in met[u] : s # t /\ s \in Launches /\ s \in met'[u]
    BY <1>4, <1>1 DEF RaceInv, MetKnown, Types
  <2>2. Rivals(u) \subseteq Rivals(u)'
    BY <2>1, <1>2, <1>4 DEF Rivals
  <2>3. Alone(u)' => Alone(u) BY <2>2, <1>2, <1>4 DEF Alone
  <2> QED BY <2>3, <1>1, <1>2, <1>4 DEF ArgumentsKept
<1> QED BY <1>3, <1>4

\* The steps keep the arguments of the launches that have no rivals.
LEMMA StepArguments ==
  ASSUME CacheInv, RaceInv, ArgumentsKept, NEW t \in Launches, Step(t)
  PROVE  ArgumentsKept'
<1> Types BY DEF CacheInv
<1>0. /\ pc[t] \notin {"unborn", "done"} /\ job' = job /\ met' = met
      /\ \A s \in Launches : s # t => pc'[s] = pc[s]
  <2>1. CASE Deaths(t) BY <2>1, DeathsFrame
  <2>2. CASE Later(t) BY <2>2, LaterFrame
  <2>3. CASE Lookup(t) BY <2>3, LookupFrame
  <2> QED BY <2>1, <2>2, <2>3, StepKinds
<1>1. \A s \in Launches : /\ On(s)' = On(s) /\ Slot(s)' = Slot(s) /\ Prog(s)' = Prog(s)
                          /\ Kernel(s)' = Kernel(s)
  BY <1>0 DEF On, Slot, Prog, Kernel
<1>a. \A s \in Launches : Alone(s)' = Alone(s)
  <2>1. ASSUME NEW s \in Launches PROVE Rivals(s)' = Rivals(s)
    <3>1. met[s] \subseteq Launches BY DEF Types
    <3> QED BY <3>1, <1>0, <1>1 DEF Rivals
  <2> QED BY <2>1, <1>1 DEF Alone
<1>j. /\ Prog(t) \in Programs /\ Kernel(t) \in Kernels
      /\ On(t) \in {"host", "cpu", "ve"} /\ Slot(t) \in Slots
  BY <1>0, JobTypes
<1>r. \A u \in Launches :
        (u # t /\ Alone(u) /\ Active(u) /\ On(t) # "host") => Slot(u) # Slot(t)
  BY <1>0 DEF RaceInv, MetKnown, Alone, Active, Rivals
<1>s. \A u \in Launches : pc[u] # "unborn" => Slot(u) \in Slots
  BY JobTypes
<1> DEFINE R(u) == (pc[u] \in {"capture", "call", "queued", "running"}
                    /\ Kernel(u) \in Ranged /\ Alone(u)) => rnge[Slot(u)] = u
           C(u) == (pc[u] \in {"call", "queued", "running"} /\ Alone(u))
                     => capt[Slot(u)] = u
           H(u) == pc[u] \in {"queued", "running"} => On(u) # "host"
<1>2. \A u \in Launches : R(u) /\ C(u) /\ H(u) BY DEF ArgumentsKept
<1> SUFFICES \A u \in Launches : R(u)' /\ C(u)' /\ H(u)' BY DEF ArgumentsKept
<1>3. CASE SetRange(t)
  <2>0. pc[t] = "range" /\ pc'[t] = "capture" BY <1>3, GotoFrame DEF SetRange
  <2>1. KernSlot(t) = Slot(t) BY <2>0, KernSlotIs DEF Looking
  <2>2. /\ On(t) # "host" => rnge'[Slot(t)] = t
        /\ \A l \in Slots : l # Slot(t) \/ On(t) = "host" => rnge'[l] = rnge[l]
        /\ capt' = capt
    BY <1>3, <2>1, <1>j DEF SetRange, Types
  <2>3. ASSUME NEW u \in Launches, u # t PROVE R(u)' /\ C(u)' /\ H(u)'
    <3>1. pc[u] \in {"capture", "call", "queued", "running"} /\ Alone(u)
            => rnge'[Slot(u)] = rnge[Slot(u)]
      BY <2>2, <2>3, <1>r, <1>s DEF Active
    <3> QED BY <3>1, <2>2, <2>3, <1>0, <1>1, <1>a, <1>2
  <2>4. R(t)' /\ C(t)' /\ H(t)'
    BY <2>0, <2>2, <1>2, <1>1, <1>a DEF Alone
  <2> QED BY <2>3, <2>4
<1>4. CASE SetCapture(t)
  <2>0. pc[t] = "capture" /\ pc'[t] = "call" BY <1>4, GotoFrame DEF SetCapture
  <2>1. KernSlot(t) = Slot(t) BY <2>0, KernSlotIs DEF Looking
  <2>2. /\ On(t) # "host" => capt'[Slot(t)] = t
        /\ \A l \in Slots : l # Slot(t) \/ On(t) = "host" => capt'[l] = capt[l]
        /\ rnge' = rnge
    BY <1>4, <2>1, <1>j DEF SetCapture, Types
  <2>3. ASSUME NEW u \in Launches, u # t PROVE R(u)' /\ C(u)' /\ H(u)'
    <3>1. pc[u] \in {"capture", "call", "queued", "running"} /\ Alone(u)
            => capt'[Slot(u)] = capt[Slot(u)]
      BY <2>2, <2>3, <1>r, <1>s DEF Active
    <3> QED BY <3>1, <2>2, <2>3, <1>0, <1>1, <1>a, <1>2
  <2>4. R(t)' /\ C(t)' /\ H(t)'
    BY <2>0, <2>2, <1>2, <1>1, <1>a DEF Alone
  <2> QED BY <2>3, <2>4
<1>5. ASSUME rnge' = rnge, capt' = capt,
             \/ pc'[t] = pc[t]
             \/ pc'[t] \notin {"capture", "call", "queued", "running"}
             \/ pc'[t] = "capture" /\ Kernel(t) \notin Ranged
             \/ pc[t] = "call" /\ pc'[t] \in {"queued", "running"} /\ On(t) # "host"
             \/ pc[t] = "queued" /\ pc'[t] = "running"
      PROVE  \A u \in Launches : R(u)' /\ C(u)' /\ H(u)'
  <2>1. ASSUME NEW u \in Launches, u # t PROVE R(u)' /\ C(u)' /\ H(u)'
    BY <2>1, <1>2, <1>5, <1>0, <1>1, <1>a
  <2>2. R(t)' /\ C(t)' /\ H(t)' BY <1>2, <1>5, <1>1, <1>a
  <2> QED BY <2>1, <2>2
<1>6. CASE Deaths(t) BY <1>6, <1>5, DeathsFrame DEF args
<1>7. CASE Lookup(t)
  <2>1. /\ rnge' = rnge /\ capt' = capt
        /\ pc'[t] \in {"name", "create", "putname", "puthash", "range", "capture", "hung"}
    BY <1>7, LookupFrame DEF args
  <2>2. pc'[t] = "capture" => Kernel(t) \notin Ranged
    BY <1>7, GotoFrame DEF Lookup, FindHash, FindName, Create, PutName, PutHash, Hang, Search,
                           AfterLookup
  <2> QED BY <2>1, <2>2, <1>5
<1>8. CASE Call(t)
  <2>1. /\ pc[t] = "call" /\ rnge' = rnge /\ capt' = capt
        /\ \/ pc'[t] = "loop"
           \/ pc'[t] \in {"queued", "running"} /\ On(t) # "host"
    BY <1>8, <1>j, GotoFrame DEF Call, args
  <2> QED BY <2>1, <1>5
<1>9. CASE Begin(t) \/ Finish(t) \/ Fail(t) \/ Loop(t)
  <2>1. /\ rnge' = rnge /\ capt' = capt
        /\ pc'[t] \in {"loop", "done"} \/ (pc[t] = "queued" /\ pc'[t] = "running")
    <3>1. CASE Begin(t) BY <3>1, GotoFrame DEF Begin, args
    <3>2. CASE Finish(t)
      <4>1. Goto(t, "running", "loop") /\ rnge' = rnge /\ capt' = capt BY <3>2 DEF Finish, args
      <4>2. pc'[t] = "loop" BY <4>1, GotoFrame
      <4> QED BY <4>1, <4>2
    <3>3. CASE Fail(t)
      <4>1. Goto(t, "running", "loop") /\ rnge' = rnge /\ capt' = capt BY <3>3 DEF Fail, args
      <4>2. pc'[t] = "loop" BY <4>1, GotoFrame
      <4> QED BY <4>1, <4>2
    <3>4. CASE Loop(t)
      <4>1. Goto(t, "loop", "done") /\ rnge' = rnge /\ capt' = capt BY <3>4 DEF Loop, args
      <4>2. pc'[t] = "done" BY <4>1, GotoFrame
      <4> QED BY <4>1, <4>2
    <3> QED BY <1>9, <3>1, <3>2, <3>3, <3>4
  <2> QED BY <2>1, <1>5
<1> QED BY <1>3, <1>4, <1>6, <1>7, <1>8, <1>9, StepKinds DEF Later

LEMMA NextArguments == CacheInv /\ RaceInv /\ ArgumentsKept /\ [Next]_vars => ArgumentsKept'
<1> SUFFICES ASSUME CacheInv, RaceInv, ArgumentsKept, [Next]_vars PROVE ArgumentsKept'
  OBVIOUS
<1>1. CASE UNCHANGED vars
  BY <1>1 DEF vars, args, ArgumentsKept, Alone, Rivals, On, Slot, Prog, Kernel
<1>2. CASE Next
  BY <1>2, StepArguments, StartArguments DEF Next
<1> QED BY <1>1, <1>2

\* A kernel that runs has the captures and the range of its own launch unless
\* a rival that shares no conflicting buffer was in progress with it: for a
\* kernel whose launches all conflict, always.  Nothing but the locks of the
\* buffers protects the globals of kernel.so (cpu/program.hpp:72-86).
THEOREM ArgumentsAreOwn == Spec => []OwnArguments
<1>1. ASSUME CacheInv, RaceInv, ArgumentsKept PROVE OwnArguments
  <2> SUFFICES ASSUME NEW t \in Launches, pc[t] = "running",
                      \A s \in Rivals(t) : Conflict(job[s], job[t])
               PROVE  capt[Slot(t)] = t /\ (Kernel(t) \in Ranged => rnge[Slot(t)] = t)
    BY DEF OwnArguments
  <2>1. \A s \in met[t] : s \in Launches /\ ~Conflict(job[s], job[t])
    BY <1>1 DEF RaceInv, MetKnown, CacheInv, Types
  <2>2. Rivals(t) = {} BY <2>1 DEF Rivals
  <2> QED BY <1>1, <2>2 DEF ArgumentsKept, Alone
<1>2. Init => ArgumentsKept
  BY DEF Init, ArgumentsKept
<1>3. Spec => []ArgumentsKept
  BY <1>2, NextArguments, CacheInvariant, RaceInvariant, PTL DEF Spec
<1> QED BY <1>1, <1>3, CacheInvariant, RaceInvariant, PTL

-----------------------------------------------------------------------------
(* How often a kernel runs                                                 *)

LEMMA NextRuns == CacheInv /\ RunsAt /\ [Next]_vars => RunsAt'
<1> SUFFICES ASSUME CacheInv, RunsAt, [Next]_vars PROVE RunsAt' OBVIOUS
<1> Types BY DEF CacheInv
<1>1. CASE UNCHANGED vars
  BY <1>1 DEF vars, RunsAt, On, Prog
<1>2. ASSUME NEW t \in Launches, NEW j \in Jobs[t], Start(t, j) PROVE RunsAt'
  BY <1>2, StartFrame DEF RunsAt, On, Prog
<1>3. ASSUME NEW t \in Launches, Step(t) PROVE RunsAt'
  <2>0. /\ pc[t] \notin {"unborn", "done"} /\ job' = job
        /\ \A s \in Launches : s # t => pc'[s] = pc[s] /\ runs'[s] = runs[s]
    <3>1. CASE Deaths(t) BY <3>1, DeathsFrame
    <3>2. CASE Lookup(t) BY <3>2, LookupFrame
    <3>3. CASE Later(t)
      <4>1. \A s \in Launches : s # t => runs'[s] = runs[s]
        BY <3>3 DEF Later, SetRange, SetCapture, Call, Begin, Finish, Fail, Loop, Types
      <4> QED BY <3>3, <4>1, LaterFrame
    <3> QED BY <1>3, <3>1, <3>2, <3>3, StepKinds
  <2>1. \A s \in Launches : On(s)' = On(s) BY <2>0 DEF On, Prog
  <2>2. runs[t] \in Nat /\ On(t) \in {"host", "cpu", "ve"} BY <2>0, JobTypes DEF Types
  <2> DEFINE R(s) == /\ pc[s] \notin {"loop", "done"} => runs[s] = 0
                     /\ runs[s] <= 1
                     /\ pc[s] = "loop" => /\ On(s) = "host" => runs[s] = 0
                                          /\ On(s) = "cpu" => runs[s] = 1
                     /\ pc[s] = "done" /\ On(s) # "ve" => runs[s] = 1
                     /\ pc[s] \in {"queued", "running"} => On(s) # "host"
  <2>3. \A s \in Launches : R(s) BY DEF RunsAt
  <2>4. ASSUME NEW s \in Launches, s # t PROVE R(s)'
    BY <2>0, <2>1, <2>3, <2>4
  <2>5. R(t)'
    <3>1. ASSUME runs'[t] = runs[t], pc[t] \notin {"loop", "done"},
                 pc'[t] \notin {"loop", "done", "queued", "running"} \/ pc'[t] = pc[t]
          PROVE  R(t)'
      BY <3>1, <2>1, <2>3
    <3>2. CASE Deaths(t)
      <4>1. CASE pc[t] # "loop" BY <3>1, <3>2, <4>1, <2>0, DeathsFrame
      <4>2. CASE pc[t] = "loop"
        BY <3>2, <4>2, <2>1, <2>3, DeathsFrame
      <4> QED BY <4>1, <4>2
    <3>3. CASE Lookup(t) BY <3>1, <3>3, LookupFrame
    <3>4. CASE SetRange(t) \/ SetCapture(t)
      BY <3>1, <3>4, GotoFrame DEF SetRange, SetCapture
    <3>5. CASE Call(t)
      <4>1. /\ pc[t] = "call" /\ runs' = runs
            /\ \/ pc'[t] = "loop" /\ On(t) = "host"
               \/ pc'[t] \in {"queued", "running"} /\ On(t) # "host"
        BY <3>5, <2>2, GotoFrame DEF Call
      <4> QED BY <4>1, <2>1, <2>2, <2>3
    <3>6. CASE Begin(t)
      <4>1. pc[t] = "queued" /\ pc'[t] = "running" /\ runs' = runs
        BY <3>6, GotoFrame DEF Begin
      <4> QED BY <4>1, <2>1, <2>3
    <3>7. CASE Finish(t)
      <4>1. pc[t] = "running" /\ pc'[t] = "loop" /\ runs'[t] = runs[t] + 1
        BY <3>7, GotoFrame DEF Finish, Types
      <4> QED BY <4>1, <2>1, <2>2, <2>3
    <3>8. CASE Fail(t)
      <4>1. pc[t] = "running" /\ pc'[t] = "loop" /\ runs' = runs /\ On(t) = "ve"
        BY <3>8, GotoFrame DEF Fail
      <4> QED BY <4>1, <2>1, <2>2, <2>3
    <3>9. CASE Loop(t)
      <4>1. /\ pc[t] = "loop" /\ pc'[t] = "done"
            /\ runs'[t] = IF On(t) = "host" THEN runs[t] + 1 ELSE runs[t]
        BY <3>9, GotoFrame DEF Loop, Types
      <4> QED BY <4>1, <2>1, <2>2, <2>3
    <3> QED BY <1>3, <3>2, <3>3, <3>4, <3>5, <3>6, <3>7, <3>8, <3>9, StepKinds DEF Later
  <2> QED BY <2>4, <2>5 DEF RunsAt
<1> QED BY <1>1, <1>2, <1>3 DEF Next

\* A launch runs its kernel once, on the device or in the host's loop; only on
\* a VE may a launch end without (handler.hpp:63-85, nec/program.hpp:37-44).
THEOREM KernelsRunOnce == Spec => []RunsOnce
<1>1. ASSUME Init PROVE RunsAt
  <2>1. \A t \in Launches : pc[t] = "unborn" /\ runs[t] = 0 BY <1>1 DEF Init
  <2>2. \A n \in Nat : n = 0 => n <= 1 OBVIOUS
  <2>3. 0 <= 1 BY <2>2
  <2>4. \A t \in Launches : runs[t] <= 1 BY <2>1, <2>3, Zenon
  <2> QED BY <2>1, <2>4 DEF RunsAt
<1>2. RunsAt => RunsOnce BY DEF RunsAt, RunsOnce
<1> QED BY <1>1, <1>2, NextRuns, CacheInvariant, PTL DEF Spec

-----------------------------------------------------------------------------
(* The calls of a VEO context                                              *)

\* The calls a VEO context has yet to finish are those of the launches that
\* wait for it: each launch once, in the context of its own program, and only
\* the first of them runs.
Queueing ==
  /\ fifo \in [Programs -> Seq(Launches)]
  /\ \A p \in Programs : \A i \in DOMAIN fifo[p] :
       /\ pc[fifo[p][i]] \in {"queued", "running"}
       /\ Prog(fifo[p][i]) = p /\ On(fifo[p][i]) = "ve"
       /\ \A j \in DOMAIN fifo[p] : fifo[p][i] = fifo[p][j] => i = j
  /\ \A t \in Launches :
       /\ pc[t] = "queued" => On(t) = "ve"
       /\ pc[t] \in {"queued", "running"} /\ On(t) = "ve" =>
            \E i \in DOMAIN fifo[Prog(t)] : fifo[Prog(t)][i] = t
       /\ pc[t] = "running" /\ On(t) = "ve" =>
            fifo[Prog(t)] # <<>> /\ fifo[Prog(t)][1] = t
  /\ aborted \in BOOLEAN

LEMMA AppendEntries ==
  ASSUME NEW R, NEW s \in Seq(R), NEW e \in R
  PROVE  /\ Append(s, e) \in Seq(R) /\ Append(s, e) # <<>>
         /\ DOMAIN Append(s, e) = (DOMAIN s) \cup {Len(s) + 1}
         /\ Len(s) + 1 \notin DOMAIN s
         /\ \A i \in DOMAIN s : Append(s, e)[i] = s[i]
         /\ Append(s, e)[Len(s) + 1] = e
         /\ s # <<>> => Append(s, e)[1] = s[1]
  OBVIOUS

LEMMA TailEntries ==
  ASSUME NEW R, NEW s \in Seq(R), s # <<>>
  PROVE  /\ Tail(s) \in Seq(R)
         /\ 1 \in DOMAIN s
         /\ Head(s) = s[1] /\ Head(s) \in R
         /\ \A i \in DOMAIN Tail(s) : i + 1 \in DOMAIN s /\ Tail(s)[i] = s[i + 1]
         /\ \A i \in DOMAIN s : i # 1 => i - 1 \in DOMAIN Tail(s) /\ Tail(s)[i - 1] = s[i]
         /\ \A i, j \in DOMAIN Tail(s) : i + 1 = j + 1 => i = j
         /\ \A i \in DOMAIN Tail(s) : i + 1 # 1
  OBVIOUS

\* An entry of a sequence is an element.
LEMMA EntryIn ==
  ASSUME NEW R, NEW s \in Seq(R), NEW i \in DOMAIN s
  PROVE  s[i] \in R
  OBVIOUS

LEMMA StartQueueing ==
  ASSUME CacheInv, Queueing, NEW t \in Launches, NEW j \in Jobs[t], Start(t, j)
  PROVE  Queueing'
<1>1. /\ pc[t] = "unborn" /\ pc'[t] = "hash" /\ fifo' = fifo /\ aborted' = aborted
      /\ \A s \in Launches : s # t => job'[s] = job[s] /\ pc'[s] = pc[s]
  BY StartFrame DEF CacheInv
<1>2. \A s \in Launches : s # t => Prog(s)' = Prog(s) /\ On(s)' = On(s)
  BY <1>1 DEF On, Prog
<1>3. \A p \in Programs : \A i \in DOMAIN fifo[p] : fifo[p][i] \in Launches /\ fifo[p][i] # t
  BY <1>1, EntryIn DEF Queueing
<1>4. \A p \in Programs : \A i \in DOMAIN fifo[p] :
        /\ pc'[fifo[p][i]] = pc[fifo[p][i]]
        /\ Prog(fifo[p][i])' = Prog(fifo[p][i]) /\ On(fifo[p][i])' = On(fifo[p][i])
  BY <1>1, <1>3 DEF Prog, On
<1> QED BY <1>1, <1>2, <1>4 DEF Queueing, On, Prog

\* A step that neither adds a call nor takes one out.
LEMMA SameQueues ==
  ASSUME CacheInv, Queueing, NEW t \in Launches, job' = job, fifo' = fifo,
         aborted' \in BOOLEAN,
         \A s \in Launches : s # t => pc'[s] = pc[s],
         \/ pc'[t] = pc[t]
         \/ /\ pc[t] \notin {"queued", "running"} \/ On(t) # "ve"
            /\ pc'[t] # "queued" /\ (pc'[t] = "running" => On(t) # "ve")
         \/ pc[t] = "queued" /\ pc'[t] = "running" /\ Head(fifo[Prog(t)]) = t
  PROVE  Queueing'
<1>1. \A s \in Launches : Prog(s)' = Prog(s) /\ On(s)' = On(s)
  BY DEF On, Prog
<1>2. \A p \in Programs : \A i \in DOMAIN fifo[p] :
        /\ fifo[p][i] \in Launches
        /\ fifo[p][i] = t => pc[t] \in {"queued", "running"} /\ On(t) = "ve"
  BY EntryIn DEF Queueing
<1>3. \A p \in Programs : \A i \in DOMAIN fifo'[p] :
        /\ pc'[fifo[p][i]] \in {"queued", "running"}
        /\ Prog(fifo[p][i])' = p /\ On(fifo[p][i])' = "ve"
        /\ \A j \in DOMAIN fifo[p] : fifo[p][i] = fifo[p][j] => i = j
  BY <1>1, <1>2 DEF Queueing
<1>4. ASSUME NEW s \in Launches
      PROVE  /\ pc'[s] = "queued" => On(s) = "ve"
             /\ pc'[s] \in {"queued", "running"} /\ On(s) = "ve" =>
                  \E i \in DOMAIN fifo[Prog(s)] : fifo[Prog(s)][i] = s
             /\ pc'[s] = "running" /\ On(s) = "ve" =>
                  fifo[Prog(s)] # <<>> /\ fifo[Prog(s)][1] = s
  <2>1. CASE pc'[s] = pc[s] BY <2>1 DEF Queueing
  <2>2. CASE s = t /\ pc'[t] # pc[t]
    <3>1. pc[t] = "queued" => Prog(t) \in Programs
      BY JobTypes DEF CacheInv
    <3>2. pc[t] = "queued" => /\ fifo[Prog(t)] \in Seq(Launches)
                              /\ \E i \in DOMAIN fifo[Prog(t)] : fifo[Prog(t)][i] = t
      BY <3>1 DEF Queueing
    <3>3. \A q \in Seq(Launches) : \A i \in DOMAIN q : q # <<>> /\ Head(q) = q[1] OBVIOUS
    <3> QED BY <2>2, <3>2, <3>3 DEF Queueing
  <2> QED BY <2>1, <2>2
<1> QED BY <1>1, <1>3, <1>4 DEF Queueing, On, Prog

\* The call of a launch goes to the end of its context.
LEMMA CallQueueing ==
  ASSUME CacheInv, Queueing, NEW t \in Launches, Call(t), On(t) = "ve"
  PROVE  Queueing'
<1> Types BY DEF CacheInv
<1>1. /\ pc[t] = "call" /\ pc'[t] = "queued" /\ job' = job /\ aborted' = aborted
      /\ \A s \in Launches : s # t => pc'[s] = pc[s]
  BY GotoFrame DEF Call
<1>2. PICK p \in Programs : p = Prog(t) BY <1>1, JobTypes
<1>3. \A s \in Launches : Prog(s)' = Prog(s) /\ On(s)' = On(s)
  BY <1>1 DEF On, Prog
<1>4. fifo \in [Programs -> Seq(Launches)] BY DEF Queueing
<1>5. /\ fifo' \in [Programs -> Seq(Launches)] /\ fifo'[p] = Append(fifo[p], t)
      /\ \A q \in Programs : q # p => fifo'[q] = fifo[q]
  BY <1>2, <1>4, AppendEntries DEF Call
<1>6. /\ fifo[p] \in Seq(Launches) /\ DOMAIN fifo'[p] = DOMAIN fifo[p] \cup {Len(fifo[p]) + 1}
      /\ \A i \in DOMAIN fifo[p] : fifo'[p][i] = fifo[p][i]
      /\ fifo'[p][Len(fifo[p]) + 1] = t /\ fifo'[p] # <<>>
      /\ fifo[p] # <<>> => fifo'[p][1] = fifo[p][1]
  BY <1>4, <1>5, AppendEntries
<1>7. \A q \in Programs : \A i \in DOMAIN fifo[q] : fifo[q][i] \in Launches /\ fifo[q][i] # t
  BY <1>1, EntryIn DEF Queueing
<1>8. ASSUME NEW q \in Programs, NEW i \in DOMAIN fifo[q]
      PROVE  /\ pc'[fifo[q][i]] \in {"queued", "running"}
             /\ Prog(fifo[q][i]) = q /\ On(fifo[q][i]) = "ve"
             /\ \A j \in DOMAIN fifo[q] : fifo[q][i] = fifo[q][j] => i = j
  BY <1>1, <1>3, <1>7 DEF Queueing
<1>9. ASSUME NEW q \in Programs, NEW i \in DOMAIN fifo'[q]
      PROVE  /\ pc'[fifo'[q][i]] \in {"queued", "running"}
             /\ Prog(fifo'[q][i]) = q /\ On(fifo'[q][i]) = "ve"
             /\ \A j \in DOMAIN fifo'[q] : fifo'[q][i] = fifo'[q][j] => i = j
  <2>1. CASE q # p BY <2>1, <1>5, <1>8
  <2>2. CASE q = p /\ i \in DOMAIN fifo[p]
    BY <2>2, <1>6, <1>7, <1>8
  <2>3. CASE q = p /\ i = Len(fifo[p]) + 1
    BY <2>3, <1>1, <1>2, <1>3, <1>6, <1>7
  <2> QED BY <2>1, <2>2, <2>3, <1>6
<1>10. ASSUME NEW s \in Launches
       PROVE  /\ pc'[s] = "queued" => On(s) = "ve"
              /\ pc'[s] \in {"queued", "running"} /\ On(s) = "ve" =>
                   \E i \in DOMAIN fifo'[Prog(s)] : fifo'[Prog(s)][i] = s
              /\ pc'[s] = "running" /\ On(s) = "ve" =>
                   fifo'[Prog(s)] # <<>> /\ fifo'[Prog(s)][1] = s
  <2>1. CASE s = t BY <2>1, <1>1, <1>2, <1>6
  <2>2. CASE s # t /\ pc[s] \in {"queued", "running"}
    <3>1. Prog(s) \in Programs BY <2>2, JobTypes
    <3>2. /\ pc[s] = "queued" => On(s) = "ve"
          /\ On(s) = "ve" => \E i \in DOMAIN fifo[Prog(s)] : fifo[Prog(s)][i] = s
          /\ pc[s] = "running" /\ On(s) = "ve" =>
               fifo[Prog(s)] # <<>> /\ fifo[Prog(s)][1] = s
      BY <2>2 DEF Queueing
    <3>3. CASE Prog(s) # p
      BY <2>2, <3>1, <3>2, <3>3, <1>1, <1>5
    <3>4. CASE Prog(s) = p
      <4>1. On(s) = "ve" => \E i \in DOMAIN fifo'[p] : fifo'[p][i] = s
        BY <3>2, <3>4, <1>6
      <4> QED BY <4>1, <2>2, <3>2, <3>4, <1>1, <1>6
    <3> QED BY <3>3, <3>4
  <2>3. CASE s # t /\ pc[s] \notin {"queued", "running"}
    BY <2>3, <1>1
  <2> QED BY <2>1, <2>2, <2>3
<1> QED BY <1>1, <1>3, <1>5, <1>9, <1>10 DEF Queueing, Prog, On

\* A call that has returned or failed is the first of its context.
LEMMA ServedQueueing ==
  ASSUME CacheInv, Queueing, NEW t \in Launches, On(t) = "ve",
         Goto(t, "running", "loop"), fifo' = Served(t), job' = job, aborted' = aborted
  PROVE  Queueing'
<1> Types BY DEF CacheInv
<1>1. /\ pc[t] = "running" /\ pc'[t] = "loop"
      /\ \A s \in Launches : s # t => pc'[s] = pc[s]
  BY GotoFrame
<1>2. PICK p \in Programs : p = Prog(t) BY <1>1, JobTypes
<1>3. \A s \in Launches : Prog(s)' = Prog(s) /\ On(s)' = On(s)
  BY <1>1 DEF On, Prog
<1>4. /\ fifo \in [Programs -> Seq(Launches)]
      /\ fifo[p] \in Seq(Launches) /\ fifo[p] # <<>> /\ fifo[p][1] = t
  BY <1>1, <1>2 DEF Queueing
<1>5. /\ fifo' \in [Programs -> Seq(Launches)] /\ fifo'[p] = Tail(fifo[p])
      /\ \A q \in Programs : q # p => fifo'[q] = fifo[q]
  BY <1>2, <1>4, TailEntries DEF Served
<1>6. /\ 1 \in DOMAIN fifo[p]
      /\ \A i \in DOMAIN fifo'[p] : i + 1 \in DOMAIN fifo[p] /\ fifo'[p][i] = fifo[p][i + 1]
                                    /\ i + 1 # 1
      /\ \A i \in DOMAIN fifo[p] : i # 1 => i - 1 \in DOMAIN fifo'[p]
                                           /\ fifo'[p][i - 1] = fifo[p][i]
      /\ \A i, j \in DOMAIN fifo'[p] : i + 1 = j + 1 => i = j
  BY <1>4, <1>5, TailEntries
<1>7. \A q \in Programs : \A i \in DOMAIN fifo[q] :
        /\ fifo[q][i] \in Launches
        /\ fifo[q][i] = t => q = p /\ i = 1
  BY <1>2, <1>4, <1>6, EntryIn DEF Queueing
<1>8. ASSUME NEW q \in Programs, NEW i \in DOMAIN fifo[q], q # p \/ i # 1
      PROVE  /\ pc'[fifo[q][i]] \in {"queued", "running"}
             /\ Prog(fifo[q][i]) = q /\ On(fifo[q][i]) = "ve"
             /\ \A j \in DOMAIN fifo[q] : fifo[q][i] = fifo[q][j] => i = j
  BY <1>1, <1>3, <1>7, <1>8 DEF Queueing
<1>9. ASSUME NEW q \in Programs, NEW i \in DOMAIN fifo'[q]
      PROVE  /\ pc'[fifo'[q][i]] \in {"queued", "running"}
             /\ Prog(fifo'[q][i]) = q /\ On(fifo'[q][i]) = "ve"
             /\ \A j \in DOMAIN fifo'[q] : fifo'[q][i] = fifo'[q][j] => i = j
  <2>1. CASE q # p BY <2>1, <1>5, <1>8
  <2>2. CASE q = p
    <3>1. /\ i + 1 \in DOMAIN fifo[p] /\ i + 1 # 1 /\ fifo'[p][i] = fifo[p][i + 1]
      BY <2>2, <1>6
    <3>2. ASSUME NEW j \in DOMAIN fifo'[p], fifo'[p][i] = fifo'[p][j] PROVE i = j
      BY <3>1, <3>2, <2>2, <1>6, <1>8
    <3> QED BY <3>1, <3>2, <2>2, <1>8
  <2> QED BY <2>1, <2>2
<1>10. ASSUME NEW s \in Launches
       PROVE  /\ pc'[s] = "queued" => On(s) = "ve"
              /\ pc'[s] \in {"queued", "running"} /\ On(s) = "ve" =>
                   \E i \in DOMAIN fifo'[Prog(s)] : fifo'[Prog(s)][i] = s
              /\ pc'[s] = "running" /\ On(s) = "ve" =>
                   fifo'[Prog(s)] # <<>> /\ fifo'[Prog(s)][1] = s
  <2>1. CASE s = t \/ pc[s] \notin {"queued", "running"} \/ On(s) # "ve"
    BY <2>1, <1>1 DEF Queueing
  <2>2. CASE s # t /\ pc[s] \in {"queued", "running"} /\ On(s) = "ve"
    <3>1. Prog(s) \in Programs BY <2>2, JobTypes
    <3>2. PICK i \in DOMAIN fifo[Prog(s)] : fifo[Prog(s)][i] = s
      BY <2>2 DEF Queueing
    <3>3. pc[s] = "running" => fifo[Prog(s)] # <<>> /\ fifo[Prog(s)][1] = s
      BY <2>2 DEF Queueing
    <3>4. CASE Prog(s) # p
      BY <2>2, <3>1, <3>2, <3>3, <3>4, <1>1, <1>5
    <3>5. CASE Prog(s) = p
      <4>1. i # 1 /\ pc[s] # "running" BY <2>2, <3>2, <3>3, <3>5, <1>4
      <4>2. i - 1 \in DOMAIN fifo'[p] /\ fifo'[p][i - 1] = s
        BY <4>1, <3>2, <3>5, <1>6
      <4> QED BY <4>1, <4>2, <3>5, <2>2, <1>1
    <3> QED BY <3>4, <3>5
  <2> QED BY <2>1, <2>2
<1> QED BY <1>1, <1>3, <1>5, <1>9, <1>10 DEF Queueing, Prog, On

LEMMA StepQueueing ==
  ASSUME CacheInv, Queueing, NEW t \in Launches, Step(t)
  PROVE  Queueing'
<1> Types BY DEF CacheInv
<1>a. aborted \in BOOLEAN BY DEF Queueing
<1>1. CASE Deaths(t) BY <1>1, DeathsFrame, SameQueues
<1>2. CASE Lookup(t) BY <1>2, <1>a, LookupFrame, SameQueues
<1>3. CASE Later(t)
  <2>0. /\ job' = job /\ pc[t] # "unborn"
        /\ \A s \in Launches : s # t => pc'[s] = pc[s]
    BY <1>3, LaterFrame
  <2>1. On(t) \in {"host", "cpu", "ve"} BY <2>0, JobTypes
  <2>2. CASE Call(t)
    <3>1. CASE On(t) # "ve"
      <4>1. /\ pc[t] = "call" /\ pc'[t] # "queued" /\ fifo' = fifo /\ aborted' = aborted
        BY <2>1, <2>2, <3>1, GotoFrame DEF Call
      <4> QED BY <2>0, <3>1, <4>1, <1>a, SameQueues
    <3> QED BY <2>2, <3>1, CallQueueing
  <2>3. CASE Begin(t)
    <3>1. /\ pc[t] = "queued" /\ pc'[t] = "running" /\ Head(fifo[Prog(t)]) = t
          /\ fifo' = fifo /\ aborted' = aborted
      BY <2>3, GotoFrame DEF Begin
    <3> QED BY <2>0, <3>1, <1>a, SameQueues
  <2>4. CASE Finish(t) \/ Fail(t)
    <3>1. CASE On(t) # "ve"
      <4>1. /\ pc'[t] = "loop" /\ fifo' = fifo /\ aborted' = aborted
        BY <2>4, <3>1, GotoFrame DEF Finish, Fail, Served
      <4> QED BY <2>0, <3>1, <4>1, <1>a, SameQueues
    <3> QED BY <2>4, <3>1, ServedQueueing DEF Finish, Fail
  <2>5. CASE SetRange(t) \/ SetCapture(t) \/ Loop(t)
    <3>1. /\ pc[t] \notin {"queued", "running"} /\ pc'[t] \notin {"queued", "running"}
          /\ fifo' = fifo /\ aborted' = aborted
      BY <2>5, GotoFrame DEF SetRange, SetCapture, Loop
    <3> QED BY <2>0, <3>1, <1>a, SameQueues
  <2> QED BY <1>3, <2>2, <2>3, <2>4, <2>5 DEF Later
<1> QED BY <1>1, <1>2, <1>3, StepKinds

LEMMA QueueingInvariant == Spec => []Queueing
<1>1. Init => Queueing
  <2>1. <<>> \in Seq(Launches) /\ DOMAIN <<>> = {} OBVIOUS
  <2>2. ASSUME Init
        PROVE  /\ fifo = [p \in Programs |-> <<>>] /\ aborted = FALSE
               /\ \A t \in Launches : pc[t] = "unborn"
    BY <2>2 DEF Init
  <2>3. ASSUME Init
        PROVE  /\ fifo \in [Programs -> Seq(Launches)]
               /\ \A p \in Programs : DOMAIN fifo[p] = {}
    BY <2>1, <2>2, <2>3
  <2> QED BY <2>2, <2>3 DEF Queueing
<1>2. CacheInv /\ Queueing /\ [Next]_vars => Queueing'
  <2> SUFFICES ASSUME CacheInv, Queueing, [Next]_vars PROVE Queueing' OBVIOUS
  <2>1. CASE UNCHANGED vars BY <2>1 DEF vars, Queueing, On, Prog
  <2>2. CASE Next BY <2>2, StepQueueing, StartQueueing DEF Next
  <2> QED BY <2>1, <2>2
<1> QED BY <1>1, <1>2, CacheInvariant, PTL DEF Spec

\* Every variable keeps its type.  The queue of a VEO context is the part that
\* takes an argument: a call that returns or fails takes its own entry out, so
\* a context whose kernel failed serves the launches behind it
\* (nec/program.hpp:37-44).
THEOREM LaunchTypes == Spec => []TypeOK
<1>1. CacheInv /\ Queueing => TypeOK
  BY DEF CacheInv, Types, OwnKernels, Looking, Queueing, TypeOK
<1> QED BY <1>1, CacheInvariant, QueueingInvariant, PTL
=============================================================================
