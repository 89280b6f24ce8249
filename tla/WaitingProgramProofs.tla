------------------------ MODULE WaitingProgramProofs ------------------------
(***************************************************************************)
(* What a host program gains that waits after the first use of a buffer on *)
(* a device, for any sets of command groups, buffers, devices and host     *)
(* devices: command groups exclude each other as their accesses ask for,   *)
(* every chunk is the one in its container's map, and a buffer that was    *)
(* destroyed and waited for is back.  If each buffer is used on one device *)
(* or on host devices, command groups are atomic, and what they leave in a *)
(* buffer comes back with it.                                              *)
(*                                                                         *)
(* The runtime looks a buffer up in the map before it locks anything, and  *)
(* does not lock the second buffer of a handler that has just allocated    *)
(* it.  The argument is therefore about who may come between: a command    *)
(* group that finds no chunk is the only one that uses the buffer on the   *)
(* device (Alone), and one that is not alone finds a chunk and locks it    *)
(* (Guarded).  The second half follows the data: who may write to a piece  *)
(* of memory (Writers), and hence what a chunk holds from its allocation   *)
(* to the command of the command group that made it (Copied) and what a    *)
(* kernel has read until it ends (Snapped).                                *)
(***************************************************************************)
EXTENDS WaitingProgram, CommandGroupProofs

\* On a host device alloc_mem_ never looks into acc_, and locks only the first
\* buffer: the host's command groups are taken to use one accessor.
OneEach == \A g \in Groups : g.dev \in HostDevices => Len(g.acc) <= 1

\* Devices with memory of their own.
Cards == Devices \ HostDevices

\* The steps considered: command groups for a card wait as in WaitingNext,
\* those for a host device are submitted at any time; buffers are destroyed at
\* any time.
Waits(g) == g.dev \in Cards => FirstUseAlone(g)
CarefulNext == \/ \E t \in Tasks : Step(t) \/ \E g \in Groups : Waits(g) /\ Submit(t, g)
               \/ \E b \in Buffers : DestroyBuffer(b)
CarefulSpec == Init /\ [][CarefulNext]_vars

-----------------------------------------------------------------------------
(* The inductive invariant                                                 *)

\* t is a command group in progress that uses b on device d.
Using(t, b, d) == Pending(t) /\ Dev(t) = d /\ b \in Uses(grp[t])

\* A command group that was not submitted has nothing.
Chosen == \A t \in Tasks : pc[t] = "unborn" => grp[t] = None /\ acc[t] = <<>>

\* Two command groups in progress share a buffer of a card only if its first
\* user has been waited for.
Alone ==
  \A b \in Buffers, d \in Cards : \A s, t \in Tasks :
    s # t /\ Using(s, b, d) /\ Using(t, b, d) => Warm(b, d)

\* A command group whose command is done has left its buffers in the maps.
Ended(t) == pc[t] \notin Active \cup {"unborn"}
Served ==
  \A t \in Tasks : Ended(t) /\ ~OnHost(t) =>
    \A b \in Uses(grp[t]) : map[b][Dev(t)] # None

\* The command group that allocated the chunk of b on d used b on d, and was
\* its first user.
Allocator(b, d) == map[b][d].ptr[2]
Owned ==
  \A b \in Buffers, d \in Devices : map[b][d] # None =>
    LET u == Allocator(b, d)
    IN  /\ u \in Tasks /\ d \in Cards
        /\ pc[u] # "unborn" /\ Dev(u) = d /\ b \in Uses(grp[u])
        /\ Pending(u) => ~Warm(b, d)

\* alloc_mem_ has returned for accessor i of t.
Passed(t, i) == i < pos[t] \/ (i = pos[t] /\ again[t])

\* Its buffer is locked as its mode asks for.
Locked(t, i) ==
  IF grp[t].acc[i].mode = "read" THEN Entry(t, BufOf(t, i)) # {}
                                 ELSE HasWrite(t, BufOf(t, i))

\* It is, unless the buffer is new to the card.
Secured(t, i) ==
  IF OnHost(t) THEN OneEach => Locked(t, i)
               ELSE Warm(BufOf(t, i), Dev(t)) => Locked(t, i)

Guarded(t) ==
  pc[t] \in Active =>
    /\ \A i \in DOMAIN grp[t].acc : Passed(t, i) => Secured(t, i)
    /\ OnHost(t) /\ OneEach /\ acc[t] # <<>> => \A i \in DOMAIN grp[t].acc : Locked(t, i)

\* Its device_ptr is the pointer in the map.
Pointed(t) ==
  pc[t] \in Active =>
    \A i \in DOMAIN grp[t].acc : dptr[t][i] # None =>
       /\ ~OnHost(t) /\ map[BufOf(t, i)][Dev(t)] # None
       /\ dptr[t][i] = map[BufOf(t, i)][Dev(t)].ptr

\* What alloc_mem_ has seen is still so when it acts on it.
Making(t) ==
  /\ pc[t] = "alloc" => ~OnHost(t) /\ map[Buf(t)][Dev(t)] = None /\ count[t] = 0
  /\ pc[t] = "copyin" => /\ ~OnHost(t) /\ map[Buf(t)][Dev(t)] # None
                         /\ map[Buf(t)][Dev(t)].ptr = Chunk(t)
  /\ pc[t] \in {"alloc", "copyin", "lock"} /\ count[t] = 0 /\ ~OnHost(t) => ~Warm(Buf(t), Dev(t))

AllMapped ==
  \A c \in chunks : /\ c \in Buffers \X Tasks /\ refs[c[1]] # {}
                    /\ \E d \in Devices : map[c[1]][d] # None /\ map[c[1]][d].ptr = c

WaitInv == /\ Chosen /\ Alone /\ Served /\ Owned /\ AllMapped
           /\ \A t \in Tasks : Pointed(t) /\ Making(t) /\ Guarded(t)

\* What CommandGroupProofs shows of every host program.
GroupInv == LockTypes /\ LockInv /\ LifeInv /\ MemoryTypes /\ HoldersInUse

-----------------------------------------------------------------------------
(* Steps                                                                   *)

LEMMA CarefulIsNext == CarefulNext => Next
  BY DEF CarefulNext, Next

LEMMA WaitingIsCareful == WaitingNext => CarefulNext
  BY DEF WaitingNext, WaitingSubmit, WaitingDestroy, CarefulNext, Waits

\* A step of t leaves the handlers of other threads alone.
Still(s) == /\ pc'[s] = pc[s] /\ grp'[s] = grp[s] /\ pos'[s] = pos[s] /\ again'[s] = again[s]
            /\ count'[s] = count[s] /\ dptr'[s] = dptr[s] /\ acc'[s] = acc[s]

LEMMA OthersStill ==
  ASSUME LockTypes, LifeInv, NEW t \in Tasks, Step(t) \/ \E g \in Groups : Submit(t, g)
  PROVE  \A s \in Tasks \ {t} : Still(s)
  <1> USE DEF locks, args, memory
  <1>1. CASE \/ Lookup(t) \/ Alloc(t) \/ CopyIn(t) \/ UnlockRead(t) \/ \E g \in Groups : Submit(t, g)
    <2>1. UNCHANGED acc /\ UNCHANGED <<pos, again>>
      BY <1>1 DEF Lookup, Alloc, CopyIn, UnlockRead, Submit
    <2>2. \A s \in Tasks \ {t} : pc'[s] = pc[s]
      BY <1>1 DEF Lookup, Alloc, CopyIn, UnlockRead, Submit, Goto, LockTypes
    <2>3. \A s \in Tasks \ {t} : grp'[s] = grp[s] /\ count'[s] = count[s] /\ dptr'[s] = dptr[s]
      BY <1>1 DEF Lookup, Alloc, CopyIn, UnlockRead, Submit, LockTypes, LifeInv, LifeTypes
    <2> QED BY <2>1, <2>2, <2>3 DEF Still
  <1>2. CASE AlreadyLocked(t) \/ RelockWrite(t) \/ LockRead(t) \/ LockWrite(t) \/ LockSkipped(t)
    <2>1. Accessed(t) /\ pc[t] \in Acquiring /\ UNCHANGED <<grp, count, dptr>>
      BY <1>2 DEF AlreadyLocked, RelockWrite, LockRead, LockWrite, LockSkipped, MustLock, Acquiring
    <2>2. \A s \in Tasks \ {t} : pc'[s] = pc[s] /\ pos'[s] = pos[s]
      BY <2>1, AccessedMoves
    <2>3. \A s \in Tasks \ {t} : again'[s] = again[s]
      BY <2>1 DEF Accessed, LockTypes
    <2>4. \A s \in Tasks \ {t} : acc'[s] = acc[s]
      BY <1>2 DEF AlreadyLocked, RelockWrite, LockRead, LockWrite, LockSkipped, PushAcc, LockTypes
    <2> QED BY <2>1, <2>2, <2>3, <2>4 DEF Still
  <1>3. CASE \/ KernelBegin(t) \/ KernelEnd(t) \/ MemoryOp(t) \/ Returned(t)
             \/ HandlerGone(t) \/ Decr(t) \/ Exit(t)
    BY <1>3 DEF KernelBegin, KernelEnd, MemoryOp, Returned, HandlerGone, Decr, Exit, Goto, LockTypes, Still
  <1>4. CASE DropLocal(t) \/ DropAcc(t) \/ DropClosure(t) \/ Unlock(t)
    BY <1>4 DEF DropLocal, DropAcc, DropClosure, Unlock, LockTypes, Still
  <1> QED BY <1>1, <1>2, <1>3, <1>4 DEF Step, Locking

\* A command group goes on, or is submitted, or is discounted.
Continues(t) == /\ grp'[t] = grp[t] /\ (Pending(t)' <=> Pending(t))
                /\ pc'[t] = "unborn" <=> pc[t] = "unborn"
                /\ pc'[t] \in Active => pc[t] \in Active
Born(t) == /\ pc[t] = "unborn" /\ pc'[t] \in Active /\ pc'[t] \notin {"alloc", "copyin", "lock"}
           /\ \E g \in Groups : Submit(t, g) /\ grp'[t] = g
Counted(t) == pc[t] = "decr" /\ pc'[t] = "exit" /\ grp'[t] = grp[t]

LEMMA Lives ==
  ASSUME LockTypes, LifeInv, [Next]_vars, NEW t \in Tasks
  PROVE  Continues(t) \/ Born(t) \/ Counted(t)
  <1> USE DEF locks, args, memory
  <1>1. ASSUME Still(t) PROVE Continues(t)
    BY <1>1 DEF Still, Continues, Pending
  <1>2. ASSUME NEW g \in Groups, Submit(t, g) PROVE Born(t)
    BY <1>2 DEF Submit, Goto, LockTypes, Born, Active, Acquiring
  <1>3. ASSUME Step(t), ~Decr(t) PROVE Continues(t)
    <2>1. CASE \/ Lookup(t) \/ Alloc(t) \/ CopyIn(t) \/ UnlockRead(t) \/ KernelBegin(t)
               \/ KernelEnd(t) \/ MemoryOp(t) \/ Returned(t) \/ HandlerGone(t) \/ Exit(t)
      BY <2>1 DEF Lookup, Alloc, CopyIn, UnlockRead, KernelBegin, KernelEnd, MemoryOp, Returned,
                  HandlerGone, Exit, Goto, LockTypes, Continues, Pending, Active, Acquiring
    <2>2. CASE AlreadyLocked(t) \/ RelockWrite(t) \/ LockRead(t) \/ LockWrite(t) \/ LockSkipped(t)
      <3>1. Accessed(t) /\ pc[t] \in Acquiring /\ UNCHANGED <<grp, count, dptr>>
        BY <2>2 DEF AlreadyLocked, RelockWrite, LockRead, LockWrite, LockSkipped, MustLock, Acquiring
      <3> QED BY <3>1, AccessedMoves DEF Continues, Pending, Active, Acquiring
    <2>3. CASE DropLocal(t) \/ DropAcc(t) \/ DropClosure(t) \/ Unlock(t)
      BY <2>3 DEF DropLocal, DropAcc, DropClosure, Unlock, Continues, Pending
    <2> QED BY <1>3, <2>1, <2>2, <2>3 DEF Step, Locking
  <1>4. ASSUME Decr(t) PROVE Counted(t)
    BY <1>4 DEF Decr, Goto, LockTypes, Counted
  <1>5. ASSUME NEW b \in Buffers, DestroyBuffer(b) PROVE Still(t)
    BY <1>5 DEF DestroyBuffer, Still
  <1>6. CASE UNCHANGED vars
    BY <1>1, <1>6 DEF vars, Still
  <1>7. ASSUME NEW s \in Tasks, Step(s) \/ \E g \in Groups : Submit(s, g), s # t PROVE Still(t)
    BY <1>7, OthersStill
  <1> QED BY <1>1, <1>2, <1>3, <1>4, <1>5, <1>6, <1>7 DEF Next

-----------------------------------------------------------------------------
(* Who uses a buffer on a card                                             *)

\* A buffer is warm on a card once its users are discounted, and stays so.
LEMMA WarmGrows ==
  ASSUME LockTypes, LifeInv, Chosen, [Next]_vars, NEW b \in Buffers, NEW d \in Devices
  PROVE  /\ Warm(b, d) => Warm(b, d)'
         /\ Warm(b, d)' /\ ~Warm(b, d) => \E t \in Tasks : Using(t, b, d) /\ ~Pending(t)'
  <1>1. ASSUME Warm(b, d) PROVE Warm(b, d)'
    <2>1. PICK t \in Tasks : ~Pending(t) /\ grp[t] # None /\ grp[t].dev = d /\ b \in Uses(grp[t])
      BY <1>1 DEF Warm
    <2>2. pc[t] # "unborn" /\ pc[t] # "decr"
      BY <2>1 DEF Chosen, Pending
    <2>3. Continues(t)
      BY <2>2, Lives DEF Born, Counted
    <2> QED BY <2>1, <2>3 DEF Warm, Continues
  <1>2. ASSUME Warm(b, d)', ~Warm(b, d) PROVE \E t \in Tasks : Using(t, b, d) /\ ~Pending(t)'
    <2>1. PICK t \in Tasks : ~Pending(t)' /\ grp'[t] # None /\ grp'[t].dev = d /\ b \in Uses(grp'[t])
      BY <1>2 DEF Warm
    <2>2. ~Continues(t)
      BY <1>2, <2>1 DEF Warm, Continues
    <2>3. ~Born(t)
      BY <2>1 DEF Born, Pending, Active, Acquiring
    <2>4. Counted(t)
      BY <2>2, <2>3, Lives
    <2> QED BY <2>1, <2>4 DEF Counted, Using, Pending, Dev
  <1> QED BY <1>1, <1>2

\* Nothing changes for a command group in progress: the one that is discounted
\* would have had to share the buffer with it.
LEMMA WarmStays ==
  ASSUME LockTypes, LifeInv, Chosen, Alone, [Next]_vars, NEW s \in Tasks, NEW b \in Buffers,
         NEW d \in Cards, Using(s, b, d), Pending(s)'
  PROVE  Warm(b, d)' <=> Warm(b, d)
  <1>1. d \in Devices
    BY DEF Cards
  <1>2. ASSUME Warm(b, d)', ~Warm(b, d) PROVE FALSE
    <2>1. PICK t \in Tasks : Using(t, b, d) /\ ~Pending(t)'
      BY <1>1, <1>2, WarmGrows
    <2>2. t # s
      BY <2>1
    <2> QED BY <1>2, <2>1, <2>2 DEF Alone
  <1> QED BY <1>1, <1>2, WarmGrows

LEMMA ChosenStep ==
  ASSUME LockTypes, LifeInv, Chosen, [Next]_vars
  PROVE  Chosen'
  <1> SUFFICES ASSUME NEW t \in Tasks, pc'[t] = "unborn" PROVE grp'[t] = None /\ acc'[t] = <<>>
    BY DEF Chosen
  <1>1. Continues(t)
    BY Lives DEF Born, Counted, Active, Acquiring
  <1>2. pc[t] = "unborn" /\ grp'[t] = None
    BY <1>1 DEF Continues, Chosen
  <1>3. Still(t)
    <2>1. ~Step(t)
      BY <1>2 DEF Step, Locking, Lookup, Alloc, CopyIn, AlreadyLocked, UnlockRead, RelockWrite,
         LockRead, LockWrite, LockSkipped, MustLock, KernelBegin, KernelEnd, MemoryOp, DropLocal,
         Returned, Unlock, DropAcc, HandlerGone, Decr, DropClosure, Exit, Goto
    <2>2. ASSUME NEW g \in Groups, Submit(t, g) PROVE FALSE
      <3>1. pc'[t] \in {"command", "access"}
        BY <2>2 DEF Submit, Goto, LockTypes
      <3> QED BY <3>1
    <2>3. ASSUME NEW b \in Buffers, DestroyBuffer(b) PROVE Still(t)
      BY <2>3 DEF DestroyBuffer, args, Still
    <2>4. CASE UNCHANGED vars
      BY <2>4 DEF vars, args, Still
    <2> QED BY <2>1, <2>2, <2>3, <2>4, OthersStill DEF Next
  <1> QED BY <1>2, <1>3 DEF Still, Chosen

LEMMA AloneStep ==
  ASSUME LockTypes, LifeInv, Chosen, Alone, [CarefulNext]_vars
  PROVE  Alone'
  <1>0. [Next]_vars
    BY CarefulIsNext
  <1> SUFFICES ASSUME NEW b \in Buffers, NEW d \in Cards, NEW s \in Tasks, NEW t \in Tasks,
                      s # t, Using(s, b, d)', Using(t, b, d)', ~Warm(b, d)'
               PROVE  FALSE
    BY DEF Alone
  <1>1. d \in Devices /\ ~Warm(b, d)
    BY <1>0, WarmGrows DEF Cards
  <1>2. ASSUME NEW u \in Tasks, Using(u, b, d)', Born(u) PROVE \A v \in Tasks \ {u} : ~Using(v, b, d)'
    <2>1. PICK g \in Groups : Submit(u, g) /\ grp'[u] = g
      BY <1>2 DEF Born
    <2>2. g.dev = d /\ b \in Uses(g)
      BY <1>2, <2>1 DEF Using, Dev
    <2>3. FirstUseAlone(g)
      <3>1. ~UNCHANGED vars
        BY <1>2 DEF vars, Born, Active, Acquiring
      <3>2. ASSUME NEW v \in Tasks, NEW h \in Groups, Submit(v, h), Waits(h) PROVE Waits(g)
        <4>1. v = u
          BY <1>2, <3>2, OthersStill DEF Still, Born, Active, Acquiring
        <4>2. grp'[v] = h
          BY <3>2 DEF Submit, LockTypes
        <4> QED BY <2>1, <3>2, <4>1, <4>2
      <3>3. ASSUME NEW v \in Tasks, Step(v) PROVE FALSE
        <4>1. v = u
          BY <1>2, <3>3, OthersStill DEF Still, Born, Active, Acquiring
        <4>2. ~Step(u)
          BY <1>2 DEF Born, Step, Locking, Lookup, Alloc, CopyIn, AlreadyLocked, UnlockRead, RelockWrite,
             LockRead, LockWrite, LockSkipped, MustLock, KernelBegin, KernelEnd, MemoryOp, DropLocal,
             Returned, Unlock, DropAcc, HandlerGone, Decr, DropClosure, Exit, Goto
        <4> QED BY <3>3, <4>1, <4>2
      <3>4. ASSUME NEW c \in Buffers, DestroyBuffer(c) PROVE FALSE
        BY <1>2, <3>4 DEF DestroyBuffer, Born, Active, Acquiring
      <3>5. Waits(g)
        BY <3>1, <3>2, <3>3, <3>4 DEF CarefulNext
      <3> QED BY <2>2, <3>5 DEF Waits
    <2>4. \A v \in Tasks : Pending(v) => b \notin Uses(grp[v])
      BY <1>1, <2>2, <2>3 DEF FirstUseAlone
    <2>5. ASSUME NEW v \in Tasks \ {u} PROVE ~Using(v, b, d)'
      <3>1. Still(v)
        BY <2>1, OthersStill
      <3> QED BY <2>4, <3>1 DEF Still, Using, Pending
    <2> QED BY <2>5
  <1>3. ASSUME NEW u \in Tasks, Using(u, b, d)', ~Born(u) PROVE Using(u, b, d)
    <2>1. Continues(u)
      BY <1>0, <1>3, Lives DEF Counted, Using, Pending
    <2> QED BY <1>3, <2>1 DEF Continues, Using, Dev
  <1>4. ~Born(s) /\ ~Born(t)
    BY <1>2
  <1> QED BY <1>1, <1>3, <1>4 DEF Alone

\* From the last accessor on, a command group on a card has its chunks.
LEMMA HasChunks ==
  ASSUME LockTypes, LifeInv, NEW t \in Tasks, pc[t] \in {"command", "running"}, ~OnHost(t)
  PROVE  \A i \in DOMAIN grp[t].acc : map[BufOf(t, i)][Dev(t)] \in Ptrs(BufOf(t, i))
  <1> TAKE i \in DOMAIN grp[t].acc
  <1>1. pc[t] \in Active /\ pc[t] # "unborn"
    BY DEF Active
  <1>2. i \in 1 .. Len(grp[t].acc) /\ Len(grp[t].acc) \in Nat
    BY <1>1, GroupType
  <1>3. AccAlive(t, i) /\ pos[t] = Len(grp[t].acc) + 1
    BY <1>1 DEF LifeInv, Alive
  <1>4. Ready(t, i)
    BY <1>2, <1>3 DEF Ready
  <1> QED BY <1>3, <1>4 DEF AccAlive

LEMMA ServedStep ==
  ASSUME LockTypes, LifeInv, Served, [Next]_vars
  PROVE  Served'
  <1> SUFFICES ASSUME NEW t \in Tasks, Ended(t)', ~OnHost(t)', NEW b \in Uses(grp'[t])
               PROVE  map'[b][Dev(t)'] # None
    BY DEF Served
  <1>1. pc[t] # "unborn" /\ grp'[t] = grp[t] /\ ~Born(t)
    BY Lives DEF Born, Counted, Continues, Ended, Active, Acquiring
  <1>2. PICK i \in DOMAIN grp[t].acc : b = BufOf(t, i)
    BY <1>1 DEF Uses, BufOf
  <1>3. b \in Buffers /\ Dev(t) \in Devices /\ Dev(t)' = Dev(t) /\ ~OnHost(t)
    BY <1>1, <1>2, GroupType DEF Dev, OnHost
  <1>4. map[b][Dev(t)] # None
    <2>1. CASE Ended(t)
      BY <1>1, <1>3, <2>1 DEF Served
    <2>2. CASE pc[t] \in {"command", "running"}
      BY <1>2, <1>3, <2>2, HasChunks, PtrsReal
    <2>3. CASE pc[t] \in Acquiring
      <3>1. pc'[t] \in Active
        <4>1. ASSUME Step(t) PROVE pc'[t] \in Active
          <5>1. CASE Lookup(t) \/ Alloc(t) \/ CopyIn(t) \/ UnlockRead(t)
            BY <5>1 DEF Lookup, Alloc, CopyIn, UnlockRead, Goto, LockTypes, Active, Acquiring
          <5>2. CASE AlreadyLocked(t) \/ RelockWrite(t) \/ LockRead(t) \/ LockWrite(t) \/ LockSkipped(t)
            <6>1. Accessed(t)
              BY <5>2 DEF AlreadyLocked, RelockWrite, LockRead, LockWrite, LockSkipped, MustLock
            <6> QED BY <2>3, <6>1, AccessedMoves DEF Active, Acquiring
          <5> QED BY <2>3, <4>1, <5>1, <5>2 DEF Acquiring, Step, Locking, KernelBegin, KernelEnd, MemoryOp,
                 DropLocal, Returned, Unlock, DropAcc, HandlerGone, Decr, DropClosure, Exit, Goto
        <4>2. ASSUME NEW g \in Groups, Submit(t, g) PROVE FALSE
          BY <1>1, <4>2 DEF Submit, Goto
        <4>3. ASSUME NEW c \in Buffers, DestroyBuffer(c) PROVE pc'[t] = pc[t]
          BY <4>3 DEF DestroyBuffer
        <4>4. CASE UNCHANGED vars
          BY <2>3, <4>4 DEF vars, Active
        <4>5. ASSUME Still(t) PROVE pc'[t] \in Active
          BY <2>3, <4>5 DEF Still, Active
        <4> QED BY <2>3, <4>1, <4>2, <4>3, <4>4, <4>5, OthersStill DEF Next, Active
      <3> QED BY <3>1 DEF Ended
    <2> QED BY <1>1, <2>1, <2>2, <2>3 DEF Ended, Active
  <1> QED BY <1>3, <1>4, PointersStay DEF PointersKept

-----------------------------------------------------------------------------
(* The maps and the chunks                                                 *)

\* An entry is new only when a command group has allocated a chunk.
LEMMA NewEntry ==
  ASSUME LockTypes, LifeInv, [Next]_vars, NEW b \in Buffers, NEW d \in Devices,
         map[b][d] = None, map'[b][d] # None
  PROVE  \E t \in Tasks : Alloc(t) /\ b = Buf(t) /\ d = Dev(t) /\ map'[b][d].ptr = Chunk(t)
  <1> USE DEF locks, args, memory
  <1>1. ASSUME NEW t \in Tasks, Alloc(t)
        PROVE  b = Buf(t) /\ d = Dev(t) /\ map'[b][d].ptr = Chunk(t)
    <2>1. Buf(t) \in Buffers /\ Dev(t) \in Devices
      BY <1>1, AtPos DEF Alloc, Goto, Acquiring
    <2> DEFINE new == [ptr |-> Chunk(t), mode |-> Access(t).mode]
    <2>2. map' = map \/ map' = [map EXCEPT ![Buf(t)][Dev(t)] = new]
      BY <1>1 DEF Alloc
    <2>3. new.ptr = Chunk(t)
      OBVIOUS
    <2> HIDE DEF new
    <2> QED BY <2>1, <2>2, <2>3 DEF LifeInv, LifeTypes
  <1>2. ASSUME NEW t \in Tasks, RelockWrite(t) PROVE FALSE
    <2>1. pc[t] = "upgrade" /\ pc[t] \in Acquiring /\ pc[t] \in Active
      BY <1>2 DEF RelockWrite, Acquiring, Active
    <2>2. /\ pos[t] \in DOMAIN grp[t].acc /\ BufOf(t, pos[t]) = Buf(t)
          /\ Buf(t) \in Buffers /\ Dev(t) \in Devices
      BY <2>1, AtPos
    <2>3. map[Buf(t)][Dev(t)] # None
      <3>1. map[Buf(t)][Dev(t)] \in Ptrs(Buf(t))
        BY <2>1, <2>2 DEF LifeInv, Alive, AccAlive, Ready
      <3> QED BY <2>2, <3>1, PtrsReal
    <2>4. b # Buf(t) \/ d # Dev(t)
      BY <2>3
    <2> DEFINE new == [map[Buf(t)][Dev(t)] EXCEPT !.mode = Access(t).mode]
    <2>5. map' = [map EXCEPT ![Buf(t)][Dev(t)] = new]
      BY <1>2 DEF RelockWrite
    <2> HIDE DEF new
    <2>6. map'[b][d] = map[b][d]
      BY <2>2, <2>4, <2>5 DEF LifeInv, LifeTypes
    <2> QED BY <2>6
  <1>3. ASSUME Next PROVE map' = map \/ \E t \in Tasks : Alloc(t) \/ RelockWrite(t)
    BY <1>3 DEF Next, Step, Locking, Submit, Lookup, CopyIn, AlreadyLocked, UnlockRead, LockRead,
       LockWrite, LockSkipped, KernelBegin, KernelEnd, MemoryOp, DropLocal, Returned, Unlock,
       DropAcc, HandlerGone, Decr, DropClosure, Exit, DestroyBuffer, Release
  <1>4. CASE UNCHANGED vars
    BY <1>4 DEF vars
  <1> QED BY <1>1, <1>2, <1>3, <1>4

LEMMA OwnedStep ==
  ASSUME LockTypes, LifeInv, Chosen, Alone, Owned, \A t \in Tasks : Making(t), [Next]_vars
  PROVE  Owned'
  <1> SUFFICES ASSUME NEW b \in Buffers, NEW d \in Devices, map'[b][d] # None,
                      NEW u, u = map'[b][d].ptr[2]
               PROVE  /\ u \in Tasks /\ d \in Cards
                      /\ pc'[u] # "unborn" /\ Dev(u)' = d /\ b \in Uses(grp'[u])
                      /\ Pending(u)' => ~Warm(b, d)'
    BY DEF Owned, Allocator, Pending, Dev
  <1>1. /\ u \in Tasks /\ d \in Cards /\ pc[u] # "unborn" /\ Dev(u) = d /\ b \in Uses(grp[u])
        /\ Pending(u) => ~Warm(b, d)
    <2>1. CASE map[b][d] # None
      <3>1. u = Allocator(b, d)
        BY <2>1, PointersStay DEF PointersKept, Allocator
      <3> QED BY <2>1, <3>1 DEF Owned
    <2>2. CASE map[b][d] = None
      <3>1. PICK t \in Tasks : Alloc(t) /\ b = Buf(t) /\ d = Dev(t) /\ map'[b][d].ptr = Chunk(t)
        BY <2>2, NewEntry
      <3>2. u = t
        BY <3>1 DEF Chunk
      <3>3. pc[t] = "alloc" /\ pc[t] \in Acquiring
        BY <3>1 DEF Alloc, Goto, Acquiring
      <3>4. ~OnHost(t) /\ count[t] = 0
        BY <3>3 DEF Making
      <3>5. ~Warm(b, d) /\ d \in Cards
        BY <3>1, <3>3, <3>4 DEF Making, Cards, OnHost
      <3> QED BY <3>1, <3>2, <3>3, <3>5, BufInUse
    <2> QED BY <2>1, <2>2
  <1>2. Continues(u) \/ Counted(u)
    BY <1>1, Lives DEF Born
  <1>3. pc'[u] # "unborn" /\ Dev(u)' = d /\ b \in Uses(grp'[u])
    BY <1>1, <1>2 DEF Continues, Counted, Dev
  <1>4. ASSUME Pending(u)' PROVE ~Warm(b, d)'
    <2>1. Pending(u)
      BY <1>2, <1>4 DEF Continues, Counted, Pending
    <2>2. Using(u, b, d)
      BY <1>1, <2>1 DEF Using
    <2> QED BY <1>1, <1>4, <2>1, <2>2, WarmStays
  <1> QED BY <1>1, <1>3, <1>4

\* A container that goes takes the chunks in its map with it; no other chunk
\* goes, and new ones are those allocated.
LEMMA ChunkSteps ==
  ASSUME LockTypes, LifeInv, [Next]_vars
  PROVE  /\ \A c \in chunks' : c \in chunks \/ \E t \in Tasks : Alloc(t) /\ c = Chunk(t)
         /\ \A b \in Buffers : refs[b] # {} /\ refs'[b] = {} =>
              \A d \in Devices : map[b][d] # None => map[b][d].ptr \notin chunks'
  <1> USE DEF locks, args, memory
  <1>1. ASSUME NEW b \in Buffers, NEW h, Release(b, h)
        PROVE  /\ chunks' \subseteq chunks
               /\ \A c \in Buffers : refs[c] # {} /\ refs'[c] = {} =>
                    \A d \in Devices : map[c][d] # None => map[c][d].ptr \notin chunks'
    <2>1. /\ refs' = [refs EXCEPT ![b] = refs[b] \ {h}] /\ h \in refs[b]
          /\ IF refs[b] = {h} THEN Destroy(b) ELSE chunks' = chunks
      BY <1>1 DEF Release
    <2>2. \A c \in Buffers : refs'[c] = IF c = b THEN refs[c] \ {h} ELSE refs[c]
      BY <2>1 DEF LifeInv, LifeTypes
    <2>3. Destroy(b) => chunks' = chunks \ {e.ptr : e \in {map[b][d] : d \in {x \in Devices : map[b][x] # None}}}
      BY DEF Destroy
    <2>4. ASSUME NEW c \in Buffers, refs[c] # {}, refs'[c] = {}, NEW d \in Devices, map[c][d] # None
          PROVE  map[c][d].ptr \notin chunks'
      <3>1. c = b /\ refs[b] = {h}
        BY <2>1, <2>2, <2>4
      <3>2. map[c][d] \in {map[b][x] : x \in {y \in Devices : map[b][y] # None}}
        BY <2>4, <3>1
      <3> QED BY <2>1, <2>3, <3>1, <3>2
    <2> QED BY <2>1, <2>3, <2>4
  <1>2. ASSUME NEW t \in Tasks, DropLocal(t) \/ DropAcc(t) \/ DropClosure(t)
        PROVE  \E b \in Buffers : \E h \in Holders : Release(b, h)
    BY <1>2 DEF DropLocal, DropAcc, DropClosure, Locals, AccRefs, Captured, Holders
  <1>3. ASSUME NEW t \in Tasks, Alloc(t)
        PROVE  refs' = refs /\ chunks' = chunks \cup {Chunk(t)}
    BY <1>3 DEF Alloc
  <1>4. ASSUME NEW t \in Tasks,
               Lookup(t) \/ LockRead(t) \/ LockWrite(t) \/ \E g \in Groups : Submit(t, g)
        PROVE  chunks' = chunks /\ \A b \in Buffers : refs[b] \subseteq refs'[b]
    <2>1. CASE \E g \in Groups : Submit(t, g)
      BY <2>1 DEF Submit
    <2>2. CASE Lookup(t) \/ LockRead(t) \/ LockWrite(t)
      <3>1. PICK k \in {"local", "acc"} : refs' = refs \/ refs' = [refs EXCEPT ![Buf(t)] = @ \cup {<<k, t>>}]
        BY <2>2 DEF Lookup, LockRead, LockWrite, PushAcc
      <3>2. \A b \in Buffers : refs[b] \subseteq refs'[b]
        BY <3>1 DEF LifeInv, LifeTypes
      <3> QED BY <2>2, <3>2 DEF Lookup, LockRead, LockWrite
    <2> QED BY <1>4, <2>1, <2>2
  <1>5. ASSUME NEW t \in Tasks,
               \/ CopyIn(t) \/ AlreadyLocked(t) \/ UnlockRead(t) \/ RelockWrite(t) \/ LockSkipped(t)
               \/ KernelBegin(t) \/ KernelEnd(t) \/ MemoryOp(t) \/ Returned(t) \/ Unlock(t)
               \/ HandlerGone(t) \/ Decr(t) \/ Exit(t)
        PROVE  chunks' = chunks /\ refs' = refs
    BY <1>5 DEF CopyIn, AlreadyLocked, UnlockRead, RelockWrite, LockSkipped, KernelBegin, KernelEnd,
                MemoryOp, Returned, Unlock, HandlerGone, Decr, Exit
  <1>6. CASE UNCHANGED vars
    BY <1>6 DEF vars
  <1>7. ASSUME NEW b \in Buffers, DestroyBuffer(b) PROVE Release(b, User)
    BY <1>7 DEF DestroyBuffer
  <1>8. ASSUME NEW t \in Tasks, Step(t)
        PROVE  \/ DropLocal(t) \/ DropAcc(t) \/ DropClosure(t) \/ Alloc(t)
               \/ Lookup(t) \/ LockRead(t) \/ LockWrite(t)
               \/ CopyIn(t) \/ AlreadyLocked(t) \/ UnlockRead(t) \/ RelockWrite(t) \/ LockSkipped(t)
               \/ KernelBegin(t) \/ KernelEnd(t) \/ MemoryOp(t) \/ Returned(t) \/ Unlock(t)
               \/ HandlerGone(t) \/ Decr(t) \/ Exit(t)
    BY <1>8 DEF Step, Locking
  <1>9. CASE \E t \in Tasks : Step(t)
    BY <1>1, <1>2, <1>3, <1>4, <1>5, <1>8, <1>9
  <1>10. CASE \E t \in Tasks, g \in Groups : Submit(t, g)
    BY <1>4, <1>10
  <1> QED BY <1>1, <1>6, <1>7, <1>9, <1>10 DEF Next

\* The chunk that is allocated is entered in the map.
LEMMA AllocMaps ==
  ASSUME LockTypes, LifeInv, NEW t \in Tasks, Making(t), Alloc(t)
  PROVE  map'[Buf(t)][Dev(t)] # None /\ map'[Buf(t)][Dev(t)].ptr = Chunk(t)
  <1> DEFINE new == [ptr |-> Chunk(t), mode |-> Access(t).mode]
  <1>1. pc[t] = "alloc" /\ pc[t] \in Acquiring
    BY DEF Alloc, Goto, Acquiring
  <1>2. Buf(t) \in Buffers /\ Dev(t) \in Devices /\ Access(t).mode \in Modes
    BY <1>1, AtPos
  <1>3. map' = [map EXCEPT ![Buf(t)][Dev(t)] = new]
    BY <1>1 DEF Alloc, Making
  <1>4. new # None
    <2>1. new \in Ptrs(Buf(t))
      BY <1>2 DEF Ptrs, Chunk
    <2> QED BY <1>2, <2>1, PtrsReal
  <1>5. new.ptr = Chunk(t)
    OBVIOUS
  <1> HIDE DEF new
  <1> QED BY <1>2, <1>3, <1>4, <1>5 DEF LifeInv, LifeTypes

LEMMA AllMappedStep ==
  ASSUME LockTypes, LifeInv, AllMapped, \A t \in Tasks : Making(t), [Next]_vars
  PROVE  AllMapped'
  <1> SUFFICES ASSUME NEW c \in chunks'
               PROVE  /\ c \in Buffers \X Tasks /\ refs'[c[1]] # {}
                      /\ \E d \in Devices : map'[c[1]][d] # None /\ map'[c[1]][d].ptr = c
    BY DEF AllMapped
  <1>1. CASE c \in chunks
    <2>1. PICK d \in Devices : map[c[1]][d] # None /\ map[c[1]][d].ptr = c
      BY <1>1 DEF AllMapped
    <2>2. c \in Buffers \X Tasks /\ c[1] \in Buffers /\ refs[c[1]] # {}
      BY <1>1 DEF AllMapped
    <2>3. refs'[c[1]] # {}
      BY <2>1, <2>2, ChunkSteps
    <2> QED BY <2>1, <2>2, <2>3, PointersStay DEF PointersKept
  <1>2. CASE c \notin chunks
    <2>1. PICK t \in Tasks : Alloc(t) /\ c = Chunk(t)
      BY <1>2, ChunkSteps
    <2>2. pc[t] = "alloc" /\ pc[t] \in Acquiring /\ pc[t] \in Active
      BY <2>1 DEF Alloc, Goto, Acquiring, Active
    <2>3. /\ pos[t] \in DOMAIN grp[t].acc /\ BufOf(t, pos[t]) = Buf(t)
          /\ Buf(t) \in Buffers /\ Dev(t) \in Devices
      BY <2>2, AtPos
    <2>4. refs'[Buf(t)] # {}
      <3>1. refs[Buf(t)] # {}
        BY <2>2, <2>3 DEF LifeInv, Alive, AccAlive
      <3> QED BY <2>1, <3>1 DEF Alloc
    <2>5. map'[Buf(t)][Dev(t)] # None /\ map'[Buf(t)][Dev(t)].ptr = Chunk(t)
      BY <2>1, AllocMaps
    <2> QED BY <2>1, <2>3, <2>4, <2>5 DEF Chunk
  <1> QED BY <1>1, <1>2

-----------------------------------------------------------------------------
(* What a command group knows of its accessors                             *)

\* The buffer being accessed, before and after a step that stays there.
LEMMA SameAccess ==
  ASSUME NEW t, grp'[t] = grp[t], pos'[t] = pos[t]
  PROVE  Buf(t)' = Buf(t) /\ Dev(t)' = Dev(t) /\ (OnHost(t)' <=> OnHost(t)) /\ Chunk(t)' = Chunk(t)
  BY DEF Buf, Access, Dev, OnHost, Chunk

LEMMA PointedKept ==
  ASSUME LockTypes, LifeInv, [Next]_vars, NEW t \in Tasks, Pointed(t),
         grp'[t] = grp[t], dptr'[t] = dptr[t], pc'[t] \in Active => pc[t] \in Active
  PROVE  Pointed(t)'
  <1> SUFFICES ASSUME pc[t] \in Active, NEW i \in DOMAIN grp[t].acc, dptr[t][i] # None
               PROVE  /\ ~OnHost(t)' /\ map'[BufOf(t, i)][Dev(t)] # None
                      /\ dptr[t][i] = map'[BufOf(t, i)][Dev(t)].ptr
    BY DEF Pointed, BufOf, Dev
  <1>1. BufOf(t, i) \in Buffers /\ Dev(t) \in Devices
    BY GroupType DEF Active, Acquiring
  <1>2. /\ ~OnHost(t) /\ map[BufOf(t, i)][Dev(t)] # None
        /\ dptr[t][i] = map[BufOf(t, i)][Dev(t)].ptr
    BY DEF Pointed
  <1> QED BY <1>1, <1>2, PointersStay DEF PointersKept, OnHost, Dev

\* The pointer found or made is stored in device_ptr.
LEMMA PointerSet ==
  ASSUME LockTypes, LifeInv, [Next]_vars, NEW t \in Tasks, Pointed(t), pc[t] \in Acquiring,
         ~OnHost(t), grp'[t] = grp[t], NEW p, dptr' = [dptr EXCEPT ![t][pos[t]] = p],
         map'[Buf(t)][Dev(t)] # None, map'[Buf(t)][Dev(t)].ptr = p
  PROVE  Pointed(t)'
  <1>0. pc[t] \in Active /\ pc[t] # "unborn" /\ OnHost(t)' = OnHost(t)
    BY DEF Active, Acquiring, OnHost, Dev
  <1> SUFFICES ASSUME NEW i \in DOMAIN grp[t].acc, dptr'[t][i] # None
               PROVE  /\ map'[BufOf(t, i)][Dev(t)] # None
                      /\ dptr'[t][i] = map'[BufOf(t, i)][Dev(t)].ptr
    BY <1>0 DEF Pointed, BufOf, Dev
  <1>1. BufOf(t, i) \in Buffers /\ Dev(t) \in Devices
    BY <1>0, GroupType
  <1>2. DOMAIN dptr[t] = DOMAIN grp[t].acc /\ pos[t] \in DOMAIN grp[t].acc /\ BufOf(t, pos[t]) = Buf(t)
    BY <1>0, AtPos DEF LifeInv, Alive
  <1>3. dptr'[t][i] = IF i = pos[t] THEN p ELSE dptr[t][i]
    <2>1. PICK S \in SUBSET Nat : dptr[t] \in [S -> Locs \cup {None}]
      BY DEF LifeInv, LifeTypes
    <2>2. dptr'[t] = [dptr[t] EXCEPT ![pos[t]] = p]
      BY DEF LifeInv, LifeTypes
    <2> QED BY <1>2, <2>1, <2>2
  <1>4. CASE i = pos[t]
    BY <1>2, <1>3, <1>4
  <1>5. CASE i # pos[t]
    <2>1. /\ map[BufOf(t, i)][Dev(t)] # None
          /\ dptr[t][i] = map[BufOf(t, i)][Dev(t)].ptr
      BY <1>0, <1>3, <1>5 DEF Pointed
    <2> QED BY <1>1, <1>3, <1>5, <2>1, PointersStay DEF PointersKept
  <1> QED BY <1>4, <1>5

\* No entry, no user that has been waited for.
LEMMA NewToTheCard ==
  ASSUME LockTypes, Chosen, Served, NEW b \in Buffers, NEW d \in Cards, map[b][d] = None
  PROVE  ~Warm(b, d)
  <1> SUFFICES ASSUME NEW t \in Tasks, ~Pending(t), grp[t] # None, grp[t].dev = d, b \in Uses(grp[t])
               PROVE  FALSE
    BY DEF Warm
  <1>1. Ended(t) /\ ~OnHost(t) /\ Dev(t) = d
    BY DEF Chosen, Pending, Ended, OnHost, Dev, Cards, Active, Acquiring
  <1> QED BY <1>1 DEF Served

\* While a command group accesses a buffer of a card, it stays new or warm.
LEMMA AccessWarm ==
  ASSUME LockTypes, LifeInv, Chosen, Alone, [Next]_vars, NEW t \in Tasks, pc[t] \in Active,
         ~OnHost(t), pc'[t] \in Active, NEW b \in Uses(grp[t]), NEW d, d = Dev(t)
  PROVE  Warm(b, d)' <=> Warm(b, d)
  <1>1. b \in Buffers /\ d \in Cards /\ Using(t, b, d) /\ Pending(t)'
    BY GroupType DEF Active, Acquiring, Cards, OnHost, Using, Uses, BufOf, Pending
  <1> QED BY <1>1, WarmStays

LEMMA MakingKept ==
  ASSUME LockTypes, LifeInv, Chosen, Alone, \A s \in Tasks : Making(s), [Next]_vars,
         NEW t \in Tasks, Still(t)
  PROVE  Making(t)'
  <1> SUFFICES ASSUME pc[t] \in {"alloc", "copyin", "lock"} PROVE Making(t)'
    BY DEF Making, Still
  <1>1. pc[t] \in Acquiring /\ pc[t] \in Active /\ pc'[t] \in Active
    BY DEF Still, Active, Acquiring
  <1>2. PICK b \in Buffers, d \in Devices : b = Buf(t) /\ d = Dev(t)
    BY <1>1, AtPos
  <1>3. Buf(t)' = b /\ Dev(t)' = d /\ (OnHost(t)' <=> OnHost(t)) /\ Chunk(t)' = Chunk(t)
    BY <1>2, SameAccess DEF Still
  <1>4. b \in Uses(grp[t])
    BY <1>1, <1>2, BufInUse
  <1>5. ASSUME pc[t] = "alloc" PROVE map'[b][d] = None
    <2> SUFFICES ASSUME map'[b][d] # None PROVE FALSE
      OBVIOUS
    <2>1. map[b][d] = None /\ ~OnHost(t) /\ count[t] = 0 /\ ~Warm(b, d)
      BY <1>2, <1>5 DEF Making
    <2>2. PICK s \in Tasks : Alloc(s) /\ b = Buf(s) /\ d = Dev(s)
      BY <2>1, NewEntry
    <2>3. s # t
      BY <1>5, <2>2 DEF Alloc, Goto, LockTypes, Still
    <2>4. pc[s] = "alloc" /\ pc[s] \in Acquiring
      BY <2>2 DEF Alloc, Goto, Acquiring
    <2>5. Using(s, b, d) /\ Using(t, b, d) /\ d \in Cards
      BY <1>1, <1>2, <1>4, <2>1, <2>2, <2>4, BufInUse DEF Using, Pending, Active, Acquiring, Cards, OnHost
    <2> QED BY <2>1, <2>3, <2>5 DEF Alone
  <1>6. ASSUME pc[t] = "copyin" PROVE map'[b][d] # None /\ map'[b][d].ptr = Chunk(t)
    BY <1>2, <1>6, PointersStay DEF PointersKept, Making
  <1>7. ASSUME ~OnHost(t), count[t] = 0 PROVE ~Warm(b, d)'
    <2>1. ~Warm(b, d)
      BY <1>2, <1>7 DEF Making
    <2> QED BY <1>1, <1>2, <1>4, <1>7, <2>1, AccessWarm
  <1>8. Warm(Buf(t), Dev(t))' <=> Warm(b, d)'
    BY <1>3 DEF Warm, Pending
  <1> QED BY <1>2, <1>3, <1>5, <1>6, <1>7, <1>8 DEF Making, Still

LEMMA MakingOwn ==
  ASSUME LockTypes, LifeInv, Chosen, Alone, Served, \A s \in Tasks : Making(s), [Next]_vars,
         NEW t \in Tasks, Step(t) \/ \E g \in Groups : Submit(t, g)
  PROVE  Making(t)'
  <1> USE DEF locks, args, memory
  <1>1. CASE Lookup(t) \/ Alloc(t) \/ CopyIn(t)
    <2>1. pc[t] \in Acquiring /\ pc[t] \in Active /\ pc'[t] \in Active
          /\ UNCHANGED <<grp, pos>>
      BY <1>1 DEF Lookup, Alloc, CopyIn, Goto, LockTypes, Active, Acquiring
    <2>2. PICK b \in Buffers, d \in Devices : b = Buf(t) /\ d = Dev(t)
      BY <2>1, AtPos
    <2>3. Buf(t)' = b /\ Dev(t)' = d /\ (OnHost(t)' <=> OnHost(t)) /\ Chunk(t)' = Chunk(t)
      BY <2>1, <2>2, SameAccess
    <2>4. Warm(Buf(t), Dev(t))' <=> Warm(b, d)'
      BY <2>3 DEF Warm, Pending
    <2>5. b \in Uses(grp[t])
      BY <2>1, <2>2, BufInUse
    <2>6. ASSUME ~OnHost(t) PROVE Warm(b, d)' <=> Warm(b, d)
      BY <2>1, <2>2, <2>5, <2>6, AccessWarm
    <2>7. CASE Lookup(t)
      <3>1. /\ map' = map
            /\ count'[t] = IF OnHost(t) \/ map[b][d] = None THEN 0 ELSE 1
            /\ pc'[t] = IF OnHost(t) \/ map[b][d] # None THEN "lock" ELSE "alloc"
        BY <2>2, <2>7 DEF Lookup, Goto, LockTypes, LifeInv, LifeTypes
      <3>2. ~OnHost(t) /\ map[b][d] = None => ~Warm(b, d)
        BY <2>2, NewToTheCard DEF Cards, OnHost
      <3> QED BY <2>2, <2>3, <2>4, <2>6, <3>1, <3>2 DEF Making
    <2>8. CASE Alloc(t)
      <3>1. pc[t] = "alloc" /\ pc'[t] \in {"copyin", "lock"} /\ count' = count
        BY <2>8 DEF Alloc, Goto, LockTypes
      <3>2. ~OnHost(t) /\ count[t] = 0 /\ ~Warm(b, d)
        BY <2>2, <3>1 DEF Making
      <3>3. map'[b][d] # None /\ map'[b][d].ptr = Chunk(t)
        BY <2>2, <2>8, AllocMaps
      <3> QED BY <2>3, <2>4, <2>6, <3>1, <3>2, <3>3 DEF Making
    <2>9. CASE CopyIn(t)
      <3>1. pc[t] = "copyin" /\ pc'[t] = "lock" /\ count' = count
        BY <2>9 DEF CopyIn, Goto, LockTypes
      <3>2. ~OnHost(t) /\ (count[t] = 0 => ~Warm(b, d))
        BY <2>2, <3>1 DEF Making
      <3> QED BY <2>3, <2>4, <2>6, <3>1, <3>2 DEF Making
    <2> QED BY <1>1, <2>7, <2>8, <2>9
  <1>2. CASE AlreadyLocked(t) \/ RelockWrite(t) \/ LockRead(t) \/ LockWrite(t) \/ LockSkipped(t)
    <2>1. Accessed(t) /\ pc[t] \in Acquiring
      BY <1>2 DEF AlreadyLocked, RelockWrite, LockRead, LockWrite, LockSkipped, MustLock, Acquiring
    <2> QED BY <2>1, AccessedMoves DEF Making
  <1>3. CASE \/ UnlockRead(t) \/ KernelBegin(t) \/ KernelEnd(t) \/ MemoryOp(t) \/ Returned(t)
             \/ HandlerGone(t) \/ Decr(t) \/ Exit(t) \/ \E g \in Groups : Submit(t, g)
    BY <1>3 DEF UnlockRead, KernelBegin, KernelEnd, MemoryOp, Returned, HandlerGone, Decr, Exit,
                Submit, Goto, LockTypes, Making
  <1>4. CASE DropLocal(t) \/ DropAcc(t) \/ DropClosure(t) \/ Unlock(t)
    BY <1>4 DEF DropLocal, DropAcc, DropClosure, Unlock, Making
  <1> QED BY <1>1, <1>2, <1>3, <1>4 DEF Step, Locking

LEMMA PointedOwn ==
  ASSUME LockTypes, LifeInv, \A s \in Tasks : Making(s), [Next]_vars,
         NEW t \in Tasks, Pointed(t), Step(t) \/ \E g \in Groups : Submit(t, g)
  PROVE  Pointed(t)'
  <1> USE DEF locks, args, memory
  <1>1. CASE \E g \in Groups : Submit(t, g)
    <2>1. PICK g \in Groups : Submit(t, g)
      BY <1>1
    <2>2. grp'[t] = g /\ dptr'[t] = [i \in DOMAIN g.acc |-> None]
      BY <2>1 DEF Submit, LockTypes, LifeInv, LifeTypes
    <2> QED BY <2>2 DEF Pointed
  <1>2. CASE Lookup(t)
    <2>1. pc[t] \in Acquiring /\ pc[t] \in Active /\ UNCHANGED <<grp, map>>
      BY <1>2 DEF Lookup, Goto, Active, Acquiring
    <2>2. CASE dptr' = dptr
      BY <2>1, <2>2, PointedKept
    <2>3. CASE dptr' # dptr
      <3>1. ~OnHost(t) /\ map[Buf(t)][Dev(t)] # None
            /\ dptr' = [dptr EXCEPT ![t][pos[t]] = map[Buf(t)][Dev(t)].ptr]
        BY <1>2, <2>3 DEF Lookup
      <3>2. map'[Buf(t)][Dev(t)] = map[Buf(t)][Dev(t)]
        BY <2>1
      <3> QED BY <2>1, <3>1, <3>2, PointerSet
    <2> QED BY <2>2, <2>3
  <1>3. CASE Alloc(t)
    <2>1. pc[t] \in Acquiring /\ pc[t] \in Active /\ UNCHANGED grp /\ ~OnHost(t)
      BY <1>3 DEF Alloc, Goto, Active, Acquiring, Making
    <2>2. CASE dptr' = dptr
      BY <2>1, <2>2, PointedKept
    <2>3. CASE dptr' # dptr
      <3>1. dptr' = [dptr EXCEPT ![t][pos[t]] = Chunk(t)]
        BY <1>3, <2>3 DEF Alloc
      <3> QED BY <1>3, <2>1, <3>1, AllocMaps, PointerSet
    <2> QED BY <2>2, <2>3
  <1>4. ASSUME dptr' = dptr, ~Lookup(t), ~Alloc(t), Step(t) PROVE Pointed(t)'
    <2>1. ~Born(t)
      BY <1>4 DEF Born, Step, Locking, Lookup, Alloc, CopyIn, AlreadyLocked, UnlockRead, RelockWrite,
         LockRead, LockWrite, LockSkipped, MustLock, KernelBegin, KernelEnd, MemoryOp, DropLocal,
         Returned, Unlock, DropAcc, HandlerGone, Decr, DropClosure, Exit, Goto
    <2>2. grp'[t] = grp[t] /\ (pc'[t] \in Active => pc[t] \in Active)
      BY <2>1, Lives DEF Continues, Counted, Active, Acquiring
    <2> QED BY <1>4, <2>2, PointedKept
  <1>5. Step(t) => Lookup(t) \/ Alloc(t) \/ dptr' = dptr
    BY DEF Step, Locking, CopyIn, AlreadyLocked, UnlockRead, RelockWrite,
       LockRead, LockWrite, LockSkipped, MustLock, KernelBegin, KernelEnd, MemoryOp, DropLocal,
       Returned, Unlock, DropAcc, HandlerGone, Decr, DropClosure, Exit
  <1> QED BY <1>1, <1>2, <1>3, <1>4, <1>5

-----------------------------------------------------------------------------
(* What a command group has locked                                         *)

LEMMA LockedKept ==
  ASSUME NEW t, grp'[t] = grp[t], acc'[t] = acc[t], NEW i
  PROVE  Locked(t, i)' <=> Locked(t, i)
  <1>1. \A b : Entry(t, b)' = Entry(t, b)
    BY DEF Entry
  <1>2. \A b : HasWrite(t, b)' <=> HasWrite(t, b)
    BY <1>1 DEF HasWrite
  <1>3. BufOf(t, i)' = BufOf(t, i)
    BY DEF BufOf
  <1>4. PICK b : b = BufOf(t, i)
    OBVIOUS
  <1> QED BY <1>1, <1>2, <1>3, <1>4 DEF Locked, HasWrite, Entry, BufOf

LEMMA GuardedKept ==
  ASSUME LockTypes, LifeInv, Chosen, Alone, [Next]_vars, NEW t \in Tasks, Guarded(t),
         grp'[t] = grp[t], pos'[t] = pos[t], again'[t] = again[t], acc'[t] = acc[t],
         pc'[t] \in Active => pc[t] \in Active
  PROVE  Guarded(t)'
  <1> SUFFICES ASSUME pc'[t] \in Active PROVE Guarded(t)'
    BY DEF Guarded
  <1>1. pc[t] \in Active /\ pc[t] # "unborn" /\ (OnHost(t)' <=> OnHost(t))
    BY DEF Active, Acquiring, OnHost, Dev
  <1>2. ASSUME NEW i \in DOMAIN grp[t].acc, Passed(t, i)' PROVE Secured(t, i)'
    <2>1. Secured(t, i)
      BY <1>1, <1>2 DEF Guarded, Passed
    <2>2. CASE OnHost(t)
      BY <1>1, <2>1, <2>2, LockedKept DEF Secured
    <2>3. CASE ~OnHost(t)
      <3>1. PICK b, d : b = BufOf(t, i) /\ d = Dev(t)
        OBVIOUS
      <3>2. Warm(b, d)' <=> Warm(b, d)
        BY <1>1, <2>3, <3>1, AccessWarm DEF Uses, BufOf
      <3>3. BufOf(t, i)' = b /\ Dev(t)' = d
        BY <3>1 DEF BufOf, Dev
      <3>4. Warm(BufOf(t, i), Dev(t))' <=> Warm(b, d)'
        BY <3>3 DEF Warm, Pending
      <3> QED BY <1>1, <2>1, <2>3, <3>1, <3>2, <3>4, LockedKept DEF Secured
    <2> QED BY <2>2, <2>3
  <1>3. OnHost(t)' /\ OneEach /\ acc'[t] # <<>> => \A i \in DOMAIN grp[t].acc : Locked(t, i)'
    BY <1>1, LockedKept DEF Guarded
  <1> QED BY <1>2, <1>3 DEF Guarded

\* A locking step leaves what is locked locked, and the buffer of the accessor
\* too, unless it skips the lock.
LEMMA LockedMore ==
  ASSUME LockTypes, LockInv, NEW t \in Tasks,
         AlreadyLocked(t) \/ RelockWrite(t) \/ LockRead(t) \/ LockWrite(t) \/ LockSkipped(t)
  PROVE  \A i \in DOMAIN grp[t].acc :
           Locked(t, i) \/ (i = pos[t] /\ ~LockSkipped(t)) => Locked(t, i)'
  <1> TAKE i \in DOMAIN grp[t].acc
  <1>1. pc[t] \in Acquiring /\ pc[t] # "unborn" /\ grp' = grp
    BY DEF AlreadyLocked, RelockWrite, LockRead, LockWrite, LockSkipped, MustLock, Acquiring
  <1>2. PICK b \in Buffers : b = BufOf(t, i)
    BY <1>1, GroupType
  <1>3. BufOf(t, i)' = b /\ grp'[t].acc[i].mode = grp[t].acc[i].mode
    BY <1>1, <1>2 DEF BufOf
  <1>4. i = pos[t] => b = Buf(t) /\ grp[t].acc[i].mode = Access(t).mode
    BY <1>2 DEF BufOf, Buf, Access
  <1>5. CASE AlreadyLocked(t) \/ LockSkipped(t)
    <2>1. acc' = acc
      BY <1>5 DEF AlreadyLocked, LockSkipped
    <2>2. ASSUME i = pos[t], AlreadyLocked(t) PROVE Locked(t, i)
      BY <1>2, <1>4, <2>2 DEF AlreadyLocked, Found, Locked, HasWrite
    <2> QED BY <1>1, <1>5, <2>1, <2>2, LockedKept
  <1>6. CASE LockRead(t) \/ LockWrite(t)
    <2>1. MustLock(t) /\ PushAcc(t)
      BY <1>6 DEF LockRead, LockWrite
    <2>2. /\ Entry(t, b) \subseteq Entry(t, b)'
          /\ \A j \in Entry(t, b) : acc'[t][j] = acc[t][j]
          /\ b = Buf(t) => Len(acc[t]) + 1 \in Entry(t, b)' /\ acc'[t][Len(acc[t]) + 1].mode = Access(t).mode
      BY <2>1, PushAdds
    <2>3. /\ Entry(t, b) # {} => Entry(t, b)' # {}
          /\ HasWrite(t, b) => HasWrite(t, b)'
          /\ b = Buf(t) => Entry(t, b)' # {} /\ (Access(t).mode # "read" => HasWrite(t, b)')
      BY <2>2 DEF HasWrite
    <2>4. Locked(t, i)' <=> IF grp[t].acc[i].mode = "read" THEN Entry(t, b)' # {} ELSE HasWrite(t, b)'
      BY <1>3 DEF Locked, HasWrite, Entry
    <2>5. Locked(t, i) <=> IF grp[t].acc[i].mode = "read" THEN Entry(t, b) # {} ELSE HasWrite(t, b)
      BY <1>2 DEF Locked
    <2> QED BY <1>4, <2>3, <2>4, <2>5
  <1>7. CASE RelockWrite(t)
    <2>1. /\ pc[t] = "upgrade"
          /\ acc'[t] = [j \in DOMAIN acc[t] |->
                          IF j \in Entry(t, Buf(t)) THEN [acc[t][j] EXCEPT !.mode = Access(t).mode]
                                                    ELSE acc[t][j]]
      BY <1>7 DEF RelockWrite, LockTypes
    <2>2. Access(t).mode # "read" /\ Entry(t, Buf(t)) # {}
      BY <2>1 DEF LockInv, OwnLocks, HasRead
    <2>3. ASSUME NEW j \in DOMAIN acc[t]
          PROVE  /\ acc'[t][j].buf = acc[t][j].buf
                 /\ acc'[t][j].mode = IF j \in Entry(t, Buf(t)) THEN Access(t).mode ELSE acc[t][j].mode
      <3>1. acc[t][j] \in [buf : Buffers, mode : Modes]
        BY Elements DEF LockTypes, AccType
      <3> QED BY <2>1, <3>1
    <2>4. Entry(t, b)' = Entry(t, b)
      BY <2>1, <2>3 DEF Entry
    <2>5. \A j \in Entry(t, b) : acc[t][j].mode # "read" => acc'[t][j].mode # "read"
      BY <2>2, <2>3 DEF Entry
    <2>6. /\ HasWrite(t, b) => HasWrite(t, b)'
          /\ b = Buf(t) => HasWrite(t, b)' /\ Entry(t, b)' # {}
      <3>1. \A j \in Entry(t, Buf(t)) : j \in DOMAIN acc[t]
        BY DEF Entry
      <3> QED BY <2>2, <2>3, <2>4, <2>5, <3>1 DEF HasWrite
    <2>7. Locked(t, i)' <=> IF grp[t].acc[i].mode = "read" THEN Entry(t, b)' # {} ELSE HasWrite(t, b)'
      BY <1>3 DEF Locked, HasWrite, Entry
    <2>8. Locked(t, i) <=> IF grp[t].acc[i].mode = "read" THEN Entry(t, b) # {} ELSE HasWrite(t, b)
      BY <1>2 DEF Locked
    <2> QED BY <1>4, <2>4, <2>6, <2>7, <2>8
  <1> QED BY <1>5, <1>6, <1>7

\* Which accessors are through when alloc_mem_ returns.
LEMMA PassedMore ==
  ASSUME LockTypes, NEW t \in Tasks, pc[t] \in Acquiring, Accessed(t), grp'[t] = grp[t]
  PROVE  \A i \in DOMAIN grp[t].acc : Passed(t, i)' => Passed(t, i) \/ i = pos[t]
  <1>1. pos[t] \in Nat /\ \A i \in DOMAIN grp[t].acc : i \in Nat
    BY AtPos
  <1>2. CASE Access(t).via = "ranged" /\ ~again[t]
    BY <1>1, <1>2 DEF Accessed, Passed
  <1>3. CASE ~(Access(t).via = "ranged" /\ ~again[t])
    <2>1. pos'[t] = pos[t] + 1 /\ again'[t] = FALSE
      BY <1>3 DEF Accessed, LockTypes
    <2> QED BY <1>1, <2>1 DEF Passed
  <1> QED BY <1>2, <1>3

LEMMA GuardedOwn ==
  ASSUME LockTypes, LockInv, LifeInv, Chosen, Alone, \A s \in Tasks : Making(s), [Next]_vars,
         NEW t \in Tasks, Guarded(t), Step(t) \/ \E g \in Groups : Submit(t, g)
  PROVE  Guarded(t)'
  <1> USE DEF locks, args, memory
  <1>1. CASE \E g \in Groups : Submit(t, g)
    <2>1. PICK g \in Groups : Submit(t, g)
      BY <1>1
    <2>2. /\ pc[t] = "unborn" /\ grp'[t] = g /\ pos' = pos /\ again' = again /\ acc' = acc
      BY <2>1 DEF Submit, Goto, LockTypes
    <2>3. pos[t] = 1 /\ ~again[t] /\ acc[t] = <<>>
      BY <2>2 DEF LockTypes, LifeInv, LifeTypes, Chosen
    <2>4. \A i \in DOMAIN g.acc : i \in 1 .. Len(g.acc) /\ Len(g.acc) \in Nat
      BY GroupsAre, Elements
    <2>5. \A i \in DOMAIN g.acc : ~Passed(t, i)'
      BY <2>2, <2>3, <2>4 DEF Passed
    <2> QED BY <2>2, <2>3, <2>5 DEF Guarded
  <1>2. CASE AlreadyLocked(t) \/ RelockWrite(t) \/ LockRead(t) \/ LockWrite(t) \/ LockSkipped(t)
    <2>1. /\ pc[t] \in {"lock", "upgrade"} /\ pc[t] \in Acquiring /\ pc[t] \in Active /\ pc[t] # "unborn"
          /\ Accessed(t) /\ UNCHANGED grp
      BY <1>2 DEF AlreadyLocked, RelockWrite, LockRead, LockWrite, LockSkipped, MustLock, Acquiring, Active
    <2>2. pc'[t] \in Active /\ (OnHost(t)' <=> OnHost(t))
      BY <2>1, AccessedMoves DEF Active, Acquiring, OnHost, Dev
    <2>3. /\ pos[t] \in DOMAIN grp[t].acc /\ BufOf(t, pos[t]) = Buf(t)
          /\ DOMAIN grp[t].acc = 1 .. Len(grp[t].acc) /\ Len(grp[t].acc) \in Nat
      BY <2>1, AtPos, GroupType
    <2>4. ASSUME LockSkipped(t) PROVE pc[t] = "lock" /\ count[t] = 0 /\ acc[t] # <<>> /\ acc' = acc
      BY <2>4 DEF LockSkipped
    <2>5. ASSUME NEW i \in DOMAIN grp[t].acc, Passed(t, i)' PROVE Secured(t, i)'
      <3>1. Passed(t, i) \/ i = pos[t]
        BY <2>1, <2>5, PassedMore
      <3>2. Locked(t, i) \/ (i = pos[t] /\ ~LockSkipped(t)) => Locked(t, i)'
        BY <1>2, LockedMore
      <3>3. CASE OnHost(t)
        <4>1. i = pos[t] /\ LockSkipped(t) /\ OneEach => Locked(t, i)
          BY <2>1, <2>4, <3>3 DEF Guarded
        <4>2. Passed(t, i) /\ OneEach => Locked(t, i)
          BY <2>1, <3>3 DEF Guarded, Secured
        <4> QED BY <2>2, <3>1, <3>2, <3>3, <4>1, <4>2 DEF Secured
      <3>4. CASE ~OnHost(t)
        <4>1. PICK b, d : b = BufOf(t, i) /\ d = Dev(t)
          OBVIOUS
        <4>2. Warm(b, d)' <=> Warm(b, d)
          BY <2>1, <2>2, <3>4, <4>1, AccessWarm DEF Uses, BufOf
        <4>3. BufOf(t, i)' = b /\ Dev(t)' = d
          BY <2>1, <4>1 DEF BufOf, Dev
        <4>4. Warm(BufOf(t, i), Dev(t))' <=> Warm(b, d)'
          BY <4>3 DEF Warm, Pending
        <4>5. i = pos[t] /\ LockSkipped(t) => ~Warm(b, d)
          BY <2>3, <2>4, <3>4, <4>1 DEF Making
        <4>6. Passed(t, i) => (Warm(b, d) => Locked(t, i))
          BY <2>1, <3>4, <4>1 DEF Guarded, Secured
        <4> QED BY <2>2, <3>1, <3>2, <3>4, <4>2, <4>4, <4>5, <4>6 DEF Secured
      <3> QED BY <3>3, <3>4
    <2>6. ASSUME OnHost(t), OneEach, acc'[t] # <<>>, NEW i \in DOMAIN grp[t].acc
          PROVE  Locked(t, i)'
      <3>1. i = pos[t]
        <4>1. grp[t] \in Groups /\ grp[t].dev \in HostDevices
          BY <2>1, <2>6 DEF LockTypes, OnHost, Dev
        <4>2. Len(grp[t].acc) <= 1
          BY <2>6, <4>1 DEF OneEach
        <4> QED BY <2>3, <4>2
      <3>2. LockSkipped(t) => Locked(t, i)
        BY <2>1, <2>4, <2>6 DEF Guarded
      <3> QED BY <1>2, <3>1, <3>2, LockedMore
    <2> QED BY <2>1, <2>2, <2>5, <2>6 DEF Guarded
  <1>3. CASE Lookup(t) \/ Alloc(t) \/ CopyIn(t) \/ UnlockRead(t) \/ KernelBegin(t)
    <2>1. UNCHANGED <<grp, pos, again, acc>> /\ pc[t] \in Active
      BY <1>3 DEF Lookup, Alloc, CopyIn, UnlockRead, KernelBegin, Goto, Active, Acquiring
    <2> QED BY <2>1, GuardedKept
  <1>4. CASE \/ KernelEnd(t) \/ MemoryOp(t) \/ Returned(t) \/ HandlerGone(t) \/ Decr(t) \/ Exit(t)
    BY <1>4 DEF KernelEnd, MemoryOp, Returned, HandlerGone, Decr, Exit, Goto, LockTypes, Guarded,
                Active, Acquiring
  <1>5. CASE DropLocal(t) \/ DropAcc(t) \/ DropClosure(t) \/ Unlock(t)
    BY <1>5 DEF DropLocal, DropAcc, DropClosure, Unlock, Guarded, Active, Acquiring
  <1> QED BY <1>1, <1>2, <1>3, <1>4, <1>5 DEF Step, Locking

-----------------------------------------------------------------------------
(* Invariance                                                              *)

LEMMA WaitInvStep ==
  ASSUME LockTypes, LockInv, LifeInv, WaitInv, [CarefulNext]_vars
  PROVE  WaitInv'
  <1>1. /\ [Next]_vars /\ Chosen /\ Alone /\ Served /\ Owned /\ AllMapped
        /\ \A t \in Tasks : Making(t)
    BY CarefulIsNext DEF WaitInv
  <1>2. Chosen' /\ Alone' /\ Served' /\ Owned' /\ AllMapped'
    BY <1>1, ChosenStep, AloneStep, ServedStep, OwnedStep, AllMappedStep
  <1>3. ASSUME NEW t \in Tasks PROVE Pointed(t)' /\ Making(t)' /\ Guarded(t)'
    <2>1. Pointed(t) /\ Making(t) /\ Guarded(t)
      BY DEF WaitInv
    <2>2. CASE Still(t)
      <3>1. pc'[t] \in Active => pc[t] \in Active
        BY <2>2 DEF Still
      <3> QED BY <1>1, <2>1, <2>2, <3>1, PointedKept, MakingKept, GuardedKept DEF Still
    <2>3. CASE Step(t) \/ \E g \in Groups : Submit(t, g)
      BY <1>1, <2>1, <2>3, PointedOwn, MakingOwn, GuardedOwn
    <2>4. ASSUME NEW s \in Tasks, s # t, Step(s) \/ \E g \in Groups : Submit(s, g) PROVE Still(t)
      BY <2>4, OthersStill
    <2>5. ASSUME NEW b \in Buffers, DestroyBuffer(b) PROVE Still(t)
      BY <2>5 DEF DestroyBuffer, args, Still
    <2>6. CASE UNCHANGED vars
      BY <2>2, <2>6 DEF vars, args, Still
    <2> QED BY <1>1, <2>2, <2>3, <2>4, <2>5, <2>6 DEF Next
  <1> QED BY <1>2, <1>3 DEF WaitInv

LEMMA WaitInvInit == Init => WaitInv
  <1> SUFFICES ASSUME Init PROVE WaitInv
    OBVIOUS
  <1>1. Chosen /\ AllMapped
    BY DEF Init, Chosen, AllMapped
  <1>2. Alone
    BY DEF Init, Alone, Using, Pending
  <1>3. Served
    BY DEF Init, Served, Ended
  <1>4. Owned
    BY DEF Init, Owned
  <1>5. \A t \in Tasks : Pointed(t) /\ Making(t) /\ Guarded(t)
    BY DEF Init, Pointed, Making, Guarded, Active, Acquiring
  <1> QED BY <1>1, <1>2, <1>3, <1>4, <1>5 DEF WaitInv

LEMMA CarefulInvariance == CarefulSpec => [](GroupInv /\ WaitInv)
  <1>1. CarefulSpec => Spec
    <2>1. [CarefulNext]_vars => [Next]_vars
      BY CarefulIsNext
    <2> QED BY <2>1, PTL DEF CarefulSpec, Spec
  <1>2. GroupInv /\ WaitInv /\ [CarefulNext]_vars => WaitInv'
    BY WaitInvStep DEF GroupInv
  <1>3. GroupInv <=> LockTypes /\ LockInv /\ LifeInv /\ MemoryTypes /\ HoldersInUse
    BY DEF GroupInv
  <1> QED BY <1>1, <1>2, <1>3, WaitInvInit, GroupInvariance, PTL DEF CarefulSpec

\* A host program that waits is one of those.
LEMMA WaitingIsCarefulSpec == WaitingSpec => CarefulSpec
  <1>1. [WaitingNext]_vars => [CarefulNext]_vars
    BY WaitingIsCareful
  <1> QED BY <1>1, PTL DEF WaitingSpec, CarefulSpec

\* Every chunk is the one its container's map has, for a host program that
\* waits: a command group that has found no chunk is alone with its buffer, and
\* the insert is its own (handler.hpp:209-237, program.hpp:276-299).
THEOREM NoPrivateChunks == WaitingSpec => []ChunksMapped
  <1>1. WaitInv => ChunksMapped
    BY DEF WaitInv, AllMapped, ChunksMapped
  <1> QED BY <1>1, CarefulInvariance, WaitingIsCarefulSpec, PTL

-----------------------------------------------------------------------------
(* Buffers come back                                                       *)

\* A buffer that the host program has destroyed and whose command groups it
\* has waited for is back in host memory, unless a placeholder accessor in a
\* function object still holds it: nobody else may hold the container,
\* whether the host program waits elsewhere or not
\* (queue.hpp:81-88, accessor.hpp:75-139, buffer.hpp:39).
THEOREM BuffersBack == Spec => []BackAfterWait
  <1>1. LifeInv /\ HoldersInUse => BackAfterWait
    <2> SUFFICES ASSUME LifeInv, HoldersInUse, NEW b \in Buffers, User \notin refs[b],
                        \A t \in Tasks : Pending(t) => b \notin Uses(grp[t]),
                        \A t \in Tasks : pc[t] = "exit" => b \notin Captured(t)
                 PROVE  refs[b] = {}
      BY DEF BackAfterWait
    <2>1. refs[b] \subseteq Holders
      BY DEF LifeInv, LifeTypes
    <2>2. ASSUME NEW t \in Tasks, NEW k \in {"local", "acc", "closure"} PROVE <<k, t>> \notin refs[b]
      BY DEF HoldersInUse, InUse, Pending, Captured, Active, Acquiring
    <2>3. ASSUME NEW h \in refs[b] PROVE FALSE
      <3>1. h \in {"local", "acc", "closure"} \X Tasks
        BY <2>1 DEF Holders
      <3>2. PICK k \in {"local", "acc", "closure"}, t \in Tasks : h = <<k, t>>
        BY <3>1
      <3> QED BY <2>2, <3>2
    <2> QED BY <2>3
  <1> QED BY <1>1, GroupInvariance, PTL

-----------------------------------------------------------------------------
(* Exclusion                                                               *)

\* The command of t has begun, or is about to.
AtCommand(t) == pc[t] \in {"command", "running"}

\* The memory an accessor stands for, by then: host memory of its buffer, or
\* the chunk in the map.
LEMMA LocIs ==
  ASSUME LockTypes, LifeInv, WaitInv, NEW t \in Tasks, AtCommand(t), NEW i \in DOMAIN grp[t].acc
  PROVE  /\ BufOf(t, i) \in Buffers /\ Dev(t) \in Devices
         /\ OnHost(t) => Loc(t, i) = <<BufOf(t, i), Host>>
         /\ ~OnHost(t) => /\ map[BufOf(t, i)][Dev(t)] # None
                          /\ Loc(t, i) = map[BufOf(t, i)][Dev(t)].ptr
                          /\ Loc(t, i) = <<BufOf(t, i), Allocator(BufOf(t, i), Dev(t))>>
  <1>1. pc[t] \in {"command", "running"} /\ pc[t] \in Active /\ pc[t] # "unborn"
    BY DEF AtCommand, Active
  <1>2. BufOf(t, i) \in Buffers /\ Dev(t) \in Devices
    BY <1>1, GroupType
  <1>3. Pointed(t)
    BY DEF WaitInv
  <1>4. CASE OnHost(t)
    <2>1. dptr[t][i] = None
      BY <1>1, <1>3, <1>4 DEF Pointed
    <2> QED BY <1>2, <1>4, <2>1 DEF Loc, BufOf
  <1>5. CASE ~OnHost(t)
    <2>1. map[BufOf(t, i)][Dev(t)] \in Ptrs(BufOf(t, i))
      BY <1>1, <1>5, HasChunks
    <2>2. map[BufOf(t, i)][Dev(t)] # None
      BY <1>2, <2>1, PtrsReal
    <2>3. Loc(t, i) = map[BufOf(t, i)][Dev(t)].ptr
      BY <1>1, <1>3, <1>5 DEF Pointed, Loc, BufOf
    <2>4. map[BufOf(t, i)][Dev(t)].ptr = <<BufOf(t, i), Allocator(BufOf(t, i), Dev(t))>>
      BY <2>1 DEF Ptrs, Allocator
    <2> QED BY <1>2, <1>5, <2>2, <2>3, <2>4
  <1> QED BY <1>4, <1>5

\* At the command, what the command group uses is secured.
LEMMA AllSecured ==
  ASSUME LockTypes, LifeInv, WaitInv, NEW t \in Tasks, AtCommand(t), NEW i \in DOMAIN grp[t].acc
  PROVE  Secured(t, i)
  <1>1. pc[t] \in Active /\ pc[t] # "unborn"
    BY DEF AtCommand, Active
  <1>2. pos[t] = Len(grp[t].acc) + 1 /\ i \in 1 .. Len(grp[t].acc) /\ Len(grp[t].acc) \in Nat
    BY <1>1, GroupType DEF LifeInv, Alive, AtCommand
  <1> QED BY <1>1, <1>2 DEF WaitInv, Guarded, Passed

\* Locks that two command groups have on a buffer are both for reading.
LEMMA LocksShared ==
  ASSUME LockTypes, LockInv, NEW s \in Tasks, NEW t \in Tasks, s # t,
         AtCommand(t), NEW i \in DOMAIN grp[s].acc, NEW j \in DOMAIN grp[t].acc,
         Locked(s, i), Locked(t, j), BufOf(s, i) = BufOf(t, j), BufOf(s, i) \in Buffers
  PROVE  grp[s].acc[i].mode = "read"
  <1> SUFFICES ASSUME grp[s].acc[i].mode # "read" PROVE FALSE
    OBVIOUS
  <1> DEFINE b == BufOf(s, i)
  <1>1. writer[b] = s
    BY DEF Locked, LockInv, OwnLocks
  <1>2. HasWrite(t, b) \/ HasRead(t, b)
    BY DEF Locked, HasRead, HasWrite
  <1>3. CASE HasWrite(t, b)
    BY <1>1, <1>3 DEF LockInv, OwnLocks
  <1>4. CASE HasRead(t, b)
    <2>1. t \in readers[b]
      BY <1>4 DEF LockInv, OwnLocks, Upgrading, AtCommand
    <2> QED BY <1>1, <2>1, NamesDiffer DEF LockInv, LockExclusion
  <1> QED BY <1>2, <1>3, <1>4

\* Two commands that stand for the same memory both read it.
LEMMA CommandsExclude ==
  ASSUME LockTypes, LockInv, LifeInv, WaitInv, OneEach, NEW s \in Tasks, NEW t \in Tasks, s # t,
         AtCommand(s), AtCommand(t), NEW i \in DOMAIN grp[s].acc, NEW j \in DOMAIN grp[t].acc,
         Loc(s, i) = Loc(t, j)
  PROVE  grp[s].acc[i].mode = "read"
  <1> DEFINE b == BufOf(s, i)
  <1>1. Secured(s, i) /\ Secured(t, j)
    BY AllSecured
  <1>2. /\ b \in Buffers /\ BufOf(t, j) \in Buffers /\ Dev(s) \in Devices /\ Dev(t) \in Devices
        /\ ~OnHost(s) => map[b][Dev(s)] # None
        /\ ~OnHost(t) => map[BufOf(t, j)][Dev(t)] # None
    BY LocIs
  <1>3. CASE OnHost(s) /\ OnHost(t)
    <2>1. b = BufOf(t, j)
      BY <1>3, LocIs
    <2> QED BY <1>1, <1>2, <1>3, <2>1, LocksShared DEF Secured
  <1>4. CASE ~OnHost(s) /\ ~OnHost(t)
    <2>1. b = BufOf(t, j) /\ Allocator(b, Dev(s)) = Allocator(BufOf(t, j), Dev(t))
      BY <1>4, LocIs
    <2>2. Dev(s) = Dev(t) /\ Dev(s) \in Cards
      BY <1>2, <1>4, <2>1 DEF WaitInv, Owned
    <2>3. Using(s, b, Dev(s)) /\ Using(t, b, Dev(s))
      BY <2>1, <2>2 DEF Using, Pending, AtCommand, Uses, BufOf
    <2>4. Warm(b, Dev(s))
      BY <1>2, <2>2, <2>3 DEF WaitInv, Alone
    <2>5. Locked(s, i) /\ Locked(t, j)
      BY <1>1, <1>4, <2>1, <2>2, <2>4 DEF Secured
    <2> QED BY <1>2, <2>1, <2>5, LocksShared
  <1>5. ASSUME NEW u \in Tasks, NEW v \in Tasks, AtCommand(u), AtCommand(v), OnHost(u), ~OnHost(v),
               NEW k \in DOMAIN grp[u].acc, NEW l \in DOMAIN grp[v].acc, Loc(u, k) = Loc(v, l)
        PROVE  FALSE
    <2>1. Host = Allocator(BufOf(v, l), Dev(v))
      BY <1>5, LocIs
    <2>2. BufOf(v, l) \in Buffers /\ Dev(v) \in Devices /\ map[BufOf(v, l)][Dev(v)] # None
      BY <1>5, LocIs
    <2>3. Allocator(BufOf(v, l), Dev(v)) \in Tasks
      BY <2>2 DEF WaitInv, Owned
    <2> QED BY <2>1, <2>3, NamesDiffer
  <1> QED BY <1>3, <1>4, <1>5

LEMMA ExclusionFollows ==
  ASSUME OneEach, GroupInv, WaitInv
  PROVE  KernelExclusion
  <1> SUFFICES ASSUME NEW s \in Tasks, NEW t \in Tasks, s # t, pc[s] = "running", pc[t] = "running",
                      NEW j \in DOMAIN grp[t].acc, Loc(t, j) \in Written(grp[s], LocOf(s))
               PROVE  FALSE
    BY DEF KernelExclusion
  <1>1. grp[s].cmd = "kernel"
    BY DEF GroupInv, MemoryTypes
  <1>2. PICK i \in DOMAIN grp[s].acc : Loc(t, j) = Loc(s, i) /\ grp[s].acc[i].mode # "read"
    BY <1>1 DEF Written, LocOf
  <1> QED BY <1>2, CommandsExclude DEF AtCommand, GroupInv

\* While a kernel runs, nobody else writes what it uses or uses what it
\* writes, for a host program that waits: a first user is alone, and later
\* ones find the chunk in the map and lock the buffer (handler.hpp:239-281).
THEOREM KernelsExclude ==
  ASSUME OneEach
  PROVE  WaitingSpec => []KernelExclusion
  <1>1. GroupInv /\ WaitInv => KernelExclusion
    BY ExclusionFollows
  <1> QED BY <1>1, CarefulInvariance, WaitingIsCarefulSpec, PTL

\* A program that uses the host device only need not wait.
LEMMA HostIsCareful ==
  ASSUME HostDevices = Devices
  PROVE  Spec => CarefulSpec
  <1>1. [Next]_vars => [CarefulNext]_vars
    <2>1. \A g \in Groups : Waits(g)
      BY DEF Waits, Cards
    <2> QED BY <2>1 DEF Next, CarefulNext
  <1> QED BY <1>1, PTL DEF Spec, CarefulSpec

\* So do the kernels of a host device, whatever the host program does: it has
\* no chunks, and its one buffer is always locked (handler.hpp:239-281).
THEOREM HostKernelsExclude ==
  ASSUME OneEach, HostDevices = Devices
  PROVE  Spec => []KernelExclusion
  <1>1. GroupInv /\ WaitInv => KernelExclusion
    BY ExclusionFollows
  <1> QED BY <1>1, HostIsCareful, CarefulInvariance, PTL

-----------------------------------------------------------------------------
(* The data in the chunks                                                  *)

\* A buffer used through the queues of two devices has a chunk on each, and
\* nobody carries data from one to the other: a buffer is used on one device,
\* or on host devices, which all work on the host program's own memory.
OneHome ==
  \A g, h \in Groups : Uses(g) \cap Uses(h) # {} =>
    g.dev = h.dev \/ {g.dev, h.dev} \subseteq HostDevices

\* So a buffer has one chunk.
OneChunk ==
  \A b \in Buffers, d, e \in Devices : map[b][d] # None /\ map[b][e] # None => d = e

\* What fill and copy write was opened for writing; the fill, copy and
\* update_host of a host device do nothing, and are left out.
CommandsWrite ==
  /\ \A g \in Groups : g.cmd = "fill" => g.acc[1].mode # "read"
  /\ \A g \in Groups : g.cmd = "copy" => g.acc[2].mode # "read"
HostKernels == \A g \in Groups : g.dev \in HostDevices => g.cmd = "kernel"

\* A chunk is read back with its container.
WrittenBack == \A b \in Buffers, d \in Devices : map[b][d] # None => map[b][d].mode # "read"

\* The first user of a buffer on a card opens it for writing.
FirstWrites ==
  \A t \in Tasks : \A b \in Buffers :
    Pending(t) /\ ~OnHost(t) /\ b \in Uses(grp[t]) /\ ~Warm(b, Dev(t)) => FirstMode(grp[t], b) # "read"

\* Memory that is no chunk yet holds nothing.
Entered(b, t) == \E d \in Devices : map[b][d] # None /\ map[b][d].ptr = <<b, t>>
Blank == \A b \in Buffers, t \in Tasks : ~Entered(b, t) => mem[<<b, t>>] = {}

\* The command group that made a chunk finds the data of the host program in
\* it, unless it does not want them.
Discarded(t, b) ==
  mem[<<b, t>>] = {} /\ \E i \in DOMAIN grp[t].acc : BufOf(t, i) = b /\ Discards(grp[t].acc[i].mode)
Filled(t, b) == \/ pc[t] = "copyin" /\ Buf(t) = b
                \/ mem[<<b, t>>] = mem[<<b, Host>>]
                \/ Discarded(t, b)
Copied == \A b \in Buffers, t \in Tasks : Entered(b, t) /\ pc[t] \in Active => Filled(t, b)

\* Nobody writes what a running kernel has read.
Snapped == \A t \in Tasks : pc[t] = "running" =>
             \A i \in DOMAIN grp[t].acc : snap[t][Loc(t, i)] = mem[Loc(t, i)]

DataInv == Blank /\ Copied /\ Snapped

\* All that is known of a state, and the assumptions it rests on.
Simple == OneEach /\ OneHome /\ CommandsWrite /\ HostKernels
WholeInv == LockTypes /\ LockInv /\ LifeInv /\ MemoryTypes /\ HoldersInUse /\ WaitInv

-----------------------------------------------------------------------------
(* Who writes to memory                                                    *)

\* The command of t returns.
Command(t) == KernelEnd(t) \/ MemoryOp(t)

\* The command of t writes location l, which it opened for writing if it was
\* to.
Writes(t, l) ==
  /\ Command(t)
  /\ \/ \E i \in DOMAIN grp[t].acc : l = Loc(t, i) /\ (CommandsWrite => grp[t].acc[i].mode # "read")
     \/ ~OnHost(t) /\ \E i \in DOMAIN grp[t].acc : l = <<BufOf(t, i), Host>>

\* A command writes nothing else.
LEMMA CommandWrites ==
  ASSUME LockTypes, MemoryTypes, NEW t \in Tasks, Command(t), NEW l \in Locs, mem'[l] # mem[l]
  PROVE  Writes(t, l)
  <1> DEFINE g == grp[t]
  <1>0. DOMAIN mem = Locs
    BY DEF MemoryTypes
  <1>1. g \in Groups /\ pc[t] # "unborn"
    BY DEF LockTypes, Command, KernelEnd, MemoryOp, Goto
  <1>2. ASSUME NEW s, mem' = After(g, t, LocOf(t), s, mem)
        PROVE  \E i \in DOMAIN g.acc : l = Loc(t, i) /\ (CommandsWrite => g.acc[i].mode # "read")
    <2>1. l \in Written(g, LocOf(t))
      BY <1>0, <1>2 DEF After
    <2> HIDE DEF g
    <2>2. PICK i \in DOMAIN g.acc : /\ l = Loc(t, i)
                                    /\ \/ g.cmd = "kernel" /\ g.acc[i].mode # "read"
                                       \/ g.cmd = "fill" /\ i = 1
                                       \/ g.cmd = "copy" /\ i = 2
      BY <2>1 DEF Written, LocOf, g
    <2> QED BY <1>1, <2>2 DEF CommandsWrite
  <1>3. CASE KernelEnd(t)
    BY <1>2, <1>3 DEF KernelEnd, Writes, Command
  <1>4. CASE MemoryOp(t)
    <2>1. CASE OnHost(t)
      BY <1>4, <2>1 DEF MemoryOp
    <2>2. CASE ~OnHost(t) /\ g.cmd = "update_host"
      <3>1. mem' = [mem EXCEPT ![<<g.acc[1].buf, Host>>] = mem[Loc(t, 1)]]
        BY <1>4, <2>2 DEF MemoryOp
      <3>2. l = <<BufOf(t, 1), Host>>
        BY <1>0, <3>1 DEF BufOf
      <3>3. 1 \in DOMAIN g.acc
        <4>1. Len(g.acc) >= 1
          BY <1>1, <2>2, GroupsAre
        <4> QED BY <1>1, <4>1, GroupType
      <3> QED BY <2>2, <3>2, <3>3, <1>4 DEF Writes, Command
    <2>3. CASE ~OnHost(t) /\ g.cmd # "update_host"
      BY <1>2, <1>4, <2>3 DEF MemoryOp, Writes, Command
    <2> QED BY <2>1, <2>2, <2>3
  <1> QED BY <1>3, <1>4 DEF Command

\* The container of b goes.
Gone(b) == refs[b] # {} /\ refs'[b] = {}

\* What happens to host memory then: it gets what the device has.
LEMMA Released ==
  ASSUME LockTypes, LifeInv, MemoryTypes, NEW b \in Buffers, NEW h, Release(b, h)
  PROVE  /\ map' = map
         /\ \A l \in Locs : mem'[l] # mem[l] => l = <<b, Host>> /\ Gone(b)
         /\ Gone(b) /\ WrittenBack /\ OneChunk =>
              \A d \in Devices : map[b][d] # None => mem'[<<b, Host>>] = mem[map[b][d].ptr]
         /\ (\A d \in Devices : map[b][d] = None) => mem' = mem
         /\ \A c \in Buffers : Gone(c) => c = b
         /\ \A c \in Buffers : refs[c] = {} => refs'[c] = {}
  <1>1. /\ refs' = [refs EXCEPT ![b] = refs[b] \ {h}] /\ h \in refs[b] /\ map' = map
        /\ IF refs[b] = {h} THEN Destroy(b) ELSE mem' = mem
    BY DEF Release
  <1>2. \A c \in Buffers : refs'[c] = IF c = b THEN refs[c] \ {h} ELSE refs[c]
    BY <1>1 DEF LifeInv, LifeTypes
  <1>3. Gone(b) <=> refs[b] = {h}
    BY <1>1, <1>2 DEF Gone
  <1>4. DOMAIN mem = Locs /\ <<b, Host>> \in Locs
    BY DEF MemoryTypes, Locs
  <1> DEFINE back == {e.ptr : e \in {f \in {map[b][d] : d \in {x \in Devices : map[b][x] # None}} : f.mode # "read"}}
  <1>5. Destroy(b) => IF back = {} THEN mem' = mem
                      ELSE \E l \in back : mem' = [mem EXCEPT ![<<b, Host>>] = mem[l]]
    BY DEF Destroy
  <1>6. \A l \in back : \E d \in Devices : map[b][d] # None /\ l = map[b][d].ptr
    OBVIOUS
  <1>7. \A d \in Devices : map[b][d] # None /\ map[b][d].mode # "read" => map[b][d].ptr \in back
    OBVIOUS
  <1> HIDE DEF back
  <1>8. \A l \in Locs : mem'[l] # mem[l] => l = <<b, Host>> /\ Gone(b)
    BY <1>1, <1>3, <1>4, <1>5
  <1>9. ASSUME Gone(b), WrittenBack, OneChunk, NEW d \in Devices, map[b][d] # None
        PROVE  mem'[<<b, Host>>] = mem[map[b][d].ptr]
    <2>1. map[b][d].ptr \in back
      BY <1>7, <1>9 DEF WrittenBack
    <2>2. \A l \in back : l = map[b][d].ptr
      BY <1>6, <1>9 DEF OneChunk
    <2> QED BY <1>1, <1>3, <1>4, <1>5, <1>9, <2>1, <2>2
  <1>11. ASSUME \A d \in Devices : map[b][d] = None PROVE mem' = mem
    <2>1. back = {}
      BY <1>6, <1>11
    <2> QED BY <1>1, <1>5, <2>1
  <1>10. \A c \in Buffers : Gone(c) => c = b
    BY <1>2 DEF Gone
  <1> QED BY <1>1, <1>2, <1>8, <1>9, <1>10, <1>11

\* The kinds of step, as far as containers and memory go: a shared_ptr is
\* released, a command returns, a chunk is copied to, or nothing of that.
LEMMA StepKinds ==
  ASSUME LockTypes, LifeInv, [Next]_vars
  PROVE  \/ \E b \in Buffers : \E h \in Holders : Release(b, h) /\ pc' = pc /\ grp' = grp
         \/ \E t \in Tasks : Command(t) /\ refs' = refs /\ map' = map /\ chunks' = chunks
         \/ \E t \in Tasks : CopyIn(t)
         \/ mem' = mem /\ \A b \in Buffers : refs[b] \subseteq refs'[b] /\ (refs[b] = {} => refs'[b] = {})
  <1> USE DEF locks, args, memory
  <1>1. ASSUME NEW t \in Tasks, DropLocal(t) \/ DropAcc(t) \/ DropClosure(t)
        PROVE  \E b \in Buffers : \E h \in Holders : Release(b, h) /\ pc' = pc /\ grp' = grp
    BY <1>1 DEF DropLocal, DropAcc, DropClosure, Locals, AccRefs, Captured, Holders
  <1>2. ASSUME NEW b \in Buffers, DestroyBuffer(b)
        PROVE  \E h \in Holders : Release(b, h) /\ pc' = pc /\ grp' = grp
    BY <1>2 DEF DestroyBuffer, Holders
  <1>3. ASSUME NEW t \in Tasks, Command(t) PROVE refs' = refs /\ map' = map /\ chunks' = chunks
    BY <1>3 DEF Command, KernelEnd, MemoryOp
  <1>4. ASSUME NEW t \in Tasks, NEW g \in Groups, Submit(t, g)
        PROVE  mem' = mem /\ \A b \in Buffers : refs[b] \subseteq refs'[b] /\ (refs[b] = {} => refs'[b] = {})
    BY <1>4 DEF Submit, Uses
  <1>5. ASSUME NEW t \in Tasks, Lookup(t) \/ LockRead(t) \/ LockWrite(t)
        PROVE  mem' = mem /\ \A b \in Buffers : refs[b] \subseteq refs'[b] /\ (refs[b] = {} => refs'[b] = {})
    <2>1. PICK k \in {"local", "acc"} : refs' = refs \/ refs' = [refs EXCEPT ![Buf(t)] = @ \cup {<<k, t>>}]
      BY <1>5 DEF Lookup, LockRead, LockWrite, PushAcc
    <2>2. pc[t] \in Acquiring /\ pc[t] \in Active
      BY <1>5 DEF Lookup, LockRead, LockWrite, MustLock, Goto, Acquiring, Active
    <2>3. refs[Buf(t)] # {}
      BY <2>2, AtPos DEF LifeInv, Alive, AccAlive
    <2>4. \A b \in Buffers : refs[b] \subseteq refs'[b] /\ (refs[b] = {} => refs'[b] = {})
      BY <2>1, <2>3 DEF LifeInv, LifeTypes
    <2> QED BY <1>5, <2>4 DEF Lookup, LockRead, LockWrite
  <1>6. ASSUME NEW t \in Tasks,
               \/ Alloc(t) \/ AlreadyLocked(t) \/ UnlockRead(t) \/ RelockWrite(t) \/ LockSkipped(t)
               \/ KernelBegin(t) \/ Returned(t) \/ Unlock(t) \/ HandlerGone(t) \/ Decr(t) \/ Exit(t)
        PROVE  mem' = mem /\ refs' = refs
    BY <1>6 DEF Alloc, AlreadyLocked, UnlockRead, RelockWrite, LockSkipped, KernelBegin,
                Returned, Unlock, HandlerGone, Decr, Exit
  <1>7. CASE UNCHANGED vars
    BY <1>7 DEF vars
  <1>8. ASSUME NEW t \in Tasks, Step(t)
        PROVE  \/ DropLocal(t) \/ DropAcc(t) \/ DropClosure(t) \/ Command(t) \/ CopyIn(t)
               \/ Lookup(t) \/ LockRead(t) \/ LockWrite(t)
               \/ Alloc(t) \/ AlreadyLocked(t) \/ UnlockRead(t) \/ RelockWrite(t) \/ LockSkipped(t)
               \/ KernelBegin(t) \/ Returned(t) \/ Unlock(t) \/ HandlerGone(t) \/ Decr(t) \/ Exit(t)
    BY <1>8 DEF Step, Locking, Command
  <1>9. CASE \E t \in Tasks : Step(t)
    BY <1>1, <1>3, <1>5, <1>6, <1>8, <1>9
  <1> QED BY <1>2, <1>4, <1>7, <1>9 DEF Next

\* A location changes when it is copied to, when a command writes it, or when
\* the data of its buffer come back.
LEMMA Writers ==
  ASSUME LockTypes, LifeInv, MemoryTypes, [Next]_vars, NEW l \in Locs, mem'[l] # mem[l]
  PROVE  \/ \E t \in Tasks : CopyIn(t) /\ l = Chunk(t)
         \/ \E t \in Tasks : Writes(t, l)
         \/ \E b \in Buffers : l = <<b, Host>> /\ Gone(b)
  <1>1. DOMAIN mem = Locs
    BY DEF MemoryTypes
  <1>2. ASSUME NEW t \in Tasks, CopyIn(t) PROVE l = Chunk(t)
    BY <1>1, <1>2 DEF CopyIn
  <1> QED BY <1>2, StepKinds, CommandWrites, Released

\* A container that is gone stays so.
LEMMA GoneForGood ==
  ASSUME LockTypes, LifeInv, MemoryTypes, [Next]_vars, NEW b \in Buffers, refs[b] = {}
  PROVE  refs'[b] = {}
  <1>1. ASSUME NEW t \in Tasks, CopyIn(t) PROVE refs' = refs
    BY <1>1 DEF CopyIn
  <1> QED BY <1>1, StepKinds, Released

\* A command group that uses a buffer keeps its container.
LEMMA Kept ==
  ASSUME LockTypes, LifeInv, NEW t \in Tasks, pc[t] \in Active, NEW b, b \in Uses(grp[t])
  PROVE  b \in Buffers /\ refs[b] # {}
  <1>1. pc[t] # "unborn"
    BY DEF Active, Acquiring
  <1>2. PICK i \in DOMAIN grp[t].acc : b = BufOf(t, i)
    BY DEF Uses, BufOf
  <1>3. Holder(t, i) \in refs[b]
    BY <1>2 DEF LifeInv, Alive, AccAlive
  <1> QED BY <1>1, <1>2, <1>3, GroupType

\* So it does in the next state, while it is still in progress.
LEMMA KeptNext ==
  ASSUME LockTypes, LifeInv, [Next]_vars, NEW t \in Tasks, pc'[t] \in Active, grp'[t] = grp[t],
         NEW b, b \in Uses(grp[t])
  PROVE  refs'[b] # {}
  <1>1. LifeInv'
    BY LifeInvStep
  <1>2. PICK i \in DOMAIN grp'[t].acc : b = BufOf(t, i)'
    BY DEF Uses, BufOf
  <1>3. Holder(t, i)' \in refs'[b]
    BY <1>1, <1>2 DEF LifeInv, Alive, AccAlive
  <1> QED BY <1>3

\* The accessor being made, and what copyin is about to write.
LEMMA CopiesOwn ==
  ASSUME WholeInv, NEW t \in Tasks, pc[t] = "copyin"
  PROVE  /\ Buf(t) \in Buffers /\ Buf(t) \in Uses(grp[t]) /\ Dev(t) \in Cards
         /\ Chunk(t) = <<Buf(t), t>> /\ Entered(Buf(t), t)
         /\ map[Buf(t)][Dev(t)] # None /\ map[Buf(t)][Dev(t)].ptr = <<Buf(t), t>>
  <1>1. pc[t] \in Acquiring
    BY DEF Acquiring
  <1>2. LockTypes /\ Making(t)
    BY DEF WholeInv, WaitInv
  <1>3. Buf(t) \in Buffers /\ Buf(t) \in Uses(grp[t]) /\ Dev(t) \in Devices
    BY <1>1, <1>2, AtPos, BufInUse
  <1>4. ~OnHost(t) /\ map[Buf(t)][Dev(t)] # None /\ map[Buf(t)][Dev(t)].ptr = Chunk(t)
    BY <1>2 DEF Making
  <1> QED BY <1>3, <1>4 DEF Chunk, OnHost, Cards, Entered

\* Command groups that use one buffer run on one device, or on host devices.
LEMMA SameHome ==
  ASSUME OneHome, LockTypes, NEW t \in Tasks, NEW u \in Tasks, pc[t] # "unborn", pc[u] # "unborn",
         NEW b, b \in Uses(grp[t]), b \in Uses(grp[u])
  PROVE  Dev(t) = Dev(u) \/ (OnHost(t) /\ OnHost(u))
  <1>1. grp[t] \in Groups /\ grp[u] \in Groups
    BY DEF LockTypes
  <1> QED BY <1>1 DEF OneHome, Dev, OnHost

\* The chunk of a buffer is on the device of those that use it.
LEMMA ChunkHome ==
  ASSUME OneHome, WholeInv, NEW b \in Buffers, NEW d \in Devices, map[b][d] # None,
         NEW t \in Tasks, pc[t] # "unborn", b \in Uses(grp[t])
  PROVE  Dev(t) = d /\ ~OnHost(t)
  <1>1. LockTypes /\ Owned
    BY DEF WholeInv, WaitInv
  <1>2. PICK u \in Tasks : d \in Cards /\ pc[u] # "unborn" /\ Dev(u) = d /\ b \in Uses(grp[u])
    BY <1>1 DEF Owned
  <1>3. ~OnHost(u)
    BY <1>2 DEF OnHost, Cards
  <1>4. Dev(t) = d
    BY <1>1, <1>2, <1>3, SameHome
  <1> QED BY <1>2, <1>4 DEF OnHost, Cards

LEMMA HasOneChunk ==
  ASSUME OneHome, WholeInv
  PROVE  OneChunk
  <1> SUFFICES ASSUME NEW b \in Buffers, NEW d \in Devices, NEW e \in Devices,
                      map[b][d] # None, map[b][e] # None
               PROVE  d = e
    BY DEF OneChunk
  <1>1. PICK u \in Tasks : pc[u] # "unborn" /\ Dev(u) = d /\ b \in Uses(grp[u])
    BY DEF WholeInv, WaitInv, Owned
  <1> QED BY <1>1, ChunkHome

\* The next state has no more: who allocates found none.
LEMMA HasOneChunkNext ==
  ASSUME OneHome, WholeInv, [Next]_vars
  PROVE  OneChunk'
  <1>0. LockTypes /\ LifeInv /\ WaitInv /\ OneChunk
    BY HasOneChunk DEF WholeInv
  <1> SUFFICES ASSUME NEW b \in Buffers, NEW d \in Devices, NEW e \in Devices,
                      map'[b][d] # None, map'[b][e] # None
               PROVE  d = e
    BY DEF OneChunk
  <1>1. ASSUME NEW x \in Devices, NEW y \in Devices, map'[b][x] # None, map[b][x] = None
        PROVE  (map'[b][y] # None /\ map[b][y] = None => x = y) /\ map[b][y] = None
    <2>1. PICK t \in Tasks : Alloc(t) /\ b = Buf(t) /\ x = Dev(t) /\ map'[b][x].ptr = Chunk(t)
      BY <1>0, <1>1, NewEntry
    <2>2. pc[t] = "alloc" /\ pc[t] \in Acquiring /\ pc[t] # "unborn"
      BY <2>1 DEF Alloc, Goto, Acquiring
    <2>3. b \in Uses(grp[t])
      BY <1>0, <2>1, <2>2, BufInUse
    <2>4. ASSUME map[b][y] # None PROVE FALSE
      <3>1. Dev(t) = y
        BY <2>2, <2>3, <2>4, ChunkHome
      <3> QED BY <1>1, <2>1, <2>4, <3>1
    <2>5. ASSUME map'[b][y] # None, map[b][y] = None PROVE x = y
      <3>1. PICK s \in Tasks : Alloc(s) /\ b = Buf(s) /\ y = Dev(s) /\ map'[b][y].ptr = Chunk(s)
        BY <1>0, <2>5, NewEntry
      <3>2. pc'[s] # "alloc" /\ pc[s] = "alloc"
        BY <1>0, <3>1 DEF Alloc, Goto, LockTypes
      <3>3. s = t
        BY <1>0, <2>1, <2>2, <3>1, <3>2 DEF Alloc, Goto, LockTypes
      <3> QED BY <2>1, <3>1, <3>3
    <2> QED BY <2>4, <2>5
  <1>2. CASE map[b][d] # None /\ map[b][e] # None
    BY <1>0, <1>2 DEF OneChunk
  <1>3. CASE map[b][d] = None
    BY <1>1, <1>3
  <1>4. CASE map[b][e] = None
    BY <1>1, <1>4
  <1> QED BY <1>2, <1>3, <1>4

\* Nobody else uses a buffer whose chunk's maker is still at work.
LEMMA MakerAlone ==
  ASSUME OneHome, WholeInv, NEW b \in Buffers, NEW u \in Tasks, Entered(b, u), pc[u] \in Active
  PROVE  /\ b \in Uses(grp[u]) /\ ~OnHost(u)
         /\ \A t \in Tasks : pc[t] \in Active /\ b \in Uses(grp[t]) => t = u
  <1>0. LockTypes /\ Owned /\ Alone
    BY DEF WholeInv, WaitInv
  <1>1. PICK d \in Devices : map[b][d] # None /\ map[b][d].ptr = <<b, u>>
    BY DEF Entered
  <1>2. Allocator(b, d) = u
    BY <1>1 DEF Allocator
  <1>3. d \in Cards /\ Dev(u) = d /\ b \in Uses(grp[u]) /\ (Pending(u) => ~Warm(b, d))
    BY <1>0, <1>1, <1>2 DEF Owned
  <1>4. \A t \in Tasks : pc[t] \in Active => Pending(t) /\ pc[t] # "unborn"
    BY DEF Active, Acquiring, Pending
  <1>5. ASSUME NEW t \in Tasks, pc[t] \in Active, b \in Uses(grp[t]), t # u PROVE FALSE
    <2>1. Dev(t) = d
      BY <1>1, <1>4, <1>5, ChunkHome
    <2>2. Using(t, b, d) /\ Using(u, b, d)
      BY <1>3, <1>4, <1>5, <2>1 DEF Using
    <2> QED BY <1>0, <1>3, <1>4, <1>5, <2>2 DEF Alone
  <1> QED BY <1>3, <1>5 DEF OnHost, Cards

\* A thread stays where it is unless it makes the step.
LEMMA StillOrOwn ==
  ASSUME LockTypes, LifeInv, [Next]_vars, NEW t \in Tasks
  PROVE  Still(t) \/ Step(t) \/ \E g \in Groups : Submit(t, g)
  <1>1. ASSUME NEW b \in Buffers, DestroyBuffer(b) PROVE Still(t)
    BY <1>1 DEF DestroyBuffer, Still, args
  <1>2. CASE UNCHANGED vars
    BY <1>2 DEF vars, Still, args
  <1>3. ASSUME NEW s \in Tasks, Step(s) \/ \E g \in Groups : Submit(s, g), s # t PROVE Still(t)
    BY <1>3, OthersStill
  <1> QED BY <1>1, <1>2, <1>3 DEF Next

\* Where a command writes: in what its command group uses.
LEMMA WritesWhere ==
  ASSUME WholeInv, NEW t \in Tasks, NEW l, Writes(t, l)
  PROVE  /\ AtCommand(t) /\ pc[t] \in Active /\ pc'[t] = "returning"
         /\ \E b \in Uses(grp[t]) :
              /\ b \in Buffers
              /\ \/ l = <<b, Host>>
                 \/ ~OnHost(t) /\ \E u \in Tasks : l = <<b, u>> /\ Entered(b, u)
  <1>0. LockTypes /\ LifeInv /\ WaitInv /\ Owned
    BY DEF WholeInv, WaitInv
  <1>1. AtCommand(t) /\ pc[t] \in Active /\ pc'[t] = "returning"
    BY <1>0 DEF Writes, Command, KernelEnd, MemoryOp, Goto, AtCommand, Active, LockTypes
  <1>2. \A i \in DOMAIN grp[t].acc : BufOf(t, i) \in Uses(grp[t])
    BY DEF Uses, BufOf
  <1>3. ASSUME NEW i \in DOMAIN grp[t].acc, ~OnHost(t)
        PROVE  \E u \in Tasks : Loc(t, i) = <<BufOf(t, i), u>> /\ Entered(BufOf(t, i), u)
    <2>1. /\ BufOf(t, i) \in Buffers /\ Dev(t) \in Devices
          /\ map[BufOf(t, i)][Dev(t)] # None
          /\ Loc(t, i) = map[BufOf(t, i)][Dev(t)].ptr
          /\ Loc(t, i) = <<BufOf(t, i), Allocator(BufOf(t, i), Dev(t))>>
      BY <1>0, <1>1, <1>3, LocIs
    <2>2. Allocator(BufOf(t, i), Dev(t)) \in Tasks
      BY <1>0, <2>1 DEF Owned
    <2> QED BY <2>1, <2>2 DEF Entered
  <1>4. \A i \in DOMAIN grp[t].acc : /\ BufOf(t, i) \in Buffers
                                     /\ OnHost(t) => Loc(t, i) = <<BufOf(t, i), Host>>
    BY <1>0, <1>1, LocIs
  <1>5. PICK i \in DOMAIN grp[t].acc : l = Loc(t, i) \/ l = <<BufOf(t, i), Host>>
    BY DEF Writes
  <1> QED BY <1>1, <1>2, <1>3, <1>4, <1>5

\* A chunk stays in the map, and is entered when it is allocated.
LEMMA EnteredStays ==
  ASSUME LockTypes, LifeInv, [Next]_vars, NEW b \in Buffers, NEW t \in Tasks
  PROVE  /\ Entered(b, t) => Entered(b, t)'
         /\ Entered(b, t)' => Entered(b, t) \/ (Alloc(t) /\ b = Buf(t))
  <1>1. Entered(b, t) => Entered(b, t)'
    BY PointersStay DEF Entered, PointersKept
  <1>2. ASSUME Entered(b, t)', ~Entered(b, t) PROVE Alloc(t) /\ b = Buf(t)
    <2>1. PICK d \in Devices : map'[b][d] # None /\ map'[b][d].ptr = <<b, t>>
      BY <1>2 DEF Entered
    <2>2. map[b][d] = None
      BY <1>2, <2>1, PointersStay DEF Entered, PointersKept
    <2>3. PICK s \in Tasks : Alloc(s) /\ b = Buf(s) /\ map'[b][d].ptr = Chunk(s)
      BY <2>1, <2>2, NewEntry
    <2> QED BY <2>1, <2>3 DEF Chunk
  <1> QED BY <1>1, <1>2

LEMMA BlankStep ==
  ASSUME WholeInv, Blank, [Next]_vars
  PROVE  Blank'
  <1>0. LockTypes /\ LifeInv /\ MemoryTypes
    BY DEF WholeInv
  <1> SUFFICES ASSUME NEW b \in Buffers, NEW t \in Tasks, ~Entered(b, t)' PROVE mem'[<<b, t>>] = {}
    BY DEF Blank
  <1>1. ~Entered(b, t)
    BY <1>0, EnteredStays
  <1>2. mem[<<b, t>>] = {} /\ <<b, t>> \in Locs
    BY <1>1 DEF Blank, Locs
  <1>3. ASSUME NEW s \in Tasks, CopyIn(s), <<b, t>> = Chunk(s) PROVE FALSE
    <2>1. pc[s] = "copyin"
      BY <1>3 DEF CopyIn, Goto
    <2> QED BY <1>1, <1>3, <2>1, CopiesOwn
  <1>4. ASSUME NEW s \in Tasks, Writes(s, <<b, t>>) PROVE FALSE
    BY <1>1, <1>4, WritesWhere, NamesDiffer
  <1>5. \A c \in Buffers : <<b, t>> # <<c, Host>>
    BY NamesDiffer
  <1>6. mem'[<<b, t>>] = mem[<<b, t>>]
    BY <1>0, <1>2, <1>3, <1>4, <1>5, Writers
  <1> QED BY <1>2, <1>6

LEMMA CopiedStep ==
  ASSUME OneHome, WholeInv, Blank, Copied, [Next]_vars
  PROVE  Copied'
  <1>0. LockTypes /\ LifeInv /\ MemoryTypes /\ WaitInv /\ Owned
    BY DEF WholeInv, WaitInv
  <1> SUFFICES ASSUME NEW b \in Buffers, NEW u \in Tasks, Entered(b, u)', pc'[u] \in Active
               PROVE  Filled(u, b)'
    BY DEF Copied
  <1>l. <<b, u>> \in Locs /\ <<b, Host>> \in Locs /\ u # Host
    BY NamesDiffer DEF Locs
  <1>1. CASE ~Entered(b, u)
    <2>1. Alloc(u) /\ b = Buf(u)
      BY <1>0, <1>1, EnteredStays
    <2>2. /\ pc[u] = "alloc" /\ mem' = mem /\ grp' = grp /\ pos' = pos
          /\ pc'[u] = IF Discards(Access(u).mode) THEN "lock" ELSE "copyin"
      BY <1>0, <2>1 DEF Alloc, Goto, LockTypes, args
    <2>3. pos[u] \in DOMAIN grp[u].acc /\ BufOf(u, pos[u]) = b
      BY <1>0, <2>1, <2>2, AtPos DEF Acquiring
    <2>4. mem[<<b, u>>] = {}
      BY <1>1 DEF Blank
    <2>5. CASE Discards(Access(u).mode)
      <3>1. Discards(grp[u].acc[pos[u]].mode)
        BY <2>5 DEF Access
      <3>2. Discarded(u, b)'
        BY <2>2, <2>3, <2>4, <3>1 DEF Discarded, BufOf
      <3> QED BY <3>2 DEF Filled
    <2>6. CASE ~Discards(Access(u).mode)
      <3>1. Buf(u)' = Buf(u)
        BY <2>2, SameAccess
      <3> QED BY <2>1, <2>2, <2>6, <3>1 DEF Filled
    <2> QED BY <2>5, <2>6
  <1>2. CASE Entered(b, u)
    <2>1. pc[u] \in Active /\ grp'[u] = grp[u]
      <3>1. pc[u] # "unborn"
        BY <1>0, <1>2 DEF Owned, Allocator, Entered
      <3> QED BY <1>0, <3>1, Lives DEF Continues, Born, Counted, Active, Acquiring
    <2>2. Filled(u, b)
      BY <1>2, <2>1 DEF Copied
    <2>3. ASSUME NEW t \in Tasks, Writes(t, <<b, u>>) \/ Writes(t, <<b, Host>>) PROVE FALSE
      <3>1. pc[t] \in Active /\ pc'[t] = "returning" /\ b \in Uses(grp[t])
        BY <2>3, WritesWhere
      <3>2. t = u
        BY <1>2, <2>1, <3>1, MakerAlone
      <3> QED BY <3>1, <3>2 DEF Active, Acquiring
    <2>4. ~Gone(b)
      <3>1. b \in Uses(grp[u])
        BY <1>2, <2>1, MakerAlone
      <3> QED BY <1>0, <2>1, <3>1, KeptNext DEF Gone
    <2>5. CASE CopyIn(u) /\ Buf(u) = b
      <3>1. mem' = [mem EXCEPT ![<<b, u>>] = mem[<<b, Host>>]]
        BY <2>5 DEF CopyIn, Chunk
      <3>2. mem'[<<b, u>>] = mem'[<<b, Host>>]
        BY <1>0, <1>l, <3>1 DEF MemoryTypes
      <3> QED BY <3>2 DEF Filled
    <2>6. CASE ~(CopyIn(u) /\ Buf(u) = b)
      <3>1. mem'[<<b, u>>] = mem[<<b, u>>]
        <4>1. \A t \in Tasks : CopyIn(t) => <<b, u>> # Chunk(t)
          BY <2>6 DEF Chunk
        <4> QED BY <1>0, <1>l, <2>3, <2>4, <4>1, Writers
      <3>2. mem'[<<b, Host>>] = mem[<<b, Host>>]
        <4>1. \A t \in Tasks : <<b, Host>> # Chunk(t)
          BY NamesDiffer DEF Chunk
        <4> QED BY <1>0, <1>l, <2>3, <2>4, <4>1, Writers
      <3>3. CASE Discarded(u, b)
        BY <2>1, <3>1, <3>3 DEF Filled, Discarded, BufOf
      <3>4. CASE mem[<<b, u>>] = mem[<<b, Host>>]
        BY <3>1, <3>2, <3>4 DEF Filled
      <3>5. CASE pc[u] = "copyin" /\ Buf(u) = b
        <4>1. CASE Still(u)
          <5>1. Buf(u)' = Buf(u)
            BY <4>1, SameAccess DEF Still
          <5> QED BY <3>5, <4>1, <5>1 DEF Still, Filled
        <4>2. CASE Step(u)
          <5>1. CopyIn(u)
            BY <3>5, <4>2 DEF Step, Locking, Lookup, Alloc, AlreadyLocked, UnlockRead, RelockWrite,
                  LockRead, LockWrite, LockSkipped, MustLock, KernelBegin, KernelEnd, MemoryOp, DropLocal,
                  Returned, Unlock, DropAcc, HandlerGone, Decr, DropClosure, Exit, Goto
          <5> QED BY <2>6, <3>5, <5>1
        <4>3. ASSUME NEW g \in Groups, Submit(u, g) PROVE FALSE
          BY <3>5, <4>3 DEF Submit, Goto
        <4>4. Still(u) \/ Step(u) \/ \E g \in Groups : Submit(u, g)
          BY <1>0, StillOrOwn
        <4> QED BY <4>1, <4>2, <4>3, <4>4
      <3> QED BY <2>2, <3>3, <3>4, <3>5 DEF Filled
    <2> QED BY <2>5, <2>6
  <1> QED BY <1>1, <1>2

LEMMA FirstWritesStep ==
  ASSUME WholeInv, FirstWrites, [CarefulNext]_vars
  PROVE  FirstWrites'
  <1>0. LockTypes /\ LifeInv /\ WaitInv /\ Chosen /\ [Next]_vars
    BY CarefulIsNext DEF WholeInv, WaitInv
  <1> SUFFICES ASSUME NEW t \in Tasks, NEW b \in Buffers, Pending(t)', ~OnHost(t)', b \in Uses(grp'[t]),
                      ~Warm(b, Dev(t))'
               PROVE  FirstMode(grp'[t], b) # "read"
    BY DEF FirstWrites, Uses, FirstMode
  <1>1. CASE Continues(t)
    <2>1. grp'[t] = grp[t] /\ Pending(t) /\ Dev(t)' = Dev(t) /\ ~OnHost(t)
      BY <1>1 DEF Continues, Dev, OnHost
    <2>2. Dev(t) \in Devices
      BY <1>0, <2>1, GroupType DEF Pending
    <2>3. PICK d \in Devices : d = Dev(t)
      BY <2>2
    <2>4. ~Warm(b, d)'
      BY <2>1, <2>3 DEF Warm
    <2>5. ~Warm(b, d)
      BY <1>0, <2>3, <2>4, WarmGrows
    <2> QED BY <2>1, <2>3, <2>5 DEF FirstWrites
  <1>2. CASE Born(t)
    <2>1. PICK g \in Groups : grp'[t] = g /\ Submit(t, g)
      BY <1>2 DEF Born
    <2>2. Waits(g)
      <3>1. pc[t] = "unborn" /\ pc'[t] # "unborn"
        BY <1>2 DEF Born, Active, Acquiring
      <3>2. ~Still(t) /\ ~Step(t)
        BY <3>1 DEF Still, Step, Locking, Lookup, Alloc, CopyIn, AlreadyLocked, UnlockRead, RelockWrite,
                  LockRead, LockWrite, LockSkipped, MustLock, KernelBegin, KernelEnd, MemoryOp, DropLocal,
                  Returned, Unlock, DropAcc, HandlerGone, Decr, DropClosure, Exit, Goto
      <3>3. \E h \in Groups : Waits(h) /\ Submit(t, h)
        <4>1. ASSUME NEW c \in Buffers, DestroyBuffer(c) PROVE FALSE
          BY <3>1, <4>1 DEF DestroyBuffer
        <4>2. ASSUME UNCHANGED vars PROVE FALSE
          BY <3>1, <4>2 DEF vars
        <4>3. ASSUME NEW s \in Tasks, Step(s) \/ \E h \in Groups : Submit(s, h), s # t PROVE FALSE
          <5>1. Still(t)
            BY <1>0, <4>3, OthersStill
          <5> QED BY <5>1, <3>2
        <4> QED BY <3>2, <4>1, <4>2, <4>3 DEF CarefulNext
      <3>4. PICK h \in Groups : Waits(h) /\ Submit(t, h)
        BY <3>3
      <3>5. h = g
        BY <1>0, <2>1, <3>4 DEF Submit, LockTypes
      <3> QED BY <3>4, <3>5
    <2>3. g.dev \in Cards /\ g.dev = Dev(t)' /\ g.dev \in Devices
      BY <2>1, GroupsAre DEF OnHost, Dev, Cards
    <2>4. ~Warm(b, g.dev)
      <3>1. ~Warm(b, g.dev)'
        BY <2>1, <2>3 DEF Warm, Dev
      <3> QED BY <1>0, <2>3, <3>1, WarmGrows
    <2> QED BY <2>1, <2>2, <2>3, <2>4 DEF Waits, FirstUseAlone
  <1>3. CASE Counted(t)
    BY <1>3 DEF Counted, Pending
  <1> QED BY <1>0, <1>1, <1>2, <1>3, Lives

\* The accessor for which a chunk is made is the first to its buffer.
LEMMA AllocFirst ==
  ASSUME WholeInv, FirstWrites, NEW t \in Tasks, pc[t] = "alloc"
  PROVE  Access(t).mode # "read"
  <1>0. LockTypes /\ LifeInv /\ WaitInv /\ Chosen /\ Served /\ Making(t)
    BY DEF WholeInv, WaitInv
  <1>1. pc[t] \in Acquiring /\ pc[t] \in Active /\ pc[t] # "unborn" /\ Pending(t)
    BY DEF Acquiring, Active, Pending
  <1>2. /\ pos[t] \in DOMAIN grp[t].acc /\ pos[t] \in Nat /\ BufOf(t, pos[t]) = Buf(t)
        /\ Buf(t) \in Buffers /\ Dev(t) \in Devices /\ Buf(t) \in Uses(grp[t])
        /\ DOMAIN grp[t].acc = 1 .. Len(grp[t].acc) /\ Len(grp[t].acc) \in Nat
    BY <1>0, <1>1, AtPos, BufInUse, GroupType
  <1>3. ~OnHost(t) /\ map[Buf(t)][Dev(t)] = None
    BY <1>0 DEF Making
  <1>4. ~Warm(Buf(t), Dev(t))
    BY <1>0, <1>2, <1>3, NewToTheCard DEF OnHost, Cards
  <1>5. FirstMode(grp[t], Buf(t)) # "read"
    BY <1>1, <1>2, <1>3, <1>4 DEF FirstWrites
  <1>6. ASSUME NEW j \in 1 .. pos[t] - 1, grp[t].acc[j].buf = Buf(t) PROVE FALSE
    <2>1. j \in DOMAIN grp[t].acc /\ Ready(t, j) /\ BufOf(t, j) = Buf(t)
      BY <1>2, <1>6 DEF Ready, BufOf
    <2>2. map[Buf(t)][Dev(t)] \in Ptrs(Buf(t))
      BY <1>0, <1>1, <1>3, <2>1 DEF LifeInv, Alive, AccAlive
    <2> QED BY <1>2, <1>3, <2>2, PtrsReal
  <1> DEFINE g == grp[t]
             b == Buf(t)
             First(i) == g.acc[i].buf = b /\ \A j \in 1 .. i - 1 : g.acc[j].buf # b
  <1>7. First(pos[t])
    BY <1>2, <1>6 DEF BufOf
  <1>8. \A i \in DOMAIN g.acc : First(i) => i = pos[t]
    BY <1>2, <1>7
  <1>9. (CHOOSE i \in DOMAIN g.acc : First(i)) = pos[t]
    BY <1>2, <1>7, <1>8
  <1> QED BY <1>5, <1>9 DEF FirstMode, Access

LEMMA WrittenBackStep ==
  ASSUME WholeInv, FirstWrites, WrittenBack, [Next]_vars
  PROVE  WrittenBack'
  <1>0. LockTypes /\ LockInv /\ LifeInv /\ WaitInv
    BY DEF WholeInv
  <1> USE DEF locks, args, memory
  <1>1. ASSUME NEW t \in Tasks, Alloc(t) PROVE WrittenBack'
    <2>1. pc[t] = "alloc" /\ pc[t] \in Acquiring
      BY <1>1 DEF Alloc, Goto, Acquiring
    <2>2. Access(t).mode # "read" /\ Buf(t) \in Buffers /\ Dev(t) \in Devices
      BY <1>0, <2>1, AtPos, AllocFirst
    <2> DEFINE new == [ptr |-> Chunk(t), mode |-> Access(t).mode]
    <2>3. map' = map \/ map' = [map EXCEPT ![Buf(t)][Dev(t)] = new]
      BY <1>1 DEF Alloc
    <2>4. new.mode # "read"
      BY <2>2
    <2> HIDE DEF new
    <2> QED BY <1>0, <2>2, <2>3, <2>4 DEF WrittenBack, LifeInv, LifeTypes
  <1>2. ASSUME NEW t \in Tasks, RelockWrite(t) PROVE WrittenBack'
    <2>1. pc[t] = "upgrade" /\ pc[t] \in Active /\ pc[t] \in Acquiring
      BY <1>2 DEF RelockWrite, Active, Acquiring
    <2>2. /\ Buf(t) \in Buffers /\ Dev(t) \in Devices /\ Access(t).mode # "read"
          /\ pos[t] \in DOMAIN grp[t].acc /\ BufOf(t, pos[t]) = Buf(t)
      BY <1>0, <2>1, AtPos DEF LockInv, OwnLocks
    <2>3. map[Buf(t)][Dev(t)] \in Ptrs(Buf(t))
      BY <1>0, <2>1, <2>2 DEF LifeInv, Alive, AccAlive, Ready
    <2> DEFINE new == [map[Buf(t)][Dev(t)] EXCEPT !.mode = Access(t).mode]
    <2>4. new.mode # "read"
      BY <2>2, <2>3 DEF Ptrs
    <2>5. map' = [map EXCEPT ![Buf(t)][Dev(t)] = new]
      BY <1>2 DEF RelockWrite
    <2> HIDE DEF new
    <2> QED BY <1>0, <2>2, <2>4, <2>5 DEF WrittenBack, LifeInv, LifeTypes
  <1>3. ASSUME Next PROVE map' = map \/ \E t \in Tasks : Alloc(t) \/ RelockWrite(t)
    BY <1>3 DEF Next, Step, Locking, Submit, Lookup, CopyIn, AlreadyLocked, UnlockRead, LockRead,
       LockWrite, LockSkipped, KernelBegin, KernelEnd, MemoryOp, DropLocal, Returned, Unlock,
       DropAcc, HandlerGone, Decr, DropClosure, Exit, DestroyBuffer, Release
  <1>4. CASE map' = map
    BY <1>4 DEF WrittenBack
  <1>5. CASE UNCHANGED vars
    BY <1>4, <1>5 DEF vars
  <1> QED BY <1>1, <1>2, <1>3, <1>4, <1>5

LEMMA DataBackStep ==
  ASSUME OneHome, WholeInv, WrittenBack, DeviceDataBack, [Next]_vars
  PROVE  DeviceDataBack'
  <1>0. LockTypes /\ LifeInv /\ MemoryTypes
    BY DEF WholeInv
  <1> SUFFICES ASSUME NEW b \in Buffers, refs'[b] = {}, NEW d \in Devices, map'[b][d] # None
               PROVE  mem'[<<b, Host>>] = mem'[map'[b][d].ptr]
    BY DEF DeviceDataBack, OnDevice
  <1>1. ASSUME NEW t \in Tasks, b \in Uses(grp[t]), pc[t] \in Active, refs[b] = {} PROVE FALSE
    BY <1>0, <1>1, Kept
  <1>2. map[b][d] # None /\ map'[b][d].ptr = map[b][d].ptr
    <2>1. CASE map[b][d] = None
      <3>1. PICK t \in Tasks : Alloc(t) /\ b = Buf(t)
        BY <1>0, <2>1, NewEntry
      <3>2. refs' = refs /\ pc[t] \in Active /\ pc[t] \in Acquiring
        BY <3>1 DEF Alloc, Goto, Active, Acquiring
      <3>3. b \in Uses(grp[t])
        BY <1>0, <3>1, <3>2, BufInUse
      <3> QED BY <1>1, <3>2, <3>3
    <2> QED BY <1>0, <2>1, PointersStay DEF PointersKept
  <1>3. map[b][d].ptr \in {b} \X Tasks
    BY <1>0, <1>2 DEF LifeInv, Mapped, Ptrs
  <1>4. map[b][d].ptr \in Locs /\ <<b, Host>> \in Locs /\ map[b][d].ptr # <<b, Host>>
    BY <1>3, NamesDiffer DEF Locs
  <1>5. CASE refs[b] = {}
    <2>1. ASSUME NEW t \in Tasks, NEW l, l[1] = b, Writes(t, l) PROVE FALSE
      BY <1>1, <1>5, <2>1, WritesWhere
    <2>2. ASSUME NEW t \in Tasks, CopyIn(t), Chunk(t)[1] = b PROVE FALSE
      <3>1. pc[t] = "copyin" /\ pc[t] \in Active
        BY <2>2 DEF CopyIn, Goto, Active, Acquiring
      <3>2. b \in Uses(grp[t])
        BY <2>2, <3>1, CopiesOwn
      <3> QED BY <1>1, <1>5, <3>1, <3>2
    <2>3. \A c \in Buffers : Gone(c) => c # b
      BY <1>5 DEF Gone
    <2>4. ASSUME NEW l \in Locs, l[1] = b PROVE mem'[l] = mem[l]
      BY <1>0, <2>1, <2>2, <2>3, <2>4, Writers
    <2>5. mem[<<b, Host>>] = mem[map[b][d].ptr]
      BY <1>2, <1>5 DEF DeviceDataBack, OnDevice
    <2> QED BY <1>2, <1>3, <1>4, <2>4, <2>5
  <1>6. CASE refs[b] # {}
    <2>1. Gone(b)
      BY <1>6 DEF Gone
    <2>2. PICK c \in Buffers, h \in Holders : Release(c, h)
      <3>1. ASSUME NEW t \in Tasks, CopyIn(t) PROVE refs' = refs
        BY <3>1 DEF CopyIn
      <3> QED BY <1>0, <2>1, <3>1, StepKinds DEF Gone
    <2>3. c = b
      BY <1>0, <2>1, <2>2, Released
    <2> QED BY <1>0, <1>2, <1>4, <2>1, <2>2, <2>3, HasOneChunk, Released
  <1> QED BY <1>5, <1>6

LEMMA SnappedStep ==
  ASSUME Simple, WholeInv, Snapped, [Next]_vars
  PROVE  Snapped'
  <1>0. LockTypes /\ LockInv /\ LifeInv /\ MemoryTypes /\ WaitInv /\ CommandsWrite /\ OneHome /\ OneEach
    BY DEF WholeInv, Simple
  <1> SUFFICES ASSUME NEW t \in Tasks, pc'[t] = "running", NEW i \in DOMAIN grp'[t].acc
               PROVE  snap'[t][Loc(t, i)'] = mem'[Loc(t, i)']
    BY DEF Snapped
  <1>1. CASE KernelBegin(t)
    <2>1. /\ mem' = mem /\ snap' = [snap EXCEPT ![t] = [l \in {Loc(t, j) : j \in DOMAIN grp[t].acc} |-> mem[l]]]
          /\ UNCHANGED <<grp, dptr, map>>
      BY <1>1 DEF KernelBegin, args
    <2>2. Loc(t, i)' = Loc(t, i) /\ i \in DOMAIN grp[t].acc
      BY <2>1 DEF Loc, OnHost, Dev
    <2>3. snap'[t] = [l \in {Loc(t, j) : j \in DOMAIN grp[t].acc} |-> mem[l]]
      BY <1>0, <2>1 DEF MemoryTypes
    <2> QED BY <2>1, <2>2, <2>3
  <1>2. CASE ~KernelBegin(t)
    <2>1. pc[t] = "running"
      <3>1. CASE Still(t)
        BY <3>1 DEF Still
      <3>2. ASSUME NEW g \in Groups, Submit(t, g) PROVE FALSE
        BY <1>0, <3>2 DEF Submit, Goto, LockTypes
      <3>3. CASE Step(t)
        <4>1. CASE \/ Lookup(t) \/ Alloc(t) \/ CopyIn(t) \/ UnlockRead(t) \/ KernelEnd(t) \/ MemoryOp(t)
                   \/ Returned(t) \/ HandlerGone(t) \/ Decr(t) \/ Exit(t)
          BY <1>0, <4>1 DEF Lookup, Alloc, CopyIn, UnlockRead, KernelEnd, MemoryOp, Returned, HandlerGone,
                         Decr, Exit, Goto, LockTypes
        <4>2. CASE AlreadyLocked(t) \/ RelockWrite(t) \/ LockRead(t) \/ LockWrite(t) \/ LockSkipped(t)
          <5>1. Accessed(t) /\ pc[t] \in Acquiring
            BY <4>2 DEF AlreadyLocked, RelockWrite, LockRead, LockWrite, LockSkipped, MustLock, Acquiring
          <5> QED BY <1>0, <5>1, AccessedMoves
        <4>3. CASE DropLocal(t) \/ DropAcc(t) \/ DropClosure(t) \/ Unlock(t)
          BY <4>3 DEF DropLocal, DropAcc, DropClosure, Unlock
        <4> QED BY <1>2, <3>3, <4>1, <4>2, <4>3 DEF Step, Locking
      <3> QED BY <1>0, <3>1, <3>2, <3>3, StillOrOwn
    <2>2. AtCommand(t) /\ pc[t] \in Active /\ pc'[t] \in Active
      BY <2>1 DEF AtCommand, Active
    <2>3. Still(t)
      <3>1. ASSUME Step(t) PROVE Still(t)
        <4>1. KernelEnd(t)
          BY <2>1, <3>1 DEF Step, Locking, Lookup, Alloc, CopyIn, AlreadyLocked, UnlockRead, RelockWrite,
                  LockRead, LockWrite, LockSkipped, MustLock, KernelBegin, MemoryOp, DropLocal,
                  Returned, Unlock, DropAcc, HandlerGone, Decr, DropClosure, Exit, Goto
        <4> QED BY <1>0, <4>1 DEF KernelEnd, Goto, LockTypes
      <3>2. ASSUME NEW g \in Groups, Submit(t, g) PROVE FALSE
        BY <2>1, <3>2 DEF Submit, Goto
      <3> QED BY <1>0, <3>1, <3>2, StillOrOwn
    <2>4. grp'[t] = grp[t] /\ dptr'[t] = dptr[t]
      BY <2>3 DEF Still
    <2>5. snap'[t] = snap[t]
      <3>1. ASSUME NEW s \in Tasks, KernelBegin(s) \/ KernelEnd(s) PROVE snap'[t] = snap[t]
        <4>1. s # t
          <5>1. pc'[t] = pc[t]
            BY <2>3 DEF Still
          <5> QED BY <1>0, <1>2, <3>1, <5>1 DEF KernelEnd, Goto, LockTypes
        <4> QED BY <1>0, <3>1, <4>1 DEF KernelBegin, KernelEnd, MemoryTypes
      <3>2. ASSUME Next, \A s \in Tasks : ~KernelBegin(s) /\ ~KernelEnd(s) PROVE snap' = snap
        BY <3>2 DEF Next, Step, Locking, Submit, Lookup, Alloc, CopyIn, AlreadyLocked, UnlockRead, RelockWrite,
           LockRead, LockWrite, LockSkipped, MemoryOp, DropLocal, Returned, Unlock, DropAcc, HandlerGone, Decr,
           DropClosure, Exit, DestroyBuffer, Release, memory
      <3>3. CASE UNCHANGED vars
        BY <3>3 DEF vars, memory
      <3> QED BY <3>1, <3>2, <3>3
    <2>6. i \in DOMAIN grp[t].acc /\ Loc(t, i)' = Loc(t, i)
      <3>1. PointersKept
        BY <1>0, PointersStay
      <3> QED BY <1>0, <2>1, <2>4, <3>1, LocStays
    <2> DEFINE l == Loc(t, i)
               b == BufOf(t, i)
    <2>7. /\ b \in Buffers /\ l \in Locs /\ b \in Uses(grp[t])
          /\ OnHost(t) => l = <<b, Host>>
          /\ ~OnHost(t) => l[1] = b /\ l[2] \in Tasks /\ Entered(b, l[2])
      <3>1. b \in Uses(grp[t])
        BY <2>6 DEF BufOf, Uses
      <3>2. CASE OnHost(t)
        <4>1. b \in Buffers /\ l = <<b, Host>>
          BY <1>0, <2>2, <2>6, <3>2, LocIs
        <4> QED BY <3>1, <3>2, <4>1 DEF Locs
      <3>3. CASE ~OnHost(t)
        <4>1. /\ b \in Buffers /\ Dev(t) \in Devices /\ map[b][Dev(t)] # None
              /\ l = map[b][Dev(t)].ptr /\ l = <<b, Allocator(b, Dev(t))>>
          BY <1>0, <2>2, <2>6, <3>3, LocIs
        <4>2. Allocator(b, Dev(t)) \in Tasks
          BY <1>0, <4>1 DEF WaitInv, Owned
        <4>3. l[1] = b /\ l[2] = Allocator(b, Dev(t)) /\ l = <<b, l[2]>>
          BY <4>1
        <4>4. Entered(b, l[2])
          BY <4>1, <4>3 DEF Entered
        <4>5. l \in Locs
          BY <4>1, <4>2 DEF Locs
        <4> QED BY <3>1, <3>3, <4>1, <4>2, <4>3, <4>4, <4>5
      <3> QED BY <3>2, <3>3
    <2> HIDE DEF l, b
    <2>8. ASSUME mem'[l] # mem[l] PROVE FALSE
      <3>1. ASSUME NEW s \in Tasks, CopyIn(s), l = Chunk(s) PROVE FALSE
        <4>1. pc[s] = "copyin" /\ pc[s] \in Active
          BY <3>1 DEF CopyIn, Goto, Active, Acquiring
        <4>2. l = <<Buf(s), s>> /\ Entered(Buf(s), s) /\ Buf(s) \in Buffers
          BY <3>1, <4>1, CopiesOwn
        <4>3. Buf(s) = b
          BY <2>7, <4>2
        <4>4. t = s
          BY <1>0, <2>2, <2>7, <4>1, <4>2, <4>3, MakerAlone
        <4> QED BY <2>1, <4>1, <4>4
      <3>2. ASSUME NEW s \in Tasks, Writes(s, l) PROVE FALSE
        <4>1. AtCommand(s) /\ s # t
          <5>1. AtCommand(s) /\ pc'[s] = "returning"
            BY <3>2, WritesWhere
          <5> QED BY <5>1
        <4>2. CASE \E j \in DOMAIN grp[s].acc : l = Loc(s, j) /\ (CommandsWrite => grp[s].acc[j].mode # "read")
          <5>1. PICK j \in DOMAIN grp[s].acc : Loc(s, j) = Loc(t, i) /\ grp[s].acc[j].mode # "read"
            BY <1>0, <4>2 DEF l
          <5> QED BY <1>0, <2>2, <2>6, <4>1, <5>1, CommandsExclude
        <4>3. CASE ~OnHost(s) /\ \E j \in DOMAIN grp[s].acc : l = <<BufOf(s, j), Host>>
          <5>1. PICK j \in DOMAIN grp[s].acc : l = <<BufOf(s, j), Host>>
            BY <4>3
          <5>2. OnHost(t)
            BY <2>7, <5>1, NamesDiffer
          <5>3. BufOf(s, j) = b
            BY <2>7, <5>1, <5>2
          <5>4. b \in Uses(grp[s]) /\ pc[s] # "unborn"
            BY <4>1, <5>3 DEF Uses, BufOf, AtCommand
          <5>5. Dev(s) = Dev(t) \/ (OnHost(s) /\ OnHost(t))
            BY <1>0, <2>1, <2>7, <5>4, SameHome
          <5> QED BY <4>3, <5>2, <5>5 DEF OnHost
        <4> QED BY <3>2, <4>2, <4>3 DEF Writes
      <3>3. ASSUME NEW c \in Buffers, l = <<c, Host>>, Gone(c) PROVE FALSE
        <4>1. c = b
          BY <2>7, <3>3
        <4> QED BY <1>0, <2>2, <2>4, <2>7, <3>3, <4>1, KeptNext DEF Gone
      <3> QED BY <1>0, <2>7, <2>8, <3>1, <3>2, <3>3, Writers
    <2>9. snap[t][l] = mem[l]
      BY <2>1, <2>6 DEF Snapped, l
    <2> QED BY <2>5, <2>6, <2>8, <2>9 DEF l
  <1> QED BY <1>1, <1>2

\* Part of it holds whatever commands do.
BackInv == WrittenBack /\ FirstWrites /\ DeviceDataBack

LEMMA DataInit == Init => BackInv /\ DataInv
  <1> SUFFICES ASSUME Init PROVE BackInv /\ DataInv
    OBVIOUS
  <1>1. WrittenBack /\ FirstWrites /\ Snapped /\ DeviceDataBack
    BY DEF Init, WrittenBack, FirstWrites, Snapped, DeviceDataBack, Pending, OnDevice
  <1>2. Copied
    BY DEF Init, Copied, Active, Acquiring
  <1>3. Blank
    <2>1. \A b \in Buffers, t \in Tasks : <<b, t>> \in Locs /\ t # Host
      BY NamesDiffer DEF Locs
    <2> QED BY <2>1 DEF Init, Blank
  <1> QED BY <1>1, <1>2, <1>3 DEF DataInv, BackInv

LEMMA BackStep ==
  ASSUME OneHome, WholeInv, BackInv, [CarefulNext]_vars
  PROVE  BackInv'
  <1>1. [Next]_vars
    BY CarefulIsNext
  <1>2. WrittenBack /\ FirstWrites /\ DeviceDataBack
    BY DEF BackInv
  <1> QED BY <1>1, <1>2, WrittenBackStep, FirstWritesStep, DataBackStep DEF BackInv

LEMMA DataStep ==
  ASSUME Simple, WholeInv, BackInv, DataInv, [CarefulNext]_vars
  PROVE  DataInv'
  <1>1. [Next]_vars /\ OneHome
    BY CarefulIsNext DEF Simple
  <1> QED BY <1>1, BlankStep, CopiedStep, SnappedStep DEF DataInv

LEMMA WholeInvariance == CarefulSpec => []WholeInv
  <1>1. WholeInv <=> GroupInv /\ WaitInv
    BY DEF WholeInv, GroupInv
  <1> QED BY <1>1, CarefulInvariance, PTL

LEMMA BackInvariance ==
  ASSUME OneHome
  PROVE  CarefulSpec => [](WholeInv /\ BackInv)
  <1>1. WholeInv /\ BackInv /\ [CarefulNext]_vars => BackInv'
    BY BackStep
  <1> QED BY <1>1, DataInit, WholeInvariance, PTL DEF CarefulSpec

LEMMA DataInvariance ==
  ASSUME Simple
  PROVE  CarefulSpec => [](WholeInv /\ BackInv /\ DataInv)
  <1>1. OneHome
    BY DEF Simple
  <1>2. CarefulSpec => [](WholeInv /\ BackInv)
    BY <1>1, BackInvariance
  <1>3. WholeInv /\ BackInv /\ DataInv /\ [CarefulNext]_vars => DataInv'
    BY DataStep
  <1> QED BY <1>2, <1>3, DataInit, PTL DEF CarefulSpec

\* Where a buffer stays on one device, host memory holds the device's data once
\* its container is gone: the chunk was opened for writing by its first user, so
\* ~BufferContainer reads it back, and nobody writes to either after that
\* (program.hpp:268-318, container/buffer_container.hpp).
THEOREM DataComesBack ==
  ASSUME OneHome
  PROVE  WaitingSpec => []DeviceDataBack
  <1>1. WholeInv /\ BackInv => DeviceDataBack
    BY DEF BackInv
  <1> QED BY <1>1, BackInvariance, WaitingIsCarefulSpec, PTL

-----------------------------------------------------------------------------
(* Command groups are atomic                                               *)

\* How far a command group is, and what a buffer gives back, in AtomicGroups.
Status(t) == IF pc[t] = "unborn" THEN "unborn"
             ELSE IF pc[t] \in Active THEN "submitted" ELSE "executed"
Out(b) == IF refs[b] = {} THEN mem[<<b, Host>>] ELSE None

\* The contents of a buffer: of its chunk, once the command group that made
\* that has run.
LEMMA ValueIs ==
  ASSUME OneChunk, LockTypes, LifeInv, NEW b \in Buffers
  PROVE  /\ (\A u \in Tasks : ~Entered(b, u)) => Value(b) = mem[<<b, Host>>]
         /\ \A u \in Tasks : Entered(b, u) =>
              Value(b) = IF pc[u] \in Active THEN mem[<<b, Host>>] ELSE mem[<<b, u>>]
         /\ \A u, v \in Tasks : Entered(b, u) /\ Entered(b, v) => u = v
  <1>1. \A d \in Devices : map[b][d] # None => \E u \in Tasks : map[b][d].ptr = <<b, u>>
    BY DEF LifeInv, Mapped, Ptrs
  <1>2. ASSUME \A u \in Tasks : ~Entered(b, u) PROVE Value(b) = mem[<<b, Host>>]
    <2>1. OnDevice(b) = {}
      BY <1>1, <1>2 DEF OnDevice, Entered
    <2> QED BY <2>1 DEF Value
  <1>3. ASSUME NEW u \in Tasks, Entered(b, u)
        PROVE  Value(b) = IF pc[u] \in Active THEN mem[<<b, Host>>] ELSE mem[<<b, u>>]
    <2>1. PICK d \in Devices : map[b][d] # None /\ map[b][d].ptr = <<b, u>>
      BY <1>3 DEF Entered
    <2>2. \A e \in Devices : map[b][e] # None => e = d
      BY <2>1 DEF OneChunk
    <2>3. OnDevice(b) = {d}
      BY <2>1, <2>2 DEF OnDevice
    <2>4. Fresh(b) <=> pc[u] \in Active
      <3>1. \A t \in Tasks : (\E e \in Devices : map[b][e] # None /\ map[b][e].ptr = <<b, t>>) <=> t = u
        BY <2>1, <2>2
      <3> QED BY <3>1 DEF Fresh, Active
    <2> QED BY <2>1, <2>3, <2>4 DEF Value
  <1>4. ASSUME NEW u \in Tasks, NEW v \in Tasks, Entered(b, u), Entered(b, v) PROVE u = v
    BY <1>4 DEF OneChunk, Entered
  <1> QED BY <1>2, <1>3, <1>4

\* The same of the next state.
LEMMA ValueNext ==
  ASSUME OneChunk', LockTypes, LifeInv, [Next]_vars, NEW b \in Buffers
  PROVE  /\ (\A u \in Tasks : ~Entered(b, u)') => Value(b)' = mem'[<<b, Host>>]
         /\ \A u \in Tasks : Entered(b, u)' =>
              Value(b)' = IF pc'[u] \in Active THEN mem'[<<b, Host>>] ELSE mem'[<<b, u>>]
  <1>0. LifeInv'
    BY LifeInvStep
  <1>1. \A d \in Devices : map'[b][d] # None => \E u \in Tasks : map'[b][d].ptr = <<b, u>>
    BY <1>0 DEF LifeInv, Mapped, Ptrs
  <1>2. ASSUME \A u \in Tasks : ~Entered(b, u)' PROVE Value(b)' = mem'[<<b, Host>>]
    <2>1. OnDevice(b)' = {}
      BY <1>1, <1>2 DEF OnDevice, Entered
    <2> QED BY <2>1 DEF Value
  <1>3. ASSUME NEW u \in Tasks, Entered(b, u)'
        PROVE  Value(b)' = IF pc'[u] \in Active THEN mem'[<<b, Host>>] ELSE mem'[<<b, u>>]
    <2>1. PICK d \in Devices : map'[b][d] # None /\ map'[b][d].ptr = <<b, u>>
      BY <1>3 DEF Entered
    <2>2. \A e \in Devices : map'[b][e] # None => e = d
      BY <2>1 DEF OneChunk
    <2>3. OnDevice(b)' = {d}
      BY <2>1, <2>2 DEF OnDevice
    <2>4. Fresh(b)' <=> pc'[u] \in Active
      <3>1. \A t \in Tasks : (\E e \in Devices : map'[b][e] # None /\ map'[b][e].ptr = <<b, t>>) <=> t = u
        BY <2>1, <2>2
      <3> QED BY <3>1 DEF Fresh, Active
    <2> QED BY <2>1, <2>3, <2>4 DEF Value
  <1> QED BY <1>2, <1>3

\* Who leaves and who enters the part in which a command group is in progress.
LEMMA ActiveSteps ==
  ASSUME LockTypes, LifeInv, [Next]_vars, NEW t \in Tasks
  PROVE  /\ pc[t] \in Active /\ pc'[t] \notin Active => Command(t)
         /\ pc[t] \notin Active /\ pc'[t] \in Active =>
              pc[t] = "unborn" /\ \E g \in Groups : Submit(t, g)
         /\ grp'[t] # grp[t] => pc[t] = "unborn" /\ \E g \in Groups : Submit(t, g)
         /\ pc'[t] = "unborn" <=> pc[t] = "unborn" /\ ~\E g \in Groups : Submit(t, g)
  <1>1. CASE Still(t)
    <2>1. ASSUME NEW g \in Groups, Submit(t, g) PROVE FALSE
      BY <1>1, <2>1 DEF Still, Submit, Goto, LockTypes
    <2> QED BY <1>1, <2>1 DEF Still
  <1>2. ASSUME NEW g \in Groups, Submit(t, g)
        PROVE  pc[t] = "unborn" /\ pc'[t] \in Active /\ pc'[t] # "unborn"
    BY <1>2 DEF Submit, Goto, LockTypes, Active, Acquiring
  <1>3. CASE Step(t)
    <2>1. pc[t] # "unborn" /\ pc'[t] # "unborn" /\ grp'[t] = grp[t]
          /\ (pc'[t] \in Active => pc[t] \in Active)
      <3>1. pc[t] # "unborn"
        BY <1>3 DEF Step, Locking, Lookup, Alloc, CopyIn, AlreadyLocked, UnlockRead, RelockWrite,
                  LockRead, LockWrite, LockSkipped, MustLock, KernelBegin, KernelEnd, MemoryOp, DropLocal,
                  Returned, Unlock, DropAcc, HandlerGone, Decr, DropClosure, Exit, Goto
      <3>2. Continues(t) \/ Counted(t)
        BY <3>1, Lives DEF Born
      <3> QED BY <3>1, <3>2 DEF Continues, Counted, Active, Acquiring
    <2>2. ASSUME pc[t] \in Active, ~Command(t) PROVE pc'[t] \in Active
      <3>1. CASE Lookup(t) \/ Alloc(t) \/ CopyIn(t) \/ UnlockRead(t) \/ KernelBegin(t)
        BY <3>1 DEF Lookup, Alloc, CopyIn, UnlockRead, KernelBegin, Goto, LockTypes, Active, Acquiring
      <3>2. CASE AlreadyLocked(t) \/ RelockWrite(t) \/ LockRead(t) \/ LockWrite(t) \/ LockSkipped(t)
        <4>1. Accessed(t) /\ pc[t] \in Acquiring
          BY <3>2 DEF AlreadyLocked, RelockWrite, LockRead, LockWrite, LockSkipped, MustLock, Acquiring
        <4> QED BY <4>1, AccessedMoves DEF Active, Acquiring
      <3>3. ~(DropLocal(t) \/ Returned(t) \/ Unlock(t) \/ DropAcc(t) \/ HandlerGone(t) \/ Decr(t)
              \/ DropClosure(t) \/ Exit(t))
        BY <2>2 DEF DropLocal, Returned, Unlock, DropAcc, HandlerGone, Decr, DropClosure, Exit, Goto,
                    Active, Acquiring
      <3> QED BY <1>3, <2>2, <3>1, <3>2, <3>3 DEF Step, Locking, Command
    <2> QED BY <1>2, <2>1, <2>2
  <1> QED BY <1>1, <1>2, <1>3, StillOrOwn

\* A command that does not use a buffer, and any other step, leaves its
\* contents alone.
LEMMA ValueKept ==
  ASSUME OneHome, WholeInv, BackInv, [Next]_vars, NEW b \in Buffers,
         \A t \in Tasks : Command(t) => b \notin Uses(grp[t])
  PROVE  Value(b)' = Value(b)
  <1>0. LockTypes /\ LifeInv /\ MemoryTypes /\ WaitInv /\ Owned /\ WrittenBack
    BY DEF WholeInv, WaitInv, BackInv
  <1>h. OneChunk /\ OneChunk'
    BY HasOneChunk, HasOneChunkNext
  <1>l. <<b, Host>> \in Locs /\ \A u \in Tasks : <<b, u>> \in Locs /\ u # Host
    BY NamesDiffer DEF Locs
  <1>1. \A t \in Tasks : \A l : l[1] = b => ~Writes(t, l)
    BY WritesWhere DEF Writes
  <1>2. CASE \A u \in Tasks : ~Entered(b, u)'
    <2>1. \A u \in Tasks : ~Entered(b, u)
      BY <1>0, <1>2, EnteredStays
    <2>2. \A t \in Tasks : <<b, Host>> # Chunk(t)
      BY NamesDiffer DEF Chunk
    <2>3. mem'[<<b, Host>>] = mem[<<b, Host>>]
      <3>1. CASE Gone(b)
        <4>1. PICK c \in Buffers, h \in Holders : Release(c, h)
          <5>1. ASSUME NEW t \in Tasks, CopyIn(t) PROVE refs' = refs
            BY <5>1 DEF CopyIn
          <5> QED BY <1>0, <3>1, <5>1, StepKinds DEF Gone
        <4>2. c = b
          BY <1>0, <3>1, <4>1, Released
        <4>3. \A d \in Devices : map[b][d] = None
          BY <1>0, <2>1 DEF Entered, LifeInv, Mapped, Ptrs
        <4> QED BY <1>0, <4>1, <4>2, <4>3, Released
      <3>2. CASE ~Gone(b)
        BY <1>0, <1>l, <1>1, <2>2, <3>2, Writers
      <3> QED BY <3>1, <3>2
    <2> QED BY <1>0, <1>h, <1>2, <2>1, <2>3, ValueIs, ValueNext
  <1>3. ASSUME NEW u \in Tasks, Entered(b, u)' PROVE Value(b)' = Value(b)
    <2>1. CASE ~Entered(b, u)
      <3>1. Alloc(u) /\ b = Buf(u)
        BY <1>0, <1>3, <2>1, EnteredStays
      <3>2. pc[u] = "alloc" /\ mem' = mem /\ pc'[u] \in Active
        BY <1>0, <3>1 DEF Alloc, Goto, LockTypes, Active, Acquiring
      <3>3. \A v \in Tasks : ~Entered(b, v)
        <4>1. ASSUME NEW v \in Tasks, Entered(b, v) PROVE FALSE
          <5>1. PICK d \in Devices : map[b][d] # None
            BY <4>1 DEF Entered
          <5>2. b \in Uses(grp[u]) /\ pc[u] # "unborn"
            BY <1>0, <3>1, <3>2, BufInUse DEF Acquiring
          <5>3. Dev(u) = d
            BY <5>1, <5>2, ChunkHome
          <5>4. map[b][Dev(u)] = None
            BY <1>0, <3>1, <3>2 DEF WaitInv, Making
          <5> QED BY <5>1, <5>3, <5>4
        <4> QED BY <4>1
      <3> QED BY <1>0, <1>h, <1>3, <3>2, <3>3, ValueIs, ValueNext
    <2>2. CASE Entered(b, u)
      <3>1. b \in Uses(grp[u]) /\ pc[u] # "unborn"
        BY <1>0, <2>2 DEF Entered, Owned, Allocator
      <3>2. pc'[u] \in Active <=> pc[u] \in Active
        BY <1>0, <3>1, ActiveSteps
      <3>3. CASE pc[u] \in Active
        <4>1. ~Gone(b)
          <5>1. grp'[u] = grp[u]
            BY <1>0, <3>1, ActiveSteps
          <5> QED BY <1>0, <3>1, <3>2, <3>3, <5>1, KeptNext DEF Gone
        <4>2. \A t \in Tasks : <<b, Host>> # Chunk(t)
          BY NamesDiffer DEF Chunk
        <4>3. mem'[<<b, Host>>] = mem[<<b, Host>>]
          BY <1>0, <1>l, <1>1, <4>1, <4>2, Writers
        <4> QED BY <1>0, <1>h, <1>3, <2>2, <3>2, <3>3, <4>3, ValueIs, ValueNext
      <3>4. CASE pc[u] \notin Active
        <4>1. ASSUME NEW t \in Tasks, CopyIn(t) PROVE <<b, u>> # Chunk(t)
          BY <3>4, <4>1 DEF CopyIn, Goto, Active, Acquiring, Chunk
        <4>2. \A c \in Buffers : <<b, u>> # <<c, Host>>
          BY <1>l
        <4>3. mem'[<<b, u>>] = mem[<<b, u>>]
          BY <1>0, <1>l, <1>1, <4>1, <4>2, Writers
        <4> QED BY <1>0, <1>h, <1>3, <2>2, <3>2, <3>4, <4>3, ValueIs, ValueNext
      <3> QED BY <3>3, <3>4
    <2> QED BY <2>1, <2>2
  <1> QED BY <1>2, <1>3

\* A command does the same to the memory of its accessors as to their buffers.
LEMMA AfterMaps ==
  ASSUME NEW g, NEW t, NEW loc, NEW buf, NEW s, NEW m, NEW v,
         DOMAIN loc = DOMAIN g.acc, DOMAIN buf = DOMAIN g.acc,
         \A i, j \in DOMAIN g.acc : loc[i] = loc[j] <=> buf[i] = buf[j],
         \A i \in DOMAIN g.acc : loc[i] \in DOMAIN m /\ buf[i] \in DOMAIN v,
         \A i \in DOMAIN g.acc : s[loc[i]] = v[buf[i]] /\ m[loc[i]] = v[buf[i]],
         g.cmd = "copy" => 1 \in DOMAIN g.acc,
         NEW i \in DOMAIN g.acc
  PROVE  After(g, t, loc, s, m)[loc[i]] = After(g, t, buf, v, v)[buf[i]]
  <1>1. loc[i] \in Written(g, loc) <=> buf[i] \in Written(g, buf)
    BY DEF Written
  <1>2. Result(g, t, loc, s, loc[i]) = Result(g, t, buf, v, buf[i])
        \/ g.cmd \notin {"kernel", "fill", "copy"}
    <2>1. CASE g.cmd = "kernel"
      <3> DEFINE R == {j \in DOMAIN g.acc : g.acc[j].mode \in {"read", "read_write"}}
      <3>1. {s[loc[j]] : j \in R} = {v[buf[j]] : j \in R}
        OBVIOUS
      <3>2. Result(g, t, loc, s, loc[i]) = s[loc[i]] \cup {t} \cup UNION {s[loc[j]] : j \in R}
        BY <2>1 DEF Result
      <3>3. Result(g, t, buf, v, buf[i]) = v[buf[i]] \cup {t} \cup UNION {v[buf[j]] : j \in R}
        BY <2>1 DEF Result
      <3> QED BY <3>1, <3>2, <3>3
    <2>2. CASE g.cmd = "fill"
      BY <2>2 DEF Result
    <2>3. CASE g.cmd = "copy"
      BY <2>3 DEF Result
    <2> QED BY <2>1, <2>2, <2>3
  <1>3. loc[i] \in Written(g, loc) => g.cmd \in {"kernel", "fill", "copy"}
    BY DEF Written
  <1> HIDE DEF Written
  <1>4. After(g, t, loc, s, m)[loc[i]] = IF loc[i] \in Written(g, loc) THEN Result(g, t, loc, s, loc[i]) ELSE m[loc[i]]
    BY DEF After
  <1>5. After(g, t, buf, v, v)[buf[i]] = IF buf[i] \in Written(g, buf) THEN Result(g, t, buf, v, buf[i]) ELSE v[buf[i]]
    BY DEF After
  <1> QED BY <1>1, <1>2, <1>3, <1>4, <1>5

\* The buffers of a command group, and those whose contents it may lose.
BufsOf(t) == [i \in DOMAIN grp[t].acc |-> BufOf(t, i)]
MayLose(t) == {BufOf(t, i) : i \in {j \in DOMAIN grp[t].acc : Discards(grp[t].acc[j].mode)}}

\* What a command finds: the contents of its buffers, or nothing where it
\* discards them.
LEMMA CommandFinds ==
  ASSUME Simple, WholeInv, DataInv, NEW t \in Tasks, AtCommand(t), NEW i \in DOMAIN grp[t].acc
  PROVE  /\ BufOf(t, i) \in Buffers /\ Loc(t, i) \in Locs
         /\ \/ mem[Loc(t, i)] = Value(BufOf(t, i))
            \/ mem[Loc(t, i)] = {} /\ BufOf(t, i) \in MayLose(t)
  <1>0. LockTypes /\ LifeInv /\ MemoryTypes /\ WaitInv /\ Owned /\ OneHome /\ Copied /\ OneChunk
    BY HasOneChunk DEF WholeInv, WaitInv, Simple, DataInv
  <1> DEFINE b == BufOf(t, i)
  <1>1. pc[t] \in Active /\ pc[t] # "unborn" /\ pc[t] # "copyin" /\ b \in Uses(grp[t])
    BY DEF AtCommand, Active, Uses, BufOf
  <1>2. CASE OnHost(t)
    <2>1. b \in Buffers /\ Dev(t) \in Devices /\ Loc(t, i) = <<b, Host>>
      BY <1>0, <1>2, LocIs
    <2>2. \A u \in Tasks : ~Entered(b, u)
      <3>1. \A d \in Devices : map[b][d] = None
        BY <1>0, <1>1, <1>2, <2>1, ChunkHome
      <3> QED BY <3>1 DEF Entered
    <2>3. Value(b) = mem[<<b, Host>>]
      BY <1>0, <2>1, <2>2, ValueIs
    <2> QED BY <2>1, <2>3 DEF Locs
  <1>3. CASE ~OnHost(t)
    <2>1. /\ b \in Buffers /\ Dev(t) \in Devices /\ map[b][Dev(t)] # None
          /\ Loc(t, i) = map[b][Dev(t)].ptr /\ Loc(t, i) = <<b, Allocator(b, Dev(t))>>
      BY <1>0, <1>3, LocIs
    <2>2. PICK u \in Tasks : u = Allocator(b, Dev(t))
      BY <1>0, <2>1 DEF Owned
    <2>3. Entered(b, u) /\ Loc(t, i) = <<b, u>>
      BY <2>1, <2>2 DEF Entered
    <2>4. Value(b) = IF pc[u] \in Active THEN mem[<<b, Host>>] ELSE mem[<<b, u>>]
      BY <1>0, <2>1, <2>3, ValueIs
    <2>5. CASE pc[u] \in Active
      <3>1. u = t
        BY <1>0, <1>1, <2>1, <2>3, <2>5, MakerAlone
      <3>2. mem[<<b, u>>] = mem[<<b, Host>>] \/ Discarded(t, b)
        BY <1>0, <1>1, <2>1, <2>3, <2>5, <3>1 DEF Copied, Filled
      <3>3. Discarded(t, b) => mem[<<b, t>>] = {} /\ b \in MayLose(t)
        BY DEF Discarded, MayLose
      <3> QED BY <2>1, <2>3, <2>4, <2>5, <3>1, <3>2, <3>3 DEF Locs
    <2> QED BY <2>1, <2>3, <2>4, <2>5 DEF Locs
  <1> QED BY <1>2, <1>3

\* Two accessors stand for the same memory if they are to the same buffer.
LEMMA LocsAndBufs ==
  ASSUME WholeInv, NEW t \in Tasks, AtCommand(t), NEW i \in DOMAIN grp[t].acc, NEW j \in DOMAIN grp[t].acc
  PROVE  Loc(t, i) = Loc(t, j) <=> BufOf(t, i) = BufOf(t, j)
  <1>0. LockTypes /\ LifeInv /\ WaitInv
    BY DEF WholeInv
  <1>1. CASE OnHost(t)
    BY <1>0, <1>1, LocIs
  <1>2. CASE ~OnHost(t)
    BY <1>0, <1>2, LocIs
  <1> QED BY <1>1, <1>2

\* What it leaves there are the contents from then on.
LEMMA CommandLeaves ==
  ASSUME Simple, WholeInv, [Next]_vars, NEW t \in Tasks, Command(t), NEW i \in DOMAIN grp[t].acc
  PROVE  Value(BufOf(t, i))' = mem'[Loc(t, i)]
  <1>0. LockTypes /\ LifeInv /\ MemoryTypes /\ WaitInv /\ Owned /\ OneHome /\ OneChunk'
    BY HasOneChunkNext DEF WholeInv, WaitInv, Simple
  <1> DEFINE b == BufOf(t, i)
  <1>1. /\ AtCommand(t) /\ pc[t] \in Active /\ pc[t] # "unborn" /\ b \in Uses(grp[t])
        /\ pc' = [pc EXCEPT ![t] = "returning"] /\ map' = map /\ grp' = grp
    BY DEF Command, KernelEnd, MemoryOp, Goto, AtCommand, Active, Uses, BufOf, args
  <1>2. PICK c \in Buffers : c = b
    BY <1>0, <1>1, LocIs
  <1>b. Value(BufOf(t, i))' = Value(c)'
    BY <1>1, <1>2 DEF BufOf, Value, OnDevice, Fresh
  <1>3. \A u : Entered(c, u)' <=> Entered(c, u)
    BY <1>1 DEF Entered
  <1>4. CASE OnHost(t)
    <2>1. Dev(t) \in Devices /\ Loc(t, i) = <<c, Host>>
      BY <1>0, <1>1, <1>2, <1>4, LocIs
    <2>2. \A d \in Devices : map[c][d] = None
      BY <1>0, <1>1, <1>2, <1>4, ChunkHome
    <2>3. \A u \in Tasks : ~Entered(c, u)'
      BY <1>3, <2>2 DEF Entered
    <2> QED BY <1>0, <1>b, <2>1, <2>3, ValueNext
  <1>5. CASE ~OnHost(t)
    <2>1. /\ Dev(t) \in Devices /\ map[c][Dev(t)] # None
          /\ Loc(t, i) = map[c][Dev(t)].ptr /\ Loc(t, i) = <<c, Allocator(c, Dev(t))>>
      BY <1>0, <1>1, <1>2, <1>5, LocIs
    <2>2. PICK u \in Tasks : u = Allocator(c, Dev(t))
      BY <1>0, <2>1 DEF Owned
    <2>3. Entered(c, u) /\ Loc(t, i) = <<c, u>>
      BY <2>1, <2>2 DEF Entered
    <2>4. pc'[u] \notin Active
      <3>1. CASE pc[u] \in Active
        <4>1. u = t
          BY <1>0, <1>1, <1>2, <2>3, <3>1, MakerAlone
        <4> QED BY <1>0, <1>1, <4>1 DEF LockTypes, Active, Acquiring
      <3>2. CASE pc[u] \notin Active
        BY <1>0, <1>1, <3>2 DEF LockTypes, Active, Acquiring
      <3> QED BY <3>1, <3>2
    <2> QED BY <1>0, <1>3, <1>b, <2>3, <2>4, ValueNext
  <1> QED BY <1>4, <1>5

\* A command is the step of AtomicGroups.
LEMMA CommandExecutes ==
  ASSUME Simple, WholeInv, BackInv, DataInv, [Next]_vars, NEW t \in Tasks, Command(t)
  PROVE  \E lost \in SUBSET MayLose(t) :
           LET v == [b \in Buffers |-> IF b \in lost THEN {} ELSE Value(b)]
           IN  [b \in Buffers |-> Value(b)'] = After(grp[t], t, BufsOf(t), v, v)
  <1>0. /\ LockTypes /\ LifeInv /\ MemoryTypes /\ WaitInv /\ OneHome /\ HostKernels
        /\ Snapped /\ DOMAIN mem = Locs
    BY DEF WholeInv, Simple, DataInv, MemoryTypes
  <1> DEFINE g == grp[t]
             I == DOMAIN grp[t].acc
             lost == {BufOf(t, i) : i \in {j \in I : mem[Loc(t, j)] # Value(BufOf(t, j))}}
             v == [b \in Buffers |-> IF b \in lost THEN {} ELSE Value(b)]
  <1>1. AtCommand(t) /\ pc[t] # "unborn" /\ g \in Groups
    BY <1>0 DEF Command, KernelEnd, MemoryOp, Goto, AtCommand, LockTypes
  <1>2. lost \in SUBSET MayLose(t)
    BY <1>1, CommandFinds
  <1>3. \A i \in I : BufOf(t, i) \in Buffers /\ Loc(t, i) \in Locs /\ v[BufOf(t, i)] = mem[Loc(t, i)]
    <2> SUFFICES ASSUME NEW i \in I
                 PROVE  BufOf(t, i) \in Buffers /\ Loc(t, i) \in Locs /\ v[BufOf(t, i)] = mem[Loc(t, i)]
      OBVIOUS
    <2>1. BufOf(t, i) \in Buffers /\ Loc(t, i) \in Locs
      BY <1>1, CommandFinds
    <2>2. CASE mem[Loc(t, i)] = Value(BufOf(t, i))
      <3>1. BufOf(t, i) \notin lost
        <4>1. \A j \in I : BufOf(t, j) = BufOf(t, i) => mem[Loc(t, j)] = Value(BufOf(t, j))
          BY <1>1, <2>2, LocsAndBufs
        <4> QED BY <4>1
      <3> QED BY <2>1, <2>2, <3>1
    <2>3. CASE mem[Loc(t, i)] # Value(BufOf(t, i))
      <3>1. BufOf(t, i) \in lost
        BY <2>3
      <3>2. mem[Loc(t, i)] = {}
        BY <1>1, <2>3, CommandFinds
      <3> QED BY <2>1, <3>1, <3>2
    <2> QED BY <2>2, <2>3
  <1>4. DOMAIN v = Buffers /\ \A b \in Buffers : b \notin Uses(g) => v[b] = Value(b)
    <2>1. \A b \in lost : b \in Uses(g)
      BY DEF Uses, BufOf
    <2> QED BY <2>1
  <1> HIDE DEF lost, v
  <1>5. /\ DOMAIN LocOf(t) = I /\ DOMAIN BufsOf(t) = I
        /\ \A i \in I : LocOf(t)[i] = Loc(t, i) /\ BufsOf(t)[i] = BufOf(t, i)
    BY DEF LocOf, BufsOf
  <1>6. g.cmd = "copy" => 1 \in DOMAIN g.acc
    <2>1. g.cmd = "copy" => Len(g.acc) >= 2
      BY <1>1, GroupsAre
    <2> QED BY <1>0, <1>1, <2>1, GroupType
  <1>7. ASSUME NEW s, \A i \in I : s[Loc(t, i)] = mem[Loc(t, i)], mem' = After(g, t, LocOf(t), s, mem),
               NEW i \in I
        PROVE  mem'[Loc(t, i)] = After(g, t, BufsOf(t), v, v)[BufOf(t, i)]
    <2>1. \A k, j \in I : LocOf(t)[k] = LocOf(t)[j] <=> BufsOf(t)[k] = BufsOf(t)[j]
      BY <1>1, <1>5, LocsAndBufs
    <2>2. \A k \in I : LocOf(t)[k] \in DOMAIN mem /\ BufsOf(t)[k] \in DOMAIN v
      BY <1>0, <1>3, <1>4, <1>5
    <2>3. \A k \in I : s[LocOf(t)[k]] = v[BufsOf(t)[k]] /\ mem[LocOf(t)[k]] = v[BufsOf(t)[k]]
      BY <1>3, <1>5, <1>7
    <2>4. After(g, t, LocOf(t), s, mem)[LocOf(t)[i]] = After(g, t, BufsOf(t), v, v)[BufsOf(t)[i]]
      BY <1>5, <1>6, <1>7, <2>1, <2>2, <2>3, AfterMaps
    <2> QED BY <1>5, <1>7, <2>4
  <1>8. \A i \in I : mem'[Loc(t, i)] = After(g, t, BufsOf(t), v, v)[BufOf(t, i)]
    <2>1. CASE KernelEnd(t)
      <3>1. mem' = After(g, t, LocOf(t), snap[t], mem) /\ pc[t] = "running"
        BY <2>1 DEF KernelEnd, Goto
      <3> QED BY <1>0, <1>7, <3>1 DEF Snapped
    <2>2. CASE MemoryOp(t) /\ g.cmd # "update_host"
      <3>1. ~OnHost(t)
        BY <1>0, <1>1, <2>2 DEF MemoryOp, HostKernels, OnHost, Dev
      <3>2. mem' = After(g, t, LocOf(t), mem, mem)
        BY <2>2, <3>1 DEF MemoryOp
      <3> QED BY <1>7, <3>2
    <2>3. CASE MemoryOp(t) /\ g.cmd = "update_host"
      <3>1. ~OnHost(t)
        BY <1>0, <1>1, <2>3 DEF MemoryOp, HostKernels, OnHost, Dev
      <3>2. mem' = [mem EXCEPT ![<<g.acc[1].buf, Host>>] = mem[Loc(t, 1)]]
        BY <2>3, <3>1 DEF MemoryOp
      <3>3. \A i \in I : Loc(t, i) # <<g.acc[1].buf, Host>>
        <4> SUFFICES ASSUME NEW i \in I PROVE Loc(t, i)[2] # Host
          OBVIOUS
        <4>1. /\ Loc(t, i) = <<BufOf(t, i), Allocator(BufOf(t, i), Dev(t))>>
              /\ map[BufOf(t, i)][Dev(t)] # None /\ BufOf(t, i) \in Buffers /\ Dev(t) \in Devices
          BY <1>0, <1>1, <3>1, LocIs
        <4>2. Allocator(BufOf(t, i), Dev(t)) \in Tasks
          BY <1>0, <4>1 DEF WaitInv, Owned
        <4> QED BY <4>1, <4>2, NamesDiffer
      <3>4. \A i \in I : mem'[Loc(t, i)] = mem[Loc(t, i)]
        BY <1>0, <1>3, <3>2, <3>3
      <3>5. Written(g, BufsOf(t)) = {}
        BY <2>3 DEF Written
      <3>6. \A b \in Buffers : After(g, t, BufsOf(t), v, v)[b] = v[b]
        BY <1>4, <3>5 DEF After
      <3> QED BY <1>3, <3>4, <3>6
    <2> QED BY <2>1, <2>2, <2>3 DEF Command
  <1>9. \A s \in Tasks : Command(s) => s = t
    <2>1. \A s \in Tasks : Command(s) => pc[s] # "returning" /\ pc' = [pc EXCEPT ![s] = "returning"]
      BY DEF Command, KernelEnd, MemoryOp, Goto
    <2> QED BY <1>0, <2>1 DEF LockTypes
  <1>10. ASSUME NEW b \in Buffers PROVE Value(b)' = After(g, t, BufsOf(t), v, v)[b]
    <2>1. CASE b \in Uses(g)
      <3>1. PICK i \in I : b = BufOf(t, i)
        BY <2>1 DEF Uses, BufOf
      <3>2. grp' = grp
        BY DEF Command, KernelEnd, MemoryOp, args
      <3>3. Value(BufOf(t, i))' = Value(b)'
        BY <3>1, <3>2 DEF BufOf, Value, OnDevice, Fresh
      <3>4. Value(BufOf(t, i))' = mem'[Loc(t, i)]
        BY CommandLeaves
      <3> QED BY <1>8, <3>1, <3>3, <3>4
    <2>2. CASE b \notin Uses(g)
      <3>1. Value(b)' = Value(b)
        BY <1>9, <2>2, ValueKept DEF Simple
      <3>2. b \notin Written(g, BufsOf(t))
        BY <2>2 DEF Written, BufsOf, BufOf, Uses
      <3>3. After(g, t, BufsOf(t), v, v)[b] = v[b]
        BY <1>4, <3>2 DEF After
      <3> QED BY <1>4, <2>2, <3>1, <3>3
    <2> QED BY <2>1, <2>2
  <1>11. After(g, t, BufsOf(t), v, v) = [b \in Buffers |-> After(g, t, BufsOf(t), v, v)[b]]
    BY <1>4 DEF After
  <1>12. [b \in Buffers |-> Value(b)'] = After(g, t, BufsOf(t), v, v)
    BY <1>10, <1>11
  <1> QED BY <1>2, <1>12 DEF v

-----------------------------------------------------------------------------
(* The refinement of AtomicGroups                                          *)

\* The state of AtomicGroups, with the names of this module.
LEMMA AbstractState ==
  /\ Abstract!vars = <<[t \in Tasks |-> Status(t)], grp, [b \in Buffers |-> Value(b)],
                       [b \in Buffers |-> Out(b)]>>
  /\ Abstract!vars' = <<[t \in Tasks |-> Status(t)'], grp', [b \in Buffers |-> Value(b)'],
                        [b \in Buffers |-> Out(b)']>>
  BY DEF Abstract!vars, Status, Out, Active

LEMMA AbstractInit == Init => Abstract!Init
  <1> SUFFICES ASSUME Init PROVE Abstract!Init
    OBVIOUS
  <1>1. \A b \in Buffers : mem[<<b, Host>>] = {Orig} /\ OnDevice(b) = {} /\ refs[b] = {User}
    BY DEF Init, Locs, OnDevice
  <1> QED BY <1>1 DEF Init, Abstract!Init, Value

\* The containers that are gone, and what they gave back, stay.
LEMMA OutStays ==
  ASSUME OneHome, WholeInv, BackInv, [Next]_vars, NEW b \in Buffers, ~Gone(b)
  PROVE  Out(b)' = Out(b)
  <1>0. LockTypes /\ LifeInv /\ MemoryTypes
    BY DEF WholeInv
  <1>1. CASE refs[b] # {}
    BY <1>1 DEF Gone, Out
  <1>2. CASE refs[b] = {}
    <2>1. refs'[b] = {}
      BY <1>0, <1>2, GoneForGood
    <2>2. <<b, Host>> \in Locs
      BY DEF Locs
    <2>3. ASSUME NEW t \in Tasks, Writes(t, <<b, Host>>) PROVE FALSE
      BY <1>0, <1>2, <2>3, WritesWhere, Kept
    <2>4. \A t \in Tasks : <<b, Host>> # Chunk(t)
      BY NamesDiffer DEF Chunk
    <2>5. mem'[<<b, Host>>] = mem[<<b, Host>>]
      BY <1>0, <2>2, <2>3, <2>4, Writers
    <2> QED BY <1>2, <2>1, <2>5 DEF Out
  <1> QED BY <1>1, <1>2

\* Only the submission and the command of t move it.
LEMMA StatusStays ==
  ASSUME LockTypes, LifeInv, [Next]_vars, NEW t \in Tasks, ~Command(t), ~\E g \in Groups : Submit(t, g)
  PROVE  Status(t)' = Status(t) /\ grp'[t] = grp[t]
  BY ActiveSteps DEF Status

\* A submission.
LEMMA SubmitMaps ==
  ASSUME OneHome, WholeInv, BackInv, [Next]_vars, NEW t \in Tasks, NEW g \in Groups, Submit(t, g)
  PROVE  Abstract!Submit(t)
  <1>0. LockTypes /\ LifeInv
    BY DEF WholeInv
  <1>1. /\ pc[t] = "unborn" /\ pc' = [pc EXCEPT ![t] = pc'[t]] /\ pc'[t] \in Active
        /\ grp' = [grp EXCEPT ![t] = g] /\ mem' = mem /\ map' = map
    BY <1>0 DEF Submit, Goto, LockTypes, Active, Acquiring, memory
  <1>2. \A s \in Tasks : s # t => pc'[s] = pc[s]
    BY <1>0, <1>1 DEF LockTypes
  <1>3. \A s \in Tasks : ~Command(s)
    <2>1. ASSUME NEW s \in Tasks, Command(s) PROVE FALSE
      <3>1. pc[s] \in {"command", "running"} /\ pc'[s] = "returning"
        BY <1>0, <2>1 DEF Command, KernelEnd, MemoryOp, Goto, LockTypes
      <3> QED BY <1>1, <1>2, <3>1
    <2> QED BY <2>1
  <1>4. \A b \in Buffers : Value(b)' = Value(b)
    BY <1>3, ValueKept
  <1>5. \A b \in Buffers : Out(b)' = Out(b)
    <2>1. \A b \in Buffers : refs[b] \subseteq refs'[b]
      BY DEF Submit
    <2>2. \A b \in Buffers : ~Gone(b)
      BY <2>1 DEF Gone
    <2> QED BY <2>2, OutStays
  <1>6. [s \in Tasks |-> Status(s)'] = [[s \in Tasks |-> Status(s)] EXCEPT ![t] = "submitted"]
    BY <1>1, <1>2 DEF Status, Active, Acquiring
  <1>7. [b \in Buffers |-> Value(b)'] = [b \in Buffers |-> Value(b)]
    BY <1>4
  <1>8. [b \in Buffers |-> Out(b)'] = [b \in Buffers |-> Out(b)]
    BY <1>5
  <1>9. Status(t) = "unborn"
    BY <1>1 DEF Status
  <1> HIDE DEF Value
  <1> QED BY <1>1, <1>6, <1>7, <1>8, <1>9 DEF Abstract!Submit, Status, Out, Active

\* AtomicGroups has its own copy of what a command does.
LEMMA SameAfter ==
  ASSUME NEW g, NEW t, NEW loc, NEW s, NEW m
  PROVE  Abstract!After(g, t, loc, s, m) = After(g, t, loc, s, m)
  <1>1. Abstract!Written(g, loc) = Written(g, loc)
    BY DEF Abstract!Written, Written
  <1>2. \A l : Abstract!Result(g, t, loc, s, l) = Result(g, t, loc, s, l)
    BY DEF Abstract!Result, Result
  <1> QED BY <1>1, <1>2 DEF Abstract!After, After

\* A command that returns.
LEMMA CommandMaps ==
  ASSUME Simple, WholeInv, BackInv, DataInv, [Next]_vars, NEW t \in Tasks, Command(t)
  PROVE  Abstract!Execute(t)
  <1>0. LockTypes /\ LifeInv /\ OneHome
    BY DEF WholeInv, Simple
  <1>1. /\ pc[t] \in {"command", "running"} /\ pc' = [pc EXCEPT ![t] = "returning"]
        /\ grp' = grp /\ refs' = refs
    BY DEF Command, KernelEnd, MemoryOp, Goto, args
  <1>2. Status(t) = "submitted"
    BY <1>1 DEF Status, Active
  <1>3. [s \in Tasks |-> Status(s)'] = [[s \in Tasks |-> Status(s)] EXCEPT ![t] = "executed"]
    <2>1. pc'[t] = "returning" /\ \A s \in Tasks : s # t => pc'[s] = pc[s]
      BY <1>0, <1>1 DEF LockTypes
    <2> QED BY <2>1 DEF Status, Active, Acquiring
  <1>4. [b \in Buffers |-> Out(b)'] = [b \in Buffers |-> Out(b)]
    <2>1. \A b \in Buffers : ~Gone(b)
      BY <1>1 DEF Gone
    <2> QED BY <1>0, <2>1, OutStays
  <1>5. PICK lost \in SUBSET MayLose(t) :
          LET v == [b \in Buffers |-> IF b \in lost THEN {} ELSE Value(b)]
          IN  [b \in Buffers |-> Value(b)'] = After(grp[t], t, BufsOf(t), v, v)
    BY CommandExecutes
  <1> DEFINE v == [b \in Buffers |-> IF b \in lost THEN {} ELSE Value(b)]
             val == [b \in Buffers |-> Value(b)]
             w == [b \in Buffers |-> IF b \in lost THEN {} ELSE val[b]]
  <1>6. w = v
    OBVIOUS
  <1>7. [b \in Buffers |-> Value(b)'] = Abstract!After(grp[t], t, BufsOf(t), w, w)
    BY <1>5, <1>6, SameAfter
  <1>8. /\ BufsOf(t) = [i \in DOMAIN grp[t].acc |-> grp[t].acc[i].buf]
        /\ MayLose(t) = {grp[t].acc[i].buf : i \in {j \in DOMAIN grp[t].acc : Abstract!Discards(grp[t].acc[j].mode)}}
    BY DEF BufsOf, BufOf, MayLose, Discards, Abstract!Discards
  <1> HIDE DEF v, Value
  <1> QED BY <1>1, <1>2, <1>3, <1>4, <1>7, <1>8 DEF Abstract!Execute, Status, Out, Active

\* The last shared_ptr of a container.
LEMMA GoneMaps ==
  ASSUME OneHome, WholeInv, BackInv, [Next]_vars, NEW b \in Buffers, Gone(b)
  PROVE  Abstract!GiveBack(b)
  <1>0. LockTypes /\ LifeInv /\ MemoryTypes /\ WaitInv /\ Owned /\ WrittenBack
    BY DEF WholeInv, WaitInv, BackInv
  <1>h. OneChunk /\ OneChunk'
    BY HasOneChunk, HasOneChunkNext
  <1>1. PICK c \in Buffers, h \in Holders : Release(c, h) /\ pc' = pc /\ grp' = grp
    <2>1. ASSUME NEW t \in Tasks, CopyIn(t) PROVE refs' = refs
      BY <2>1 DEF CopyIn
    <2> QED BY <1>0, <2>1, StepKinds DEF Gone
  <1>2. c = b /\ \A a \in Buffers : Gone(a) => a = b
    BY <1>0, <1>1, Released
  <1>3. refs[b] # {} /\ refs'[b] = {}
    BY DEF Gone
  <1>4. \A t \in Tasks : pc[t] \in Active => b \notin Uses(grp[t])
    BY <1>0, <1>1, <1>3, KeptNext
  <1>5. \A t \in Tasks : ~Command(t)
    BY <1>0, <1>1 DEF Command, KernelEnd, MemoryOp, Goto, LockTypes
  <1>6. \A a \in Buffers : Value(a)' = Value(a)
    BY <1>5, ValueKept
  <1>7. \A a \in Buffers : a # b => Out(a)' = Out(a)
    BY <1>2, OutStays
  <1>8. mem'[<<b, Host>>] = Value(b)
    <2>1. CASE \E u \in Tasks : Entered(b, u)
      <3>1. PICK u \in Tasks : Entered(b, u)
        BY <2>1
      <3>2. PICK d \in Devices : map[b][d] # None /\ map[b][d].ptr = <<b, u>>
        BY <3>1 DEF Entered
      <3>3. b \in Uses(grp[u])
        BY <1>0, <3>2 DEF Owned, Allocator
      <3>4. Value(b) = mem[<<b, u>>]
        BY <1>0, <1>h, <1>4, <3>1, <3>3, ValueIs
      <3> QED BY <1>0, <1>h, <1>1, <1>2, <3>2, <3>4, Released
    <2>2. CASE \A u \in Tasks : ~Entered(b, u)
      <3>1. \A u \in Tasks : ~Entered(b, u)'
        BY <1>0, <1>1, <2>2, Released DEF Entered
      <3>2. Value(b)' = mem'[<<b, Host>>]
        BY <1>0, <1>h, <3>1, ValueNext
      <3> QED BY <1>6, <3>2
    <2> QED BY <2>1, <2>2
  <1>9. Out(b) = None /\ Out(b)' = Value(b)
    BY <1>3, <1>8 DEF Out
  <1>10. [a \in Buffers |-> Out(a)'] = [[a \in Buffers |-> Out(a)] EXCEPT ![b] = [a \in Buffers |-> Value(a)][b]]
    BY <1>7, <1>9
  <1>11. [t \in Tasks |-> Status(t)'] = [t \in Tasks |-> Status(t)]
    BY <1>1 DEF Status
  <1>12. [a \in Buffers |-> Value(a)'] = [a \in Buffers |-> Value(a)]
    BY <1>6
  <1>13. \A t \in Tasks : Status(t) = "submitted" => b \notin Uses(grp[t])
    BY <1>4 DEF Status
  <1> HIDE DEF Value
  <1> QED BY <1>1, <1>9, <1>10, <1>11, <1>12, <1>13 DEF Abstract!GiveBack, Abstract!Uses, Uses, Status, Out, Active

\* Every other step is between two steps of AtomicGroups.
LEMMA StepMaps ==
  ASSUME Simple, WholeInv, BackInv, DataInv, [Next]_vars
  PROVE  [Abstract!Next]_(Abstract!vars)
  <1>0. LockTypes /\ LifeInv /\ OneHome
    BY DEF WholeInv, Simple
  <1>1. CASE \E t \in Tasks : Command(t)
    BY <1>1, CommandMaps DEF Abstract!Next
  <1>2. CASE \E t \in Tasks, g \in Groups : Submit(t, g)
    BY <1>0, <1>2, SubmitMaps DEF Abstract!Next
  <1>3. CASE \E b \in Buffers : Gone(b)
    BY <1>0, <1>3, GoneMaps DEF Abstract!Next
  <1>4. CASE /\ \A t \in Tasks : ~Command(t)
             /\ \A t \in Tasks, g \in Groups : ~Submit(t, g)
             /\ \A b \in Buffers : ~Gone(b)
    <2>1. \A t \in Tasks : Status(t)' = Status(t) /\ grp'[t] = grp[t]
      BY <1>0, <1>4, StatusStays
    <2>2. \A b \in Buffers : Value(b)' = Value(b)
      BY <1>0, <1>4, ValueKept
    <2>3. \A b \in Buffers : Out(b)' = Out(b)
      BY <1>0, <1>4, OutStays
    <2>4. grp' = grp
      <3>1. grp \in [Tasks -> Groups \cup {None}]
        BY <1>0 DEF LockTypes
      <3>2. grp' \in [Tasks -> Groups \cup {None}]
        BY <1>0, LockTypesStep DEF LockTypes
      <3> QED BY <2>1, <3>1, <3>2
    <2>5. /\ [t \in Tasks |-> Status(t)'] = [t \in Tasks |-> Status(t)]
          /\ [b \in Buffers |-> Value(b)'] = [b \in Buffers |-> Value(b)]
          /\ [b \in Buffers |-> Out(b)'] = [b \in Buffers |-> Out(b)]
      BY <2>1, <2>2, <2>3
    <2>6. [t \in Tasks |-> Status(t)]' = [t \in Tasks |-> Status(t)'] OBVIOUS
    <2>7. UNCHANGED Abstract!vars
      BY <2>4, <2>5, AbstractState
    <2> QED BY <2>7
  <1> QED BY <1>1, <1>2, <1>3, <1>4

LEMMA CarefulAtomic ==
  ASSUME Simple
  PROVE  CarefulSpec => AtomicSpec
  <1>1. Init => Abstract!Init
    BY AbstractInit
  <1>2. WholeInv /\ BackInv /\ DataInv /\ [CarefulNext]_vars => [Abstract!Next]_(Abstract!vars)
    BY CarefulIsNext, StepMaps
  <1> QED BY <1>1, <1>2, DataInvariance, PTL DEF CarefulSpec, AtomicSpec, Abstract!Spec

\* For a host program that waits and uses each buffer on one device, or on host
\* devices, every command group acts on its buffers as one indivisible step, whatever other threads do between
\* its own: the locks and the first uses keep apart what conflicts, the chunk
\* of a first user holds the data of host memory, and ~BufferContainer brings
\* back what the command groups left (handler.hpp:203-281, program.hpp:268-318).
THEOREM GroupsAtomic ==
  ASSUME OneHome, CommandsWrite, HostKernels, OneEach
  PROVE  WaitingSpec => AtomicSpec
  <1>1. Simple
    BY DEF Simple
  <1> QED BY <1>1, CarefulAtomic, WaitingIsCarefulSpec

\* The same for the kernels of host devices, whatever the host program does.
THEOREM HostGroupsAtomic ==
  ASSUME HostDevices = Devices, HostKernels, OneEach
  PROVE  Spec => AtomicSpec
  <1>1. Simple
    BY GroupsAre DEF Simple, HostKernels, CommandsWrite, OneHome
  <1>2. Spec => CarefulSpec
    BY HostIsCareful
  <1> QED BY <1>1, <1>2, CarefulAtomic
=============================================================================
