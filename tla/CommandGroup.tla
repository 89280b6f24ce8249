---------------------------- MODULE CommandGroup ----------------------------
(***************************************************************************)
(* A command group from submit to the end of its thread: the handler, the  *)
(* accessors it makes, the containers of the buffers with their locks and  *)
(* their maps of device memory, the command, and the shared_ptrs whose     *)
(* last release copies a buffer back.  Every command group runs in a       *)
(* thread of its own (queue.hpp:81); a step below is what such a thread    *)
(* does between two points at which another thread may come in.            *)
(*                                                                         *)
(* A memory location is <<b, Host>>, the host memory of buffer b, or       *)
(* <<b, t>>, the chunk of device memory that command group t allocated for *)
(* buffer b.                                                               *)
(***************************************************************************)
EXTENDS Accesses

CONSTANTS Devices,      \* program_data objects: one for each queue's device
          HostDevices,  \* those that are a program_data_host
          Host,         \* the owner part of a host location
          User,         \* the host program, as a holder of buffers
          None          \* null pointer, no map entry, no lock owner

ASSUME HostDevicesAre == HostDevices \subseteq Devices
ASSUME GroupsAre ==
  /\ Groups \subseteq [dev : Devices,
                       acc : Seq([buf : Buffers, mode : Modes,
                                  via : {"plain", "ranged", "placeholder"}]),
                       cmd : {"kernel", "fill", "copy", "update_host"}]
  /\ \A g \in Groups : /\ g.cmd \in {"fill", "update_host"} => Len(g.acc) >= 1
                       /\ g.cmd = "copy" => Len(g.acc) >= 2
ASSUME NamesDiffer ==
  /\ None \notin Tasks /\ Host \notin Tasks
  /\ None \notin [ptr : Buffers \X Tasks, mode : Modes]
  /\ User \notin {"local", "acc", "closure"} \X Tasks

VARIABLES
  pc,       \* where each command group is
  grp,      \* what each one does: a member of Groups
  pos,      \* the accessor it is making
  again,    \* in the second alloc_mem_ of a ranged accessor
  count,    \* alloc_mem_'s local `count'
  dptr,     \* device_ptr of each of its accessors
  acc,      \* handler::acc_, the buffers it has locked
  readers,  \* of each container's shared_mutex: who holds it shared
  writer,   \* and who holds it exclusive
  map,      \* BufferContainer::map: device_ptr_type of each program_data
  mem,      \* the contents of every location
  chunks,   \* the chunks allocated and not freed
  snap,     \* what a running kernel found in the memory it uses
  refs      \* who holds a shared_ptr to each container

args   == <<grp, pos, again, count, dptr>>
locks  == <<readers, writer>>
memory == <<map, mem, chunks, snap>>
vars   == <<pc, args, acc, locks, memory, refs>>

Holders == {User} \cup ({"local", "acc", "closure"} \X Tasks)
Locs    == Buffers \X (Tasks \cup {Host})

Acquiring == {"access", "alloc", "copyin", "lock", "upgrade"}
Phases == Acquiring \cup {"unborn", "command", "running", "returning", "unlock",
                          "decr", "exit", "done"}

TypeOK ==
  /\ pc \in [Tasks -> Phases]
  /\ grp \in [Tasks -> Groups \cup {None}]
  /\ pos \in [Tasks -> Nat] /\ count \in [Tasks -> {0, 1}]
  /\ \A t \in Tasks : pc[t] \in Acquiring => pos[t] \in DOMAIN grp[t].acc
  /\ again \in [Tasks -> BOOLEAN]
  /\ \A t \in Tasks : acc[t] \in Seq([buf : Buffers, mode : Modes])
  /\ \A t \in Tasks : \A i \in DOMAIN dptr[t] : dptr[t][i] \in Locs \cup {None}
  /\ readers \in [Buffers -> SUBSET Tasks]
  /\ writer \in [Buffers -> Tasks \cup {None}]
  /\ map \in [Buffers -> [Devices -> [ptr : Locs, mode : Modes] \cup {None}]]
  /\ mem \in [Locs -> Contents]
  /\ chunks \in SUBSET Locs
  /\ refs \in [Buffers -> SUBSET Holders]

Init ==
  /\ pc = [t \in Tasks |-> "unborn"]
  /\ grp = [t \in Tasks |-> None]
  /\ pos = [t \in Tasks |-> 1]
  /\ again = [t \in Tasks |-> FALSE]
  /\ count = [t \in Tasks |-> 0]
  /\ dptr = [t \in Tasks |-> <<>>]
  /\ acc = [t \in Tasks |-> <<>>]
  /\ readers = [b \in Buffers |-> {}]
  /\ writer = [b \in Buffers |-> None]
  /\ map = [b \in Buffers |-> [d \in Devices |-> None]]
  /\ mem = [l \in Locs |-> IF l[2] = Host THEN {Orig} ELSE {}]
  /\ chunks = {}
  /\ snap = [t \in Tasks |-> <<>>]
  /\ refs = [b \in Buffers |-> {User}]

-----------------------------------------------------------------------------
(* Helpers                                                                 *)

Goto(t, from, to) == pc[t] = from /\ pc' = [pc EXCEPT ![t] = to]

\* The accessor t is making, its buffer, and the program_data of the handler.
Access(t) == grp[t].acc[pos[t]]
Buf(t)    == Access(t).buf
Dev(t)    == grp[t].dev
OnHost(t) == Dev(t) \in HostDevices

\* The chunk that t would allocate for the buffer.
Chunk(t) == <<Buf(t), t>>

\* Mutant: one accessor too many.
AccessedOffByOne(t) ==
  /\ pos' = [pos EXCEPT ![t] = @ + 1]
  /\ pc' = [pc EXCEPT ![t] =
              IF pos[t] > Len(grp[t].acc) THEN "command" ELSE "access"]
  /\ UNCHANGED again

\* alloc_mem_ returns.  A ranged accessor calls it once more; after the last
\* accessor the command follows.
Accessed(t) ==
  IF Access(t).via = "ranged" /\ ~again[t]
    THEN /\ again' = [again EXCEPT ![t] = TRUE]
         /\ pc' = [pc EXCEPT ![t] = "access"]
         /\ UNCHANGED pos
    ELSE /\ again' = [again EXCEPT ![t] = FALSE]
         /\ pos' = [pos EXCEPT ![t] = @ + 1]
         /\ pc' = [pc EXCEPT ![t] =
                     IF pos[t] = Len(grp[t].acc) THEN "command" ELSE "access"]

\* get_ptr_: the memory that accessor i of t stands for.
Loc(t, i) ==
  LET b == grp[t].acc[i].buf
  IN  IF dptr[t][i] # None THEN dptr[t][i]
      ELSE IF OnHost(t) THEN <<b, Host>>
      ELSE map[b][Dev(t)].ptr

LocOf(t) == [i \in DOMAIN grp[t].acc |-> Loc(t, i)]

\* The entry of buffer b in acc_, if the handler has locked it: the loop of
\* alloc_mem_, which is entered only when the chunk was found in the map.
Entry(t, b) == {i \in DOMAIN acc[t] : acc[t][i].buf = b}
Found(t) == count[t] > 0 /\ Entry(t, Buf(t)) # {}

\* Mutant: a chunk that was opened with a discarding access is not read back.
DestroyKeepsDiscarded(b) ==
  LET entries == {map[b][d] : d \in {e \in Devices : map[b][e] # None}}
      back == {e.ptr : e \in {f \in entries : f.mode \in {"write", "read_write"}}}
  IN /\ chunks' = chunks \ {e.ptr : e \in entries}
     /\ IF back = {} THEN UNCHANGED mem
        ELSE \E l \in back : mem' = [mem EXCEPT ![<<b, Host>>] = mem[l]]

\* ~BufferContainer: CopybackProxy reads back the chunk of every device whose
\* access mode is not read, in the order of the map, that is of addresses, so
\* that any of them may be the last; and frees every chunk.
Destroy(b) ==
  LET entries == {map[b][d] : d \in {e \in Devices : map[b][e] # None}}
      back == {e.ptr : e \in {f \in entries : f.mode # "read"}}
  IN /\ chunks' = chunks \ {e.ptr : e \in entries}
     /\ IF back = {} THEN UNCHANGED mem
        ELSE \E l \in back : mem' = [mem EXCEPT ![<<b, Host>>] = mem[l]]

\* A shared_ptr to the container of b is destroyed.
Release(b, holder) ==
  /\ holder \in refs[b]
  /\ refs' = [refs EXCEPT ![b] = @ \ {holder}]
  /\ IF refs[b] = {holder} THEN Destroy(b) ELSE UNCHANGED <<mem, chunks>>
  /\ UNCHANGED <<map, snap>>

-----------------------------------------------------------------------------
(* queue::submit                                                           *)

\* Mutant: a placeholder accessor refers to its container by a plain pointer.
SubmitPlainPointer(t, g) ==
  /\ Goto(t, "unborn", IF g.acc = <<>> THEN "command" ELSE "access")
  /\ \A b \in Uses(g) : User \in refs[b]
  /\ grp' = [grp EXCEPT ![t] = g]
  /\ dptr' = [dptr EXCEPT ![t] = [i \in DOMAIN g.acc |-> None]]
  /\ UNCHANGED <<pos, again, count, acc, locks, memory, refs>>

\* A thread is started with a copy of the command group's function object,
\* which refers to buffers and holds placeholder accessors by value.
Submit(t, g) ==
  /\ Goto(t, "unborn", IF g.acc = <<>> THEN "command" ELSE "access")
  /\ \A b \in Uses(g) : User \in refs[b]
  /\ grp' = [grp EXCEPT ![t] = g]
  /\ dptr' = [dptr EXCEPT ![t] = [i \in DOMAIN g.acc |-> None]]
  /\ refs' = [b \in Buffers |->
                IF \E i \in DOMAIN g.acc : g.acc[i].buf = b /\ g.acc[i].via = "placeholder"
                  THEN refs[b] \cup {<<"closure", t>>} ELSE refs[b]]
  /\ UNCHANGED <<pos, again, count, acc, locks, memory>>

-----------------------------------------------------------------------------
(* handler::alloc_mem_                                                     *)

\* The accessor is constructed, and the map of its container is looked up:
\* no lock is held yet.  require() sets device_ptr in its own copy of the
\* placeholder only.
Lookup(t) ==
  LET e == map[Buf(t)][Dev(t)]
      c == IF OnHost(t) \/ e = None THEN 0 ELSE 1
  IN /\ Goto(t, "access", IF OnHost(t) \/ c = 1 THEN "lock" ELSE "alloc")
     /\ count' = [count EXCEPT ![t] = c]
     /\ dptr' = IF c = 1 /\ Access(t).via # "placeholder"
                  THEN [dptr EXCEPT ![t][pos[t]] = e.ptr] ELSE dptr
     /\ refs' = IF Access(t).via # "placeholder"
                  THEN [refs EXCEPT ![Buf(t)] = @ \cup {<<"local", t>>}] ELSE refs
     /\ UNCHANGED <<grp, pos, again, acc, locks, memory>>

\* Mutant: the insert has slipped under the test for a discarding access.
AllocInsertsCopied(t) ==
  LET b == Buf(t)
      m == Access(t).mode
  IN /\ Goto(t, "alloc", IF Discards(m) THEN "lock" ELSE "copyin")
     /\ chunks' = chunks \cup {Chunk(t)}
     /\ map' = IF map[b][Dev(t)] = None /\ ~Discards(m)
                 THEN [map EXCEPT ![b][Dev(t)] = [ptr |-> Chunk(t), mode |-> m]]
                 ELSE map
     /\ dptr' = [dptr EXCEPT ![t][pos[t]] = Chunk(t)]
     /\ UNCHANGED <<grp, pos, again, count, acc, locks, mem, snap, refs>>

\* A chunk is allocated and entered in the map.  std::map::insert does nothing
\* if another thread has entered one since the lookup.
Alloc(t) ==
  LET b == Buf(t)
      m == Access(t).mode
  IN /\ Goto(t, "alloc", IF Discards(m) THEN "lock" ELSE "copyin")
     /\ chunks' = chunks \cup {Chunk(t)}
     /\ map' = IF map[b][Dev(t)] = None
                 THEN [map EXCEPT ![b][Dev(t)] = [ptr |-> Chunk(t), mode |-> m]]
                 ELSE map
     /\ dptr' = IF Access(t).via # "placeholder"
                  THEN [dptr EXCEPT ![t][pos[t]] = Chunk(t)] ELSE dptr
     /\ UNCHANGED <<grp, pos, again, count, acc, locks, mem, snap, refs>>

\* Mutant: the arguments of write_mem are swapped.
CopyInSwapped(t) ==
  /\ Goto(t, "copyin", "lock")
  /\ mem' = [mem EXCEPT ![<<Buf(t), Host>>] = mem[Chunk(t)]]
  /\ UNCHANGED <<args, acc, locks, map, chunks, snap, refs>>

\* write_mem(acc.device_ptr, buf->get_raw_ptr(), ...), still without a lock.
CopyIn(t) ==
  /\ Goto(t, "copyin", "lock")
  /\ mem' = [mem EXCEPT ![Chunk(t)] = mem[<<Buf(t), Host>>]]
  /\ UNCHANGED <<args, acc, locks, map, chunks, snap, refs>>

\* Mutant: any entry will do, whatever its mode.
AlreadyLockedSomehow(t) ==
  /\ pc[t] = "lock"
  /\ Found(t)
  /\ Accessed(t)
  /\ UNCHANGED <<grp, count, dptr, acc, locks, memory, refs>>

\* The search of acc_ stops at an entry that will do.
AlreadyLocked(t) ==
  /\ pc[t] = "lock"
  /\ Found(t)
  /\ \A i \in Entry(t, Buf(t)) : acc[t][i].mode = "read" => Access(t).mode = "read"
  /\ Accessed(t)
  /\ UNCHANGED <<grp, count, dptr, acc, locks, memory, refs>>

\* Mutant: the upgrade asks for the write lock with its read lock still held.
UnlockReadForgotten(t) ==
  /\ Goto(t, "lock", "upgrade")
  /\ Found(t)
  /\ \E i \in Entry(t, Buf(t)) : acc[t][i].mode = "read" /\ Access(t).mode # "read"
  /\ UNCHANGED <<args, acc, locks, memory, refs>>

\* The entry is locked for reading and this accessor writes: unlock_read ...
UnlockRead(t) ==
  /\ Goto(t, "lock", "upgrade")
  /\ Found(t)
  /\ \E i \in Entry(t, Buf(t)) : acc[t][i].mode = "read" /\ Access(t).mode # "read"
  /\ readers' = [readers EXCEPT ![Buf(t)] = @ \ {t}]
  /\ UNCHANGED <<args, acc, writer, memory, refs>>

\* Mutant: the entry keeps its mode, by which ~handler unlocks.
RelockKeepsMode(t) ==
  LET b == Buf(t)
      m == Access(t).mode
  IN /\ pc[t] = "upgrade"
     /\ readers[b] = {} /\ writer[b] = None
     /\ writer' = [writer EXCEPT ![b] = t]
     /\ map' = [map EXCEPT ![b][Dev(t)].mode = m]
     /\ Accessed(t)
     /\ UNCHANGED <<grp, count, dptr, acc, readers, mem, chunks, snap, refs>>

\* ... and lock_write, after which the modes of the entry and of the map are
\* those of this accessor.
RelockWrite(t) ==
  LET b == Buf(t)
      m == Access(t).mode
  IN /\ pc[t] = "upgrade"
     /\ readers[b] = {} /\ writer[b] = None
     /\ writer' = [writer EXCEPT ![b] = t]
     /\ acc' = [acc EXCEPT ![t] =
                  [i \in DOMAIN @ |-> IF i \in Entry(t, b) THEN [@[i] EXCEPT !.mode = m]
                                                           ELSE @[i]]]
     /\ map' = [map EXCEPT ![b][Dev(t)].mode = m]
     /\ Accessed(t)
     /\ UNCHANGED <<grp, count, dptr, readers, mem, chunks, snap, refs>>

\* `i == acc_.size()': the search found nothing, or there was no search and
\* acc_ is empty.
MustLock(t) ==
  /\ pc[t] = "lock"
  /\ ~Found(t)
  /\ count[t] > 0 \/ acc[t] = <<>>

PushAcc(t) ==
  /\ acc' = [acc EXCEPT ![t] = Append(@, [buf |-> Buf(t), mode |-> Access(t).mode])]
  /\ refs' = [refs EXCEPT ![Buf(t)] = @ \cup {<<"acc", t>>}]

\* Mutant: only the mode `write' is taken to write.
LockReadUnlessWrite(t) ==
  /\ MustLock(t)
  /\ Access(t).mode # "write"
  /\ writer[Buf(t)] = None
  /\ readers' = [readers EXCEPT ![Buf(t)] = @ \cup {t}]
  /\ PushAcc(t)
  /\ Accessed(t)
  /\ UNCHANGED <<grp, count, dptr, writer, memory>>

LockRead(t) ==
  /\ MustLock(t)
  /\ Access(t).mode = "read"
  /\ writer[Buf(t)] = None
  /\ readers' = [readers EXCEPT ![Buf(t)] = @ \cup {t}]
  /\ PushAcc(t)
  /\ Accessed(t)
  /\ UNCHANGED <<grp, count, dptr, writer, memory>>

\* Mutant: lock_write takes the mutex shared.
LockWriteShared(t) ==
  /\ MustLock(t)
  /\ Access(t).mode # "read"
  /\ writer[Buf(t)] = None
  /\ readers' = [readers EXCEPT ![Buf(t)] = @ \cup {t}]
  /\ PushAcc(t)
  /\ Accessed(t)
  /\ UNCHANGED <<grp, count, dptr, writer, memory>>

LockWrite(t) ==
  /\ MustLock(t)
  /\ Access(t).mode # "read"
  /\ readers[Buf(t)] = {} /\ writer[Buf(t)] = None
  /\ writer' = [writer EXCEPT ![Buf(t)] = t]
  /\ PushAcc(t)
  /\ Accessed(t)
  /\ UNCHANGED <<grp, count, dptr, readers, memory>>

\* count is 0 and acc_ is not empty: i is 0, which is not acc_.size(), and the
\* buffer is not locked at all.
LockSkipped(t) ==
  /\ pc[t] = "lock"
  /\ count[t] = 0 /\ acc[t] # <<>>
  /\ Accessed(t)
  /\ UNCHANGED <<grp, count, dptr, acc, locks, memory, refs>>

-----------------------------------------------------------------------------
(* The command                                                             *)

\* A kernel starts, and has read what it reads ...
KernelBegin(t) ==
  /\ Goto(t, "command", "running")
  /\ grp[t].cmd = "kernel"
  /\ snap' = [snap EXCEPT ![t] = [l \in {Loc(t, i) : i \in DOMAIN grp[t].acc} |-> mem[l]]]
  /\ UNCHANGED <<args, acc, locks, map, mem, chunks, refs>>

\* ... and ends, having written what it writes.
KernelEnd(t) ==
  /\ Goto(t, "running", "returning")
  /\ mem' = After(grp[t], t, LocOf(t), snap[t], mem)
  /\ snap' = [snap EXCEPT ![t] = <<>>]
  /\ UNCHANGED <<args, acc, locks, map, chunks, refs>>

\* fill, copy and update_host: one call of write_mem, copy_mem or read_mem,
\* which program_data_host leaves empty.
MemoryOp(t) ==
  /\ Goto(t, "command", "returning")
  /\ grp[t].cmd # "kernel"
  /\ mem' = IF OnHost(t) THEN mem
            ELSE IF grp[t].cmd = "update_host"
              THEN [mem EXCEPT ![<<grp[t].acc[1].buf, Host>>] = mem[Loc(t, 1)]]
            ELSE After(grp[t], t, LocOf(t), mem, mem)
  /\ UNCHANGED <<args, acc, locks, map, chunks, snap, refs>>

-----------------------------------------------------------------------------
(* The end of the command group                                            *)

Locals(t) == {b \in Buffers : <<"local", t>> \in refs[b]}
AccRefs(t) == {b \in Buffers : <<"acc", t>> \in refs[b]}
Captured(t) == {b \in Buffers : <<"closure", t>> \in refs[b]}

\* The function object returns: its accessors are destroyed one by one.
DropLocal(t) ==
  /\ pc[t] = "returning"
  /\ \E b \in Locals(t) : Release(b, <<"local", t>>)
  /\ UNCHANGED <<pc, args, acc, locks>>

Returned(t) ==
  /\ Goto(t, "returning", "unlock")
  /\ Locals(t) = {}
  /\ UNCHANGED <<args, acc, locks, memory, refs>>

\* ~handler: the entries of acc_ are unlocked in order, each by its mode.
Unlock(t) ==
  /\ pc[t] = "unlock" /\ acc[t] # <<>>
  /\ LET e == Head(acc[t])
     IN  IF e.mode # "read"
           THEN writer' = [writer EXCEPT ![e.buf] = None] /\ UNCHANGED readers
           ELSE readers' = [readers EXCEPT ![e.buf] = @ \ {t}] /\ UNCHANGED writer
  /\ acc' = [acc EXCEPT ![t] = Tail(@)]
  /\ UNCHANGED <<pc, args, memory, refs>>

\* Then acc_ itself is destroyed, and the shared_ptrs of its entries.
DropAcc(t) ==
  /\ pc[t] = "unlock" /\ acc[t] = <<>>
  /\ \E b \in AccRefs(t) : Release(b, <<"acc", t>>)
  /\ UNCHANGED <<pc, args, acc, locks>>

\* Mutant: the command group is discounted while its handler still exists.
HandlerStillThere(t) ==
  /\ Goto(t, "unlock", "decr")
  /\ acc[t] = <<>>
  /\ UNCHANGED <<args, acc, locks, memory, refs>>

HandlerGone(t) ==
  /\ Goto(t, "unlock", "decr")
  /\ acc[t] = <<>> /\ AccRefs(t) = {}
  /\ UNCHANGED <<args, acc, locks, memory, refs>>

\* c->decr(): from here on, wait() does not wait for this command group.
Decr(t) ==
  /\ Goto(t, "decr", "exit")
  /\ UNCHANGED <<args, acc, locks, memory, refs>>

\* The thread ends: its closure, with the placeholders, is destroyed.
DropClosure(t) ==
  /\ pc[t] = "exit"
  /\ \E b \in Captured(t) : Release(b, <<"closure", t>>)
  /\ UNCHANGED <<pc, args, acc, locks>>

Exit(t) ==
  /\ Goto(t, "exit", "done")
  /\ Captured(t) = {}
  /\ UNCHANGED <<args, acc, locks, memory, refs>>

\* The host program destroys a buffer: ~buffer is defaulted, so this releases
\* the container and waits for nobody.  A command group that has yet to make
\* an accessor from the buffer refers to it: a legal program keeps it alive.
DestroyBuffer(b) ==
  /\ ~\E t \in Tasks : /\ pc[t] \in Acquiring
                       /\ \E i \in pos[t] .. Len(grp[t].acc) :
                            grp[t].acc[i].buf = b /\ grp[t].acc[i].via # "placeholder"
  /\ Release(b, User)
  /\ UNCHANGED <<pc, args, acc, locks>>

-----------------------------------------------------------------------------
Locking(t) == \/ AlreadyLocked(t) \/ UnlockRead(t) \/ RelockWrite(t)
              \/ LockRead(t) \/ LockWrite(t) \/ LockSkipped(t)

Step(t) == \/ Lookup(t) \/ Alloc(t) \/ CopyIn(t) \/ Locking(t)
           \/ KernelBegin(t) \/ KernelEnd(t) \/ MemoryOp(t)
           \/ DropLocal(t) \/ Returned(t) \/ Unlock(t) \/ DropAcc(t)
           \/ HandlerGone(t) \/ Decr(t) \/ DropClosure(t) \/ Exit(t)

Next == \/ \E t \in Tasks : Step(t) \/ \E g \in Groups : Submit(t, g)
        \/ \E b \in Buffers : DestroyBuffer(b)

Spec == Init /\ [][Next]_vars

-----------------------------------------------------------------------------
(* Properties of every behaviour                                           *)

\* The locks of the containers are held by exactly the handlers whose acc_ has
\* an entry for them, shared or exclusive as the entry says, with at most one
\* entry for a buffer: nobody unlocks what it does not hold, waits for itself,
\* or keeps a lock behind (handler.hpp:19-27, 245-270).
LockOwnership ==
  \A t \in Tasks, b \in Buffers :
    LET modes == {acc[t][i].mode : i \in Entry(t, b)}
    IN  /\ \A i, j \in Entry(t, b) : i = j
        /\ writer[b] = t <=> modes \cap (Modes \ {"read"}) # {}
        /\ t \in readers[b] <=> ("read" \in modes /\ ~(pc[t] = "upgrade" /\ Buf(t) = b))

\* The lock of a container is a readers-writer lock.
LockExclusion == \A b \in Buffers : writer[b] # None => readers[b] = {}

\* No command runs on a chunk that was freed: the container lives as long as
\* an accessor of it, locked or not (accessor.hpp:75-139, program.hpp:322-329).
ChunksLive ==
  \A t \in Tasks : pc[t] \in {"command", "running"} =>
    \A i \in DOMAIN grp[t].acc : Loc(t, i)[2] # Host => Loc(t, i) \in chunks
=============================================================================
