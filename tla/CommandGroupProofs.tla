------------------------- MODULE CommandGroupProofs -------------------------
(***************************************************************************)
(* Theorems about CommandGroup, for any sets of command groups, buffers    *)
(* and devices, and for any host program.                                  *)
(***************************************************************************)
EXTENDS CommandGroup, TLAPS

AccType == Seq([buf : Buffers, mode : Modes])

\* What the locks depend on has its type; a thread that makes an accessor
\* makes one of its command group's.
LockTypes ==
  /\ pc \in [Tasks -> Phases]
  /\ grp \in [Tasks -> Groups \cup {None}]
  /\ pos \in [Tasks -> Nat]
  /\ again \in [Tasks -> BOOLEAN]
  /\ acc \in [Tasks -> AccType]
  /\ readers \in [Buffers -> SUBSET Tasks]
  /\ writer \in [Buffers -> Tasks \cup {None}]
  /\ \A t \in Tasks : pc[t] # "unborn" => grp[t] \in Groups
  /\ \A t \in Tasks : pc[t] = "unborn" => pos[t] = 1
  /\ \A t \in Tasks : pc[t] \in Acquiring => pos[t] \in 1 .. Len(grp[t].acc)

-----------------------------------------------------------------------------
(* Lemmas about sequences and accessors                                    *)

\* Append adds one entry at the end and keeps the others.
LEMMA AppendEntries ==
  ASSUME NEW R, NEW s \in Seq(R), NEW e \in R
  PROVE  /\ Append(s, e) \in Seq(R)
         /\ DOMAIN Append(s, e) = (DOMAIN s) \cup {Len(s) + 1}
         /\ Len(s) + 1 \notin DOMAIN s
         /\ \A i \in DOMAIN s : Append(s, e)[i] = s[i]
         /\ Append(s, e)[Len(s) + 1] = e
  OBVIOUS

\* Tail removes the first entry and moves the others.
LEMMA TailEntries ==
  ASSUME NEW R, NEW s \in Seq(R), s # <<>>
  PROVE  /\ Tail(s) \in Seq(R)
         /\ 1 \in DOMAIN s
         /\ Head(s) = s[1] /\ Head(s) \in R
         /\ \A i \in DOMAIN Tail(s) : i + 1 \in DOMAIN s /\ Tail(s)[i] = s[i + 1]
         /\ \A i \in DOMAIN s : i # 1 => i - 1 \in DOMAIN Tail(s) /\ Tail(s)[i - 1] = s[i]
         /\ \A i \in DOMAIN s : i \in Int
  OBVIOUS

\* The elements of a sequence, and a sequence given by its elements.
LEMMA Elements ==
  ASSUME NEW R, NEW s \in Seq(R)
  PROVE  /\ Len(s) \in Nat
         /\ DOMAIN s = 1 .. Len(s)
         /\ \A i \in 1 .. Len(s) : s[i] \in R
  OBVIOUS

LEMMA FromElements ==
  ASSUME NEW R, NEW n \in Nat, NEW f \in [1 .. n -> R]
  PROVE  f \in Seq(R)
  OBVIOUS

\* The accessor being made is well formed.
LEMMA AccessType ==
  ASSUME LockTypes, NEW t \in Tasks, pc[t] \in Acquiring
  PROVE  /\ grp[t] \in Groups
         /\ Buf(t) \in Buffers
         /\ Access(t).mode \in Modes
  <1>1. grp[t] \in Groups /\ pos[t] \in 1 .. Len(grp[t].acc)
    BY DEF LockTypes, Phases, Acquiring
  <1>2. grp[t].acc \in Seq([buf : Buffers, mode : Modes,
                            via : {"plain", "ranged", "placeholder"}])
    BY <1>1, GroupsAre
  <1>3. Access(t) \in [buf : Buffers, mode : Modes,
                       via : {"plain", "ranged", "placeholder"}]
    <2> HIDE DEF Modes
    <2> QED BY <1>1, <1>2, Elements DEF Access
  <1> QED BY <1>1, <1>3 DEF Buf

\* What happens after an accessor: the next one, if there is one, or the
\* command.
LEMMA AccessedMoves ==
  ASSUME LockTypes, NEW t \in Tasks, pc[t] \in Acquiring, Accessed(t)
  PROVE  /\ pc' \in [Tasks -> Phases]
         /\ pc'[t] \in {"access", "command"}
         /\ \A s \in Tasks \ {t} : pc'[s] = pc[s] /\ pos'[s] = pos[s]
         /\ pos' \in [Tasks -> Nat]
         /\ again' \in [Tasks -> BOOLEAN]
         /\ pc'[t] = "access" => pos'[t] \in 1 .. Len(grp[t].acc)
  <1>1. pos[t] \in 1 .. Len(grp[t].acc) /\ grp[t] \in Groups
    BY AccessType DEF LockTypes
  <1>2. Len(grp[t].acc) \in Nat
    BY <1>1, GroupsAre, Elements
  <1>3. CASE Access(t).via = "ranged" /\ ~again[t]
    BY <1>1, <1>3 DEF Accessed, LockTypes, Phases, Acquiring
  <1>4. CASE ~(Access(t).via = "ranged" /\ ~again[t])
    <2> DEFINE to == IF pos[t] = Len(grp[t].acc) THEN "command" ELSE "access"
    <2>1. /\ again' = [again EXCEPT ![t] = FALSE]
          /\ pos' = [pos EXCEPT ![t] = pos[t] + 1]
          /\ pc' = [pc EXCEPT ![t] = to]
      BY <1>4 DEF Accessed
    <2>2. to \in {"access", "command"} /\ to \in Phases
      BY DEF Phases, Acquiring
    <2>3. pos[t] \in Nat /\ pos[t] + 1 \in Nat
      BY DEF LockTypes
    <2>4. to = "access" => pos[t] + 1 \in 1 .. Len(grp[t].acc)
      BY <1>1, <1>2, <2>3
    <2> HIDE DEF to
    <2>5. /\ pc' \in [Tasks -> Phases] /\ pc'[t] = to
          /\ pos' \in [Tasks -> Nat] /\ pos'[t] = pos[t] + 1
          /\ again' \in [Tasks -> BOOLEAN]
          /\ \A s \in Tasks \ {t} : pc'[s] = pc[s] /\ pos'[s] = pos[s]
      BY <2>1, <2>2, <2>3 DEF LockTypes
    <2> QED BY <2>2, <2>4, <2>5
  <1> QED BY <1>3, <1>4

-----------------------------------------------------------------------------
(* Types                                                                   *)

\* Steps that only move a thread from one phase to another.
Moves(t) ==
  \/ CopyIn(t) \/ UnlockRead(t) \/ KernelBegin(t) \/ KernelEnd(t) \/ MemoryOp(t)
  \/ DropLocal(t) \/ Returned(t) \/ DropAcc(t) \/ HandlerGone(t) \/ Decr(t)
  \/ DropClosure(t) \/ Exit(t) \/ Lookup(t) \/ Alloc(t)

\* Every step keeps the types.
LEMMA LockTypesStep == LockTypes /\ [Next]_vars => LockTypes'
  <1> SUFFICES ASSUME LockTypes, [Next]_vars PROVE LockTypes'
    OBVIOUS
  <1> USE DEF locks, args, memory
  <1>1. ASSUME NEW t \in Tasks, NEW g \in Groups, Submit(t, g)
        PROVE  LockTypes'
    <2>1. g.acc \in Seq([buf : Buffers, mode : Modes,
                         via : {"plain", "ranged", "placeholder"}])
      BY GroupsAre
    <2>2. g.acc # <<>> => 1 \in 1 .. Len(g.acc)
      BY <2>1
    <2>3. pc' \in [Tasks -> Phases] /\ grp' \in [Tasks -> Groups \cup {None}]
      BY <1>1 DEF Submit, Goto, LockTypes, Phases, Acquiring
    <2> QED BY <1>1, <2>2, <2>3 DEF Submit, Goto, LockTypes, Phases, Acquiring
  <1>2. ASSUME NEW t \in Tasks, Moves(t)
        PROVE  LockTypes'
    <2>1. CASE Lookup(t) \/ Alloc(t) \/ CopyIn(t)
      BY <2>1 DEF Lookup, Alloc, CopyIn, Goto, LockTypes, Phases, Acquiring
    <2>2. CASE UnlockRead(t)
      <3>1. readers' \in [Buffers -> SUBSET Tasks]
        BY <2>2 DEF UnlockRead, LockTypes
      <3> QED BY <2>2, <3>1 DEF UnlockRead, Goto, LockTypes, Phases, Acquiring
    <2>3. CASE KernelBegin(t) \/ KernelEnd(t) \/ MemoryOp(t)
      BY <2>3 DEF KernelBegin, KernelEnd, MemoryOp, Goto, LockTypes, Phases, Acquiring
    <2>4. CASE DropLocal(t) \/ DropAcc(t) \/ DropClosure(t)
      BY <2>4 DEF DropLocal, DropAcc, DropClosure, LockTypes
    <2>5. CASE Returned(t) \/ HandlerGone(t) \/ Decr(t) \/ Exit(t)
      BY <2>5 DEF Returned, HandlerGone, Decr, Exit, Goto, LockTypes, Phases, Acquiring
    <2> QED BY <1>2, <2>1, <2>2, <2>3, <2>4, <2>5 DEF Moves
  <1>3. ASSUME NEW t \in Tasks, Unlock(t)
        PROVE  LockTypes'
    <2> DEFINE e == Head(acc[t])
    <2>1. e \in [buf : Buffers, mode : Modes] /\ Tail(acc[t]) \in AccType
      BY <1>3, TailEntries DEF Unlock, LockTypes, AccType
    <2>2. readers' \in [Buffers -> SUBSET Tasks]
      BY <1>3, <2>1 DEF Unlock, LockTypes
    <2>3. writer' \in [Buffers -> Tasks \cup {None}]
      BY <1>3, <2>1 DEF Unlock, LockTypes
    <2>4. acc' \in [Tasks -> AccType]
      BY <1>3, <2>1 DEF Unlock, LockTypes
    <2> QED BY <1>3, <2>2, <2>3, <2>4 DEF Unlock, LockTypes
  <1>4. ASSUME NEW t \in Tasks,
               AlreadyLocked(t) \/ LockSkipped(t) \/ RelockWrite(t) \/ LockRead(t) \/ LockWrite(t)
        PROVE  LockTypes'
    <2>1. pc[t] \in Acquiring /\ Accessed(t) /\ grp' = grp
      BY <1>4 DEF AlreadyLocked, LockSkipped, RelockWrite, LockRead, LockWrite,
                  MustLock, Acquiring
    <2>2. /\ grp[t] \in Groups /\ Buf(t) \in Buffers /\ Access(t).mode \in Modes
      BY <2>1, AccessType
    <2>3. acc' \in [Tasks -> AccType]
      <3>1. CASE AlreadyLocked(t) \/ LockSkipped(t)
        BY <3>1 DEF AlreadyLocked, LockSkipped, LockTypes
      <3>2. CASE RelockWrite(t)
        <4> DEFINE new == [i \in DOMAIN acc[t] |->
                             IF i \in Entry(t, Buf(t))
                               THEN [acc[t][i] EXCEPT !.mode = Access(t).mode]
                               ELSE acc[t][i]]
        <4>1. acc[t] \in AccType
          BY DEF LockTypes
        <4>2. \A i \in DOMAIN acc[t] : new[i] \in [buf : Buffers, mode : Modes]
          <5> TAKE i \in DOMAIN acc[t]
          <5>1. acc[t][i] \in [buf : Buffers, mode : Modes]
            BY <4>1, Elements DEF AccType
          <5>2. [acc[t][i] EXCEPT !.mode = Access(t).mode] \in [buf : Buffers, mode : Modes]
            BY <5>1, <2>2
          <5> QED BY <5>1, <5>2
        <4>3. new \in AccType
          <5>1. DOMAIN acc[t] = 1 .. Len(acc[t]) /\ Len(acc[t]) \in Nat
            BY <4>1, Elements DEF AccType
          <5>2. new \in [1 .. Len(acc[t]) -> [buf : Buffers, mode : Modes]]
            BY <4>2, <5>1
          <5> HIDE DEF new
          <5> QED BY <5>1, <5>2, FromElements DEF AccType
        <4>4. acc' = [acc EXCEPT ![t] = new]
          BY <3>2 DEF RelockWrite
        <4> HIDE DEF new
        <4> QED BY <4>3, <4>4 DEF LockTypes
      <3>3. CASE LockRead(t) \/ LockWrite(t)
        <4> DEFINE e == [buf |-> Buf(t), mode |-> Access(t).mode]
        <4>1. Append(acc[t], e) \in AccType
          <5>1. e \in [buf : Buffers, mode : Modes]
            BY <2>2
          <5>2. acc[t] \in Seq([buf : Buffers, mode : Modes])
            BY DEF LockTypes, AccType
          <5> HIDE DEF e
          <5> QED BY <5>1, <5>2, AppendEntries DEF AccType
        <4> QED BY <3>3, <4>1 DEF LockRead, LockWrite, PushAcc, LockTypes
      <3> QED BY <1>4, <3>1, <3>2, <3>3
    <2>4. readers' \in [Buffers -> SUBSET Tasks] /\ writer' \in [Buffers -> Tasks \cup {None}]
      BY <1>4, <2>2 DEF AlreadyLocked, LockSkipped, RelockWrite, LockRead, LockWrite,
                        LockTypes
    <2> QED BY <2>1, <2>2, <2>3, <2>4, AccessedMoves DEF LockTypes, Phases, Acquiring
  <1>5. ASSUME NEW b \in Buffers, DestroyBuffer(b)
        PROVE  LockTypes'
    BY <1>5 DEF DestroyBuffer, LockTypes
  <1>6. CASE UNCHANGED vars
    BY <1>6 DEF vars, LockTypes
  <1> QED BY <1>1, <1>2, <1>3, <1>4, <1>5, <1>6 DEF Next, Step, Locking, Moves

\* The types hold in every behaviour: what the locks and the accessors of the
\* threads depend on (handler.hpp:15-18, 239-281).
THEOREM LockTypesHold == Spec => []LockTypes
  <1>1. Init => LockTypes
    BY NamesDiffer DEF Init, LockTypes, AccType, Phases, Acquiring
  <1> QED BY <1>1, LockTypesStep, PTL DEF Spec

-----------------------------------------------------------------------------
(* The locks                                                               *)

HasRead(t, b)  == \E i \in Entry(t, b) : acc[t][i].mode = "read"
HasWrite(t, b) == \E i \in Entry(t, b) : acc[t][i].mode # "read"
Upgrading(t, b) == pc[t] = "upgrade" /\ Buf(t) = b

\* What the handler of t knows of its locks, and what the locks know of it.  A
\* thread between unlock_read and lock_write is the one that has an entry and
\* no lock.
OwnLocks(t) ==
  /\ \A b \in Buffers : \A i, j \in Entry(t, b) : i = j
  /\ \A b \in Buffers : writer[b] = t <=> HasWrite(t, b)
  /\ \A b \in Buffers : t \in readers[b] <=> (HasRead(t, b) /\ ~Upgrading(t, b))
  /\ pc[t] = "upgrade" => HasRead(t, Buf(t)) /\ Access(t).mode # "read"

LockInv == (\A t \in Tasks : OwnLocks(t)) /\ LockExclusion

\* The inductive invariant says what LockOwnership does.
LEMMA LockInvSuffices == LockTypes /\ LockInv => LockOwnership
  <1> SUFFICES ASSUME LockTypes, LockInv, NEW t \in Tasks, NEW b \in Buffers
               PROVE  LET modes == {acc[t][i].mode : i \in Entry(t, b)}
                      IN  /\ \A i, j \in Entry(t, b) : i = j
                          /\ writer[b] = t <=> modes \cap (Modes \ {"read"}) # {}
                          /\ t \in readers[b] <=> ("read" \in modes /\ ~(pc[t] = "upgrade" /\ Buf(t) = b))
    BY DEF LockOwnership
  <1> DEFINE modes == {acc[t][i].mode : i \in Entry(t, b)}
  <1>1. \A i \in Entry(t, b) : acc[t][i].mode \in Modes
    <2>1. acc[t] \in Seq([buf : Buffers, mode : Modes])
      BY DEF LockTypes, AccType
    <2> TAKE i \in Entry(t, b)
    <2>2. i \in 1 .. Len(acc[t])
      BY <2>1, Elements DEF Entry
    <2>3. acc[t][i] \in [buf : Buffers, mode : Modes]
      BY <2>1, <2>2, Elements
    <2> QED BY <2>3
  <1>2. modes \cap (Modes \ {"read"}) # {} <=> HasWrite(t, b)
    BY <1>1 DEF HasWrite
  <1>3. "read" \in modes <=> HasRead(t, b)
    BY DEF HasRead
  <1> HIDE DEF modes
  <1>4. OwnLocks(t)
    BY DEF LockInv
  <1> QED BY <1>2, <1>3, <1>4 DEF OwnLocks, Upgrading, modes

\* A step by another thread that leaves alone what t holds leaves OwnLocks(t)
\* alone.
LEMMA OthersKeep ==
  ASSUME NEW t, OwnLocks(t),
         acc'[t] = acc[t], pc'[t] = pc[t], pos'[t] = pos[t], grp'[t] = grp[t],
         \A b \in Buffers : writer'[b] = t <=> writer[b] = t,
         \A b \in Buffers : t \in readers'[b] <=> t \in readers[b]
  PROVE  OwnLocks(t)'
  <1>1. \A b : Entry(t, b)' = Entry(t, b)
    BY DEF Entry
  <1>2. \A b : (HasRead(t, b)' <=> HasRead(t, b)) /\ (HasWrite(t, b)' <=> HasWrite(t, b))
    BY <1>1 DEF HasRead, HasWrite
  <1>3. Buf(t)' = Buf(t) /\ Access(t)' = Access(t)
    BY DEF Buf, Access
  <1> QED BY <1>1, <1>2, <1>3 DEF OwnLocks, Upgrading

\* So does a step of t that neither locks nor unlocks.
LEMMA PhaseKeeps ==
  ASSUME NEW t, OwnLocks(t), UNCHANGED <<readers, writer>>,
         acc'[t] = acc[t], pc[t] # "upgrade", pc'[t] # "upgrade"
  PROVE  OwnLocks(t)'
  <1>1. \A b : Entry(t, b)' = Entry(t, b)
    BY DEF Entry
  <1>2. \A b : (HasRead(t, b)' <=> HasRead(t, b)) /\ (HasWrite(t, b)' <=> HasWrite(t, b))
    BY <1>1 DEF HasRead, HasWrite
  <1> QED BY <1>1, <1>2 DEF OwnLocks, Upgrading

\* A step of t from "lock" to "upgrade": the read lock goes, the entry stays.
LEMMA UnlockReadKeeps ==
  ASSUME LockTypes, LockInv, NEW t \in Tasks, UnlockRead(t)
  PROVE  LockInv'
  <1>1. /\ pc[t] = "lock" /\ pc' = [pc EXCEPT ![t] = "upgrade"]
        /\ readers' = [readers EXCEPT ![Buf(t)] = @ \ {t}]
        /\ UNCHANGED <<grp, pos, acc, writer>>
        /\ HasRead(t, Buf(t)) /\ Access(t).mode # "read"
    BY DEF UnlockRead, Goto, args, HasRead
  <1>2. Buf(t) \in Buffers
    BY <1>1, AccessType DEF Acquiring
  <1>3. \A b \in Buffers : readers'[b] = IF b = Buf(t) THEN readers[b] \ {t} ELSE readers[b]
    BY <1>1, <1>2 DEF LockTypes
  <1>4. pc'[t] = "upgrade" /\ \A s \in Tasks \ {t} : pc'[s] = pc[s]
    BY <1>1 DEF LockTypes
  <1>5. ASSUME NEW s \in Tasks \ {t} PROVE OwnLocks(s)'
    <2>1. \A b \in Buffers : s \in readers'[b] <=> s \in readers[b]
      BY <1>3
    <2> QED BY <1>1, <1>4, <2>1, OthersKeep DEF LockInv
  <1>6. OwnLocks(t)'
    <2>1. OwnLocks(t)
      BY DEF LockInv
    <2>2. \A b : Entry(t, b)' = Entry(t, b)
      BY <1>1 DEF Entry
    <2>3. \A b : (HasRead(t, b)' <=> HasRead(t, b)) /\ (HasWrite(t, b)' <=> HasWrite(t, b))
      BY <1>1, <2>2 DEF HasRead, HasWrite
    <2>4. Buf(t)' = Buf(t) /\ Access(t)' = Access(t)
      BY <1>1 DEF Buf, Access
    <2>5. \A b \in Buffers : t \in readers'[b] <=> (HasRead(t, b)' /\ ~Upgrading(t, b)')
      BY <1>1, <1>3, <1>4, <2>1, <2>3, <2>4 DEF OwnLocks, Upgrading
    <2> QED BY <1>1, <2>1, <2>2, <2>3, <2>4, <2>5 DEF OwnLocks
  <1>7. LockExclusion'
    BY <1>1, <1>3 DEF LockInv, LockExclusion
  <1> QED BY <1>5, <1>6, <1>7 DEF LockInv

\* The upgrade ends: the entry is a writer's, and so is the lock.
LEMMA RelockWriteKeeps ==
  ASSUME LockTypes, LockInv, NEW t \in Tasks, RelockWrite(t)
  PROVE  LockInv'
  <1>1. /\ pc[t] = "upgrade" /\ Accessed(t)
        /\ readers[Buf(t)] = {} /\ writer[Buf(t)] = None
        /\ writer' = [writer EXCEPT ![Buf(t)] = t]
        /\ UNCHANGED <<grp, readers>>
    BY DEF RelockWrite
  <1>2. Buf(t) \in Buffers /\ pc'[t] # "upgrade"
        /\ \A s \in Tasks \ {t} : pc'[s] = pc[s] /\ pos'[s] = pos[s]
    BY <1>1, AccessType, AccessedMoves DEF Acquiring
  <1>3. \A b \in Buffers : writer'[b] = IF b = Buf(t) THEN t ELSE writer[b]
    BY <1>1, <1>2 DEF LockTypes
  <1>4. OwnLocks(t) /\ Access(t).mode # "read" /\ HasRead(t, Buf(t))
    BY <1>1 DEF LockInv, OwnLocks
  <1>5. /\ \A s \in Tasks \ {t} : acc'[s] = acc[s]
        /\ acc'[t] = [i \in DOMAIN acc[t] |->
                        IF i \in Entry(t, Buf(t)) THEN [acc[t][i] EXCEPT !.mode = Access(t).mode]
                                                  ELSE acc[t][i]]
    BY DEF RelockWrite, LockTypes
  <1>6. ASSUME NEW i \in DOMAIN acc[t]
        PROVE  /\ acc'[t][i].buf = acc[t][i].buf
               /\ acc'[t][i].mode = IF i \in Entry(t, Buf(t)) THEN Access(t).mode
                                                            ELSE acc[t][i].mode
    <2>1. acc[t][i] \in [buf : Buffers, mode : Modes]
      BY Elements DEF LockTypes, AccType
    <2> QED BY <1>5, <2>1
  <1>7. DOMAIN acc'[t] = DOMAIN acc[t]
    BY <1>5
  <1>8. ASSUME NEW s \in Tasks \ {t} PROVE OwnLocks(s)'
    <2>1. \A b \in Buffers : writer'[b] = s <=> writer[b] = s
      BY <1>1, <1>3, NamesDiffer
    <2> QED BY <1>1, <1>2, <1>5, <2>1, OthersKeep DEF LockInv
  <1>9. OwnLocks(t)'
    <2>1. \A b : Entry(t, b)' = Entry(t, b)
      BY <1>6, <1>7 DEF Entry
    <2>2. ASSUME NEW b \in Buffers
          PROVE  /\ writer'[b] = t <=> HasWrite(t, b)'
                 /\ t \in readers'[b] <=> HasRead(t, b)'
      <3>1. CASE b = Buf(t)
        <4>1. \A i \in Entry(t, b) : acc'[t][i].mode # "read"
          BY <3>1, <1>4, <1>6 DEF Entry
        <4>2. Entry(t, b) # {}
          BY <3>1, <1>4 DEF HasRead
        <4>3. writer'[b] = t /\ t \notin readers'[b]
          BY <3>1, <1>1, <1>3
        <4> QED BY <4>1, <4>2, <4>3, <2>1 DEF HasRead, HasWrite
      <3>2. CASE b # Buf(t)
        <4>1. \A i \in Entry(t, b) : i \in DOMAIN acc[t] /\ i \notin Entry(t, Buf(t))
          BY <3>2 DEF Entry
        <4>2. \A i \in Entry(t, b) : acc'[t][i].mode = acc[t][i].mode
          BY <4>1, <1>6
        <4>3. writer'[b] = writer[b] /\ readers'[b] = readers[b]
          BY <3>2, <1>1, <1>3
        <4>4. /\ writer[b] = t <=> HasWrite(t, b)
              /\ t \in readers[b] <=> HasRead(t, b)
          BY <3>2, <1>4 DEF OwnLocks, Upgrading
        <4> QED BY <4>2, <4>3, <4>4, <2>1 DEF HasRead, HasWrite
      <3> QED BY <3>1, <3>2
    <2>3. \A b \in Buffers : \A i, j \in Entry(t, b)' : i = j
      BY <1>4, <2>1 DEF OwnLocks
    <2> QED BY <1>2, <2>2, <2>3 DEF OwnLocks, Upgrading
  <1>10. LockExclusion'
    BY <1>1, <1>3 DEF LockInv, LockExclusion
  <1> QED BY <1>8, <1>9, <1>10 DEF LockInv

\* What pushing an entry for a buffer that has none does to the entries.
LEMMA PushAdds ==
  ASSUME LockTypes, NEW t \in Tasks, MustLock(t), PushAcc(t)
  PROVE  /\ Entry(t, Buf(t)) = {}
         /\ \A s \in Tasks \ {t} : acc'[s] = acc[s]
         /\ \A b \in Buffers : b # Buf(t) => Entry(t, b)' = Entry(t, b)
         /\ \A b \in Buffers : b = Buf(t) => Entry(t, b)' = {Len(acc[t]) + 1}
         /\ acc'[t][Len(acc[t]) + 1].mode = Access(t).mode
         /\ \A b \in Buffers : \A i \in Entry(t, b) : acc'[t][i] = acc[t][i]
  <1> DEFINE e == [buf |-> Buf(t), mode |-> Access(t).mode]
             n == Len(acc[t]) + 1
  <1>1. Entry(t, Buf(t)) = {}
    BY DEF MustLock, Found, Entry
  <1>2. acc[t] \in Seq([buf : Buffers, mode : Modes])
    BY DEF LockTypes, AccType
  <1>3. e \in [buf : Buffers, mode : Modes] /\ e.buf = Buf(t) /\ e.mode = Access(t).mode
    BY AccessType DEF MustLock, Acquiring
  <1>4. acc' = [acc EXCEPT ![t] = Append(acc[t], e)]
    BY DEF PushAcc
  <1>5. acc'[t] = Append(acc[t], e) /\ \A s \in Tasks \ {t} : acc'[s] = acc[s]
    BY <1>4 DEF LockTypes
  <1> HIDE DEF e
  <1>6. /\ DOMAIN acc'[t] = (DOMAIN acc[t]) \cup {n}
        /\ n \notin DOMAIN acc[t]
        /\ \A i \in DOMAIN acc[t] : acc'[t][i] = acc[t][i]
        /\ acc'[t][n] = e
    BY <1>2, <1>3, <1>5, AppendEntries
  <1> HIDE DEF n
  <1>7. \A b \in Buffers : b # Buf(t) => Entry(t, b)' = Entry(t, b)
    BY <1>3, <1>6 DEF Entry
  <1>8. \A b \in Buffers : b = Buf(t) => Entry(t, b)' = {n}
    BY <1>1, <1>3, <1>6 DEF Entry
  <1> QED BY <1>1, <1>3, <1>5, <1>6, <1>7, <1>8 DEF Entry, n

\* A buffer that the handler has no entry for is locked for reading.
LEMMA LockReadKeeps ==
  ASSUME LockTypes, LockInv, NEW t \in Tasks, LockRead(t)
  PROVE  LockInv'
  <1>1. /\ MustLock(t) /\ PushAcc(t) /\ Accessed(t)
        /\ pc[t] = "lock" /\ Access(t).mode = "read" /\ writer[Buf(t)] = None
        /\ readers' = [readers EXCEPT ![Buf(t)] = @ \cup {t}]
        /\ UNCHANGED <<grp, writer>>
    BY DEF LockRead, MustLock
  <1>2. Buf(t) \in Buffers /\ pc'[t] # "upgrade"
        /\ \A s \in Tasks \ {t} : pc'[s] = pc[s] /\ pos'[s] = pos[s]
    BY <1>1, AccessType, AccessedMoves DEF Acquiring
  <1>3. \A b \in Buffers : readers'[b] = IF b = Buf(t) THEN readers[b] \cup {t} ELSE readers[b]
    BY <1>1, <1>2 DEF LockTypes
  <1>4. ASSUME NEW s \in Tasks \ {t} PROVE OwnLocks(s)'
    <2>1. \A b \in Buffers : s \in readers'[b] <=> s \in readers[b]
      BY <1>3
    <2>2. acc'[s] = acc[s]
      BY <1>1, PushAdds
    <2> QED BY <1>1, <1>2, <2>1, <2>2, OthersKeep DEF LockInv
  <1>5. OwnLocks(t)'
    <2>1. OwnLocks(t)
      BY DEF LockInv
    <2>2. ASSUME NEW b \in Buffers
          PROVE  /\ \A i, j \in Entry(t, b)' : i = j
                 /\ writer'[b] = t <=> HasWrite(t, b)'
                 /\ t \in readers'[b] <=> HasRead(t, b)'
      <3>1. CASE b = Buf(t)
        <4>1. writer'[b] # t /\ t \in readers'[b]
          BY <3>1, <1>1, <1>3, NamesDiffer
        <4>2. Entry(t, b)' = {Len(acc[t]) + 1} /\ acc'[t][Len(acc[t]) + 1].mode = "read"
          BY <3>1, <1>1, PushAdds
        <4> QED BY <4>1, <4>2 DEF HasRead, HasWrite
      <3>2. CASE b # Buf(t)
        <4>1. Entry(t, b)' = Entry(t, b) /\ \A i \in Entry(t, b) : acc'[t][i] = acc[t][i]
          BY <3>2, <1>1, PushAdds
        <4>2. writer'[b] = writer[b] /\ readers'[b] = readers[b]
          BY <3>2, <1>1, <1>3
        <4>3. /\ \A i, j \in Entry(t, b) : i = j
              /\ writer[b] = t <=> HasWrite(t, b)
              /\ t \in readers[b] <=> HasRead(t, b)
          BY <1>1, <2>1 DEF OwnLocks, Upgrading
        <4> QED BY <4>1, <4>2, <4>3 DEF HasRead, HasWrite
      <3> QED BY <3>1, <3>2
    <2> QED BY <1>2, <2>2 DEF OwnLocks, Upgrading
  <1>6. LockExclusion'
    BY <1>1, <1>3 DEF LockInv, LockExclusion
  <1> QED BY <1>4, <1>5, <1>6 DEF LockInv

\* Or for writing.
LEMMA LockWriteKeeps ==
  ASSUME LockTypes, LockInv, NEW t \in Tasks, LockWrite(t)
  PROVE  LockInv'
  <1>1. /\ MustLock(t) /\ PushAcc(t) /\ Accessed(t)
        /\ pc[t] = "lock" /\ Access(t).mode # "read"
        /\ readers[Buf(t)] = {} /\ writer[Buf(t)] = None
        /\ writer' = [writer EXCEPT ![Buf(t)] = t]
        /\ UNCHANGED <<grp, readers>>
    BY DEF LockWrite, MustLock
  <1>2. Buf(t) \in Buffers /\ pc'[t] # "upgrade"
        /\ \A s \in Tasks \ {t} : pc'[s] = pc[s] /\ pos'[s] = pos[s]
    BY <1>1, AccessType, AccessedMoves DEF Acquiring
  <1>3. \A b \in Buffers : writer'[b] = IF b = Buf(t) THEN t ELSE writer[b]
    BY <1>1, <1>2 DEF LockTypes
  <1>4. ASSUME NEW s \in Tasks \ {t} PROVE OwnLocks(s)'
    <2>1. \A b \in Buffers : writer'[b] = s <=> writer[b] = s
      BY <1>1, <1>3, NamesDiffer
    <2>2. acc'[s] = acc[s]
      BY <1>1, PushAdds
    <2> QED BY <1>1, <1>2, <2>1, <2>2, OthersKeep DEF LockInv
  <1>5. OwnLocks(t)'
    <2>1. OwnLocks(t)
      BY DEF LockInv
    <2>2. ASSUME NEW b \in Buffers
          PROVE  /\ \A i, j \in Entry(t, b)' : i = j
                 /\ writer'[b] = t <=> HasWrite(t, b)'
                 /\ t \in readers'[b] <=> HasRead(t, b)'
      <3>1. CASE b = Buf(t)
        <4>1. writer'[b] = t /\ t \notin readers'[b]
          BY <3>1, <1>1, <1>3
        <4>2. /\ Entry(t, b)' = {Len(acc[t]) + 1}
              /\ acc'[t][Len(acc[t]) + 1].mode # "read"
          BY <3>1, <1>1, PushAdds
        <4> QED BY <4>1, <4>2 DEF HasRead, HasWrite
      <3>2. CASE b # Buf(t)
        <4>1. Entry(t, b)' = Entry(t, b) /\ \A i \in Entry(t, b) : acc'[t][i] = acc[t][i]
          BY <3>2, <1>1, PushAdds
        <4>2. writer'[b] = writer[b] /\ readers'[b] = readers[b]
          BY <3>2, <1>1, <1>3
        <4>3. /\ \A i, j \in Entry(t, b) : i = j
              /\ writer[b] = t <=> HasWrite(t, b)
              /\ t \in readers[b] <=> HasRead(t, b)
          BY <1>1, <2>1 DEF OwnLocks, Upgrading
        <4> QED BY <4>1, <4>2, <4>3 DEF HasRead, HasWrite
      <3> QED BY <3>1, <3>2
    <2> QED BY <1>2, <2>2 DEF OwnLocks, Upgrading
  <1>6. LockExclusion'
    BY <1>1, <1>3 DEF LockInv, LockExclusion
  <1> QED BY <1>4, <1>5, <1>6 DEF LockInv

\* ~handler unlocks the first entry by its mode, and it is the only one of its
\* buffer.
LEMMA UnlockKeeps ==
  ASSUME LockTypes, LockInv, NEW t \in Tasks, Unlock(t)
  PROVE  LockInv'
  <1> DEFINE e == acc[t][1]
  <1>1. /\ acc[t] \in Seq([buf : Buffers, mode : Modes]) /\ acc[t] # <<>>
        /\ pc[t] = "unlock" /\ UNCHANGED <<pc, grp, pos>>
        /\ acc' = [acc EXCEPT ![t] = Tail(acc[t])]
    BY DEF Unlock, LockTypes, AccType, args
  <1>2. acc'[t] = Tail(acc[t]) /\ \A s \in Tasks \ {t} : acc'[s] = acc[s]
    BY <1>1 DEF LockTypes
  <1>3. /\ 1 \in DOMAIN acc[t] /\ Head(acc[t]) = e /\ e \in [buf : Buffers, mode : Modes]
        /\ \A i \in DOMAIN acc'[t] : i + 1 \in DOMAIN acc[t] /\ acc'[t][i] = acc[t][i + 1]
        /\ \A i \in DOMAIN acc[t] : i # 1 => i - 1 \in DOMAIN acc'[t] /\ acc'[t][i - 1] = acc[t][i]
        /\ \A i \in DOMAIN acc[t] : i \in Int
        /\ \A i \in DOMAIN acc'[t] : i \in Int /\ i + 1 # 1
    <2>1. /\ 1 \in DOMAIN acc[t] /\ Head(acc[t]) = e /\ e \in [buf : Buffers, mode : Modes]
          /\ \A i \in DOMAIN Tail(acc[t]) : i + 1 \in DOMAIN acc[t] /\ Tail(acc[t])[i] = acc[t][i + 1]
          /\ \A i \in DOMAIN acc[t] : i # 1 => /\ i - 1 \in DOMAIN Tail(acc[t])
                                               /\ Tail(acc[t])[i - 1] = acc[t][i]
          /\ \A i \in DOMAIN acc[t] : i \in Int
          /\ Tail(acc[t]) \in Seq([buf : Buffers, mode : Modes])
      BY <1>1, TailEntries
    <2>2. \A i \in DOMAIN Tail(acc[t]) : i \in Int /\ i + 1 # 1
      BY <2>1, Elements
    <2> QED BY <1>2, <2>1, <2>2
  <1>4. IF e.mode # "read"
          THEN writer' = [writer EXCEPT ![e.buf] = None] /\ UNCHANGED readers
          ELSE readers' = [readers EXCEPT ![e.buf] = @ \ {t}] /\ UNCHANGED writer
    BY <1>3 DEF Unlock
  <1>5. e.buf \in Buffers /\ 1 \in Entry(t, e.buf)
    BY <1>3 DEF Entry
  <1> HIDE DEF e
  <1>6. /\ \A b \in Buffers : writer'[b] = IF b = e.buf /\ e.mode # "read" THEN None ELSE writer[b]
        /\ \A b \in Buffers : readers'[b] = IF b = e.buf /\ e.mode = "read"
                                              THEN readers[b] \ {t} ELSE readers[b]
    BY <1>4, <1>5 DEF LockTypes
  <1>7. OwnLocks(t) /\ LockExclusion
    BY DEF LockInv
  <1>8. e.mode # "read" => writer[e.buf] = t
    BY <1>5, <1>7 DEF OwnLocks, HasWrite, e
  <1>9. ASSUME NEW s \in Tasks \ {t} PROVE OwnLocks(s)'
    <2>1. \A b \in Buffers : writer'[b] = s <=> writer[b] = s
      BY <1>6, <1>8, NamesDiffer
    <2>2. \A b \in Buffers : s \in readers'[b] <=> s \in readers[b]
      BY <1>6
    <2> QED BY <1>1, <1>2, <2>1, <2>2, OthersKeep DEF LockInv
  <1>10. OwnLocks(t)'
    <2>1. ASSUME NEW b \in Buffers
          PROVE  /\ \A i, j \in Entry(t, b)' : i = j
                 /\ writer'[b] = t <=> HasWrite(t, b)'
                 /\ t \in readers'[b] <=> HasRead(t, b)'
      <3>1. \A i \in Entry(t, b)' : i \in Int /\ i + 1 # 1 /\ i + 1 \in Entry(t, b)
                                    /\ acc'[t][i] = acc[t][i + 1]
        BY <1>3 DEF Entry
      <3>2. \A i \in Entry(t, b) : i # 1 => i - 1 \in Entry(t, b)' /\ acc'[t][i - 1] = acc[t][i]
        BY <1>3 DEF Entry
      <3>3. /\ \A i, j \in Entry(t, b) : i = j
            /\ writer[b] = t <=> HasWrite(t, b)
            /\ t \in readers[b] <=> HasRead(t, b)
        BY <1>1, <1>7 DEF OwnLocks, Upgrading
      <3>4. CASE b = e.buf
        <4>1. Entry(t, b)' = {}
          BY <3>1, <3>3, <3>4, <1>5
        <4>2. HasWrite(t, b) <=> e.mode # "read"
          BY <3>3, <3>4, <1>5 DEF HasWrite, e
        <4>3. HasRead(t, b) <=> e.mode = "read"
          BY <3>3, <3>4, <1>5 DEF HasRead, e
        <4>4. writer'[b] # t /\ t \notin readers'[b]
          BY <3>3, <3>4, <4>2, <4>3, <1>6, NamesDiffer
        <4> QED BY <4>1, <4>4 DEF HasRead, HasWrite
      <3>5. CASE b # e.buf
        <4>1. 1 \notin Entry(t, b)
          BY <3>5 DEF Entry, e
        <4>2. writer'[b] = writer[b] /\ readers'[b] = readers[b]
          BY <3>5, <1>6
        <4>3. \A i, j \in Entry(t, b)' : i = j
          BY <3>1, <3>3
        <4>4. HasRead(t, b)' <=> HasRead(t, b)
          BY <3>1, <3>2, <4>1 DEF HasRead
        <4>5. HasWrite(t, b)' <=> HasWrite(t, b)
          BY <3>1, <3>2, <4>1 DEF HasWrite
        <4> QED BY <3>3, <4>2, <4>3, <4>4, <4>5
      <3> QED BY <3>4, <3>5
    <2> QED BY <1>1, <2>1 DEF OwnLocks, Upgrading
  <1>11. LockExclusion'
    BY <1>6, <1>7 DEF LockExclusion
  <1> QED BY <1>9, <1>10, <1>11 DEF LockInv

\* Every other step of a thread only moves it to another phase.
LEMMA MoveKeeps ==
  ASSUME LockInv, NEW t \in Tasks, UNCHANGED <<acc, readers, writer>>,
         pc[t] # "upgrade", pc'[t] # "upgrade",
         \A s \in Tasks \ {t} : pc'[s] = pc[s] /\ pos'[s] = pos[s] /\ grp'[s] = grp[s]
  PROVE  LockInv'
  <1>1. ASSUME NEW s \in Tasks \ {t} PROVE OwnLocks(s)'
    BY OthersKeep DEF LockInv
  <1>2. OwnLocks(t)'
    BY PhaseKeeps DEF LockInv
  <1>3. LockExclusion'
    BY DEF LockInv, LockExclusion
  <1> QED BY <1>1, <1>2, <1>3 DEF LockInv

LEMMA LockInvStep == LockTypes /\ LockInv /\ [Next]_vars => LockInv'
  <1> SUFFICES ASSUME LockTypes, LockInv, [Next]_vars PROVE LockInv'
    OBVIOUS
  <1> USE DEF locks, args, memory
  <1>1. ASSUME NEW t \in Tasks, NEW g \in Groups, Submit(t, g)
        PROVE  LockInv'
    BY <1>1, MoveKeeps DEF Submit, Goto, LockTypes
  <1>2. ASSUME NEW t \in Tasks, Moves(t), ~UnlockRead(t)
        PROVE  LockInv'
    <2>1. CASE Lookup(t) \/ Alloc(t) \/ CopyIn(t)
      BY <2>1, MoveKeeps DEF Lookup, Alloc, CopyIn, Goto, LockTypes
    <2>2. CASE KernelBegin(t) \/ KernelEnd(t) \/ MemoryOp(t)
      BY <2>2, MoveKeeps DEF KernelBegin, KernelEnd, MemoryOp, Goto, LockTypes
    <2>3. CASE DropLocal(t) \/ DropAcc(t) \/ DropClosure(t)
      BY <2>3, MoveKeeps DEF DropLocal, DropAcc, DropClosure
    <2>4. CASE Returned(t) \/ HandlerGone(t) \/ Decr(t) \/ Exit(t)
      BY <2>4, MoveKeeps DEF Returned, HandlerGone, Decr, Exit, Goto, LockTypes
    <2> QED BY <1>2, <2>1, <2>2, <2>3, <2>4 DEF Moves
  <1>3. ASSUME NEW t \in Tasks, AlreadyLocked(t) \/ LockSkipped(t)
        PROVE  LockInv'
    <2>1. pc[t] = "lock" /\ Accessed(t) /\ UNCHANGED <<grp, acc, readers, writer>>
      BY <1>3 DEF AlreadyLocked, LockSkipped
    <2>2. pc'[t] # "upgrade" /\ \A s \in Tasks \ {t} : pc'[s] = pc[s] /\ pos'[s] = pos[s]
      BY <2>1, AccessedMoves DEF Acquiring
    <2> QED BY <2>1, <2>2, MoveKeeps
  <1>4. ASSUME NEW t \in Tasks,
               UnlockRead(t) \/ RelockWrite(t) \/ LockRead(t) \/ LockWrite(t) \/ Unlock(t)
        PROVE  LockInv'
    BY <1>4, UnlockReadKeeps, RelockWriteKeeps, LockReadKeeps, LockWriteKeeps, UnlockKeeps
  <1>5. CASE UNCHANGED <<pc, grp, pos, acc, readers, writer>>
    <2>1. ASSUME NEW s \in Tasks PROVE OwnLocks(s)'
      BY <1>5, OthersKeep DEF LockInv
    <2>2. LockExclusion'
      BY <1>5 DEF LockInv, LockExclusion
    <2> QED BY <2>1, <2>2 DEF LockInv
  <1>6. ASSUME NEW b \in Buffers, DestroyBuffer(b)
        PROVE  LockInv'
    BY <1>5, <1>6 DEF DestroyBuffer
  <1>7. CASE UNCHANGED vars
    BY <1>5, <1>7 DEF vars
  <1> QED BY <1>1, <1>2, <1>3, <1>4, <1>6, <1>7 DEF Next, Step, Locking, Moves

\* Invariance of the two of them together.
LEMMA LockInvariance == Spec => [](LockTypes /\ LockInv)
  <1>1. Init => LockTypes /\ LockInv
    <2>1. Init => LockTypes
      BY NamesDiffer DEF Init, LockTypes, AccType, Phases, Acquiring
    <2>2. Init => LockExclusion
      BY DEF Init, LockExclusion
    <2>3. ASSUME Init, NEW t \in Tasks PROVE OwnLocks(t)
      <3>1. acc[t] = <<>> /\ pc[t] = "unborn"
        BY <2>3 DEF Init
      <3>2. \A b : Entry(t, b) = {}
        BY <3>1 DEF Entry
      <3>3. \A b \in Buffers : writer[b] # t /\ t \notin readers[b]
        BY <2>3, NamesDiffer DEF Init
      <3> QED BY <3>1, <3>2, <3>3 DEF OwnLocks, HasRead, HasWrite
    <2> QED BY <2>1, <2>2, <2>3 DEF LockInv
  <1> QED BY <1>1, LockTypesStep, LockInvStep, PTL DEF Spec

\* In every behaviour the handlers hold the locks that their entries say they
\* hold and no others, so that ~handler unlocks what is locked and nothing else
\* (handler.hpp:19-27, 245-270).
THEOREM LocksOwned == Spec => []LockOwnership
  BY LockInvariance, LockInvSuffices, PTL

\* No container is ever locked shared and exclusive at once, upgrades included
\* (buffer_container.hpp, handler.hpp:249-259).
THEOREM LocksExclude == Spec => []LockExclusion
  <1>1. LockInv => LockExclusion
    BY DEF LockInv
  <1> QED BY <1>1, LockInvariance, PTL

-----------------------------------------------------------------------------
(***************************************************************************)
(* No command runs on a chunk of device memory that was freed.             *)
(*                                                                         *)
(* The argument follows the shared_ptrs.  A command group in progress      *)
(* holds the container of each of its buffers: through its closure for a   *)
(* placeholder, through the accessor once that is made, and until then     *)
(* through the host program, which may not destroy the buffer yet.  Hence  *)
(* ~BufferContainer has not run, and it alone frees chunks, those of its   *)
(* own map.                                                                *)
(*                                                                         *)
(* The last two sections turn this around, who may hold a container at     *)
(* all, and draw the types of the rest of the state from it.               *)
(***************************************************************************)

Active == Acquiring \cup {"command", "running"}

\* Buffer and way in of accessor i of t.
BufOf(t, i) == grp[t].acc[i].buf
ByValue(t, i) == grp[t].acc[i].via = "placeholder"

\* Accessor i of t has been made; alloc_mem_ has seen to its memory.
Made(t, i)  == i < pos[t] \/ (i = pos[t] /\ (pc[t] # "access" \/ again[t]))
Ready(t, i) == i < pos[t] \/ (i = pos[t] /\ (pc[t] \notin {"access", "alloc"} \/ again[t]))

\* Who keeps the container of accessor i alive.
Holder(t, i) == IF ByValue(t, i) THEN <<"closure", t>>
                ELSE IF Made(t, i) THEN <<"local", t>> ELSE User

\* Entries of the map of buffer b.
Ptrs(b) == [ptr : {b} \X Tasks, mode : Modes]

AccAlive(t, i) ==
  /\ Holder(t, i) \in refs[BufOf(t, i)]
  /\ dptr[t][i] # None => /\ dptr[t][i] \in {BufOf(t, i)} \X Tasks
                          /\ dptr[t][i] \in chunks
  /\ Ready(t, i) /\ ~OnHost(t) => map[BufOf(t, i)][Dev(t)] \in Ptrs(BufOf(t, i))

Alive(t) ==
  pc[t] \in Active =>
    /\ DOMAIN dptr[t] = DOMAIN grp[t].acc
    /\ pc[t] \in {"command", "running"} => pos[t] = Len(grp[t].acc) + 1
    /\ pc[t] \in {"alloc", "copyin", "lock"} /\ count[t] > 0 => ~OnHost(t)
    /\ pc[t] = "upgrade" => ~OnHost(t)
    /\ \A i \in DOMAIN grp[t].acc : AccAlive(t, i)

\* A container that somebody holds has its chunks.
Mapped == \A b \in Buffers, d \in Devices :
            /\ map[b][d] \in Ptrs(b) \cup {None}
            /\ refs[b] # {} /\ map[b][d] # None => map[b][d].ptr \in chunks

LifeTypes ==
  /\ count \in [Tasks -> {0, 1}]
  /\ dptr \in [Tasks -> UNION {[S -> Locs \cup {None}] : S \in SUBSET Nat}]
  /\ map \in [Buffers -> [Devices -> [ptr : Locs, mode : Modes] \cup {None}]]
  /\ refs \in [Buffers -> SUBSET Holders]
  /\ \A t \in Tasks : pc[t] = "unborn" => ~again[t]

LifeInv == LifeTypes /\ Mapped /\ \A t \in Tasks : Alive(t)

\* An entry is a pointer to a chunk, with an owner and a mode.
LEMMA PtrsReal ==
  ASSUME NEW b \in Buffers
  PROVE  None \notin Ptrs(b) /\ Ptrs(b) \subseteq [ptr : Locs, mode : Modes]
  BY NamesDiffer DEF Ptrs, Locs

\* The accessors of a command group in progress.
LEMMA GroupType ==
  ASSUME LockTypes, NEW t \in Tasks, pc[t] # "unborn"
  PROVE  /\ Dev(t) \in Devices
         /\ Len(grp[t].acc) \in Nat /\ DOMAIN grp[t].acc = 1 .. Len(grp[t].acc)
         /\ \A i \in DOMAIN grp[t].acc : BufOf(t, i) \in Buffers
  <1>1. grp[t] \in Groups
    BY DEF LockTypes
  <1>2. /\ Dev(t) \in Devices
        /\ grp[t].acc \in Seq([buf : Buffers, mode : Modes,
                               via : {"plain", "ranged", "placeholder"}])
    BY <1>1, GroupsAre DEF Dev
  <1>3. \A i \in DOMAIN grp[t].acc : grp[t].acc[i] \in [buf : Buffers, mode : Modes,
                                              via : {"plain", "ranged", "placeholder"}]
    <2> DEFINE R == [buf : Buffers, mode : Modes, via : {"plain", "ranged", "placeholder"}]
    <2> SUFFICES \A i \in DOMAIN grp[t].acc : grp[t].acc[i] \in R
      OBVIOUS
    <2>1. grp[t].acc \in Seq(R)
      BY <1>2
    <2> HIDE DEF R
    <2> QED BY <2>1, Elements
  <1> QED BY <1>2, <1>3, Elements DEF BufOf

\* What the invariant is for.
LEMMA LifeInvSuffices == LockTypes /\ LifeInv => ChunksLive
  <1> SUFFICES ASSUME LockTypes, LifeInv, NEW t \in Tasks, pc[t] \in {"command", "running"},
                      NEW i \in DOMAIN grp[t].acc, Loc(t, i)[2] # Host
               PROVE  Loc(t, i) \in chunks
    BY DEF ChunksLive
  <1> DEFINE b == BufOf(t, i)
  <1>1. pc[t] \in Active /\ pc[t] # "unborn"
    BY DEF Active
  <1>2. /\ Holder(t, i) \in refs[b]
        /\ dptr[t][i] # None => dptr[t][i] \in chunks
        /\ Ready(t, i) /\ ~OnHost(t) => map[b][Dev(t)] \in Ptrs(b)
        /\ pos[t] = Len(grp[t].acc) + 1
    BY <1>1 DEF LifeInv, Alive, AccAlive
  <1>3. b \in Buffers /\ Dev(t) \in Devices /\ i \in 1 .. Len(grp[t].acc) /\ Len(grp[t].acc) \in Nat
    BY <1>1, GroupType
  <1>4. Ready(t, i)
    BY <1>2, <1>3 DEF Ready
  <1>5. CASE dptr[t][i] # None
    BY <1>2, <1>5 DEF Loc
  <1>6. CASE dptr[t][i] = None /\ OnHost(t)
    BY <1>6 DEF Loc
  <1>7. CASE dptr[t][i] = None /\ ~OnHost(t)
    <2>1. Loc(t, i) = map[b][Dev(t)].ptr
      BY <1>7 DEF Loc, BufOf
    <2>2. map[b][Dev(t)] \in Ptrs(b) /\ refs[b] # {}
      BY <1>2, <1>4, <1>7
    <2>3. map[b][Dev(t)] # None
      BY <2>2, <1>3, PtrsReal
    <2> QED BY <2>1, <2>2, <2>3, <1>3 DEF LifeInv, Mapped
  <1> QED BY <1>5, <1>6, <1>7

-----------------------------------------------------------------------------
(* What other threads do to a command group                                *)

\* Chunks of held containers are not freed, entries of maps do not disappear.
ChunksKept == \A b \in Buffers : \A l \in {b} \X Tasks :
                l \in chunks /\ refs'[b] # {} => l \in chunks'
EntriesKept == \A b \in Buffers, d \in Devices :
                 map[b][d] \in Ptrs(b) => map'[b][d] \in Ptrs(b)

\* An accessor is still alive if its container is held and alloc_mem_ has not
\* come any further.
LEMMA AccFrame ==
  ASSUME LockTypes, NEW t \in Tasks, pc[t] # "unborn", NEW i \in DOMAIN grp[t].acc,
         AccAlive(t, i), ChunksKept, EntriesKept,
         grp'[t] = grp[t], dptr'[t][i] = dptr[t][i],
         Holder(t, i)' \in refs'[BufOf(t, i)],
         Ready(t, i)' /\ ~OnHost(t) => Ready(t, i)
  PROVE  AccAlive(t, i)'
  <1>1. Dev(t)' = Dev(t) /\ (OnHost(t)' <=> OnHost(t))
    BY DEF Dev, OnHost
  <1>2. BufOf(t, i) \in Buffers /\ Dev(t) \in Devices
    BY GroupType
  <1>3. BufOf(t, i)' = BufOf(t, i)
    BY DEF BufOf
  <1>4. Ptrs(BufOf(t, i))' = Ptrs(BufOf(t, i))
    BY <1>3 DEF Ptrs
  <1>5. dptr[t][i] # None => dptr[t][i] \in chunks'
    BY <1>2 DEF ChunksKept, AccAlive
  <1>6. Ready(t, i)' /\ ~OnHost(t) => map'[BufOf(t, i)][Dev(t)] \in Ptrs(BufOf(t, i))
    BY <1>2 DEF EntriesKept, AccAlive
  <1> QED BY <1>1, <1>3, <1>4, <1>5, <1>6 DEF AccAlive

\* A command group that does not move stays alive if nobody releases its
\* containers for it.
LEMMA AliveFrame ==
  ASSUME LockTypes, NEW t \in Tasks, Alive(t), ChunksKept, EntriesKept,
         pc'[t] = pc[t], grp'[t] = grp[t], pos'[t] = pos[t], again'[t] = again[t],
         count'[t] = count[t], dptr'[t] = dptr[t],
         pc[t] \in Active => \A i \in DOMAIN grp[t].acc :
                               Holder(t, i) \in refs[BufOf(t, i)] =>
                               Holder(t, i) \in refs'[BufOf(t, i)]
  PROVE  Alive(t)'
  <1> SUFFICES ASSUME pc[t] \in Active PROVE Alive(t)'
    BY DEF Alive
  <1>1. pc[t] # "unborn"
    BY DEF Active, Acquiring
  <1>2. OnHost(t)' <=> OnHost(t)
    BY DEF Dev, OnHost
  <1>3. ASSUME NEW i \in DOMAIN grp[t].acc PROVE AccAlive(t, i)'
    <2>1. AccAlive(t, i)
      BY DEF Alive
    <2>2. (Made(t, i)' <=> Made(t, i)) /\ (Ready(t, i)' <=> Ready(t, i))
      BY DEF Made, Ready
    <2>3. Holder(t, i)' = Holder(t, i)
      BY <2>2 DEF Holder, ByValue
    <2>4. Holder(t, i) \in refs'[BufOf(t, i)]
      BY <2>1 DEF AccAlive
    <2> QED BY <1>1, <2>1, <2>2, <2>3, <2>4, AccFrame
  <1> QED BY <1>2, <1>3 DEF Alive

\* Nor does a step of one thread take away what another one holds.
LEMMA OthersAlive ==
  ASSUME LockTypes, LifeInv, ChunksKept, EntriesKept, NEW t \in Tasks,
         \A s \in Tasks \ {t} :
           /\ pc'[s] = pc[s] /\ grp'[s] = grp[s] /\ pos'[s] = pos[s]
           /\ again'[s] = again[s] /\ count'[s] = count[s] /\ dptr'[s] = dptr[s],
         \A b \in Buffers : refs[b] \ refs'[b] \subseteq {"local", "acc", "closure"} \X {t}
  PROVE  \A s \in Tasks \ {t} : Alive(s)'
  <1> TAKE s \in Tasks \ {t}
  <1>1. ASSUME pc[s] \in Active, NEW i \in DOMAIN grp[s].acc
        PROVE  Holder(s, i) \in refs[BufOf(s, i)] => Holder(s, i) \in refs'[BufOf(s, i)]
    <2>1. pc[s] # "unborn"
      BY <1>1 DEF Active, Acquiring
    <2>2. BufOf(s, i) \in Buffers
      BY <1>1, <2>1, GroupType
    <2>3. Holder(s, i) \in {<<"closure", s>>, <<"local", s>>, User}
      BY DEF Holder
    <2>4. Holder(s, i) \notin {"local", "acc", "closure"} \X {t}
      BY <2>3, NamesDiffer
    <2> QED BY <2>2, <2>4
  <1> QED BY <1>1, AliveFrame DEF LifeInv

\* The release of a shared_ptr takes one holder away, and chunks of nobody's.
LEMMA ReleaseEffect ==
  ASSUME LifeTypes, Mapped, NEW b \in Buffers, NEW h, Release(b, h)
  PROVE  /\ \A c \in Buffers : refs'[c] = IF c = b THEN refs[c] \ {h} ELSE refs[c]
         /\ refs' \in [Buffers -> SUBSET Holders]
         /\ map' = map
         /\ ChunksKept /\ EntriesKept /\ Mapped'
  <1>1. /\ refs' = [refs EXCEPT ![b] = refs[b] \ {h}] /\ map' = map
        /\ IF refs[b] = {h} THEN Destroy(b) ELSE chunks' = chunks
    BY DEF Release
  <1>2. /\ \A c \in Buffers : refs'[c] = IF c = b THEN refs[c] \ {h} ELSE refs[c]
        /\ refs' \in [Buffers -> SUBSET Holders]
    BY <1>1 DEF LifeTypes
  <1>3. ASSUME NEW c \in Buffers, NEW l \in {c} \X Tasks, l \in chunks, refs'[c] # {}
        PROVE  l \in chunks'
    <2>1. CASE refs[b] # {h}
      BY <2>1, <1>1, <1>3
    <2>2. CASE refs[b] = {h}
      <3>1. c # b
        BY <2>2, <1>2, <1>3
      <3>2. chunks' = chunks \ {e.ptr : e \in {map[b][d] : d \in {x \in Devices : map[b][x] # None}}}
        BY <2>2, <1>1 DEF Destroy
      <3>3. \A d \in Devices : map[b][d] # None => map[b][d].ptr \in {b} \X Tasks
        BY DEF Mapped, Ptrs
      <3>4. l \notin {b} \X Tasks
        BY <3>1
      <3> QED BY <1>3, <3>2, <3>3, <3>4
    <2> QED BY <2>1, <2>2
  <1>4. ChunksKept /\ EntriesKept
    BY <1>1, <1>3 DEF ChunksKept, EntriesKept
  <1>5. Mapped'
    <2> SUFFICES ASSUME NEW c \in Buffers, NEW d \in Devices
                 PROVE  /\ map'[c][d] \in Ptrs(c) \cup {None}
                        /\ refs'[c] # {} /\ map'[c][d] # None => map'[c][d].ptr \in chunks'
      BY DEF Mapped, Ptrs
    <2>1. /\ map[c][d] \in Ptrs(c) \cup {None}
          /\ refs[c] # {} /\ map[c][d] # None => map[c][d].ptr \in chunks
      BY DEF Mapped
    <2>2. refs'[c] # {} => refs[c] # {}
      BY <1>2
    <2>3. map[c][d] # None => map[c][d].ptr \in {c} \X Tasks
      BY <2>1 DEF Ptrs
    <2> QED BY <1>1, <1>3, <2>1, <2>2, <2>3
  <1> QED BY <1>1, <1>2, <1>4, <1>5

-----------------------------------------------------------------------------
(* The steps of a command group                                            *)

\* A step that frees nothing, leaves the maps alone and adds holders only to
\* containers that have some.
LEMMA NothingFreed ==
  ASSUME Mapped, UNCHANGED <<map, chunks>>,
         \A b \in Buffers : refs[b] = {} => refs'[b] = {}
  PROVE  Mapped' /\ ChunksKept /\ EntriesKept
  BY DEF Mapped, ChunksKept, EntriesKept, Ptrs

\* The end of alloc_mem_ changes nothing for the accessors made and not made.
LEMMA AccessedMade ==
  ASSUME LockTypes, NEW t \in Tasks, pc[t] \in {"lock", "upgrade"}, Accessed(t)
  PROVE  /\ pc'[t] = "command" => pos'[t] = Len(grp[t].acc) + 1
         /\ \A i \in DOMAIN grp[t].acc : /\ Made(t, i)' <=> Made(t, i)
                                         /\ Ready(t, i)' <=> Ready(t, i)
  <1>1. pc[t] \in Acquiring /\ pc[t] # "unborn"
    BY DEF Acquiring
  <1>2. /\ pos[t] \in 1 .. Len(grp[t].acc) /\ Len(grp[t].acc) \in Nat
        /\ DOMAIN grp[t].acc = 1 .. Len(grp[t].acc)
    BY <1>1, GroupType DEF LockTypes
  <1>3. CASE Access(t).via = "ranged" /\ ~again[t]
    <2>1. pc'[t] = "access" /\ again'[t] = TRUE /\ pos' = pos
      BY <1>3 DEF Accessed, LockTypes
    <2> QED BY <2>1 DEF Made, Ready
  <1>4. CASE ~(Access(t).via = "ranged" /\ ~again[t])
    <2>1. /\ pos'[t] = pos[t] + 1 /\ again'[t] = FALSE
          /\ pc'[t] = IF pos[t] = Len(grp[t].acc) THEN "command" ELSE "access"
      BY <1>4 DEF Accessed, LockTypes
    <2>2. ASSUME NEW i \in DOMAIN grp[t].acc
          PROVE  /\ i < pos[t] + 1 \/ (i = pos[t] + 1 /\ pc'[t] # "access") <=> i <= pos[t]
                 /\ i < pos[t] \/ i = pos[t] <=> i <= pos[t]
      BY <1>2, <2>1
    <2>3. ASSUME NEW i \in DOMAIN grp[t].acc
          PROVE  (Made(t, i)' <=> i <= pos[t]) /\ (Ready(t, i)' <=> i <= pos[t])
      BY <2>1, <2>2 DEF Made, Ready
    <2>4. ASSUME NEW i \in DOMAIN grp[t].acc
          PROVE  (Made(t, i) <=> i <= pos[t]) /\ (Ready(t, i) <=> i <= pos[t])
      BY <2>2 DEF Made, Ready
    <2> QED BY <1>2, <2>1, <2>3, <2>4
  <1> QED BY <1>3, <1>4

LEMMA AccessedAlive ==
  ASSUME LockTypes, LifeInv, NEW t \in Tasks, pc[t] \in {"lock", "upgrade"}, Accessed(t),
         ChunksKept, EntriesKept, UNCHANGED <<grp, count, dptr>>,
         \A b \in Buffers : refs[b] \subseteq refs'[b]
  PROVE  Alive(t)'
  <1>1. pc[t] \in Active /\ pc[t] \in Acquiring /\ pc[t] # "unborn"
    BY DEF Active, Acquiring
  <1>2. /\ DOMAIN dptr[t] = DOMAIN grp[t].acc
        /\ \A i \in DOMAIN grp[t].acc : AccAlive(t, i)
    BY <1>1 DEF LifeInv, Alive
  <1>3. pc'[t] \in {"access", "command"}
    BY <1>1, AccessedMoves
  <1>4. ASSUME NEW i \in DOMAIN grp[t].acc PROVE AccAlive(t, i)'
    <2>1. Made(t, i)' <=> Made(t, i)
      BY AccessedMade
    <2>2. Ready(t, i)' <=> Ready(t, i)
      BY AccessedMade
    <2>3. Holder(t, i)' = Holder(t, i)
      BY <2>1 DEF Holder, ByValue
    <2>4. BufOf(t, i) \in Buffers /\ Holder(t, i) \in refs[BufOf(t, i)]
      BY <1>1, <1>2, GroupType DEF AccAlive
    <2>5. Holder(t, i)' \in refs'[BufOf(t, i)]
      BY <2>3, <2>4
    <2> QED BY <1>1, <1>2, <2>2, <2>5, AccFrame
  <1>5. pc'[t] = "command" => pos'[t] = Len(grp'[t].acc) + 1
    BY AccessedMade
  <1> QED BY <1>2, <1>3, <1>4, <1>5 DEF Alive

\* From one phase to another with the same accessors made and the same memory.
LEMMA PhaseAlive ==
  ASSUME LockTypes, LifeInv, NEW t \in Tasks, pc[t] \in Active,
         UNCHANGED <<grp, pos, again, count, dptr, map, chunks, refs>>,
         pc[t] \notin {"access", "alloc"}, pc'[t] \notin {"access", "alloc"},
         pc'[t] \in {"command", "running"} => pc[t] \in {"command", "running"},
         pc'[t] \in {"copyin", "lock"} => pc[t] = "copyin",
         pc'[t] = "upgrade" => ~OnHost(t)
  PROVE  Alive(t)'
  <1>1. pc[t] # "unborn"
    BY DEF Active, Acquiring
  <1>2. /\ DOMAIN dptr[t] = DOMAIN grp[t].acc
        /\ \A i \in DOMAIN grp[t].acc : AccAlive(t, i)
        /\ pc[t] \in {"command", "running"} => pos[t] = Len(grp[t].acc) + 1
        /\ pc[t] = "copyin" /\ count[t] > 0 => ~OnHost(t)
    BY DEF LifeInv, Alive
  <1>3. OnHost(t)' <=> OnHost(t)
    BY DEF Dev, OnHost
  <1>4. ChunksKept /\ EntriesKept
    BY NothingFreed DEF LifeInv
  <1>5. ASSUME NEW i \in DOMAIN grp[t].acc PROVE AccAlive(t, i)'
    <2>1. (Made(t, i)' <=> Made(t, i)) /\ (Ready(t, i)' <=> Ready(t, i))
      BY DEF Made, Ready
    <2>2. Holder(t, i)' = Holder(t, i)
      BY <2>1 DEF Holder, ByValue
    <2>3. Holder(t, i)' \in refs'[BufOf(t, i)]
      BY <1>2, <2>2 DEF AccAlive
    <2> QED BY <1>1, <1>2, <1>4, <2>1, <2>3, AccFrame
  <1> QED BY <1>2, <1>3, <1>5 DEF Alive

\* The accessor being made is one of the command group's.
LEMMA AtPos ==
  ASSUME LockTypes, NEW t \in Tasks, pc[t] \in Acquiring
  PROVE  /\ pos[t] \in DOMAIN grp[t].acc /\ pos[t] \in Nat
         /\ \A i \in DOMAIN grp[t].acc : i \in Nat
         /\ BufOf(t, pos[t]) = Buf(t) /\ Buf(t) \in Buffers /\ Dev(t) \in Devices
         /\ Access(t).mode \in Modes
         /\ ByValue(t, pos[t]) <=> Access(t).via = "placeholder"
  <1>1. pc[t] # "unborn"
    BY DEF Acquiring
  <1> QED BY <1>1, GroupType, AccessType DEF LockTypes, Buf, BufOf, ByValue, Access

\* The accessor is made: it holds the container, and what it finds in the map
\* are the chunks of a held container.
LEMMA LookupAlive ==
  ASSUME LockTypes, LifeInv, NEW t \in Tasks, Lookup(t)
  PROVE  Alive(t)' /\ Mapped' /\ ChunksKept /\ EntriesKept
  <1> DEFINE p == pos[t]
             b == Buf(t)
             e == map[b][Dev(t)]
             c == IF OnHost(t) \/ e = None THEN 0 ELSE 1
  <1>1. /\ pc[t] = "access" /\ pc' = [pc EXCEPT ![t] = IF OnHost(t) \/ c = 1 THEN "lock" ELSE "alloc"]
        /\ count' = [count EXCEPT ![t] = c]
        /\ dptr' = IF c = 1 /\ Access(t).via # "placeholder"
                     THEN [dptr EXCEPT ![t][p] = e.ptr] ELSE dptr
        /\ refs' = IF Access(t).via # "placeholder"
                     THEN [refs EXCEPT ![b] = @ \cup {<<"local", t>>}] ELSE refs
        /\ UNCHANGED <<grp, pos, again, map, chunks>>
    BY DEF Lookup, Goto, memory
  <1>2. pc[t] \in Acquiring /\ pc[t] \in Active /\ pc[t] # "unborn"
    BY <1>1 DEF Acquiring, Active
  <1>3. /\ p \in DOMAIN grp[t].acc /\ p \in Nat /\ \A i \in DOMAIN grp[t].acc : i \in Nat
        /\ BufOf(t, p) = b /\ b \in Buffers /\ Dev(t) \in Devices
        /\ ByValue(t, p) <=> Access(t).via = "placeholder"
    BY <1>2, AtPos
  <1>4. /\ DOMAIN dptr[t] = DOMAIN grp[t].acc
        /\ \A i \in DOMAIN grp[t].acc : AccAlive(t, i)
    BY <1>2 DEF LifeInv, Alive
  <1>5. refs[b] # {}
    BY <1>3, <1>4 DEF AccAlive
  <1>6. \A x \in Buffers : refs'[x] = IF x = b /\ Access(t).via # "placeholder"
                                        THEN refs[x] \cup {<<"local", t>>} ELSE refs[x]
    BY <1>1, <1>3 DEF LifeInv, LifeTypes
  <1>7. Mapped' /\ ChunksKept /\ EntriesKept
    BY <1>1, <1>5, <1>6, NothingFreed DEF LifeInv
  <1>8. /\ pc'[t] = IF OnHost(t) \/ c = 1 THEN "lock" ELSE "alloc"
        /\ count'[t] = c
    BY <1>1 DEF LockTypes, LifeInv, LifeTypes
  <1>9. /\ dptr'[t] = IF c = 1 /\ Access(t).via # "placeholder"
                        THEN [dptr[t] EXCEPT ![p] = e.ptr] ELSE dptr[t]
        /\ DOMAIN dptr'[t] = DOMAIN dptr[t]
    BY <1>1 DEF LifeInv, LifeTypes
  <1>10. c = 1 => /\ ~OnHost(t) /\ e \in Ptrs(b) /\ e.ptr \in {b} \X Tasks /\ e.ptr \in chunks
    BY <1>3, <1>5 DEF LifeInv, Mapped, Ptrs
  <1> HIDE DEF c, e
  <1>11. ASSUME NEW i \in DOMAIN grp[t].acc PROVE AccAlive(t, i)'
    <2>1. AccAlive(t, i)
      BY <1>4
    <2>2. CASE i = p
      <3>1. Made(t, i)'
        BY <1>1, <1>8, <2>2 DEF Made
      <3>2. Holder(t, i)' \in refs'[b]
        <4>1. /\ ByValue(t, i)' <=> ByValue(t, i)
              /\ ByValue(t, i) <=> Access(t).via = "placeholder"
              /\ BufOf(t, i) = b
          BY <1>1, <1>3, <2>2 DEF ByValue, BufOf
        <4>2. CASE ByValue(t, i)
          BY <1>3, <1>6, <2>1, <3>1, <4>1, <4>2 DEF Holder, AccAlive
        <4>3. CASE ~ByValue(t, i)
          BY <1>3, <1>6, <3>1, <4>1, <4>3 DEF Holder
        <4> QED
          BY <4>2, <4>3
      <3>3. /\ BufOf(t, i)' = b /\ Ptrs(BufOf(t, i))' = Ptrs(b)
            /\ Dev(t)' = Dev(t) /\ (OnHost(t)' <=> OnHost(t))
        BY <1>1, <1>3, <2>2 DEF BufOf, Ptrs, Dev, OnHost
      <3>4. dptr'[t][i] # None => dptr'[t][i] \in {b} \X Tasks /\ dptr'[t][i] \in chunks'
        BY <1>1, <1>3, <1>4, <1>9, <1>10, <2>1, <2>2 DEF AccAlive
      <3>5. Ready(t, i)' /\ ~OnHost(t) => map'[b][Dev(t)] \in Ptrs(b)
        <4>1. CASE c = 1
          BY <4>1, <1>1, <1>10 DEF e
        <4>2. CASE c # 1
          <5> SUFFICES ASSUME ~OnHost(t), Ready(t, i)' PROVE map'[b][Dev(t)] \in Ptrs(b)
            OBVIOUS
          <5>1. pc'[t] = "alloc"
            BY <4>2, <1>8
          <5>2. Ready(t, i)
            BY <5>1, <1>1, <1>3, <2>2 DEF Ready
          <5> QED BY <5>2, <1>1, <1>3, <2>1, <2>2 DEF AccAlive
        <4> QED BY <4>1, <4>2
      <3> QED BY <3>2, <3>3, <3>4, <3>5 DEF AccAlive
    <2>3. CASE i # p
      <3>1. (Made(t, i)' <=> Made(t, i)) /\ (Ready(t, i)' <=> Ready(t, i))
        BY <1>1, <2>3 DEF Made, Ready
      <3>2. Holder(t, i)' = Holder(t, i)
        BY <1>1, <3>1 DEF Holder, ByValue
      <3>3. BufOf(t, i) \in Buffers
        BY <1>2, GroupType
      <3>4. Holder(t, i)' \in refs'[BufOf(t, i)]
        BY <1>6, <2>1, <3>2, <3>3 DEF AccAlive
      <3>5. dptr'[t][i] = dptr[t][i]
        BY <1>4, <1>9, <2>3
      <3> QED BY <1>1, <1>2, <1>7, <2>1, <3>1, <3>4, <3>5, AccFrame
    <2> QED BY <2>2, <2>3
  <1>12. count'[t] > 0 => ~OnHost(t)'
    BY <1>1, <1>8, <1>10 DEF OnHost, Dev, c
  <1> QED BY <1>1, <1>4, <1>7, <1>8, <1>9, <1>11, <1>12 DEF Alive

\* The chunk is new, and after the insert the map has an entry, this one or
\* that of a thread which was faster.
LEMMA AllocAlive ==
  ASSUME LockTypes, LifeInv, NEW t \in Tasks, Alloc(t)
  PROVE  Alive(t)' /\ Mapped' /\ ChunksKept /\ EntriesKept
  <1> DEFINE p == pos[t]
             b == Buf(t)
             new == [ptr |-> Chunk(t), mode |-> Access(t).mode]
  <1>1. /\ pc[t] = "alloc"
        /\ pc' = [pc EXCEPT ![t] = IF Discards(Access(t).mode) THEN "lock" ELSE "copyin"]
        /\ chunks' = chunks \cup {Chunk(t)}
        /\ map' = IF map[b][Dev(t)] = None THEN [map EXCEPT ![b][Dev(t)] = new] ELSE map
        /\ dptr' = IF Access(t).via # "placeholder"
                     THEN [dptr EXCEPT ![t][p] = Chunk(t)] ELSE dptr
        /\ UNCHANGED <<grp, pos, again, count, refs>>
    BY DEF Alloc, Goto
  <1>2. pc[t] \in Acquiring /\ pc[t] \in Active /\ pc[t] # "unborn"
    BY <1>1 DEF Acquiring, Active
  <1>3. /\ p \in DOMAIN grp[t].acc /\ BufOf(t, p) = b /\ b \in Buffers /\ Dev(t) \in Devices
        /\ Access(t).mode \in Modes
    BY <1>2, AtPos
  <1>4. /\ DOMAIN dptr[t] = DOMAIN grp[t].acc
        /\ count[t] > 0 => ~OnHost(t)
        /\ \A i \in DOMAIN grp[t].acc : AccAlive(t, i)
    BY <1>1, <1>2 DEF LifeInv, Alive
  <1>5. Chunk(t) \in {b} \X Tasks
    BY DEF Chunk
  <1>6. new \in Ptrs(b) /\ new.ptr = Chunk(t)
    BY <1>3, <1>5 DEF Ptrs
  <1> HIDE DEF new
  <1>7. \A x \in Buffers, d \in Devices :
          map'[x][d] = IF x = b /\ d = Dev(t) /\ map[x][d] = None THEN new ELSE map[x][d]
    BY <1>1, <1>3 DEF LifeInv, LifeTypes
  <1>8. map'[b][Dev(t)] \in Ptrs(b)
    BY <1>3, <1>6, <1>7 DEF LifeInv, Mapped
  <1>9. Mapped'
    <2> SUFFICES ASSUME NEW x \in Buffers, NEW d \in Devices
                 PROVE  /\ map'[x][d] \in Ptrs(x) \cup {None}
                        /\ refs'[x] # {} /\ map'[x][d] # None => map'[x][d].ptr \in chunks'
      BY DEF Mapped, Ptrs
    <2>1. /\ map[x][d] \in Ptrs(x) \cup {None}
          /\ refs[x] # {} /\ map[x][d] # None => map[x][d].ptr \in chunks
      BY DEF LifeInv, Mapped
    <2> QED BY <1>1, <1>6, <1>7, <2>1
  <1>10. ChunksKept
    BY <1>1 DEF ChunksKept
  <1>11. EntriesKept
    BY <1>6, <1>7 DEF EntriesKept
  <1>12. /\ pc'[t] \in {"lock", "copyin"}
         /\ DOMAIN dptr'[t] = DOMAIN dptr[t]
         /\ dptr'[t] = IF Access(t).via # "placeholder"
                         THEN [dptr[t] EXCEPT ![p] = Chunk(t)] ELSE dptr[t]
    BY <1>1 DEF LockTypes, LifeInv, LifeTypes
  <1>13. /\ Dev(t)' = Dev(t) /\ (OnHost(t)' <=> OnHost(t))
    BY <1>1 DEF Dev, OnHost
  <1>14. ASSUME NEW i \in DOMAIN grp[t].acc PROVE AccAlive(t, i)'
    <2>1. AccAlive(t, i)
      BY <1>4
    <2>2. Made(t, i)' <=> Made(t, i)
      BY <1>1, <1>12 DEF Made
    <2>3. Holder(t, i)' = Holder(t, i)
      BY <1>1, <2>2 DEF Holder, ByValue
    <2>4. Holder(t, i)' \in refs'[BufOf(t, i)]
      BY <1>1, <2>1, <2>3 DEF AccAlive
    <2>5. CASE i = p
      <3>1. BufOf(t, i)' = b /\ Ptrs(BufOf(t, i))' = Ptrs(b)
        BY <1>1, <1>3, <2>5 DEF BufOf, Ptrs
      <3>2. dptr'[t][i] # None => dptr'[t][i] \in {b} \X Tasks /\ dptr'[t][i] \in chunks'
        BY <1>1, <1>3, <1>4, <1>5, <1>12, <2>1, <2>5 DEF AccAlive
      <3>3. Holder(t, i)' \in refs'[b]
        BY <1>3, <2>4, <2>5
      <3> QED BY <1>8, <1>13, <3>1, <3>2, <3>3 DEF AccAlive
    <2>6. CASE i # p
      <3>1. Ready(t, i)' <=> Ready(t, i)
        BY <1>1, <2>6 DEF Ready
      <3>2. dptr'[t][i] = dptr[t][i]
        BY <1>4, <1>12, <2>6
      <3> QED BY <1>1, <1>2, <1>10, <1>11, <2>1, <2>4, <3>1, <3>2, AccFrame
    <2> QED BY <2>5, <2>6
  <1> QED BY <1>1, <1>4, <1>9, <1>10, <1>11, <1>12, <1>13, <1>14 DEF Alive

\* The closure takes the placeholders; the host program has the other buffers.
LEMMA SubmitAlive ==
  ASSUME LockTypes, LifeInv, NEW t \in Tasks, NEW g \in Groups, Submit(t, g)
  PROVE  /\ Alive(t)' /\ Mapped' /\ ChunksKept /\ EntriesKept
         /\ \A b \in Buffers : refs[b] \subseteq refs'[b]
         /\ refs' \in [Buffers -> SUBSET Holders]
         /\ dptr' = [dptr EXCEPT ![t] = [i \in DOMAIN g.acc |-> None]]
         /\ DOMAIN g.acc \in SUBSET Nat
  <1>1. /\ pc[t] = "unborn" /\ pc' = [pc EXCEPT ![t] = IF g.acc = <<>> THEN "command" ELSE "access"]
        /\ \A b \in Uses(g) : User \in refs[b]
        /\ grp' = [grp EXCEPT ![t] = g]
        /\ dptr' = [dptr EXCEPT ![t] = [i \in DOMAIN g.acc |-> None]]
        /\ refs' = [b \in Buffers |->
                     IF \E i \in DOMAIN g.acc : g.acc[i].buf = b /\ g.acc[i].via = "placeholder"
                       THEN refs[b] \cup {<<"closure", t>>} ELSE refs[b]]
        /\ UNCHANGED <<pos, again, count, map, chunks>>
    BY DEF Submit, Goto, memory
  <1>2. grp'[t] = g /\ pos'[t] = 1 /\ dptr'[t] = [i \in DOMAIN g.acc |-> None]
        /\ pc'[t] = IF g.acc = <<>> THEN "command" ELSE "access"
    BY <1>1 DEF LockTypes, LifeInv, LifeTypes
  <1>3. ~again[t]
    BY <1>1 DEF LifeInv, LifeTypes
  <1>4. g.acc \in Seq([buf : Buffers, mode : Modes, via : {"plain", "ranged", "placeholder"}])
    BY GroupsAre
  <1>5. /\ DOMAIN g.acc = 1 .. Len(g.acc) /\ Len(g.acc) \in Nat /\ (g.acc = <<>> => Len(g.acc) = 0)
        /\ \A i \in DOMAIN g.acc : g.acc[i].buf \in Buffers
    <2> DEFINE R == [buf : Buffers, mode : Modes, via : {"plain", "ranged", "placeholder"}]
    <2>1. g.acc \in Seq(R) /\ \A r \in R : r.buf \in Buffers
      BY <1>4
    <2> HIDE DEF R
    <2> QED BY <2>1, Elements
  <1>6. \A b \in Buffers : refs[b] \subseteq refs'[b]
    BY <1>1
  <1>7. \A b \in Buffers : refs[b] = {} => refs'[b] = {}
    <2> TAKE b \in Buffers
    <2>1. (\E i \in DOMAIN g.acc : g.acc[i].buf = b) => User \in refs[b]
      BY <1>1 DEF Uses
    <2> QED BY <1>1, <2>1
  <1>8. Mapped' /\ ChunksKept /\ EntriesKept
    BY <1>1, <1>7, NothingFreed DEF LifeInv
  <1>9. ASSUME NEW i \in DOMAIN g.acc PROVE AccAlive(t, i)'
    <2>1. BufOf(t, i)' = g.acc[i].buf /\ (ByValue(t, i)' <=> g.acc[i].via = "placeholder")
      BY <1>2 DEF BufOf, ByValue
    <2>2. g.acc # <<>>
      BY <1>5
    <2>3. ~Made(t, i)' /\ ~Ready(t, i)'
      BY <1>1, <1>2, <1>3, <1>5, <2>2 DEF Made, Ready
    <2>4. Holder(t, i)' \in refs'[g.acc[i].buf]
      <3>1. CASE ByValue(t, i)'
        BY <3>1, <1>1, <1>5, <2>1 DEF Holder
      <3>2. CASE ~ByValue(t, i)'
        <4>1. Holder(t, i)' = User
          BY <3>2, <2>3 DEF Holder
        <4>2. User \in refs[g.acc[i].buf]
          BY <1>1 DEF Uses
        <4> QED BY <4>1, <4>2, <1>5, <1>6
      <3> QED BY <3>1, <3>2
    <2>5. dptr'[t][i] = None
      BY <1>2
    <2> QED BY <2>1, <2>3, <2>4, <2>5 DEF AccAlive
  <1>10. Alive(t)'
    BY <1>2, <1>5, <1>9 DEF Alive
  <1>11. refs' \in [Buffers -> SUBSET Holders]
    <2>1. <<"closure", t>> \in Holders
      BY DEF Holders
    <2> QED BY <1>1, <2>1 DEF LifeInv, LifeTypes
  <1>12. DOMAIN g.acc \in SUBSET Nat
    BY <1>5
  <1> QED BY <1>1, <1>6, <1>8, <1>10, <1>11, <1>12

\* The host program may destroy a buffer that no command group in progress has
\* yet to make an accessor from.
LEMMA DestroyAlive ==
  ASSUME LockTypes, LifeInv, NEW b \in Buffers, DestroyBuffer(b)
  PROVE  LifeInv'
  <1>1. /\ Release(b, User) /\ UNCHANGED <<pc, grp, pos, again, count, dptr>>
        /\ ~\E t \in Tasks : /\ pc[t] \in Acquiring
                             /\ \E i \in pos[t] .. Len(grp[t].acc) :
                                  grp[t].acc[i].buf = b /\ grp[t].acc[i].via # "placeholder"
    BY DEF DestroyBuffer, args
  <1>2. /\ \A c \in Buffers : refs'[c] = IF c = b THEN refs[c] \ {User} ELSE refs[c]
        /\ refs' \in [Buffers -> SUBSET Holders] /\ map' = map
        /\ ChunksKept /\ EntriesKept /\ Mapped'
    BY <1>1, ReleaseEffect DEF LifeInv
  <1>3. ASSUME NEW t \in Tasks PROVE Alive(t)'
    <2>1. ASSUME pc[t] \in Active, NEW i \in DOMAIN grp[t].acc,
                 Holder(t, i) \in refs[BufOf(t, i)]
          PROVE  Holder(t, i) \in refs'[BufOf(t, i)]
      <3>1. pc[t] # "unborn" /\ (pc[t] \in Acquiring \/ pc[t] \in {"command", "running"})
        BY <2>1 DEF Active, Acquiring
      <3>2. /\ BufOf(t, i) \in Buffers /\ Len(grp[t].acc) \in Nat /\ i \in 1 .. Len(grp[t].acc)
            /\ pos[t] \in Nat
        BY <3>1, <2>1, GroupType DEF LockTypes
      <3>3. CASE Holder(t, i) # User
        BY <3>2, <3>3, <2>1, <1>2
      <3>4. CASE Holder(t, i) = User
        <4>1. ~ByValue(t, i) /\ ~Made(t, i)
          BY <3>4, NamesDiffer DEF Holder
        <4>2. ~(i < pos[t])
          BY <4>1 DEF Made
        <4>3. pc[t] \in {"command", "running"} => pos[t] = Len(grp[t].acc) + 1
          BY <2>1 DEF LifeInv, Alive
        <4>4. pc[t] \in Acquiring /\ i \in pos[t] .. Len(grp[t].acc)
          BY <3>1, <3>2, <4>2, <4>3
        <4>5. BufOf(t, i) # b
          BY <1>1, <4>1, <4>4 DEF BufOf, ByValue
        <4> QED BY <2>1, <3>2, <4>5, <1>2
      <3> QED BY <3>3, <3>4
    <2> QED BY <1>1, <1>2, <2>1, AliveFrame DEF LifeInv
  <1>4. LifeTypes'
    BY <1>1, <1>2 DEF LifeInv, LifeTypes
  <1> QED BY <1>2, <1>3, <1>4 DEF LifeInv

\* Steps in which a command group gives back what it held.
LEMMA DropAlive ==
  ASSUME LockTypes, LifeInv, NEW t \in Tasks,
         DropLocal(t) \/ DropAcc(t) \/ DropClosure(t)
  PROVE  LifeInv'
  <1>1. /\ pc[t] \notin Active /\ UNCHANGED <<pc, grp, pos, again, count, dptr>>
        /\ \E b \in Buffers, k \in {"local", "acc", "closure"} : Release(b, <<k, t>>)
    BY DEF DropLocal, DropAcc, DropClosure, Locals, AccRefs, Captured, args, Active, Acquiring
  <1>2. PICK b \in Buffers, k \in {"local", "acc", "closure"} : Release(b, <<k, t>>)
    BY <1>1
  <1>3. /\ \A c \in Buffers : refs'[c] = IF c = b THEN refs[c] \ {<<k, t>>} ELSE refs[c]
        /\ refs' \in [Buffers -> SUBSET Holders] /\ map' = map
        /\ ChunksKept /\ EntriesKept /\ Mapped'
    BY <1>2, ReleaseEffect DEF LifeInv
  <1>4. \A s \in Tasks \ {t} : Alive(s)'
    <2>1. \A c \in Buffers : refs[c] \ refs'[c] \subseteq {"local", "acc", "closure"} \X {t}
      BY <1>3
    <2> QED BY <1>1, <1>3, <2>1, OthersAlive
  <1>5. Alive(t)'
    BY <1>1 DEF Alive
  <1>6. LifeTypes'
    BY <1>1, <1>3 DEF LifeInv, LifeTypes
  <1> QED BY <1>3, <1>4, <1>5, <1>6 DEF LifeInv

\* What a step of t has to show, for a step that releases nothing.
LEMMA StepAlive ==
  ASSUME LockTypes, LifeInv, NEW t \in Tasks,
         \A s \in Tasks \ {t} :
           /\ pc'[s] = pc[s] /\ grp'[s] = grp[s] /\ pos'[s] = pos[s]
           /\ again'[s] = again[s] /\ count'[s] = count[s] /\ dptr'[s] = dptr[s],
         \A b \in Buffers : refs[b] \subseteq refs'[b],
         ChunksKept, EntriesKept, Mapped', LifeTypes', Alive(t)'
  PROVE  LifeInv'
  BY OthersAlive DEF LifeInv

\* Steps that change neither the maps, nor the chunks, nor the holders.
LEMMA QuietAlive ==
  ASSUME LockTypes, LifeInv, NEW t \in Tasks, NEW to, pc' = [pc EXCEPT ![t] = to],
         UNCHANGED <<grp, pos, again, count, dptr, map, chunks, refs>>,
         pc[t] # "unborn", to # "unborn", Alive(t)'
  PROVE  LifeInv'
  <1>1. Mapped' /\ ChunksKept /\ EntriesKept
    BY NothingFreed DEF LifeInv
  <1>2. \A s \in Tasks \ {t} : pc'[s] = pc[s]
    OBVIOUS
  <1>3. pc'[t] = to
    BY DEF LockTypes
  <1>4. LifeTypes'
    BY <1>2, <1>3 DEF LifeInv, LifeTypes
  <1> QED BY <1>1, <1>2, <1>4, StepAlive

LEMMA LockingAlive ==
  ASSUME LockTypes, LifeInv, NEW t \in Tasks,
         AlreadyLocked(t) \/ LockSkipped(t) \/ RelockWrite(t) \/ LockRead(t) \/ LockWrite(t)
  PROVE  LifeInv'
  <1>1. /\ pc[t] \in {"lock", "upgrade"} /\ Accessed(t) /\ UNCHANGED <<grp, count, dptr, chunks>>
        /\ RelockWrite(t) \/ map' = map
    BY DEF AlreadyLocked, LockSkipped, RelockWrite, LockRead, LockWrite, MustLock, memory
  <1>2. pc[t] \in Acquiring /\ pc[t] \in Active /\ pc[t] # "unborn"
    BY <1>1 DEF Acquiring, Active
  <1>3. /\ pos[t] \in DOMAIN grp[t].acc /\ pos[t] \in Nat
        /\ BufOf(t, pos[t]) = Buf(t) /\ Buf(t) \in Buffers /\ Dev(t) \in Devices
        /\ Access(t).mode \in Modes
    BY <1>2, AtPos
  <1>4. AccAlive(t, pos[t])
    BY <1>2, <1>3 DEF LifeInv, Alive
  <1>5. refs[Buf(t)] # {} /\ (~OnHost(t) => map[Buf(t)][Dev(t)] \in Ptrs(Buf(t)))
    <2>1. Ready(t, pos[t])
      BY <1>1, <1>3 DEF Ready
    <2> QED BY <1>3, <1>4, <2>1 DEF AccAlive
  <1>6. refs' = refs \/ refs' = [refs EXCEPT ![Buf(t)] = @ \cup {<<"acc", t>>}]
    BY DEF AlreadyLocked, LockSkipped, RelockWrite, LockRead, LockWrite, PushAcc
  <1>7. /\ refs' \in [Buffers -> SUBSET Holders]
        /\ \A b \in Buffers : refs[b] \subseteq refs'[b]
        /\ \A b \in Buffers : refs[b] = {} => refs'[b] = {}
    <2>1. <<"acc", t>> \in Holders
      BY DEF Holders
    <2> QED BY <1>3, <1>5, <1>6, <2>1 DEF LifeInv, LifeTypes
  <1>8. /\ Mapped' /\ ChunksKept /\ EntriesKept
        /\ map' \in [Buffers -> [Devices -> [ptr : Locs, mode : Modes] \cup {None}]]
    <2>1. CASE map' = map
      BY <2>1, <1>1, <1>7, NothingFreed DEF LifeInv, LifeTypes
    <2>2. CASE RelockWrite(t)
      <3> DEFINE b == Buf(t)
                 d == Dev(t)
                 new == [map[b][d] EXCEPT !.mode = Access(t).mode]
      <3>1. pc[t] = "upgrade" /\ map' = [map EXCEPT ![b][d] = new] /\ refs' = refs
        BY <2>2 DEF RelockWrite
      <3>2. ~OnHost(t)
        BY <3>1, <1>2 DEF LifeInv, Alive
      <3>3. map[b][d] \in Ptrs(b)
        BY <3>2, <1>5
      <3>4. new \in Ptrs(b) /\ new.ptr = map[b][d].ptr
        BY <3>3, <1>3 DEF Ptrs
      <3>5. new \in [ptr : Locs, mode : Modes] /\ map[b][d] # None
        BY <3>3, <3>4, <1>3, PtrsReal
      <3> HIDE DEF new
      <3>6. map' \in [Buffers -> [Devices -> [ptr : Locs, mode : Modes] \cup {None}]]
        BY <3>1, <3>5 DEF LifeInv, LifeTypes
      <3>7. \A x \in Buffers, y \in Devices :
              map'[x][y] = IF x = b /\ y = d THEN new ELSE map[x][y]
        BY <3>1, <1>3 DEF LifeInv, LifeTypes
      <3>8. EntriesKept
        BY <3>4, <3>7 DEF EntriesKept
      <3>9. ChunksKept
        BY <1>1 DEF ChunksKept
      <3>10. Mapped'
        <4> SUFFICES ASSUME NEW x \in Buffers, NEW y \in Devices
                     PROVE  /\ map'[x][y] \in Ptrs(x) \cup {None}
                            /\ refs'[x] # {} /\ map'[x][y] # None => map'[x][y].ptr \in chunks'
          BY DEF Mapped, Ptrs
        <4>1. /\ map[x][y] \in Ptrs(x) \cup {None}
              /\ refs[x] # {} /\ map[x][y] # None => map[x][y].ptr \in chunks
          BY DEF LifeInv, Mapped
        <4> QED BY <1>1, <3>1, <3>4, <3>5, <3>7, <4>1
      <3> QED BY <3>6, <3>8, <3>9, <3>10
    <2> QED BY <1>1, <2>1, <2>2
  <1>9. Alive(t)'
    BY <1>1, <1>7, <1>8, AccessedAlive
  <1>10. /\ pc'[t] \in {"access", "command"} /\ again' \in [Tasks -> BOOLEAN]
         /\ \A s \in Tasks \ {t} : pc'[s] = pc[s] /\ pos'[s] = pos[s]
    BY <1>1, <1>2, AccessedMoves
  <1>11. \A s \in Tasks \ {t} : again'[s] = again[s]
    BY <1>1 DEF Accessed, LockTypes
  <1>12. LifeTypes'
    BY <1>1, <1>7, <1>8, <1>10, <1>11 DEF LifeInv, LifeTypes
  <1> QED BY <1>1, <1>7, <1>8, <1>9, <1>10, <1>11, <1>12, StepAlive

\* A pointer is stored in device_ptr.
LEMMA PointerStored ==
  ASSUME LifeTypes, NEW t \in Tasks, NEW p, NEW l \in Locs
  PROVE  [dptr EXCEPT ![t][p] = l] \in [Tasks -> UNION {[S -> Locs \cup {None}] : S \in SUBSET Nat}]
  <1>1. PICK S \in SUBSET Nat : dptr[t] \in [S -> Locs \cup {None}]
    BY DEF LifeTypes
  <1>2. [dptr[t] EXCEPT ![p] = l] \in [S -> Locs \cup {None}]
    BY <1>1
  <1>3. [dptr[t] EXCEPT ![p] = l] \in UNION {[R -> Locs \cup {None}] : R \in SUBSET Nat}
    BY <1>2
  <1> QED BY <1>3 DEF LifeTypes

LEMMA MakingAlive ==
  ASSUME LockTypes, LifeInv, NEW t \in Tasks, Lookup(t) \/ Alloc(t)
  PROVE  LifeInv'
  <1>1. /\ pc[t] \in {"access", "alloc"}
        /\ UNCHANGED <<grp, pos, again>>
        /\ \A s \in Tasks \ {t} : pc'[s] = pc[s] /\ count'[s] = count[s]
        /\ pc'[t] # "unborn"
    BY DEF Lookup, Alloc, Goto, LockTypes, LifeInv, LifeTypes
  <1>2. pc[t] \in Acquiring
    BY <1>1 DEF Acquiring
  <1>3. /\ Buf(t) \in Buffers /\ Dev(t) \in Devices /\ Access(t).mode \in Modes
    BY <1>2, AtPos
  <1>4. Alive(t)' /\ Mapped' /\ ChunksKept /\ EntriesKept
    BY LookupAlive, AllocAlive
  <1>5. \A b \in Buffers : refs[b] \subseteq refs'[b]
    BY <1>3 DEF Lookup, Alloc, LifeInv, LifeTypes
  <1>6. refs' \in [Buffers -> SUBSET Holders]
    <2>1. <<"local", t>> \in Holders
      BY DEF Holders
    <2>2. refs' = refs \/ refs' = [refs EXCEPT ![Buf(t)] = @ \cup {<<"local", t>>}]
      BY DEF Lookup, Alloc
    <2> QED BY <1>3, <2>1, <2>2 DEF LifeInv, LifeTypes
  <1>7. Chunk(t) \in Locs
    BY <1>3 DEF Chunk, Locs
  <1>8. map' \in [Buffers -> [Devices -> [ptr : Locs, mode : Modes] \cup {None}]]
    <2> DEFINE new == [ptr |-> Chunk(t), mode |-> Access(t).mode]
    <2>1. new \in [ptr : Locs, mode : Modes]
      BY <1>3, <1>7
    <2>2. map' = map \/ map' = [map EXCEPT ![Buf(t)][Dev(t)] = new]
      BY DEF Lookup, Alloc, memory
    <2> HIDE DEF new
    <2> QED BY <1>3, <2>1, <2>2 DEF LifeInv, LifeTypes
  <1>9. dptr' = dptr \/ \E l \in Locs : dptr' = [dptr EXCEPT ![t][pos[t]] = l]
    <2>1. CASE Alloc(t)
      BY <2>1, <1>7 DEF Alloc
    <2>2. CASE Lookup(t)
      <3>1. map[Buf(t)][Dev(t)] # None => map[Buf(t)][Dev(t)].ptr \in Locs
        BY <1>3 DEF LifeInv, LifeTypes
      <3> QED BY <2>2, <3>1 DEF Lookup
    <2> QED BY <2>1, <2>2
  <1>10. /\ dptr' \in [Tasks -> UNION {[S -> Locs \cup {None}] : S \in SUBSET Nat}]
         /\ \A s \in Tasks \ {t} : dptr'[s] = dptr[s]
    BY <1>9, PointerStored DEF LifeInv, LifeTypes
  <1>11. count' \in [Tasks -> {0, 1}]
    BY DEF Lookup, Alloc, LifeInv, LifeTypes
  <1>12. LifeTypes'
    BY <1>1, <1>6, <1>8, <1>10, <1>11 DEF LifeInv, LifeTypes
  <1> QED BY <1>1, <1>4, <1>5, <1>10, <1>12, StepAlive

LEMMA LifeInvStep == LockTypes /\ LifeInv /\ [Next]_vars => LifeInv'
  <1> SUFFICES ASSUME LockTypes, LifeInv, [Next]_vars PROVE LifeInv'
    OBVIOUS
  <1> USE DEF locks, args, memory
  <1>1. ASSUME NEW t \in Tasks, NEW g \in Groups, Submit(t, g)
        PROVE  LifeInv'
    <2>1. /\ pc' = [pc EXCEPT ![t] = IF g.acc = <<>> THEN "command" ELSE "access"]
          /\ grp' = [grp EXCEPT ![t] = g]
          /\ dptr' = [dptr EXCEPT ![t] = [i \in DOMAIN g.acc |-> None]]
          /\ UNCHANGED <<pos, again, count, map, chunks>>
      BY <1>1 DEF Submit, Goto
    <2>2. \A s \in Tasks \ {t} : pc'[s] = pc[s] /\ grp'[s] = grp[s] /\ dptr'[s] = dptr[s]
      BY <2>1
    <2>3. /\ Alive(t)' /\ Mapped' /\ ChunksKept /\ EntriesKept
          /\ \A b \in Buffers : refs[b] \subseteq refs'[b]
          /\ refs' \in [Buffers -> SUBSET Holders]
          /\ DOMAIN g.acc \in SUBSET Nat
      BY <1>1, SubmitAlive
    <2>4. [i \in DOMAIN g.acc |-> None] \in UNION {[S -> Locs \cup {None}] : S \in SUBSET Nat}
      BY <2>3
    <2>5. dptr' \in [Tasks -> UNION {[S -> Locs \cup {None}] : S \in SUBSET Nat}]
      BY <2>1, <2>4 DEF LifeInv, LifeTypes
    <2>6. \A s \in Tasks : pc'[s] = "unborn" => pc[s] = "unborn"
      BY <2>1, <2>2 DEF LockTypes
    <2>7. LifeTypes'
      BY <2>1, <2>3, <2>5, <2>6 DEF LifeInv, LifeTypes
    <2> QED BY <2>1, <2>2, <2>3, <2>7, StepAlive
  <1>2. ASSUME NEW t \in Tasks, CopyIn(t) \/ UnlockRead(t) \/ KernelBegin(t)
        PROVE  LifeInv'
    <2> DEFINE to == IF CopyIn(t) THEN "lock" ELSE IF UnlockRead(t) THEN "upgrade" ELSE "running"
    <2>1. /\ UNCHANGED <<grp, pos, again, count, dptr, map, chunks, refs>>
          /\ pc[t] \in {"copyin", "lock", "command"}
          /\ CopyIn(t) => pc[t] = "copyin" /\ pc' = [pc EXCEPT ![t] = "lock"]
          /\ UnlockRead(t) => pc[t] = "lock" /\ pc' = [pc EXCEPT ![t] = "upgrade"] /\ count[t] > 0
          /\ KernelBegin(t) => pc[t] = "command" /\ pc' = [pc EXCEPT ![t] = "running"]
      BY <1>2 DEF CopyIn, UnlockRead, KernelBegin, Goto, Found
    <2>2. pc[t] \in Active
      BY <2>1 DEF Active, Acquiring
    <2>3. UnlockRead(t) => ~OnHost(t)
      BY <2>1, <2>2 DEF LifeInv, Alive
    <2>4. pc' = [pc EXCEPT ![t] = to] /\ to \in {"lock", "upgrade", "running"}
      BY <1>2, <2>1
    <2>5. /\ to = "lock" => pc[t] = "copyin"
          /\ to = "upgrade" => ~OnHost(t)
          /\ to = "running" => pc[t] = "command"
      BY <1>2, <2>1, <2>3
    <2> HIDE DEF to
    <2>6. pc'[t] = to
      BY <2>4 DEF LockTypes
    <2>7. Alive(t)'
      BY <2>1, <2>2, <2>4, <2>5, <2>6, PhaseAlive
    <2> QED BY <2>1, <2>4, <2>7, QuietAlive
  <1>3. ASSUME NEW t \in Tasks,
               KernelEnd(t) \/ MemoryOp(t) \/ Returned(t) \/ HandlerGone(t) \/ Decr(t) \/ Exit(t)
        PROVE  LifeInv'
    <2>1. /\ UNCHANGED <<grp, pos, again, count, dptr, map, chunks, refs>>
          /\ pc[t] # "unborn"
      BY <1>3 DEF KernelEnd, MemoryOp, Returned, HandlerGone, Decr, Exit, Goto
    <2>2. PICK to \in {"returning", "unlock", "decr", "exit", "done"} : pc' = [pc EXCEPT ![t] = to]
      BY <1>3 DEF KernelEnd, MemoryOp, Returned, HandlerGone, Decr, Exit, Goto
    <2>3. pc'[t] = to
      BY <2>2 DEF LockTypes
    <2>4. Alive(t)'
      BY <2>3 DEF Alive, Active, Acquiring
    <2> QED BY <2>1, <2>2, <2>4, QuietAlive
  <1>4. ASSUME NEW t \in Tasks, Unlock(t)
        PROVE  LifeInv'
    <2>1. UNCHANGED <<pc, grp, pos, again, count, dptr, map, chunks, refs>> /\ pc[t] = "unlock"
      BY <1>4 DEF Unlock
    <2>2. pc' = [pc EXCEPT ![t] = "unlock"]
      BY <2>1 DEF LockTypes
    <2>3. Alive(t)'
      BY <2>1 DEF Alive, Active, Acquiring
    <2> QED BY <2>1, <2>2, <2>3, QuietAlive
  <1>5. ASSUME NEW t \in Tasks, DropLocal(t) \/ DropAcc(t) \/ DropClosure(t)
        PROVE  LifeInv'
    BY <1>5, DropAlive
  <1>6. ASSUME NEW t \in Tasks, Lookup(t) \/ Alloc(t)
        PROVE  LifeInv'
    BY <1>6, MakingAlive
  <1>7. ASSUME NEW t \in Tasks,
               AlreadyLocked(t) \/ LockSkipped(t) \/ RelockWrite(t) \/ LockRead(t) \/ LockWrite(t)
        PROVE  LifeInv'
    BY <1>7, LockingAlive
  <1>8. ASSUME NEW b \in Buffers, DestroyBuffer(b)
        PROVE  LifeInv'
    BY <1>8, DestroyAlive
  <1>9. CASE UNCHANGED vars
    <2>1. UNCHANGED <<pc, grp, pos, again, count, dptr, map, chunks, refs>>
      BY <1>9 DEF vars
    <2>2. Mapped' /\ ChunksKept /\ EntriesKept
      BY <2>1, NothingFreed DEF LifeInv
    <2>3. \A t \in Tasks : Alive(t)'
      BY <2>1, <2>2, AliveFrame DEF LifeInv
    <2> QED BY <2>1, <2>2, <2>3 DEF LifeInv, LifeTypes
  <1> QED BY <1>1, <1>2, <1>3, <1>4, <1>5, <1>6, <1>7, <1>8, <1>9 DEF Next, Step, Locking

\* Invariance, with the types of the locks.
LEMMA LifeInvariance == Spec => [](LockTypes /\ LifeInv)
  <1>1. Init => LockTypes
    BY NamesDiffer DEF Init, LockTypes, AccType, Phases, Acquiring
  <1>2. Init => LifeInv
    <2> SUFFICES ASSUME Init PROVE LifeInv
      OBVIOUS
    <2>1. LifeTypes
      <3>1. <<>> \in UNION {[S -> Locs \cup {None}] : S \in SUBSET Nat}
        <4>1. <<>> \in [{} -> Locs \cup {None}]
          OBVIOUS
        <4> QED BY <4>1
      <3>2. User \in Holders
        BY DEF Holders
      <3> QED BY <3>1, <3>2 DEF Init, LifeTypes
    <2>2. Mapped
      BY DEF Init, Mapped
    <2>3. \A t \in Tasks : Alive(t)
      BY DEF Init, Alive, Active, Acquiring
    <2> QED BY <2>1, <2>2, <2>3 DEF LifeInv
  <1> QED BY <1>1, <1>2, LockTypesStep, LifeInvStep, PTL DEF Spec

\* No command runs on a chunk that was freed, whatever the host program
\* destroys meanwhile and however the threads end: the container lives as long
\* as an accessor of it, locked or not (accessor.hpp:75-139,
\* program.hpp:322-329, buffer.hpp:39).
THEOREM ChunksStayLive == Spec => []ChunksLive
  BY LifeInvariance, LifeInvSuffices, PTL
-----------------------------------------------------------------------------
(* Who holds a container                                                   *)

\* A command group holds only containers it uses: through its accessors while
\* its function object runs, through acc_ until its handler is gone, through
\* its closure until its thread ends.
InUse(t, b) ==
  /\ <<"local", t>> \in refs[b] => pc[t] \in Active \cup {"returning"} /\ b \in Uses(grp[t])
  /\ <<"acc", t>> \in refs[b] =>
       pc[t] \in Active \cup {"returning", "unlock"} /\ b \in Uses(grp[t])
  /\ <<"closure", t>> \in refs[b] => pc[t] \notin {"unborn", "done"} /\ b \in Uses(grp[t])

HoldersInUse == \A t \in Tasks, b \in Buffers : InUse(t, b)

\* The buffer of the accessor being made is one that the command group uses.
LEMMA BufInUse ==
  ASSUME LockTypes, NEW t \in Tasks, pc[t] \in Acquiring
  PROVE  Buf(t) \in Uses(grp[t])
  BY AtPos DEF Uses, BufOf

\* A step of t has to show what it does to the holds of t.
LEMMA HoldersStep ==
  ASSUME HoldersInUse, NEW t \in Tasks,
         \A s \in Tasks \ {t} : pc'[s] = pc[s] /\ grp'[s] = grp[s],
         \A b \in Buffers, s \in Tasks \ {t}, k \in {"local", "acc", "closure"} :
           <<k, s>> \in refs'[b] => <<k, s>> \in refs[b],
         \A b \in Buffers : InUse(t, b)'
  PROVE  HoldersInUse'
  <1> SUFFICES ASSUME NEW s \in Tasks \ {t}, NEW b \in Buffers PROVE InUse(s, b)'
    BY DEF HoldersInUse
  <1>1. InUse(s, b)
    BY DEF HoldersInUse
  <1> QED BY <1>1 DEF InUse

LEMMA HoldersNext ==
  ASSUME LockTypes, LifeInv, HoldersInUse, [Next]_vars
  PROVE  HoldersInUse'
  <1> USE DEF locks, args, memory
  <1>1. ASSUME NEW t \in Tasks, NEW g \in Groups, Submit(t, g)
        PROVE  HoldersInUse'
    <2>1. /\ pc[t] = "unborn" /\ pc' = [pc EXCEPT ![t] = IF g.acc = <<>> THEN "command" ELSE "access"]
          /\ grp' = [grp EXCEPT ![t] = g]
          /\ \A b \in Buffers : refs'[b] = IF \E i \in DOMAIN g.acc : g.acc[i].buf = b /\ g.acc[i].via = "placeholder"
                                             THEN refs[b] \cup {<<"closure", t>>} ELSE refs[b]
      BY <1>1 DEF Submit, Goto
    <2>r. \A b \in Buffers : refs'[b] \in {refs[b], refs[b] \cup {<<"closure", t>>}}
      BY <2>1
    <2>2. /\ \A s \in Tasks \ {t} : pc'[s] = pc[s] /\ grp'[s] = grp[s]
          /\ pc'[t] \in Active /\ grp'[t] = g
      BY <2>1 DEF LockTypes, Active, Acquiring
    <2>3. ASSUME NEW b \in Buffers PROVE InUse(t, b)'
      <3>1. \A k \in {"local", "acc", "closure"} : <<k, t>> \notin refs[b]
        BY <2>1 DEF HoldersInUse, InUse, Active, Acquiring
      <3>3. <<"local", t>> \notin refs'[b] /\ <<"acc", t>> \notin refs'[b]
        BY <3>1, <2>r
      <3>4. <<"closure", t>> \in refs'[b] => b \in Uses(g)
        BY <2>1, <3>1 DEF Uses
      <3> QED BY <2>2, <3>3, <3>4 DEF InUse, Active, Acquiring
    <2>4. \A b \in Buffers, s \in Tasks \ {t}, k \in {"local", "acc", "closure"} :
            <<k, s>> \in refs'[b] => <<k, s>> \in refs[b]
      BY <2>r
    <2> QED BY <2>2, <2>3, <2>4, HoldersStep
  <1>2. ASSUME NEW t \in Tasks,
               Lookup(t) \/ LockRead(t) \/ LockWrite(t) \/ AlreadyLocked(t) \/ LockSkipped(t) \/ RelockWrite(t)
        PROVE  HoldersInUse'
    <2>1. pc[t] \in Acquiring /\ grp' = grp /\ (Lookup(t) \/ Accessed(t))
      BY <1>2 DEF Lookup, LockRead, LockWrite, AlreadyLocked, LockSkipped, RelockWrite, MustLock, Goto, Acquiring
    <2>2. pc'[t] \in Active /\ \A s \in Tasks \ {t} : pc'[s] = pc[s]
      <3>1. CASE Lookup(t)
        BY <3>1 DEF Lookup, Goto, LockTypes, Active, Acquiring
      <3>2. CASE Accessed(t)
        BY <3>2, <2>1, AccessedMoves DEF Active, Acquiring
      <3> QED BY <2>1, <3>1, <3>2
    <2>3. PICK k \in {"local", "acc"} : refs' = refs \/ refs' = [refs EXCEPT ![Buf(t)] = @ \cup {<<k, t>>}]
      BY <1>2 DEF Lookup, LockRead, LockWrite, AlreadyLocked, LockSkipped, RelockWrite, PushAcc
    <2>4. \A b \in Buffers : refs'[b] = refs[b] \/ (b = Buf(t) /\ refs'[b] = refs[b] \cup {<<k, t>>})
      BY <2>3 DEF LifeInv, LifeTypes
    <2>5. \A b \in Buffers : InUse(t, b)'
      BY <2>1, <2>2, <2>4, BufInUse DEF HoldersInUse, InUse, Active, Acquiring
    <2>6. \A b \in Buffers, s \in Tasks \ {t}, j \in {"local", "acc", "closure"} :
            <<j, s>> \in refs'[b] => <<j, s>> \in refs[b]
      BY <2>4
    <2> QED BY <2>1, <2>2, <2>5, <2>6, HoldersStep
  <1>3. ASSUME NEW t \in Tasks, DropLocal(t) \/ DropAcc(t) \/ DropClosure(t)
        PROVE  HoldersInUse'
    <2>1. UNCHANGED <<pc, grp>> /\ \E b \in Buffers, h \in Holders : refs' = [refs EXCEPT ![b] = @ \ {h}]
      BY <1>3 DEF DropLocal, DropAcc, DropClosure, Locals, AccRefs, Captured, Release, LifeInv, LifeTypes
    <2>2. \A b \in Buffers : refs'[b] \subseteq refs[b]
      BY <2>1 DEF LifeInv, LifeTypes
    <2> QED BY <2>1, <2>2 DEF HoldersInUse, InUse
  <1>4. ASSUME NEW b \in Buffers, DestroyBuffer(b)
        PROVE  HoldersInUse'
    <2>1. UNCHANGED <<pc, grp>> /\ refs' = [refs EXCEPT ![b] = @ \ {User}]
      BY <1>4 DEF DestroyBuffer, Release
    <2>2. \A c \in Buffers : refs'[c] \subseteq refs[c]
      BY <2>1 DEF LifeInv, LifeTypes
    <2> QED BY <2>1, <2>2 DEF HoldersInUse, InUse
  <1>5. ASSUME NEW t \in Tasks,
               \/ Alloc(t) \/ CopyIn(t) \/ UnlockRead(t) \/ KernelBegin(t) \/ KernelEnd(t) \/ MemoryOp(t)
               \/ Returned(t) \/ Unlock(t) \/ HandlerGone(t) \/ Decr(t) \/ Exit(t)
        PROVE  HoldersInUse'
    <2>1. UNCHANGED <<grp, refs>> /\ pc[t] # "unborn"
      BY <1>5 DEF Alloc, CopyIn, UnlockRead, KernelBegin, KernelEnd, MemoryOp, Returned, Unlock,
                  HandlerGone, Decr, Exit, Goto
    <2>2. CASE Alloc(t) \/ CopyIn(t) \/ UnlockRead(t) \/ KernelBegin(t) \/ KernelEnd(t) \/ MemoryOp(t)
      <3>1. PICK to \in {"lock", "copyin", "upgrade", "running", "returning"} : pc' = [pc EXCEPT ![t] = to]
        BY <2>2 DEF Alloc, CopyIn, UnlockRead, KernelBegin, KernelEnd, MemoryOp, Goto
      <3>2. pc'[t] \in Active \cup {"returning"} /\ \A s \in Tasks \ {t} : pc'[s] = pc[s]
        BY <3>1 DEF LockTypes, Active, Acquiring
      <3>3. \A b \in Buffers : InUse(t, b)'
        BY <2>1, <3>2 DEF HoldersInUse, InUse, Active, Acquiring
      <3> QED BY <2>1, <3>2, <3>3, HoldersStep
    <2>3. CASE Unlock(t)
      BY <2>1, <2>3 DEF Unlock, HoldersInUse, InUse
    <2>4. CASE Returned(t) \/ HandlerGone(t) \/ Decr(t) \/ Exit(t)
      <3>1. \A s \in Tasks \ {t} : pc'[s] = pc[s]
        BY <2>4 DEF Returned, HandlerGone, Decr, Exit, Goto, LockTypes
      <3>2. ASSUME NEW b \in Buffers PROVE InUse(t, b)'
        <4>1. InUse(t, b)
          BY DEF HoldersInUse
        <4>2. CASE Returned(t)
          BY <4>1, <4>2, <2>1 DEF Returned, Goto, Locals, InUse, LockTypes, Active, Acquiring
        <4>3. CASE HandlerGone(t)
          BY <4>1, <4>3, <2>1 DEF HandlerGone, Goto, AccRefs, InUse, LockTypes, Active, Acquiring
        <4>4. CASE Decr(t)
          BY <4>1, <4>4, <2>1 DEF Decr, Goto, InUse, LockTypes, Active, Acquiring
        <4>5. CASE Exit(t)
          BY <4>1, <4>5, <2>1 DEF Exit, Goto, Captured, InUse, LockTypes, Active, Acquiring
        <4> QED BY <2>4, <4>2, <4>3, <4>4, <4>5
      <3> QED BY <2>1, <3>1, <3>2, HoldersStep
    <2> QED BY <1>5, <2>2, <2>3, <2>4
  <1>6. CASE UNCHANGED vars
    BY <1>6 DEF vars, HoldersInUse, InUse
  <1> QED BY <1>1, <1>2, <1>3, <1>4, <1>5, <1>6 DEF Next, Step, Locking

-----------------------------------------------------------------------------
(* Types of the rest of the state                                          *)

\* The pointers in the maps stay: only modes change.
PointersKept ==
  \A b \in Buffers, d \in Devices : map[b][d] # None =>
    map'[b][d] # None /\ map'[b][d].ptr = map[b][d].ptr

LEMMA PointersStay ==
  ASSUME LockTypes, LifeInv, [Next]_vars
  PROVE  PointersKept
  <1> USE DEF locks, args, memory
  <1>1. CASE map' = map
    BY <1>1 DEF PointersKept
  <1>2. ASSUME NEW t \in Tasks, Alloc(t)
        PROVE  PointersKept
    <2>1. pc[t] \in Acquiring
      BY <1>2 DEF Alloc, Goto, Acquiring
    <2>2. Buf(t) \in Buffers /\ Dev(t) \in Devices
      BY <2>1, AtPos
    <2> DEFINE new == [ptr |-> Chunk(t), mode |-> Access(t).mode]
    <2>3. map' = map \/ (map[Buf(t)][Dev(t)] = None /\ map' = [map EXCEPT ![Buf(t)][Dev(t)] = new])
      BY <1>2 DEF Alloc
    <2> HIDE DEF new
    <2> QED BY <2>2, <2>3 DEF PointersKept, LifeInv, LifeTypes
  <1>3. ASSUME NEW t \in Tasks, RelockWrite(t)
        PROVE  PointersKept
    <2> DEFINE b == Buf(t)
               d == Dev(t)
    <2>1. pc[t] = "upgrade" /\ pc[t] \in Active /\ pc[t] \in Acquiring
      BY <1>3 DEF RelockWrite, Active, Acquiring
    <2>2. /\ pos[t] \in DOMAIN grp[t].acc /\ BufOf(t, pos[t]) = b /\ b \in Buffers /\ d \in Devices
      BY <2>1, AtPos
    <2>3. map[b][d] \in Ptrs(b)
      BY <2>1, <2>2 DEF LifeInv, Alive, AccAlive, Ready
    <2>4. map[b][d] # None /\ map[b][d] \in [ptr : Locs, mode : Modes]
      BY <2>2, <2>3, PtrsReal
    <2> DEFINE new == [map[b][d] EXCEPT !.mode = Access(t).mode]
    <2>5. Access(t).mode \in Modes
      BY <2>1, AtPos
    <2>6. new.ptr = map[b][d].ptr /\ new \in Ptrs(b)
      BY <2>3, <2>5 DEF Ptrs
    <2>7. new # None
      BY <2>2, <2>6, PtrsReal
    <2>8. map' = [map EXCEPT ![b][d] = new]
      BY <1>3 DEF RelockWrite
    <2> HIDE DEF new
    <2>9. \A x \in Buffers, y \in Devices :
            map'[x][y] = IF x = b /\ y = d THEN new ELSE map[x][y]
      BY <2>2, <2>8 DEF LifeInv, LifeTypes
    <2> QED BY <2>6, <2>7, <2>9 DEF PointersKept
  <1>4. ASSUME Next PROVE map' = map \/ \E t \in Tasks : Alloc(t) \/ RelockWrite(t)
    BY <1>4 DEF Next, Step, Locking, Submit, Lookup, CopyIn, AlreadyLocked, UnlockRead, LockRead,
       LockWrite, LockSkipped, KernelBegin, KernelEnd, MemoryOp, DropLocal, Returned, Unlock,
       DropAcc, HandlerGone, Decr, DropClosure, Exit, DestroyBuffer, Release
  <1>5. CASE UNCHANGED vars
    BY <1>1, <1>5 DEF vars
  <1> QED BY <1>1, <1>2, <1>3, <1>4, <1>5

\* The memory an accessor stands for, from the command on.
LEMMA LocType ==
  ASSUME LockTypes, LifeInv, NEW t \in Tasks, pc[t] \in {"command", "running"},
         NEW i \in DOMAIN grp[t].acc
  PROVE  /\ BufOf(t, i) \in Buffers /\ Dev(t) \in Devices
         /\ Loc(t, i) \in Locs
         /\ dptr[t][i] = None /\ ~OnHost(t) => map[BufOf(t, i)][Dev(t)] # None
  <1>1. pc[t] \in Active /\ pc[t] # "unborn"
    BY DEF Active
  <1>2. BufOf(t, i) \in Buffers /\ Dev(t) \in Devices /\ i \in 1 .. Len(grp[t].acc) /\ Len(grp[t].acc) \in Nat
    BY <1>1, GroupType
  <1>3. AccAlive(t, i) /\ pos[t] = Len(grp[t].acc) + 1
    BY <1>1 DEF LifeInv, Alive
  <1>4. Ready(t, i)
    BY <1>2, <1>3 DEF Ready
  <1>5. CASE dptr[t][i] # None
    BY <1>2, <1>3, <1>5 DEF Loc, AccAlive, Locs
  <1>6. CASE dptr[t][i] = None /\ OnHost(t)
    BY <1>2, <1>6 DEF Loc, Locs, BufOf
  <1>7. CASE dptr[t][i] = None /\ ~OnHost(t)
    <2>1. map[BufOf(t, i)][Dev(t)] \in Ptrs(BufOf(t, i))
      BY <1>3, <1>4, <1>7 DEF AccAlive
    <2>2. map[BufOf(t, i)][Dev(t)] # None /\ map[BufOf(t, i)][Dev(t)].ptr \in Locs
      BY <1>2, <2>1, PtrsReal
    <2> QED BY <1>2, <1>7, <2>2 DEF Loc, BufOf
  <1> QED BY <1>2, <1>5, <1>6, <1>7

LEMMA LocStays ==
  ASSUME LockTypes, LifeInv, PointersKept, NEW t \in Tasks, pc[t] \in {"command", "running"},
         grp'[t] = grp[t], dptr'[t] = dptr[t]
  PROVE  \A i \in DOMAIN grp[t].acc : Loc(t, i)' = Loc(t, i)
  BY LocType DEF PointersKept, Loc, BufOf, OnHost, Dev

\* What a command leaves in a location is made of what it found.
LEMMA ResultType ==
  ASSUME NEW t \in Tasks, NEW g, NEW loc, NEW s, DOMAIN loc = DOMAIN g.acc,
         \A i \in DOMAIN g.acc : s[loc[i]] \in Contents,
         NEW l \in Written(g, loc), g.cmd = "copy" => 1 \in DOMAIN g.acc
  PROVE  Result(g, t, loc, s, l) \in Contents
  <1>1. PICK i \in DOMAIN g.acc : l = loc[i] /\ g.cmd \in {"kernel", "fill", "copy"}
    BY DEF Written
  <1>2. s[l] \in Contents
    BY <1>1
  <1>3. CASE g.cmd = "kernel"
    <2>1. Result(g, t, loc, s, l) = s[l] \cup {t} \cup UNION {s[loc[k]] : k \in {j \in DOMAIN loc :
                                      g.acc[j].mode \in {"read", "read_write"}}}
      BY <1>3 DEF Result
    <2> QED BY <1>2, <2>1 DEF Contents
  <1>4. CASE g.cmd = "fill"
    BY <1>4 DEF Result, Contents
  <1>5. CASE g.cmd = "copy"
    BY <1>5 DEF Result
  <1> QED BY <1>1, <1>3, <1>4, <1>5

MemoryTypes ==
  /\ mem \in [Locs -> Contents]
  /\ chunks \subseteq Locs
  /\ DOMAIN snap = Tasks
  /\ \A t \in Tasks : pc[t] = "running" =>
       /\ grp[t].cmd = "kernel"
       /\ snap[t] \in [{Loc(t, i) : i \in DOMAIN grp[t].acc} -> Contents]

\* The contents of memory after the command.
LEMMA AfterType ==
  ASSUME LockTypes, LifeInv, mem \in [Locs -> Contents], NEW t \in Tasks,
         pc[t] \in {"command", "running"}, NEW s,
         \A i \in DOMAIN grp[t].acc : s[Loc(t, i)] \in Contents
  PROVE  After(grp[t], t, LocOf(t), s, mem) \in [Locs -> Contents]
  <1> DEFINE g == grp[t]
             loc == LocOf(t)
  <1>1. DOMAIN loc = DOMAIN g.acc /\ \A i \in DOMAIN g.acc : loc[i] = Loc(t, i)
    BY DEF LocOf
  <1>2. g \in Groups
    BY DEF LockTypes
  <1>3. g.cmd = "copy" => 1 \in DOMAIN g.acc
    BY <1>2, GroupsAre, GroupType
  <1>4. \A l \in Written(g, loc) : Result(g, t, loc, s, l) \in Contents
    <2> HIDE DEF g, loc
    <2>1. \A i \in DOMAIN g.acc : s[loc[i]] \in Contents
      BY <1>1 DEF g
    <2> QED BY <1>1, <1>3, <2>1, ResultType
  <1>5. After(g, t, loc, s, mem) = [l \in Locs |-> IF l \in Written(g, loc) THEN Result(g, t, loc, s, l) ELSE mem[l]]
    BY DEF After
  <1> HIDE DEF g, loc
  <1>6. After(g, t, loc, s, mem) \in [Locs -> Contents]
    BY <1>4, <1>5
  <1> QED BY <1>6 DEF g, loc

\* A kernel keeps what it has read.
Reading(t) == pc[t] = "running" =>
  /\ grp[t].cmd = "kernel"
  /\ snap[t] \in [{Loc(t, i) : i \in DOMAIN grp[t].acc} -> Contents]

LEMMA ReadingFrame ==
  ASSUME LockTypes, LifeInv, PointersKept, NEW t \in Tasks, Reading(t),
         pc'[t] = "running" => pc[t] = "running" /\ grp'[t] = grp[t]
                               /\ dptr'[t] = dptr[t] /\ snap'[t] = snap[t]
  PROVE  Reading(t)'
  <1> SUFFICES ASSUME pc'[t] = "running" PROVE Reading(t)'
    BY DEF Reading
  <1>1. \A i \in DOMAIN grp[t].acc : Loc(t, i)' = Loc(t, i)
    BY LocStays
  <1>2. {Loc(t, i) : i \in DOMAIN grp[t].acc}' = {Loc(t, i) : i \in DOMAIN grp[t].acc}
    BY <1>1
  <1> QED BY <1>2 DEF Reading

LEMMA MemoryTypesStep ==
  ASSUME LockTypes, LifeInv, MemoryTypes, [Next]_vars
  PROVE  MemoryTypes'
  <1> USE DEF locks, args, memory
  <1>0. PointersKept /\ mem \in [Locs -> Contents] /\ chunks \subseteq Locs
        /\ \A t \in Tasks : Reading(t)
    BY PointersStay DEF MemoryTypes, Reading
  <1>b. DOMAIN snap' = Tasks
    <2>1. CASE UNCHANGED snap
      BY <2>1 DEF MemoryTypes
    <2>2. CASE \E t \in Tasks : KernelBegin(t) \/ KernelEnd(t)
      BY <2>2 DEF KernelBegin, KernelEnd, MemoryTypes
    <2>3. CASE UNCHANGED vars
      BY <2>1, <2>3 DEF vars
    <2>4. CASE Next
      BY <2>1, <2>2, <2>4 DEF Next, Step, Locking, Submit, Lookup, Alloc, CopyIn, AlreadyLocked,
         UnlockRead, RelockWrite, LockRead, LockWrite, LockSkipped, MemoryOp, DropLocal, Returned,
         Unlock, DropAcc, HandlerGone, Decr, DropClosure, Exit, DestroyBuffer, Release
    <2> QED BY <2>3, <2>4
  <1>a. SUFFICES mem' \in [Locs -> Contents] /\ chunks' \subseteq Locs /\ \A t \in Tasks : Reading(t)'
    BY <1>b DEF MemoryTypes, Reading
  <1>1. ASSUME UNCHANGED <<mem, chunks, snap>>,
               \A t \in Tasks : pc'[t] = "running" =>
                  pc[t] = "running" /\ grp'[t] = grp[t] /\ dptr'[t] = dptr[t]
        PROVE  mem' \in [Locs -> Contents] /\ chunks' \subseteq Locs /\ \A t \in Tasks : Reading(t)'
    BY <1>0, <1>1, ReadingFrame
  <1>2. ASSUME NEW t \in Tasks, NEW g \in Groups, Submit(t, g)
        PROVE  \A s \in Tasks : pc'[s] = "running" =>
                  pc[s] = "running" /\ grp'[s] = grp[s] /\ dptr'[s] = dptr[s]
    BY <1>2 DEF Submit, Goto, LockTypes, LifeInv, LifeTypes
  <1>3. ASSUME NEW t \in Tasks, Lookup(t) \/ Alloc(t) \/ CopyIn(t) \/ UnlockRead(t)
        PROVE  \A s \in Tasks : pc'[s] = "running" =>
                  pc[s] = "running" /\ grp'[s] = grp[s] /\ dptr'[s] = dptr[s]
    BY <1>3 DEF Lookup, Alloc, CopyIn, UnlockRead, Goto, LockTypes, LifeInv, LifeTypes
  <1>4. ASSUME NEW t \in Tasks,
               LockRead(t) \/ LockWrite(t) \/ AlreadyLocked(t) \/ LockSkipped(t) \/ RelockWrite(t)
        PROVE  \A s \in Tasks : pc'[s] = "running" =>
                  pc[s] = "running" /\ grp'[s] = grp[s] /\ dptr'[s] = dptr[s]
    <2>1. pc[t] \in Acquiring /\ Accessed(t) /\ UNCHANGED <<grp, dptr>>
      BY <1>4 DEF LockRead, LockWrite, AlreadyLocked, LockSkipped, RelockWrite, MustLock, Acquiring
    <2> QED BY <2>1, AccessedMoves
  <1>5. ASSUME NEW t \in Tasks, KernelEnd(t) \/ MemoryOp(t) \/ Returned(t) \/ HandlerGone(t) \/ Decr(t) \/ Exit(t)
        PROVE  \A s \in Tasks : pc'[s] = "running" =>
                  s # t /\ pc[s] = "running" /\ grp'[s] = grp[s] /\ dptr'[s] = dptr[s]
    BY <1>5 DEF KernelEnd, MemoryOp, Returned, HandlerGone, Decr, Exit, Goto, LockTypes
  <1>6. CASE \E t \in Tasks : \/ Lookup(t) \/ UnlockRead(t) \/ LockRead(t) \/ LockWrite(t)
                              \/ AlreadyLocked(t) \/ LockSkipped(t) \/ RelockWrite(t)
                              \/ \E g \in Groups : Submit(t, g)
    <2>1. UNCHANGED <<mem, chunks, snap>>
      BY <1>6 DEF Lookup, UnlockRead, LockRead, LockWrite, AlreadyLocked, LockSkipped, RelockWrite, Submit
    <2> QED BY <1>1, <1>2, <1>3, <1>4, <1>6, <2>1
  <1>7. ASSUME NEW t \in Tasks, Alloc(t) \/ CopyIn(t)
        PROVE  mem' \in [Locs -> Contents] /\ chunks' \subseteq Locs /\ \A s \in Tasks : Reading(s)'
    <2>1. pc[t] \in Acquiring
      BY <1>7 DEF Alloc, CopyIn, Goto, Acquiring
    <2>2. Chunk(t) \in Locs /\ <<Buf(t), Host>> \in Locs
      BY <2>1, AtPos DEF Chunk, Locs
    <2>3. mem' \in [Locs -> Contents]
      BY <1>0, <1>7, <2>2 DEF Alloc, CopyIn
    <2>4. chunks' \subseteq Locs /\ snap' = snap
      BY <1>0, <1>7, <2>2 DEF Alloc, CopyIn
    <2> QED BY <1>0, <1>3, <1>7, <2>3, <2>4, ReadingFrame
  <1>8. ASSUME NEW t \in Tasks, KernelBegin(t)
        PROVE  mem' \in [Locs -> Contents] /\ chunks' \subseteq Locs /\ \A s \in Tasks : Reading(s)'
    <2> DEFINE L == {Loc(t, i) : i \in DOMAIN grp[t].acc}
    <2>1. /\ pc[t] = "command" /\ pc' = [pc EXCEPT ![t] = "running"] /\ grp[t].cmd = "kernel"
          /\ snap' = [snap EXCEPT ![t] = [l \in L |-> mem[l]]]
          /\ UNCHANGED <<grp, dptr, mem, chunks>>
      BY <1>8 DEF KernelBegin, Goto
    <2>2. L' = L
      BY <1>0, <2>1, LocStays
    <2>3. L \subseteq Locs
      BY <2>1, LocType
    <2> HIDE DEF L
    <2>4. [l \in L |-> mem[l]] \in [L -> Contents]
      BY <1>0, <2>3
    <2>5. DOMAIN snap = Tasks => Reading(t)'
      <3>1. DOMAIN snap = Tasks => snap'[t] \in [L' -> Contents]
        BY <2>1, <2>2, <2>4
      <3> QED BY <2>1, <3>1 DEF Reading, L
    <2>6. \A s \in Tasks \ {t} : pc'[s] = pc[s] /\ (DOMAIN snap = Tasks => snap'[s] = snap[s])
      BY <2>1
    <2>7. DOMAIN snap = Tasks
      BY DEF MemoryTypes
    <2>8. \A s \in Tasks \ {t} : Reading(s)'
      BY <1>0, <2>1, <2>6, <2>7, ReadingFrame
    <2> QED BY <1>0, <2>1, <2>5, <2>7, <2>8
  <1>9. ASSUME NEW t \in Tasks, KernelEnd(t)
        PROVE  mem' \in [Locs -> Contents] /\ chunks' \subseteq Locs /\ \A s \in Tasks : Reading(s)'
    <2>1. pc[t] = "running" /\ chunks' = chunks /\ mem' = After(grp[t], t, LocOf(t), snap[t], mem)
          /\ \A s \in Tasks \ {t} : snap'[s] = snap[s]
      BY <1>9 DEF KernelEnd, Goto
    <2>2. \A i \in DOMAIN grp[t].acc : snap[t][Loc(t, i)] \in Contents
      BY <1>0, <2>1 DEF Reading
    <2>3. mem' \in [Locs -> Contents]
      BY <1>0, <2>1, <2>2, AfterType
    <2> QED BY <1>0, <1>5, <1>9, <2>1, <2>3, ReadingFrame
  <1>10. ASSUME NEW t \in Tasks, MemoryOp(t)
         PROVE  mem' \in [Locs -> Contents] /\ chunks' \subseteq Locs /\ \A s \in Tasks : Reading(s)'
    <2>1. /\ pc[t] = "command" /\ UNCHANGED <<chunks, snap>>
          /\ mem' = IF OnHost(t) THEN mem
                    ELSE IF grp[t].cmd = "update_host"
                      THEN [mem EXCEPT ![<<grp[t].acc[1].buf, Host>>] = mem[Loc(t, 1)]]
                    ELSE After(grp[t], t, LocOf(t), mem, mem)
      BY <1>10 DEF MemoryOp, Goto
    <2>2. \A i \in DOMAIN grp[t].acc : mem[Loc(t, i)] \in Contents
      BY <1>0, <2>1, LocType
    <2>3. After(grp[t], t, LocOf(t), mem, mem) \in [Locs -> Contents]
      BY <1>0, <2>1, <2>2, AfterType
    <2>4. grp[t].cmd = "update_host" =>
            [mem EXCEPT ![<<grp[t].acc[1].buf, Host>>] = mem[Loc(t, 1)]] \in [Locs -> Contents]
      <3> SUFFICES ASSUME grp[t].cmd = "update_host"
                   PROVE  [mem EXCEPT ![<<grp[t].acc[1].buf, Host>>] = mem[Loc(t, 1)]] \in [Locs -> Contents]
        OBVIOUS
      <3>1. 1 \in DOMAIN grp[t].acc
        BY <2>1, GroupsAre, GroupType DEF LockTypes
      <3> QED BY <1>0, <2>2, <3>1
    <2>5. mem' \in [Locs -> Contents]
      BY <1>0, <2>1, <2>3, <2>4
    <2> QED BY <1>0, <1>5, <1>10, <2>1, <2>5, ReadingFrame
  <1>11. ASSUME NEW t \in Tasks, Returned(t) \/ Unlock(t) \/ HandlerGone(t) \/ Decr(t) \/ Exit(t)
         PROVE  mem' \in [Locs -> Contents] /\ chunks' \subseteq Locs /\ \A s \in Tasks : Reading(s)'
    <2>1. UNCHANGED <<mem, chunks, snap>>
      BY <1>11 DEF Returned, Unlock, HandlerGone, Decr, Exit
    <2> QED BY <1>1, <1>5, <1>11, <2>1 DEF Unlock
  <1>12. ASSUME NEW b \in Buffers, NEW h, Release(b, h), UNCHANGED <<pc, grp, dptr>>
         PROVE  mem' \in [Locs -> Contents] /\ chunks' \subseteq Locs /\ \A s \in Tasks : Reading(s)'
    <2>1. snap' = snap /\ ((mem' = mem /\ chunks' = chunks) \/ Destroy(b))
      BY <1>12 DEF Release
    <2>2. ASSUME Destroy(b) PROVE mem' \in [Locs -> Contents] /\ chunks' \subseteq Locs
      <3>1. \A d \in Devices : map[b][d] # None => map[b][d].ptr \in Locs
        BY DEF LifeInv, LifeTypes
      <3>2. \/ mem' = mem
            \/ \E l \in Locs : mem' = [mem EXCEPT ![<<b, Host>>] = mem[l]]
        BY <2>2, <3>1 DEF Destroy
      <3> QED BY <1>0, <2>2, <3>2 DEF Destroy
    <2> QED BY <1>0, <1>12, <2>1, <2>2, ReadingFrame
  <1>13. ASSUME NEW t \in Tasks, DropLocal(t) \/ DropAcc(t) \/ DropClosure(t)
         PROVE  mem' \in [Locs -> Contents] /\ chunks' \subseteq Locs /\ \A s \in Tasks : Reading(s)'
    BY <1>12, <1>13 DEF DropLocal, DropAcc, DropClosure, Locals, AccRefs, Captured
  <1>14. CASE UNCHANGED vars
    BY <1>1, <1>14 DEF vars
  <1> QED
    BY <1>6, <1>7, <1>8, <1>9, <1>10, <1>11, <1>12, <1>13, <1>14 DEF Next, Step, Locking, DestroyBuffer

\* The parts of TypeOK, from the invariants.
LEMMA TypesGiven == LockTypes /\ LifeInv /\ MemoryTypes => TypeOK
  <1> SUFFICES ASSUME LockTypes, LifeInv, MemoryTypes PROVE TypeOK
    OBVIOUS
  <1>1. ASSUME NEW t \in Tasks, pc[t] \in Acquiring PROVE pos[t] \in DOMAIN grp[t].acc
    BY <1>1, AtPos
  <1>2. ASSUME NEW t \in Tasks, NEW i \in DOMAIN dptr[t] PROVE dptr[t][i] \in Locs \cup {None}
    <2>1. PICK S \in SUBSET Nat : dptr[t] \in [S -> Locs \cup {None}]
      BY DEF LifeInv, LifeTypes
    <2> QED BY <2>1, <1>2
  <1>3. /\ pc \in [Tasks -> Phases] /\ grp \in [Tasks -> Groups \cup {None}]
        /\ pos \in [Tasks -> Nat] /\ count \in [Tasks -> {0, 1}]
        /\ again \in [Tasks -> BOOLEAN]
        /\ readers \in [Buffers -> SUBSET Tasks] /\ writer \in [Buffers -> Tasks \cup {None}]
    BY DEF LockTypes, LifeInv, LifeTypes
  <1>4. \A t \in Tasks : acc[t] \in Seq([buf : Buffers, mode : Modes])
    BY DEF LockTypes, AccType
  <1>5. /\ map \in [Buffers -> [Devices -> [ptr : Locs, mode : Modes] \cup {None}]]
        /\ refs \in [Buffers -> SUBSET Holders]
        /\ mem \in [Locs -> Contents] /\ chunks \in SUBSET Locs
    BY DEF LifeInv, LifeTypes, MemoryTypes
  <1> QED BY <1>1, <1>2, <1>3, <1>4, <1>5 DEF TypeOK

\* All that is known of the handlers, the memory and the containers.
LEMMA GroupInvariance == Spec => [](LockTypes /\ LockInv /\ LifeInv /\ MemoryTypes /\ HoldersInUse)
  <1>1. Init => MemoryTypes /\ HoldersInUse
    <2> SUFFICES ASSUME Init PROVE MemoryTypes /\ HoldersInUse
      OBVIOUS
    <2>1. mem \in [Locs -> Contents]
      BY DEF Init, Contents
    <2>2. HoldersInUse
      BY NamesDiffer DEF Init, HoldersInUse, InUse
    <2> QED BY <2>1, <2>2 DEF Init, MemoryTypes
  <1>2. LockTypes /\ LifeInv /\ MemoryTypes /\ HoldersInUse /\ [Next]_vars
        => MemoryTypes' /\ HoldersInUse'
    BY MemoryTypesStep, HoldersNext
  <1> QED BY <1>1, <1>2, LockInvariance, LifeInvariance, PTL DEF Spec

\* The types hold in every behaviour: a pointer of a handler or of a map is
\* null or points to a piece of memory, and what a command leaves in memory is
\* made of what command groups and the host program put there
\* (handler.hpp:209-281, program.hpp:209-329).
THEOREM TypesHold == Spec => []TypeOK
  BY GroupInvariance, TypesGiven, PTL
=============================================================================
