------------------------- MODULE TaskCounterProofs -------------------------
(***************************************************************************)
(* Theorems about TaskCounter, for any finite set of command groups and    *)
(* any set of host threads.                                                *)
(***************************************************************************)
EXTENDS TaskCounter, FiniteSetTheorems, TLAPS

-----------------------------------------------------------------------------
(* The inductive invariant                                                 *)

\* Everything but the value of the counter has its type.
Types ==
  /\ counter \in Int
  /\ lock \in Tasks \cup Users \cup {Free}
  /\ upc \in [Users -> UserPC]
  /\ closing \in SUBSET Users
  /\ tpc \in [Tasks -> TaskPC]
  /\ by \in [Tasks -> Users \cup {Free}]
  /\ owners \in SUBSET (Tasks \cup Users)
  /\ aborted \in BOOLEAN

\* The mutex is held by exactly the thread that is between its lock and its
\* unlock.
MutexHeld ==
  /\ \A u \in Users : upc[u] \in {"check", "return", "block"} <=> lock = u
  /\ \A t \in Tasks : tpc[t] \in {"last", "rest"} <=> lock = t

\* A host thread about to block found the counter positive, and nobody has
\* been able to decrement it since.
BlockedOnWork == \A u \in Users : upc[u] = "block" => Outstanding # {}

\* A thread holds the counter as long as it may touch it.
OwnersHold ==
  /\ \A u \in Users : upc[u] # "gone" => u \in owners
  /\ \A t \in Tasks :
       tpc[t] \in {"running", "locking", "last", "rest", "notify", "leaving"}
         => t \in owners

IInv == /\ Types
        /\ CounterExact
        /\ MutexHeld
        /\ BlockedOnWork
        /\ NoLostWakeup
        /\ OwnGroupsDone
        /\ OwnersHold

-----------------------------------------------------------------------------
(* What a step does to the set of outstanding command groups               *)

\* Outstanding is a finite set: the command groups are finitely many.
LEMMA OutstandingFinite == IsFiniteSet(Outstanding)
  BY TasksFinite, FS_Subset DEF Outstanding

\* Counting a command group adds it to the outstanding ones.
LEMMA IncrAdds ==
  ASSUME Types, NEW u \in Users, NEW t \in Tasks, Incr(u, t)
  PROVE  t \notin Outstanding /\ Outstanding' = Outstanding \cup {t}
  BY DEF Types, Incr, MoveTask, Outstanding

\* Discounting it removes it.
LEMMA DecrRemoves ==
  ASSUME Types, NEW t \in Tasks, Decr(t)
  PROVE  t \in Outstanding /\ Outstanding' = Outstanding \ {t}
  BY DEF Types, Decr, MoveTask, Outstanding

\* The steps of the host threads after the submission change nothing.
LEMMA UserKeeps ==
  ASSUME Types, NEW u \in Users,
         Wait(u) \/ DestroyQueue(u) \/ Waiter(u) \/ Spurious(u)
  PROVE  Outstanding' = Outstanding
  BY DEF Types, Wait, DestroyQueue, Waiter, Spurious, Lock, Check, Sleep,
         Return, Outstanding

\* The other steps of a command group's thread change nothing.
LEMMA TaskKeeps ==
  ASSUME Types, NEW t \in Tasks,
         \/ Body(t) \/ Throw(t) \/ UnlockLast(t) \/ UnlockRest(t)
         \/ NotifyAll(t) \/ Exit(t)
  PROVE  Outstanding' = Outstanding
  BY DEF Types, Body, Throw, UnlockLast, UnlockRest, NotifyAll, Exit,
         MoveTask, Outstanding

\* Creating the thread, or failing to, changes nothing.
LEMMA SpawnKeeps ==
  ASSUME Types, NEW u \in Users, NEW t \in Tasks, Spawn(u, t) \/ SpawnFails(u, t)
  PROVE  Outstanding' = Outstanding
  BY DEF Types, Spawn, SpawnFails, MoveTask, Outstanding

\* With the counter exact, a counter at one means that the command group
\* that is about to decrement it is the only outstanding one.
LEMMA LastOne ==
  ASSUME CounterExact, NEW t \in Outstanding
  PROVE  /\ counter = 1 <=> Outstanding \ {t} = {}
         /\ Cardinality(Outstanding \ {t}) = counter - 1
         /\ counter \in Nat
  <1>1. Cardinality(Outstanding \ {t}) = Cardinality(Outstanding) - 1
    BY OutstandingFinite, FS_RemoveElement
  <1>2. counter \in Nat
    BY OutstandingFinite, FS_CardinalityType DEF CounterExact
  <1>3. IsFiniteSet(Outstanding \ {t})
    BY OutstandingFinite, FS_Subset
  <1>4. Outstanding \ {t} = {} <=> Cardinality(Outstanding \ {t}) = 0
    BY <1>3, FS_EmptySet
  <1>5. Cardinality(Outstanding \ {t}) = counter - 1
    BY <1>1 DEF CounterExact
  <1> QED BY <1>2, <1>4, <1>5

-----------------------------------------------------------------------------
(* One lemma per conjunct of the invariant                                 *)

\* Every step keeps the types.
LEMMA TypesStep == Types /\ [Next]_vars => Types'
  <1> SUFFICES ASSUME Types, [Next]_vars PROVE Types'
    OBVIOUS
  <1>1. ASSUME NEW u \in Users, NEW t \in Tasks, Submit(u, t) \/ SpawnFails(u, t)
        PROVE  Types'
    BY <1>1 DEF Submit, SpawnFails, Incr, Spawn, MoveUser, MoveTask, Types,
                UserPC, TaskPC
  <1>2. ASSUME NEW t \in Tasks, Body(t) \/ Throw(t) \/ Decrement(t) \/ Exit(t)
        PROVE  Types'
    <2>1. CASE Body(t) \/ Throw(t) \/ Exit(t)
      BY <2>1 DEF Body, Throw, Exit, MoveTask, Types, TaskPC
    <2>2. CASE Decr(t) \/ UnlockLast(t) \/ UnlockRest(t)
      BY <2>2 DEF Decr, UnlockLast, UnlockRest, MoveTask, Types, TaskPC
    <2>3. CASE NotifyAll(t)
      BY <2>3 DEF NotifyAll, MoveTask, Types, TaskPC, UserPC
    <2> QED BY <1>2, <2>1, <2>2, <2>3 DEF Decrement
  <1>3. ASSUME NEW u \in Users,
               Wait(u) \/ DestroyQueue(u) \/ Waiter(u) \/ Spurious(u)
        PROVE  Types'
    BY <1>3 DEF Wait, DestroyQueue, Waiter, Spurious, Lock, Check, Sleep,
                Return, MoveUser, Types, UserPC
  <1>4. CASE UNCHANGED vars
    BY <1>4 DEF vars, Types
  <1> QED BY <1>1, <1>2, <1>3, <1>4 DEF Next

\* The counter stays exact: an increment and a decrement are each one step.
LEMMA CounterStep == Types /\ CounterExact /\ [Next]_vars => CounterExact'
  <1> SUFFICES ASSUME Types, CounterExact, [Next]_vars PROVE CounterExact'
    OBVIOUS
  <1>1. ASSUME NEW u \in Users, NEW t \in Tasks, Incr(u, t)
        PROVE  CounterExact'
    <2>1. Cardinality(Outstanding \cup {t}) = Cardinality(Outstanding) + 1
      BY <1>1, IncrAdds, OutstandingFinite, FS_AddElement
    <2> QED BY <1>1, <2>1, IncrAdds DEF CounterExact, Incr
  <1>2. ASSUME NEW t \in Tasks, Decr(t)
        PROVE  CounterExact'
    BY <1>2, DecrRemoves, LastOne DEF CounterExact, Decr
  <1>3. ASSUME NEW u \in Users, NEW t \in Tasks, Spawn(u, t) \/ SpawnFails(u, t)
        PROVE  CounterExact'
    BY <1>3, SpawnKeeps DEF CounterExact, Spawn, SpawnFails
  <1>4. ASSUME NEW t \in Tasks,
               \/ Body(t) \/ Throw(t) \/ UnlockLast(t) \/ UnlockRest(t)
               \/ NotifyAll(t) \/ Exit(t)
        PROVE  CounterExact'
    BY <1>4, TaskKeeps DEF CounterExact, Body, Throw, UnlockLast, UnlockRest,
                           NotifyAll, Exit
  <1>5. ASSUME NEW u \in Users,
               Wait(u) \/ DestroyQueue(u) \/ Waiter(u) \/ Spurious(u)
        PROVE  CounterExact'
    BY <1>5, UserKeeps DEF CounterExact, Wait, DestroyQueue, Waiter, Spurious,
                           Lock, Check, Sleep, Return
  <1>6. CASE UNCHANGED vars
    BY <1>6 DEF vars, CounterExact, Outstanding
  <1> QED BY <1>1, <1>2, <1>3, <1>4, <1>5, <1>6 DEF Next, Submit, Decrement

\* The mutex is taken and released where the code says it is.
LEMMA MutexStep == Types /\ MutexHeld /\ [Next]_vars => MutexHeld'
  <1> SUFFICES ASSUME Types, MutexHeld, [Next]_vars PROVE MutexHeld'
    OBVIOUS
  <1> USE Identities DEF Types, MutexHeld
  <1>1. ASSUME NEW u \in Users, NEW t \in Tasks, Submit(u, t) \/ SpawnFails(u, t)
        PROVE  MutexHeld'
    BY <1>1 DEF Submit, SpawnFails, Incr, Spawn, MoveUser, MoveTask
  <1>2. ASSUME NEW t \in Tasks, Body(t) \/ Throw(t) \/ Decrement(t) \/ Exit(t)
        PROVE  MutexHeld'
    <2>1. CASE Body(t) \/ Throw(t) \/ Exit(t) \/ NotifyAll(t)
      BY <2>1 DEF Body, Throw, Exit, NotifyAll, MoveTask
    <2>2. CASE Decr(t)
      BY <2>2 DEF Decr, MoveTask
    <2>3. CASE UnlockLast(t) \/ UnlockRest(t)
      BY <2>3 DEF UnlockLast, UnlockRest, MoveTask
    <2> QED BY <1>2, <2>1, <2>2, <2>3 DEF Decrement
  <1>3. ASSUME NEW u \in Users,
               Wait(u) \/ DestroyQueue(u) \/ Waiter(u) \/ Spurious(u)
        PROVE  MutexHeld'
    <2>1. CASE Wait(u) \/ DestroyQueue(u) \/ Spurious(u)
      BY <2>1 DEF Wait, DestroyQueue, Spurious, MoveUser
    <2>2. CASE Lock(u) \/ Check(u)
      BY <2>2 DEF Lock, Check, MoveUser
    <2>3. CASE Sleep(u) \/ Return(u)
      BY <2>3 DEF Sleep, Return, MoveUser
    <2> QED BY <1>3, <2>1, <2>2, <2>3 DEF Waiter
  <1>4. CASE UNCHANGED vars
    BY <1>4 DEF vars
  <1> QED BY <1>1, <1>2, <1>3, <1>4 DEF Next

\* A host thread about to block is still blocked on something: whoever would
\* discount the last command group needs the mutex it holds.
LEMMA BlockedStep ==
  /\ Types /\ CounterExact /\ MutexHeld /\ BlockedOnWork
  /\ [Next]_vars
  => BlockedOnWork'
  <1> SUFFICES ASSUME Types, CounterExact, MutexHeld, BlockedOnWork, [Next]_vars
               PROVE  BlockedOnWork'
    OBVIOUS
  <1> USE Identities DEF Types, BlockedOnWork
  <1>1. ASSUME NEW u \in Users, NEW t \in Tasks, Incr(u, t)
        PROVE  BlockedOnWork'
    BY <1>1, IncrAdds DEF Incr, MoveUser
  <1>2. ASSUME NEW u \in Users, NEW t \in Tasks, Spawn(u, t) \/ SpawnFails(u, t)
        PROVE  BlockedOnWork'
    BY <1>2, SpawnKeeps DEF Spawn, SpawnFails, MoveUser
  <1>3. ASSUME NEW t \in Tasks, Decr(t)
        PROVE  BlockedOnWork'
    BY <1>3 DEF Decr, MutexHeld
  <1>4. ASSUME NEW t \in Tasks,
               \/ Body(t) \/ Throw(t) \/ UnlockLast(t) \/ UnlockRest(t)
               \/ NotifyAll(t) \/ Exit(t)
        PROVE  BlockedOnWork'
    BY <1>4, TaskKeeps DEF Body, Throw, UnlockLast, UnlockRest, NotifyAll, Exit
  <1>5. ASSUME NEW u \in Users,
               \/ Wait(u) \/ DestroyQueue(u) \/ Spurious(u)
               \/ Lock(u) \/ Sleep(u) \/ Return(u)
        PROVE  BlockedOnWork'
    BY <1>5, UserKeeps DEF Wait, DestroyQueue, Spurious, Waiter, Lock, Sleep,
                           Return, MoveUser
  <1>6. ASSUME NEW u \in Users, Check(u)
        PROVE  BlockedOnWork'
    <2>1. Outstanding' = Outstanding
      BY <1>6, UserKeeps DEF Waiter
    <2>2. Outstanding = {} => counter = 0
      BY FS_EmptySet DEF CounterExact
    <2> QED BY <1>6, <2>1, <2>2 DEF Check, MoveUser
  <1>7. CASE UNCHANGED vars
    BY <1>7 DEF vars, Outstanding
  <1> QED BY <1>1, <1>2, <1>3, <1>4, <1>5, <1>6, <1>7
          DEF Next, Submit, Decrement, Waiter

\* A sleeper with nothing to wait for has a waker on the way.
LEMMA WakeupStep ==
  /\ Types /\ CounterExact /\ BlockedOnWork /\ NoLostWakeup
  /\ [Next]_vars
  => NoLostWakeup'
  <1> SUFFICES ASSUME Types, CounterExact, BlockedOnWork, NoLostWakeup, [Next]_vars
               PROVE  NoLostWakeup'
    OBVIOUS
  <1> USE DEF Types, NoLostWakeup
  <1>1. ASSUME NEW u \in Users, NEW t \in Tasks, Incr(u, t)
        PROVE  NoLostWakeup'
    BY <1>1, IncrAdds
  <1>2. ASSUME NEW u \in Users, NEW t \in Tasks, Spawn(u, t) \/ SpawnFails(u, t)
        PROVE  NoLostWakeup'
    BY <1>2, SpawnKeeps DEF Spawn, SpawnFails, MoveUser, MoveTask
  <1>3. ASSUME NEW t \in Tasks, Decr(t)
        PROVE  NoLostWakeup'
    <2>1. Outstanding' = {} => counter = 1
      BY <1>3, DecrRemoves, LastOne
    <2>2. counter = 1 => tpc'[t] = "last"
      BY <1>3 DEF Decr, MoveTask
    <2> QED BY <2>1, <2>2
  <1>4. ASSUME NEW t \in Tasks, NotifyAll(t)
        PROVE  NoLostWakeup'
    BY <1>4 DEF NotifyAll
  <1>5. ASSUME NEW t \in Tasks,
               Body(t) \/ Throw(t) \/ UnlockLast(t) \/ UnlockRest(t) \/ Exit(t)
        PROVE  NoLostWakeup'
    BY <1>5, TaskKeeps DEF Body, Throw, UnlockLast, UnlockRest, Exit, MoveTask
  <1>6. ASSUME NEW u \in Users, Sleep(u)
        PROVE  NoLostWakeup'
    BY <1>6, UserKeeps DEF Sleep, Waiter, MoveUser, BlockedOnWork
  <1>7. ASSUME NEW u \in Users,
               \/ Wait(u) \/ DestroyQueue(u) \/ Spurious(u)
               \/ Lock(u) \/ Check(u) \/ Return(u)
        PROVE  NoLostWakeup'
    BY <1>7, UserKeeps DEF Wait, DestroyQueue, Spurious, Waiter, Lock, Check,
                           Return, MoveUser
  <1>8. CASE UNCHANGED vars
    BY <1>8 DEF vars, Outstanding
  <1> QED BY <1>1, <1>2, <1>3, <1>4, <1>5, <1>6, <1>7, <1>8
          DEF Next, Submit, Decrement, Waiter

\* A host thread returns only when its own command groups have ended.
LEMMA OwnGroupsStep ==
  Types /\ CounterExact /\ OwnGroupsDone /\ [Next]_vars => OwnGroupsDone'
  <1> SUFFICES ASSUME Types, CounterExact, OwnGroupsDone, [Next]_vars
               PROVE  OwnGroupsDone'
    OBVIOUS
  <1> USE DEF Types, OwnGroupsDone
  <1>1. ASSUME NEW u \in Users, NEW t \in Tasks, Incr(u, t)
        PROVE  OwnGroupsDone'
    BY <1>1, IncrAdds DEF Incr, MoveUser
  <1>2. ASSUME NEW u \in Users, NEW t \in Tasks, Spawn(u, t) \/ SpawnFails(u, t)
        PROVE  OwnGroupsDone'
    BY <1>2, SpawnKeeps DEF Spawn, SpawnFails, MoveUser
  <1>3. ASSUME NEW t \in Tasks, Decr(t)
        PROVE  OwnGroupsDone'
    BY <1>3, DecrRemoves DEF Decr
  <1>4. ASSUME NEW t \in Tasks,
               \/ Body(t) \/ Throw(t) \/ UnlockLast(t) \/ UnlockRest(t)
               \/ NotifyAll(t) \/ Exit(t)
        PROVE  OwnGroupsDone'
    BY <1>4, TaskKeeps DEF Body, Throw, UnlockLast, UnlockRest, NotifyAll, Exit
  <1>5. ASSUME NEW u \in Users, Check(u)
        PROVE  OwnGroupsDone'
    <2>1. Outstanding' = Outstanding
      BY <1>5, UserKeeps DEF Waiter
    <2>2. counter = 0 => Outstanding = {}
      BY OutstandingFinite, FS_EmptySet DEF CounterExact
    <2> QED BY <1>5, <2>1, <2>2 DEF Check, MoveUser
  <1>6. ASSUME NEW u \in Users,
               \/ Wait(u) \/ DestroyQueue(u) \/ Spurious(u)
               \/ Lock(u) \/ Sleep(u) \/ Return(u)
        PROVE  OwnGroupsDone'
    BY <1>6, UserKeeps DEF Wait, DestroyQueue, Spurious, Waiter, Lock, Sleep,
                           Return, MoveUser
  <1>7. CASE UNCHANGED vars
    BY <1>7 DEF vars, Outstanding
  <1> QED BY <1>1, <1>2, <1>3, <1>4, <1>5, <1>6, <1>7
          DEF Next, Submit, Decrement, Waiter

\* Nobody gives its shared_ptr up early.
LEMMA OwnersStep == Types /\ OwnersHold /\ [Next]_vars => OwnersHold'
  <1> SUFFICES ASSUME Types, OwnersHold, [Next]_vars PROVE OwnersHold'
    OBVIOUS
  <1> USE Identities DEF Types, OwnersHold
  <1>1. ASSUME NEW u \in Users, NEW t \in Tasks, Submit(u, t) \/ SpawnFails(u, t)
        PROVE  OwnersHold'
    BY <1>1 DEF Submit, SpawnFails, Incr, Spawn, MoveUser, MoveTask
  <1>2. ASSUME NEW t \in Tasks, Body(t) \/ Throw(t) \/ Decrement(t) \/ Exit(t)
        PROVE  OwnersHold'
    BY <1>2 DEF Body, Throw, Decrement, Exit, Decr, UnlockLast, UnlockRest,
                NotifyAll, MoveTask
  <1>3. ASSUME NEW u \in Users,
               Wait(u) \/ DestroyQueue(u) \/ Waiter(u) \/ Spurious(u)
        PROVE  OwnersHold'
    BY <1>3 DEF Wait, DestroyQueue, Waiter, Spurious, Lock, Check, Sleep,
                Return, MoveUser
  <1>4. CASE UNCHANGED vars
    BY <1>4 DEF vars
  <1> QED BY <1>1, <1>2, <1>3, <1>4 DEF Next

-----------------------------------------------------------------------------
(* The theorems                                                            *)

\* The invariant holds of every behaviour.
THEOREM Invariance == Spec => []IInv
  <1>1. Init => IInv
    <2> SUFFICES ASSUME Init PROVE IInv
      OBVIOUS
    <2>1. Outstanding = {}
      BY DEF Init, Outstanding
    <2>2. CounterExact
      BY <2>1, FS_EmptySet DEF Init, CounterExact
    <2>3. Types
      <3>1. upc \in [Users -> UserPC] /\ tpc \in [Tasks -> TaskPC]
        BY DEF Init, UserPC, TaskPC
      <3>2. by \in [Tasks -> Users \cup {Free}]
        BY DEF Init
      <3>3. owners \in SUBSET (Tasks \cup Users) /\ closing \in SUBSET Users
        BY DEF Init
      <3>4. counter \in Int
        BY DEF Init
      <3>5. lock \in Tasks \cup Users \cup {Free} /\ aborted \in BOOLEAN
        BY DEF Init
      <3> QED BY <3>1, <3>2, <3>3, <3>4, <3>5 DEF Types
    <2>4. MutexHeld /\ OwnersHold
      BY Identities DEF Init, MutexHeld, OwnersHold
    <2>5. BlockedOnWork /\ NoLostWakeup /\ OwnGroupsDone
      <3>1. \A u \in Users : upc[u] = "idle"
        BY DEF Init
      <3>2. BlockedOnWork
        BY <3>1 DEF BlockedOnWork
      <3>3. NoLostWakeup
        BY <3>1 DEF NoLostWakeup
      <3>4. OwnGroupsDone
        BY <3>1 DEF OwnGroupsDone
      <3> QED BY <3>2, <3>3, <3>4
    <2> QED BY <2>2, <2>3, <2>4, <2>5 DEF IInv
  <1>2. IInv /\ [Next]_vars => IInv'
    BY TypesStep, CounterStep, MutexStep, BlockedStep, WakeupStep,
       OwnGroupsStep, OwnersStep DEF IInv
  <1> QED BY <1>1, <1>2, PTL DEF Spec

\* Every variable has its type, and the counter is never negative.
THEOREM TypeCorrect == Spec => []TypeOK
  <1>1. IInv => TypeOK
    BY OutstandingFinite, FS_CardinalityType
       DEF IInv, Types, TypeOK, CounterExact
  <1> QED BY <1>1, Invariance, PTL

\* The counter is the number of outstanding command groups.
THEOREM CounterIsExact == Spec => []CounterExact
  <1>1. IInv => CounterExact
    BY DEF IInv
  <1> QED BY <1>1, Invariance, PTL

\* No wake-up is lost.
THEOREM WakeupsAreKept == Spec => []NoLostWakeup
  <1>1. IInv => NoLostWakeup
    BY DEF IInv
  <1> QED BY <1>1, Invariance, PTL

\* A host thread that returns from wait() has no outstanding command group.
THEOREM WaitCoversOwnGroups == Spec => []OwnGroupsDone
  <1>1. IInv => OwnGroupsDone
    BY DEF IInv
  <1> QED BY <1>1, Invariance, PTL

\* The counter outlives every thread that uses it.
THEOREM CounterOutlivesThreads == Spec => []CounterAlive
  <1>1. IInv => CounterAlive
    BY DEF IInv, Types, UserPC, TaskPC, OwnersHold, CounterAlive
  <1> QED BY <1>1, Invariance, PTL

\* The counter, its mutex and its condition variable implement the barrier.
THEOREM ImplementsBarrier == Spec => BarrierSpec
  <1>1. Init => Barrier!Init
    BY DEF Init, Barrier!Init, Outstanding, InWait
  <1>2. IInv /\ [Next]_vars => [Barrier!Next]_(Barrier!vars)
    <2> SUFFICES ASSUME IInv, [Next]_vars
                 PROVE  Barrier!Next \/ UNCHANGED Barrier!vars
      BY DEF Barrier!vars
    <2> USE DEF IInv, Types, Barrier!vars
    <2>1. ASSUME NEW u \in Users, NEW t \in Tasks, Incr(u, t)
          PROVE  Barrier!Begin(t)
      <3>1. Outstanding' = Outstanding \cup {t}
        BY <2>1, IncrAdds
      <3>2. InWait' = InWait
        BY <2>1 DEF Incr, MoveUser, InWait
      <3>3. /\ tpc[t] = "unborn"
            /\ {s \in Tasks : tpc[s] # "unborn"}'
                 = {s \in Tasks : tpc[s] # "unborn"} \cup {t}
        BY <2>1 DEF Incr, MoveTask
      <3> QED BY <3>1, <3>2, <3>3 DEF Barrier!Begin
    <2>2. ASSUME NEW u \in Users, NEW t \in Tasks, Spawn(u, t) \/ SpawnFails(u, t)
          PROVE  UNCHANGED Barrier!vars
      BY <2>2, SpawnKeeps DEF Spawn, SpawnFails, MoveUser, MoveTask, InWait
    <2>3. ASSUME NEW t \in Tasks, Decr(t)
          PROVE  Barrier!End(t)
      BY <2>3, DecrRemoves DEF Decr, MoveTask, Barrier!End, InWait
    <2>4. ASSUME NEW t \in Tasks,
                 \/ Body(t) \/ Throw(t) \/ UnlockLast(t) \/ UnlockRest(t)
                 \/ NotifyAll(t) \/ Exit(t)
          PROVE  UNCHANGED Barrier!vars
      BY <2>4, TaskKeeps DEF Body, Throw, UnlockLast, UnlockRest, NotifyAll,
                             Exit, MoveTask, InWait
    <2>5. ASSUME NEW u \in Users, Wait(u) \/ DestroyQueue(u)
          PROVE  Barrier!Call(u)
      BY <2>5, UserKeeps DEF Wait, DestroyQueue, MoveUser, Barrier!Call, InWait
    <2>6. ASSUME NEW u \in Users, Check(u)
          PROVE  Barrier!Return(u) \/ UNCHANGED Barrier!vars
      <3>1. counter = 0 => Outstanding = {}
        BY OutstandingFinite, FS_EmptySet DEF CounterExact
      <3>2. Outstanding' = Outstanding
        BY <2>6, UserKeeps DEF Waiter
      <3>3. CASE counter = 0
        BY <2>6, <3>1, <3>2, <3>3 DEF Check, MoveUser, Barrier!Return, InWait
      <3>4. CASE counter # 0
        BY <2>6, <3>2, <3>4 DEF Check, MoveUser, InWait
      <3> QED BY <3>3, <3>4
    <2>7. ASSUME NEW u \in Users, Lock(u) \/ Sleep(u) \/ Return(u) \/ Spurious(u)
          PROVE  UNCHANGED Barrier!vars
      BY <2>7, UserKeeps DEF Lock, Sleep, Return, Spurious, Waiter, MoveUser,
                             InWait
    <2>8. CASE UNCHANGED vars
      BY <2>8 DEF vars, Outstanding, InWait
    <2> QED BY <2>1, <2>2, <2>3, <2>4, <2>5, <2>6, <2>7, <2>8
            DEF Next, Submit, Decrement, Waiter, Barrier!Next
  <1> QED BY <1>1, <1>2, Invariance, PTL DEF Spec, BarrierSpec, Barrier!Spec
=============================================================================
