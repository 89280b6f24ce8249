---------------------------- MODULE TaskCounter ----------------------------
(***************************************************************************)
(* detail::task_counter and the threads that use it: queue::submit counts  *)
(* a command group and starts a detached thread for it, the thread runs    *)
(* the command group and discounts it, and queue::wait and ~queue block on *)
(* a condition variable until the counter is zero.                         *)
(*                                                                         *)
(* `counter' is a std::atomic<int>: incr() changes it without the mutex,   *)
(* decr() under it.  The predicate of cond.wait is evaluated with the      *)
(* mutex held; evaluating it, going to sleep (which releases the mutex)    *)
(* and returning are separate steps, so that every other thread may act in *)
(* between.  The condition variable may also wake a thread up for nothing. *)
(***************************************************************************)
EXTENDS Integers, FiniteSets

CONSTANTS Tasks,   \* the command groups that may be submitted
          Users,   \* host threads, each with a copy of the same queue
          Free     \* the owner of a mutex that nobody holds

ASSUME TasksFinite == IsFiniteSet(Tasks)
ASSUME Identities == /\ Tasks \cap Users = {}
                     /\ Free \notin Tasks \cup Users

VARIABLES
  counter,   \* task_counter::counter
  lock,      \* task_counter::lock: Free, or the thread that holds it
  upc,       \* where each host thread is
  closing,   \* host threads whose wait() is the one of ~queue
  tpc,       \* where each command group, and the thread that runs it, is
  by,        \* the host thread that submitted each command group
  owners,    \* who holds a shared_ptr to the task_counter
  aborted    \* std::terminate was called

vars == <<counter, lock, upc, closing, tpc, by, owners, aborted>>

UserPC == {"idle", "spawning", "lock", "check", "return", "block", "asleep",
           "gone"}
TaskPC == {"unborn", "counted", "lost", "running", "locking", "last", "rest",
           "notify", "leaving", "done"}

TypeOK ==
  /\ counter \in Nat
  /\ lock \in Tasks \cup Users \cup {Free}
  /\ upc \in [Users -> UserPC]
  /\ closing \in SUBSET Users
  /\ tpc \in [Tasks -> TaskPC]
  /\ by \in [Tasks -> Users \cup {Free}]
  /\ owners \in SUBSET (Tasks \cup Users)
  /\ aborted \in BOOLEAN

Init ==
  /\ counter = 0
  /\ lock = Free
  /\ upc = [u \in Users |-> "idle"]
  /\ closing = {}
  /\ tpc = [t \in Tasks |-> "unborn"]
  /\ by = [t \in Tasks |-> Free]
  /\ owners = Users
  /\ aborted = FALSE

MoveUser(u, from, to) == upc[u] = from /\ upc' = [upc EXCEPT ![u] = to]
MoveTask(t, from, to) == tpc[t] = from /\ tpc' = [tpc EXCEPT ![t] = to]

-----------------------------------------------------------------------------
(* queue::submit                                                           *)

\* counter->incr(): an atomic increment, no mutex.
Incr(u, t) ==
  /\ MoveUser(u, "idle", "spawning")
  /\ MoveTask(t, "unborn", "counted")
  /\ counter' = counter + 1
  /\ by' = [by EXCEPT ![t] = u]
  /\ UNCHANGED <<lock, closing, owners, aborted>>

\* Mutant: the closure captures the counter by reference.
SpawnByReference(u, t) ==
  /\ by[t] = u
  /\ MoveUser(u, "spawning", "idle")
  /\ MoveTask(t, "counted", "running")
  /\ UNCHANGED <<counter, lock, closing, by, owners, aborted>>

\* std::thread t([f = cgf, ..., c = counter] ...); t.detach(): the closure
\* has a shared_ptr to the counter of its own.
Spawn(u, t) ==
  /\ by[t] = u
  /\ MoveUser(u, "spawning", "idle")
  /\ MoveTask(t, "counted", "running")
  /\ owners' = owners \cup {t}
  /\ UNCHANGED <<counter, lock, closing, by, aborted>>

\* The constructor of std::thread throws: submit unwinds to its caller with
\* the command group counted and no thread to discount it.
SpawnFails(u, t) ==
  /\ by[t] = u
  /\ MoveUser(u, "spawning", "idle")
  /\ MoveTask(t, "counted", "lost")
  /\ UNCHANGED <<counter, lock, closing, by, owners, aborted>>

-----------------------------------------------------------------------------
(* the thread of a command group                                           *)

\* Mutant: ~handler, which has the counter too, discounts as well.
BodyDiscounts(t) ==
  /\ MoveTask(t, "running", "locking")
  /\ counter' = counter - 1
  /\ UNCHANGED <<lock, upc, closing, by, owners, aborted>>

\* The command group returns and its handler is destroyed.
Body(t) ==
  /\ MoveTask(t, "running", "locking")
  /\ UNCHANGED <<counter, lock, upc, closing, by, owners, aborted>>

\* Mutant: the exception is swallowed by a return that skips decr().
ThrowSwallowed(t) ==
  /\ MoveTask(t, "running", "leaving")
  /\ UNCHANGED <<counter, lock, upc, closing, by, owners, aborted>>

\* The command group throws: both handlers rethrow out of the thread's
\* function, which terminates the process.
Throw(t) ==
  /\ tpc[t] = "running"
  /\ aborted' = TRUE
  /\ UNCHANGED <<counter, lock, upc, closing, tpc, by, owners>>

\* Mutant: decr() relies on the counter being atomic and takes no mutex.
DecrUnlocked(t) ==
  /\ counter' = counter - 1
  /\ MoveTask(t, "locking", IF counter = 1 THEN "notify" ELSE "leaving")
  /\ UNCHANGED <<lock, upc, closing, by, owners, aborted>>

\* decr(): the mutex is taken and --counter is compared with zero.
Decr(t) ==
  /\ lock = Free
  /\ lock' = t
  /\ counter' = counter - 1
  /\ MoveTask(t, "locking", IF counter = 1 THEN "last" ELSE "rest")
  /\ UNCHANGED <<upc, closing, by, owners, aborted>>

\* The last one out: ul.unlock() before cond.notify_all().
UnlockLast(t) ==
  /\ lock' = Free
  /\ MoveTask(t, "last", "notify")
  /\ UNCHANGED <<counter, upc, closing, by, owners, aborted>>

\* The others: the destructor of the unique_lock.
UnlockRest(t) ==
  /\ lock' = Free
  /\ MoveTask(t, "rest", "leaving")
  /\ UNCHANGED <<counter, upc, closing, by, owners, aborted>>

\* Mutant: notify_one().
NotifyOne(t) ==
  /\ MoveTask(t, "notify", "leaving")
  /\ IF \E u \in Users : upc[u] = "asleep"
       THEN \E u \in Users : MoveUser(u, "asleep", "lock")
       ELSE UNCHANGED upc
  /\ UNCHANGED <<counter, lock, closing, by, owners, aborted>>

\* cond.notify_all(): every thread asleep goes back for the mutex.
NotifyAll(t) ==
  /\ MoveTask(t, "notify", "leaving")
  /\ upc' = [u \in Users |-> IF upc[u] = "asleep" THEN "lock" ELSE upc[u]]
  /\ UNCHANGED <<counter, lock, closing, by, owners, aborted>>

\* The closure is destroyed, and its shared_ptr to the counter with it.
Exit(t) ==
  /\ MoveTask(t, "leaving", "done")
  /\ owners' = owners \ {t}
  /\ UNCHANGED <<counter, lock, upc, closing, by, aborted>>

-----------------------------------------------------------------------------
(* queue::wait and ~queue                                                  *)

Wait(u) ==
  /\ MoveUser(u, "idle", "lock")
  /\ UNCHANGED <<counter, lock, closing, tpc, by, owners, aborted>>

DestroyQueue(u) ==
  /\ MoveUser(u, "idle", "lock")
  /\ closing' = closing \cup {u}
  /\ UNCHANGED <<counter, lock, tpc, by, owners, aborted>>

\* unique_lock ul{lock}, and the lock taken again after a wake-up.
Lock(u) ==
  /\ lock = Free
  /\ lock' = u
  /\ MoveUser(u, "lock", "check")
  /\ UNCHANGED <<counter, closing, tpc, by, owners, aborted>>

\* Mutant: an off-by-one in the predicate.
CheckOffByOne(u) ==
  /\ MoveUser(u, "check", IF counter <= 1 THEN "return" ELSE "block")
  /\ UNCHANGED <<counter, lock, closing, tpc, by, owners, aborted>>

\* The predicate [&] { return counter == 0; }.
Check(u) ==
  /\ MoveUser(u, "check", IF counter = 0 THEN "return" ELSE "block")
  /\ UNCHANGED <<counter, lock, closing, tpc, by, owners, aborted>>

\* cond.wait releases the mutex and blocks, atomically.
Sleep(u) ==
  /\ MoveUser(u, "block", "asleep")
  /\ lock' = Free
  /\ UNCHANGED <<counter, closing, tpc, by, owners, aborted>>

\* Mutant: cond.wait without a predicate, so that any wake-up ends the wait.
SpuriousReturns(u) ==
  /\ lock = Free
  /\ lock' = u
  /\ MoveUser(u, "asleep", "return")
  /\ UNCHANGED <<counter, closing, tpc, by, owners, aborted>>

\* A spurious wake-up, which std::condition_variable allows.
Spurious(u) ==
  /\ MoveUser(u, "asleep", "lock")
  /\ UNCHANGED <<counter, lock, closing, tpc, by, owners, aborted>>

\* wait() returns; in ~queue the members are destroyed after it, and the
\* thread's shared_ptr to the counter is gone.
Return(u) ==
  /\ MoveUser(u, "return", IF u \in closing THEN "gone" ELSE "idle")
  /\ lock' = Free
  /\ owners' = IF u \in closing THEN owners \ {u} ELSE owners
  /\ UNCHANGED <<counter, closing, tpc, by, aborted>>

-----------------------------------------------------------------------------
Submit(u, t) == Incr(u, t) \/ Spawn(u, t)
Decrement(t) == Decr(t) \/ UnlockLast(t) \/ UnlockRest(t) \/ NotifyAll(t)
Waiter(u) == Lock(u) \/ Check(u) \/ Sleep(u) \/ Return(u)

Next ==
  /\ ~aborted
  /\ \/ \E u \in Users, t \in Tasks : Submit(u, t) \/ SpawnFails(u, t)
     \/ \E t \in Tasks : Body(t) \/ Throw(t) \/ Decrement(t) \/ Exit(t)
     \/ \E u \in Users : Wait(u) \/ DestroyQueue(u) \/ Waiter(u) \/ Spurious(u)

Spec == Init /\ [][Next]_vars

(***************************************************************************)
(* The operating system schedules every thread, a command group returns,   *)
(* and a thread that asks for the mutex gets it if it is free again and    *)
(* again: strong fairness for the steps that take the mutex, weak for the  *)
(* rest.  Nothing forces a host thread to submit, wait or destroy, nor a   *)
(* wake-up to be spurious.                                                 *)
(***************************************************************************)
Fairness ==
  /\ \A u \in Users :
       /\ WF_vars(~aborted /\ \E t \in Tasks : Spawn(u, t))
       /\ SF_vars(~aborted /\ Lock(u))
       /\ WF_vars(~aborted /\ (Check(u) \/ Sleep(u) \/ Return(u)))
  /\ \A t \in Tasks :
       /\ SF_vars(~aborted /\ Decr(t))
       /\ WF_vars(~aborted /\ (\/ Body(t) \/ UnlockLast(t) \/ UnlockRest(t)
                               \/ NotifyAll(t) \/ Exit(t)))

FairSpec == Spec /\ Fairness

-----------------------------------------------------------------------------
(* Properties                                                              *)

\* Counted and not yet discounted.
Outstanding == {t \in Tasks : tpc[t] \in {"counted", "lost", "running", "locking"}}
InWait == {u \in Users : upc[u] \in {"lock", "check", "block", "asleep"}}

\* The counter is the number of command groups counted and not discounted,
\* whatever increments and decrements overlap (task_counter.hpp:21-31).
CounterExact == counter = Cardinality(Outstanding)

\* A waiter is never left asleep with the counter at zero and nobody on the
\* way to wake it: the notification is sent after the mutex is released
\* (task_counter.hpp:27-30), which is safe only because the predicate is
\* tested under the same mutex.
NoLostWakeup ==
  (Outstanding = {} /\ \E u \in Users : upc[u] = "asleep")
     => \E t \in Tasks : tpc[t] \in {"last", "notify"}

\* When wait() is about to return, every command group this host thread
\* submitted before the call has been discounted (queue.hpp:125-135), even
\* while other threads keep submitting.
OwnGroupsDone ==
  \A u \in Users : upc[u] = "return" =>
     \A t \in Tasks : by[t] = u => t \notin Outstanding

\* No thread touches the counter after the last shared_ptr to it is gone: a
\* queue may be destroyed while a detached thread is still between --counter
\* and notify_all (queue.hpp:81, 94).
CounterAlive ==
  (\/ \E t \in Tasks : tpc[t] \in {"locking", "last", "rest", "notify"}
   \/ \E u \in Users : upc[u] \notin {"idle", "gone"})
     => owners # {}

\* The queue's waiting is a barrier: the mutex, the condition variable and
\* the counter implement TaskBarrier, where a wait returns at an instant at
\* which no command group is outstanding.
Barrier == INSTANCE TaskBarrier
  WITH begun <- {t \in Tasks : tpc[t] # "unborn"},
       outstanding <- Outstanding,
       waiting <- InWait
BarrierSpec == Barrier!Spec

\* A call of wait() returns, unless the process is terminated by an exception
\* in a command group or a thread could not be created for one.
WaitReturns ==
  \A u \in Users :
    (u \in InWait) ~> (u \notin InWait \/ aborted \/ \E t \in Tasks : tpc[t] = "lost")
=============================================================================
