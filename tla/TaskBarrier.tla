---------------------------- MODULE TaskBarrier ----------------------------
(***************************************************************************)
(* What a queue promises about waiting.  Command groups begin and end, and *)
(* a call of queue::wait (or of ~queue) returns only at an instant at      *)
(* which no command group of the queue is outstanding.  The specification  *)
(* knows nothing of mutexes, counters or condition variables.              *)
(***************************************************************************)

CONSTANTS Tasks,      \* the command groups that may be submitted
          Users       \* the host threads that submit and wait

VARIABLES begun,        \* command groups submitted so far
          outstanding,  \* those that have not ended
          waiting       \* host threads inside wait()

vars == <<begun, outstanding, waiting>>

Init == begun = {} /\ outstanding = {} /\ waiting = {}

Begin(t) ==
  /\ t \notin begun
  /\ begun' = begun \cup {t}
  /\ outstanding' = outstanding \cup {t}
  /\ UNCHANGED waiting

End(t) ==
  /\ t \in outstanding
  /\ outstanding' = outstanding \ {t}
  /\ UNCHANGED <<begun, waiting>>

Call(u) ==
  /\ u \notin waiting
  /\ waiting' = waiting \cup {u}
  /\ UNCHANGED <<begun, outstanding>>

Return(u) ==
  /\ u \in waiting
  /\ outstanding = {}
  /\ waiting' = waiting \ {u}
  /\ UNCHANGED <<begun, outstanding>>

Next == \/ \E t \in Tasks : Begin(t) \/ End(t)
        \/ \E u \in Users : Call(u) \/ Return(u)

Spec == Init /\ [][Next]_vars
=============================================================================
