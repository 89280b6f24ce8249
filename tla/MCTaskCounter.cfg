\* Two host threads share a queue and submit up to two command groups.
CONSTANTS
  t1 = t1
  t2 = t2
  u1 = u1
  u2 = u2
  Free = Free
  Tasks <- MCTasks
  Users <- MCUsers
SPECIFICATION FairSpec
CHECK_DEADLOCK FALSE
INVARIANTS
  TypeOK
  CounterExact
  NoLostWakeup
  OwnGroupsDone
  CounterAlive
PROPERTIES
  BarrierSpec
  WaitReturns
