SPECIFICATION Spec
CONSTANTS
  Threads <- MCThreads
  Launches <- SharedLaunches
  Wild <- MCWild
  omp1 = omp1
  omp2 = omp2
INVARIANTS
  EveryItemOnce
CHECK_DEADLOCK FALSE
