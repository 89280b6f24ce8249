SPECIFICATION FairSpec
CONSTANTS
  Threads <- MCThreads
  Launches <- MCLaunches
  Wild <- MCWild
  omp1 = omp1
  omp2 = omp2
INVARIANTS
  TypeOK
  ItemsOnce
  WritesFit
  ReadBack
  SubscriptsFit
PROPERTIES
  LoopEnds
CHECK_DEADLOCK FALSE
