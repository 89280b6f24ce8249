SPECIFICATION FairSpec
CONSTANTS
  Launches <- MCLaunches
  Programs <- MCPrograms
  Libraries <- MCLibraries
  Kernels <- MCKernels
  Buffers <- MCBuffers
  Kind <- MCKind
  Library <- MCLibrary
  Symbols <- MCSymbols
  Ranges <- MCRanges
  Ranged <- MCRanged
  Jobs <- MCJobs
  t1 = t1
  t2 = t2
  t3 = t3
  b1 = b1
  b2 = b2
  None = None
INVARIANTS
  TypeOK
  CachesSound
  RacesAreFirst
  OwnArguments
  RunsOnce
PROPERTIES
  LaunchesEnd
CHECK_DEADLOCK FALSE
