\* Two device queues, a host program that waits after first uses.
CONSTANTS
  t1 = t1
  t2 = t2
  t3 = t3
  b1 = b1
  b2 = b2
  b3 = b3
  cpu = cpu
  ve = ve
  Orig = Orig
  Host = Host
  User = User
  None = None
  Tasks <- MCTasks
  Buffers <- MCBuffers
  Groups <- MCGroups
  Devices <- MCDevices
  HostDevices <- MCHostDevices
SYMMETRY Symmetric
SPECIFICATION WaitingSpec
CHECK_DEADLOCK FALSE
INVARIANTS
  TypeOK
  LockOwnership
  ChunksLive
  KernelExclusion
  ChunksMapped
  BackAfterWait
  DeviceDataBack
PROPERTIES
  AtomicSpec
