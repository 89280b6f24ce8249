\* Host queues under any program, a device queue under one that waits.
CONSTANTS
  b1 = b1
  b2 = b2
  b3 = b3
  host1 = host1
  host2 = host2
  cpu = cpu
  Orig = Orig
  Host = Host
  User = User
  None = None
  Tasks <- MCTasks
  Buffers <- MCBuffers
  Groups <- MCGroups
  Devices <- MCDevices
  HostDevices <- MCHostDevices
SPECIFICATION FairSpec
CHECK_DEADLOCK FALSE
INVARIANTS
  KernelExclusion
PROPERTIES
  AtomicSpec
  GroupsEnd
