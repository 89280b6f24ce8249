\* Command groups with two buffers on the host device.
CONSTANTS
  t1 = t1
  t2 = t2
  b1 = b1
  b2 = b2
  dev = dev
  Orig = Orig
  Host = Host
  User = User
  None = None
  Tasks <- MCTasks
  Buffers <- MCBuffers
  Groups <- MCPairs
  Devices <- MCDevices
  HostDevices <- MCDevices
SPECIFICATION Spec
CHECK_DEADLOCK FALSE
INVARIANTS
  KernelExclusion
