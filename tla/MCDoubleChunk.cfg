\* Two first uses of a buffer on a device at once.
CONSTANTS
  t1 = t1
  t2 = t2
  b1 = b1
  b2 = b2
  dev = dev
  Orig = Orig
  Host = Host
  User = User
  None = None
  Tasks <- MCTasks
  Buffers <- MCBuffers
  Groups <- MCUpdates
  Devices <- MCDevices
  HostDevices <- MCNoDevices
SPECIFICATION Spec
CHECK_DEADLOCK FALSE
INVARIANTS
  ChunksMapped
