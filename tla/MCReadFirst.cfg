\* A buffer that is read on a device before it is written there.
CONSTANTS
  t1 = t1
  t2 = t2
  b1 = b1
  b2 = b2
  dev = dev
  Orig = Orig
  Host = Host
  User = User
  None = None
  Tasks <- MCTasks
  Buffers <- MCBuffers
  Groups <- MCReadThenWrite
  Devices <- MCDevices
  HostDevices <- MCNoDevices
SPECIFICATION Spec
CHECK_DEADLOCK FALSE
INVARIANTS
  DeviceDataBack
