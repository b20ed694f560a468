CONSTANTS
  a1 = a1
  a2 = a2
  a3 = a3
  h1 = h1
  h2 = h2
  h3 = h3
  Addrs = {a1, a2}
  Handles = {h1, h2}
  HandlesOf <- AnyHandle
  NoHandle = NoHandle
  Faults = {"refuse", "fail", "twice"}
  InitCap = 1
  MaxCtx = 5
  MaxEvents = 3
SPECIFICATION Spec
CHECK_DEADLOCK FALSE
INVARIANT NoOrphanedLock
INVARIANT HandleFindsItsDevice
PROPERTY ImplementsDeviceLinks
