CONSTANTS
  h1 = h1
  h2 = h2
  v1 = v1
  v2 = v2
  Handles = {h1, h2}
  Vars = {v1, v2}
  Null = Null
  Faults = {"refuse", "fail", "lost", "clone", "late"}
  Repeat = FALSE
  Keeps = FALSE
  MaxEvents = 3
SPECIFICATION Spec
CHECK_DEADLOCK FALSE
INVARIANT TypeOK
PROPERTY DatabaseDelivered
PROPERTY DiscoveryFinished
