CONSTANTS
  h1 = h1
  h2 = h2
  v1 = v1
  v2 = v2
  Handles = {h1, h2}
  Vars = {v1, v2}
  Null = Null
  Faults = {"refuse", "fail", "lost", "late", "stray", "callback"}
  Repeat = TRUE
  Keeps = TRUE
  MaxEvents = 2
SPECIFICATION FairSpec
INVARIANT NoOrphanedLock
 
PROPERTY CallsReturn
