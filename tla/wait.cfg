CONSTANTS
  w = w
  s1 = s1
  s2 = s2
  Waiters = {w}
  Setters = {s1, s2}
  Flags = {"connected", "discovered"}
  NoThread = NoThread
SPECIFICATION FairSpec
INVARIANT TypeOK
INVARIANT MutexOwned
INVARIANT NoLostWakeup
PROPERTY ImplementsTimedFlag
PROPERTY WaitReturns
