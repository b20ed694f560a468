SPECIFICATION Spec
CONSTANTS
  Sessions = {s1, s2}
  Kinds = {"notify"}
  Wrapped = {"notify"}
  AppCallbacks <- NotifyOnly
  Faults = {"late"}
  MaxEvents = 2
INVARIANT NoFalseRegistration
