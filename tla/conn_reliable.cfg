CONSTANTS
  a1 = a1
  a2 = a2
  a3 = a3
  h1 = h1
  h2 = h2
  h3 = h3
  Addrs = {a1, a2, a3}
  Handles = {h1, h2, h3}
  HandlesOf <- AnyHandle
  NoHandle = NoHandle
  Faults = {}
  InitCap = 1
  MaxCtx = 3
  MaxEvents = 3
SPECIFICATION Spec
INVARIANT TypeOK
INVARIANT CallbackHitsContext
INVARIANT AnswerReachesCaller
INVARIANT ContextPerConnection
INVARIANT CallsSucceed
PROPERTY ImplementsDeviceLinks
