CONSTANTS
  a1 = a1
  a2 = a2
  a3 = a3
  h1 = h1
  h2 = h2
  h3 = h3
  Addrs = {a1}
  Handles = {h1}
  HandlesOf <- OwnHandle
  NoHandle = NoHandle
  Faults = {"refuse"}
  InitCap = 4
  MaxCtx = 4
  MaxEvents = 3
SPECIFICATION Spec
INVARIANT AnswerReachesCaller
