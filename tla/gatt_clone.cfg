CONSTANTS
  h1 = h1
  h2 = h2
  v1 = v1
  v2 = v2
  Handles = {h1, h2}
  Vars = {v1, v2}
  Null = Null
  Faults = {"clone"}
  Repeat = FALSE
  Keeps = FALSE
  MaxEvents = 3
SPECIFICATION FairSpec
CHECK_DEADLOCK FALSE
PROPERTY CallsReturn
