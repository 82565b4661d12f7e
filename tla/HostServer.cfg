SPECIFICATION Spec
CONSTANTS
  Slot = {s1, s2}
  Client = {c1, c2}
  MaxId = 1
  MaxQueue = 1
  Body = 1
  Repeats = TRUE
  Failures = TRUE
  HdrBlocks = FALSE
  Cuts = TRUE
  NoClient = NoClient
INVARIANT PoolSound
 
PROPERTY ResponseComplete
CHECK_DEADLOCK FALSE
SYMMETRY Symmetry
