SPECIFICATION FairSpec
CONSTANTS
  Slot = {s1}
  Client = {c1, c2}
  MaxId = 2
  MaxQueue = 1
  Body = 2
  Repeats = FALSE
  Failures = FALSE
  HdrBlocks = FALSE
  Cuts = TRUE
  NoClient = NoClient
PROPERTIES RequestServed 
CHECK_DEADLOCK FALSE
