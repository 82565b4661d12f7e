SPECIFICATION Spec
CONSTANTS
  Slot = {s1}
  Client = {c1}
  MaxId = 1
  MaxQueue = 1
  Body = 1
  Repeats = TRUE
  Failures = FALSE
  HdrBlocks = FALSE
  Cuts = FALSE
  NoClient = NoClient
INVARIANT MigFinIsCompletion
CHECK_DEADLOCK FALSE
