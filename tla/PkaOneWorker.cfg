CONSTANTS
  Session <- Session2
  Op <- Op6
  Home <- OneWorker
  NumWorkers = 1
  MaxOutstanding = 1
  CntRange = 4
  MaxRemovals = 1
  RemoveEarly = FALSE
  PkaOutlastsCall = TRUE
  NoOp = NoOp
  NoSess = NoSess
SPECIFICATION FairSpec
INVARIANTS FreeOpsAreFree  ResultMatchesState NeverRefused
PROPERTIES HandshakeServed
