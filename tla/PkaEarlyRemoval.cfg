CONSTANTS
  Session <- Session2
  Op <- Op6
  Home <- OneWorker
  NumWorkers = 1
  MaxOutstanding = 2
  CntRange = 4
  MaxRemovals = 1
  RemoveEarly = TRUE
  PkaOutlastsCall = TRUE
  NoOp = NoOp
  NoSess = NoSess
SPECIFICATION FairSpec
INVARIANTS RottenResultDropped
CHECK_DEADLOCK FALSE
