CONSTANTS
  w1 = w1  w2 = w2  w3 = w3
  STOP = STOP
  Writers = {w1, w2}
  MaxCalls = 2
  MaxBatch = 2
  MayClose = TRUE
  FsyncMayFail = TRUE
  JoinMayTimeOut = TRUE
SPECIFICATION Spec
CHECK_DEADLOCK FALSE
INVARIANTS ReadYourWrites
PROPERTIES ImplementsCommitLog
