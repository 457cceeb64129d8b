CONSTANTS
  w1 = w1  w2 = w2  w3 = w3
  STOP = STOP
  Writers = {w1, w2}
  MaxCalls = 2
  MaxBatch = 2
  MayClose = TRUE
  FsyncMayFail = FALSE
  JoinMayTimeOut = FALSE
SPECIFICATION FairSpec
CHECK_DEADLOCK FALSE
INVARIANTS AckedDurable
PROPERTIES CallsBeforeStopReturn CloseReturns
