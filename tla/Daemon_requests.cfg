CONSTANTS
  n1 = n1  t1 = t1  t2 = t2
  Names = {n1}
  Threads = {t1, t2}
  Kinds = {"put", "query", "create", "drop", "batch", "mongo", "resp2", "autosave", "stop"}
  MaxOps = 2
  MaxHandles = 3
  MaxInodes = 3
  MaxJobs = 4
  MaxBoots = 1
SPECIFICATION Spec
SYMMETRY Interchangeable
CHECK_DEADLOCK FALSE
INVARIANTS AcknowledgedSurvive CleanStopKeepsAll OneWriter
