CONSTANTS
  t1 = t1  t2 = t2  d1 = d1  d2 = d2  NIL = NIL  NONE = NONE
  Threads = {t1, t2}
  Docs = {d1, d2}
  MaxEvents = 3
  MaxCrashes = 1
  Fields <- PutsAndFullBatches
SPECIFICATION Spec
SYMMETRY Interchangeable
CHECK_DEADLOCK FALSE
INVARIANTS LastCallWins HistoryLinked SeqsAreUnique HeadCoversAll SortedMissesNone
