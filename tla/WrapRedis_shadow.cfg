CONSTANTS
  t1 = t1  t2 = t2  k1 = k1  k2 = k2  r1 = r1  d1 = d1  v1 = v1  v2 = v2  i1 = i1
  NIL = NIL  OTHER_ = OTHER_
  Threads = {t1, t2}
  Mapped = {k1, k2}
  Raw = {r1}
  Docs = {d1}
  Id <- SharedId
  Vals = {v1, v2}
  Idem = {i1}
  Batch = 2
  MaxCalls = 2
  MaxRestarts = 1
SPECIFICATION Spec
SYMMETRY Interchangeable
CHECK_DEADLOCK FALSE
INVARIANTS Mirror StreamVerifies AckedPersisted
