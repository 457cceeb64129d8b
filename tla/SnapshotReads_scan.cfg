CONSTANTS
  k1 = k1  k2 = k2  d1 = d1  d2 = d2  r1 = r1  r2 = r2
  NIL = NIL
  Keys = {k1, k2}
  Docs = {d1, d2}
  Readers = {r1}
  MaxOps = 4
  MaxBatch = 2
SPECIFICATION Spec
SYMMETRY Interchangeable
INVARIANTS ScansAreSnapshots SearchesErrOnlyOnChanged
PROPERTIES RaisesOnlyOnFirstWrite
