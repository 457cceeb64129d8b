CONSTANTS
  u1 = u1  k1 = k1  k2 = k2  d1 = d1  d2 = d2  bad = bad  t1 = t1  e1 = e1  f1 = f1  i1 = i1
  NIL = NIL  NoIdem = NoIdem  TTL = TTL  SNAPSHOT = SNAPSHOT
  Clients <- MCClients
  Users = {u1}
  IdemKeys = {}
  Keys = {k1, k2}
  Docs = {d1, d2, t1, bad}
  Unhashable = {bad}
  Texts = {t1}
  Unserialisable = {d2}
  TtlDocs = {}
  Edges = {}
  Files = {}
  Causes <- NoCauses
  ExplicitNonces = {2}
  Kinds = {"eq", "ordered", "unknown"}
  MaxCopies = 1
  Ends = {"torn"}
  DeferSync = FALSE
  FsyncMayFail = TRUE
  Clock = {1}
  MaxOps = 3
  MaxNonce = 2
SPECIFICATION Spec
SYMMETRY Interchangeable
INVARIANTS ReplayProtection OpenVerifies OpensUnlessDamaged
VIEW WithoutHistory
