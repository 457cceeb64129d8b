CONSTANTS
  u1 = u1  k1 = k1  k2 = k2  d1 = d1  d2 = d2  bad = bad  t1 = t1  e1 = e1  f1 = f1  i1 = i1
  NIL = NIL  NoIdem = NoIdem  TTL = TTL  SNAPSHOT = SNAPSHOT
  Clients <- MCClients
  Users = {u1}
  IdemKeys = {}
  Keys = {k1, k2}
  Docs = {d1, d2}
  Unhashable = {}
  Texts = {}
  Unserialisable = {}
  TtlDocs = {d2}
  Edges = {e1}
  Files = {f1}
  Causes <- FirstOp
  ExplicitNonces = {}
  Kinds = {"eq"}
  MaxCopies = 1
  Ends = {"torn"}
  DeferSync = FALSE
  FsyncMayFail = FALSE
  Clock = {1}
  MaxOps = 3
  MaxNonce = 3
SPECIFICATION Spec
SYMMETRY Interchangeable
INVARIANTS StateIsFold IndexAgrees CausesComplete
