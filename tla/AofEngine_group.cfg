CONSTANTS
  u1 = u1  k1 = k1  k2 = k2  d1 = d1  d2 = d2  bad = bad  t1 = t1  e1 = e1  f1 = f1  i1 = i1
  NIL = NIL  NoIdem = NoIdem  TTL = TTL  SNAPSHOT = SNAPSHOT
  Clients <- MCClients
  Users = {u1}
  IdemKeys = {i1}
  Keys = {k1}
  Docs = {d1}
  Unhashable = {}
  Texts = {}
  Unserialisable = {}
  TtlDocs = {}
  Edges = {}
  Files = {}
  Causes <- NoCauses
  ExplicitNonces = {}
  Kinds = {}
  MaxCopies = 2
  Ends = {"torn", "bare"}
  DeferSync = TRUE
  FsyncMayFail = TRUE
  Clock = {1}
  MaxOps = 3
  MaxNonce = 2
SPECIFICATION Spec
SYMMETRY Interchangeable
INVARIANTS ChainVerifies Idempotent Durable
PROPERTIES WholeLinesStay
