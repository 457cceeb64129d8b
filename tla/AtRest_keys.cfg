CONSTANTS
  m1 = m1  m2 = m2  f1 = f1  NIL = NIL
  TMKs = {m1, m2}
  Names = {f1}
  Contents <- Texts
  Gear <- GearTable
  HashWidth = 4  Mask = 1  MinChunk = 1  MaxChunk = 3
  MaxOps = 4
  MaxSessions = 4
  MaxRotations = 1
SPECIFICATION Spec
SYMMETRY Interchangeable
CHECK_DEADLOCK FALSE
INVARIANTS KeysKeepTheLog NoCleartext FilesAsLogged ProofsVerify
