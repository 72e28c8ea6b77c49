SPECIFICATION EngineSpec
CONSTANTS
  Sessions = {s1, s2}
  NoSession = NoSession
  PrimaryKeys = {k1, k2}
  Overlap = FALSE
  Workers = 1
  MayCrash = TRUE
  MayFail = FALSE
  MayThrow = TRUE
  MaxXid = 2
  MaxValues = 2
  MaxRows = 3
  MaxLockId = 2
  MaxStmts = 7
INVARIANTS PrimaryKeyUnique
PROPERTIES StoreSpec
SYMMETRY Symmetry
CHECK_DEADLOCK FALSE
