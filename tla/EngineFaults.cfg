SPECIFICATION EngineSpec
CONSTANTS
  Sessions = {s1, s2}
  NoSession = NoSession
  PrimaryKeys = {k1, k2}
  Overlap = TRUE
  Workers = 1
  MayCrash = TRUE
  MayFail = TRUE
  MayThrow = TRUE
  MaxXid = 2
  MaxValues = 2
  MaxRows = 2
  MaxLockId = 1
  MaxStmts = 6
INVARIANTS NoLeakedLocks
PROPERTIES RollbackUndoes
SYMMETRY Symmetry
CHECK_DEADLOCK FALSE
