SPECIFICATION EngineSpec
CONSTANTS
  Sessions = {s1, s2}
  NoSession = NoSession
  PrimaryKeys = {k1}
  Overlap = TRUE
  Workers = 2
  MayCrash = FALSE
  MayFail = FALSE
  MayThrow = TRUE
  MaxXid = 2
  MaxValues = 1
  MaxRows = 2
  MaxLockId = 2
  MaxStmts = 6
INVARIANTS EngineTypeOK NoLeakedLocks
PROPERTIES OnlyWritesChangeRows BeginSeesCommitted
SYMMETRY Symmetry
VIEW WithoutDisk
CHECK_DEADLOCK FALSE
