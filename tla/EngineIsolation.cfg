SPECIFICATION EngineSpec
CONSTANTS
  Sessions = {s1, s2}
  NoSession = NoSession
  PrimaryKeys = {k1}
  Overlap = TRUE
  Workers = 1
  MayCrash = FALSE
  MayFail = FALSE
  MayThrow = FALSE
  MaxXid = 2
  MaxValues = 1
  MaxRows = 2
  MaxLockId = 1
  MaxStmts = 9
PROPERTIES SnapshotIsolation
CHECK_DEADLOCK FALSE
