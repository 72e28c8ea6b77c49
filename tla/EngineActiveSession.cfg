SPECIFICATION EngineSpec
CONSTANTS
  Sessions = {s1, s2}
  NoSession = NoSession
  PrimaryKeys = {k1}
  Overlap = TRUE
  Workers = 2
  MayCrash = FALSE
  MayFail = FALSE
  MayThrow = FALSE
  MaxXid = 2
  MaxValues = 1
  MaxRows = 2
  MaxLockId = 1
  MaxStmts = 9
INVARIANTS WritesCarryTheirTransaction
CHECK_DEADLOCK FALSE
