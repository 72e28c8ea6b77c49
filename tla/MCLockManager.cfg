CONSTANTS
  Txns = {t1, t2, t3}
  Keys = {k1, k2, k3}
SPECIFICATION Spec
INVARIANTS
  TypeOK
  HoldersCompatible
  NoWaitCycle
  NoLostWakeup
  NoOrphanRequest
PROPERTIES
  SleeperIsNeverVictim
  LocksSpec
