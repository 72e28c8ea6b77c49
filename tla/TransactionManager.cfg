CONSTANT MaxXid = 5
SPECIFICATION Spec
INVARIANTS
  TypeOK
  FreezeIsInvisible
PROPERTIES
  SnapshotStable
  HorizonAdvances
CHECK_DEADLOCK FALSE
