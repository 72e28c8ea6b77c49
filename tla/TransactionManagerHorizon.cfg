CONSTANT MaxXid = 3
SPECIFICATION Spec
INVARIANT HorizonIsSafe
CHECK_DEADLOCK FALSE
