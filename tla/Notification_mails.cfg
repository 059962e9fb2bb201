SPECIFICATION Spec
CONSTANTS
  Ops = {m1, m2}
  MaxAttempts = 2
  MaxCrashes = 2
  MaxRollbacks = 1
INVARIANT TypeOK
PROPERTIES Delivery Settles
CHECK_DEADLOCK FALSE
