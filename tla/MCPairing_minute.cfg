CONSTANTS
  r1 = r1  r2 = r2  r3 = r3  r4 = r4  r5 = r5
  Run = {r1, r2, r3, r4, r5}
  PerMinute = 2
  BeforeRotation = 1
  MaxPending = 2
  MaxKeys = 2
  Minute = 2
  TTL = 2
  Window = 1
  Faults = {}
SPECIFICATION Spec
SYMMETRY RunSymmetry
CHECK_DEADLOCK FALSE
INVARIANT RollingMinute
