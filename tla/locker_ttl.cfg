SPECIFICATION Spec
CONSTANTS
  t1 = t1
  t2 = t2
  t3 = t3
  n1 = n1
  Threads = {t1, t2, t3}
  Names = {n1}
  Durations = {0, 1, 2}
  MaxTime = 4
SYMMETRY RegistrySymmetry
INVARIANTS LeaseExclusion FatalNeedsExpiry
CHECK_DEADLOCK FALSE
