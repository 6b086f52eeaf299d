SPECIFICATION Spec
CONSTANTS
  i1 = i1
  i2 = i2
  s1 = s1
  s2 = s2
  s3 = s3
  None = None
  t1 = t1
  Instances = {i1, i2}
  Topics = {t1}
  Sessions = {s1, s2, s3}
  MaxRequests = 1
  MaxExits = 1
  Faults = TRUE
SYMMETRY ClusterSymmetry
INVARIANTS TypeOK SyncAlone SyncedServes
CHECK_DEADLOCK FALSE
