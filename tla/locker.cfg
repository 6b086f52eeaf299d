SPECIFICATION FairSpec
CONSTANTS
  t1 = t1
  t2 = t2
  t3 = t3
  n1 = n1
  n2 = n2
  Threads = {t1, t2, t3}
  Names = {n1, n2}
  Durations = {0}
  MaxTime = 1
INVARIANTS TypeOK MutualExclusion NoFatalUnlock EntryIffUsed
PROPERTIES LockGranted ImplementsNamedLock
