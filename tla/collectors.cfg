SPECIFICATION Spec
CONSTANTS
  c1 = c1
  c2 = c2
  c3 = c3
  i1 = i1
  i2 = i2
  i3 = i3
  i4 = i4
  d1 = d1
  Clients = {c1, c2, c3}
  Ids = {i1, i2, i3, i4}
  Devices = {d1}
  Configs = {"parameters", "daily", "weekly", "never"}
  MaxRestarts = 2
SYMMETRY ClientSymmetry
INVARIANTS TypeOK ScheduledAsPersisted NeverTwice InvokedAsPersisted
CHECK_DEADLOCK FALSE
