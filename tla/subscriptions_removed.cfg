SPECIFICATION Spec
CONSTANTS
  c1 = c1
  c2 = c2
  i1 = i1
  i2 = i2
  i3 = i3
  d1 = d1
  Clients = {c1, c2}
  Ids = {i1, i2, i3}
  Devices = {d1}
  Operations = {"createDevice", "updateDevice", "deleteDevice", "createSubscription", "deleteSubscription"}
  Prometheus = FALSE
  MaxSessions = 2
  MaxRestarts = 1
  MaxCopies = 2
  LateCallbacks = FALSE
  Faults = FALSE
INVARIANT RemovedIsSilent
CHECK_DEADLOCK FALSE
