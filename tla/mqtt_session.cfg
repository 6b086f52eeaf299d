SPECIFICATION Spec
CONSTANTS
  d1 = d1
  d2 = d2
  Devices = {d1, d2}
  MaxSessions = 2
  MaxRestarts = 1
  MaxCopies = 1
  LateCallbacks = TRUE
  Faults = TRUE
SYMMETRY DeviceSymmetry
INVARIANTS TypeOK TrackedIsServed
PROPERTY ForgottenOnlyByLateClear
CHECK_DEADLOCK FALSE
